# ServerPump in TLA+

ServerPump is a three-threaded C server that controls two pumps over MQTT and
HTTP, keeps a history in SQLite, and comes with a web page. This directory
holds TLA+ models of it, the TLC configurations that check them on small
instances, and TLAPS proofs of the most important invariants for every
instance. Line references are to the repository's sources.

## Inventory

| Component | State | Operations | Hard part |
|---|---|---|---|
| Pump state (`src/shared.c`, `shared.h`) | `current_pump_status`, `previous_pump_status`, the ring `pump_history`, one mutex | `update_pump_status`, `update_pump_feedback`, `update_system_status`, `add_pump_history` | two threads; fields loaded and rows inserted *outside* the mutex, the mirrored copy brought up to date in a second locked region |
| Gateway (`shared.c`, `http_api.c`) | `gateway_hw_status`, table `gateway_history` | `update_gateway_heartbeat`, `handle_gateway_status` | offline is a timeout computed when asked |
| MQTT handler (`src/mqtt.c:11-144`) | none of its own | routing of three topics to the above | keys that are missing or out of range, three updates per message |
| MQTT publisher (`mqtt.c:146-198`) | `mqtt_pub_client`, the broker's retained message | connect; read the state and publish it every 5 s | a lost connection that nobody restores, results ignored |
| MQTT subscriber connection (`mqtt.c:200-230`) | `mqtt_sub_client`, the broker's queue for it | connect, subscribe, keep alive, disconnect | commands come back through the broker; a subscription that is late or missing |
| Command delivery (`http_api.c:28-62`, `mqtt.c:50-70`) | what is published, queued, unacknowledged and obeyed | `POST /api/pump/control` to the broker and from there to server and hardware | one publication in flight, nothing persisted, a clean session |
| HTTP API (`src/http_api.c`) | none shared, but static response buffers used by its only thread | five endpoints | runs against the MQTT thread |
| Database (`src/db.c`) | four tables | four inserts, one query; `db_get_history` and `db_cleanup_old_records` are never called | refused inserts, scan during inserts, buffer limits |
| Process (`src/main.c`) | `running`, three threads | start, signal, join, close | a crash loses memory and keeps tables |
| Dashboard page (`web/script.js:91-196`) | what is shown | polls every 2 s | answers overtake each other |
| History page (`script.js:201-692`) | cache, filters, order, page, debounce timer | load, filter, search, sort, page, refresh | overlapping loads, failed loads, timers |
| Vendored Paho library (`lib/paho.mqtt.c-1.3.13/src`) | clients, their message lists, a background thread | what the two clients use: connect, publish, deliver, notice a dead connection, stop | partly modelled, inside the modules of its users |
| Its generated documentation, build files, style sheets | - | - | not modelled |

How they interact: `POST /api/pump/control` publishes to the broker and the
server's own subscription brings the command back to the handler; the handler
and `POST /api/pump/feedback` call `shared.c`, which calls `db.c`; the other
endpoints read the globals under the mutex, or the database; the page polls
the endpoints and never waits for an answer before it asks again.

What makes each correct: *pump state*: every change is recorded once, and the
records agree with the state; *gateway*: online means heard of lately, a row
means a change; *history query*: answers are whole and without holes; *page*: what is shown is what the controls say; *delivery*:
commands are obeyed everywhere in the same order, and an answer says what has
become of the command; *dashboard and publisher*: what is shown and what is
retained settle on the server's state; *life cycle*: shutdown ends, and
database and mutex outlive their users. `PROJECT.json` lists the hazards one by one, each at
its line and with the properties that watch it.

## Modules

| Module | Models |
|---|---|
| `CommandLog` | abstract: what the table `pump_commands` promises |
| `PumpState` | the pump half of `shared.c`, the pump branches of `mqtt_message_arrived`, `handle_pump_feedback`, the inserts; refines `CommandLog` |
| `PumpStateProofs`, `CommandLogProofs`, `TurnsProofs` | its invariants with both threads; its refinement and what overlapping updates leave of ring and snapshots; what holds in addition when the threads take turns; all proved |
| `Gateway` | heartbeat to dashboard dot |
| `GatewayProofs` | its timeout and its log, proved |
| `History` | `handle_pump_history` and `db_get_history_filtered` against inserts |
| `HistoryProofs` | its invariants, proved |
| `CommandOrder` | abstract: one order of commands that every party replays |
| `Delivery` | `POST /api/pump/control`, the library's publication, the broker, the subscriber, hardware; refines `CommandOrder` |
| `DeliveryProofs` | its invariants and its refinement, proved |
| `Dashboard` | `Delivery` with the page's `loadStatus` and the publisher thread |
| `Lifecycle` | `main`, the signal, the three threads, the daemon's and the library's |
| `LifecycleProofs` | its safety, proved |
| `HistoryPage` | the history page |
| `HistoryPageProofs` | what is on screen, where the page number is, which load is shown, proved |
| `MCPumpState`, `MCGateway`, `MCHistory`, `MCDelivery`, `MCDashboard`, `MCHistoryPage` | values of the constants for TLC |

**PumpState.** `cur`, `prev` and `ring` are the three globals, `commands`,
`feedback` and `snapshots` the tables. `pc[t]`, `op[t]` and `buf[t]` say where
thread `t` ("mqtt", "http") is in an update, which update it is, and the
fields it has loaded for its next call. `BeginUpdate` is the first locked
region and the comparison; `Load` one unlocked load; `AddPumpHistory`,
`InsertCommand`, `InsertFeedback`, `InsertSnapshot` the calls; `Commit` the
second locked region; `PumpControl`, `PumpFeedback`, `SystemFill`,
`SystemBegin` and `PostFeedback` the handlers. The unlocked loads are a data
race: the order of the loads is the constant `LoadRank`, and the runs use the
order gcc -O0 emits (the proofs hold for any). `Refusable` lets SQLite refuse
any insert. `Restart` loses everything but the tables. A row for a pump
that does not exist is kept, as in the code.

**CommandLog.** `last[p]` is the command of pump `p` the log accounts for:
every change is one row, or one refused insert. The refinement maps `last` to
`cur`, or to `prev` while the MQTT thread has assigned a command but not yet
inserted its row; `refused` and `starts` are the model's counters.

**Gateway.** `gw` is `gateway_hw_status`; `row` is the insert that follows the
locked region; `requests` are the page's fetches, which overlap; `dashboard` is
what the page shows; `heard` is a history variable that only properties read: the
time of the last heartbeat ever, and, of those since the server started, whether there
was one, its status and the last firmware named. Names are members of a small set, and
`Stored` says what `strncpy` keeps of each; one name of the run is cut.

**History.** A row has a timestamp and the number of characters it takes in the
answer. `HandlePumpHistory` is everything up to the first `sqlite3_step`,
`WriteRow` one turn of the loop, `Finish` its end. SQLite's promise is taken
as: newest first, the rows that were there when the query began, and of those
inserted later any that still fit the order. The order of an answer's rows is
therefore an assumption and no result; what the code adds to it, the range, the limit,
the buffer and the end of the scan, is what the properties are about. `query.start`
is a history variable.

**Delivery.** A command is known by its id. `link` is `mqtt_sub_client`: down
before `Connect`, broken when the connection is dead and nobody has noticed, lost
from then on, because nothing in the server reconnects. `http` is the daemon's
thread, which serves one request at a time: `PostControl` is a request that arrives,
`Publish` and `PublishFails` are `MQTTClient_publishMessage`, `Answer` what comes
after the 100 ms. `unacked` is the one publication the library lets be
unacknowledged (`maxInflightMessages`), `wire` what it wrote to the socket,
`queue[p]` what the broker has sent to party `p` and `p` has not handled, `held[p]`
the commands it obeys: for the server `current_pump_status`. `Handle` is
`mqtt_message_arrived` up to its assignment; what is recorded then is `PumpState`'s
part. `Break` and `Notice` are a connection that dies and the library's discovery
of it; each may lose any end of what was under way. Broker and hardware are
external, and so are the clean sessions of hardware that comes back
(`HardwareRejoins`). `order`, `joined` and `taken` are history variables.

**CommandOrder.** The broker's order, and a party that joins it and takes one
command after the other. The refinement is by the history variables themselves: the
property `OneOrder` says that whatever the connections do, `held` is only ever
changed by the next command of the one order.

**Dashboard.** Extends `Delivery`: every action of it is a step, and so are the
page's polls (`PollStatus` is the request and the daemon's answer to it, which
waits as long as a POST holds the thread; `ShowStatus`, `StatusFails`) and the
publisher (`Compose` is the locked region, `PublishStatus` the call whose result is
ignored, `Retain` the broker). The publisher has a connection of its own.

**Lifecycle.** One program counter for `main`, for each of the three threads, for
the daemon's thread (`request`) and for the library's (`bg`). `Closes` is
`closeSession` with `MQTTClient_stop`: who closes the last busy client tells the
library's thread to end and waits for it, except the library's thread itself.
`client`, `handle`, `db` and `lock` are what is created and destroyed. The
subscriber's `MQTTClient_destroy` takes two steps, because nobody who reads the handle
or looks into the client takes a lock: `SubStopped` frees the client, `SubCleared`
clears the handle, and a command can come in between. What it finds in a freed client
is undefined; in the model its publication fails or succeeds, and a crash would only
end the behaviour. That the free happens inside the library's mutex is left out, which
adds interleavings and removes none. The model
assumes that a message is handled in less than the 10 s after which
`MQTTClient_stop` gives up waiting.

**HistoryPage.** Handlers are steps; a fetch is a record in `loads` that carries
the range of its URL, and `Received` is the rest of `loadHistory` after the
`await`, with the filters as they are by then. Rows are ids. The comparator
never answers 0, so equal rows may come in any order. An answer may hold any
set of rows of its range, which covers the limit, the buffer and inserts
between two loads. `shown` is a history variable. The exception that an answer
without `data` causes is modelled by what is and is not assigned before it.

## Runs

| Run | Shows | Bounds |
|---|---|---|
| `PumpRace` | updates that overlap, and what survives: the inductive `UpdateInv` with the ranges of the state, `DiffIsPending`, `OwnWritesInRow`, recording of commands, busy and alarm, `CommandLog`; the ring still ends the log, and a logged command is in a snapshot no older than its row | 3 messages out of 5 and 1 post, every load interleaved, 2 seconds, ring of 2 |
| `PumpTurns` | both threads, taking turns: newest snapshot = state, rows joined by timestamp, time order, ring = log, every change recorded and eventually in a snapshot, omitted busy and alarm left alone | 2 messages out of 7 and 1 post, 2 seconds, 1 refused insert, 1 restart at any point, ring of 2 |
| `PumpRaceTimeline` | violated: the newest snapshot can stay wrong | as `PumpRace` |
| `Gateway` | online only if heard within the timeout, through a restart; rows iff changes or a cut name; history names the firmware; the page settles | timeout 2, 4 seconds, 2 heartbeats out of 4, one with a name that is cut, 2 overlapping requests, 1 refusal, 1 restart |
| `GatewayDot` | violated: the dot stays on when the gateway is silent | timeout 2, 4 seconds, 1 heartbeat out of 4, 1 request, 1 refusal, 1 restart |
| `History` | answers whole, within the limit, without holes | 3 rows of 2 lengths, 5 query strings, a buffer of 9 characters that fills, 1 refusal |
| `Delivery` | server and hardware agree; an error means never obeyed; "sent" is lost with the connection only; an acknowledgement somebody waits for is coming or its connection is dead; one order; what the broker takes is obeyed; every POST is answered | 3 commands (2 posted, 1 of another client), 2 pumps, server and one piece of hardware, every loss at every point |
| `Dashboard` | page and retained message settle on the server's state | 2 posted commands to one pump, 2 overlapping polls, two connections that break |
| `Lifecycle` | database and mutex outlive their users; nobody waits in vain for the library's thread; a freed client is in use between a signal and the end of main's joins only; shutdown completes | none: the model is finite as it is |
| `HistoryPage` | the table shows the current page of the cache under the filters; page in range; counts and range agree; the last load is of the chosen range; loading ends | 3 overlapping loads, 1 failing, 2 rows, 2 ranges, pages of 1 and 2 |
| `HistoryPageOvertaken` | violated: an older answer replaces the chosen range's rows | same |
| `HistoryPageSearch` | violated: a waiting search survives a refresh | same |

Why the bounds are enough: every race needs two threads with one update each,
and a third message to show what the next comparison makes of it; a ring of 2
wraps with 3 commands. `PumpRace` has these and no faults; `PumpTurns` has refusals and
restarts and two messages, of which a feedback is two updates, so that an update
already follows one that was cut short (`CommandsAreLogged` with faults is left to its
proof). 2 seconds tell the same second from a later one; every
fault (refusal, restart, failed load) is placed at each point, and a second one
only repeats the first from a state already reached. Three rows are a row
before, one in and one after a range, or one inserted before, during and after
a scan. A third load is one that fills the cache before two overlap. Two posted
commands are one that waits for the acknowledgement of the other; the third
contradicts the first from another client, so that the order matters; more parties
only repeat hardware, which the proofs cover for any number. Timeout 2
has both sides of its boundary and the boundary itself within 4 seconds. The scaled-down buffer keeps
the inequalities of the real one, which are the module's assumption
`BufferAssumption`: a row takes at most 82 + 6*11 + 20 = 168 < 200 characters, and
409600 + 29 <= 512000. The counters `MaxNow`, `MaxHandled`, `MaxFailures`,
`MaxRestarts`, `MaxRows` and `MaxLoads` are bounds of the model only; so are the
sets `Commands` (each command is issued once) and `Fetches`. `Delivery` and
`Lifecycle` turn the deadlock check off, because there the system may really stop:
every command issued and every connection lost, or the process ended. That
nobody waits for ever is what `RequestsAnswered` and `ShutdownCompletes` say.

`PumpTurns` restricts the steps instead of the state: `TurnsSpec` lets no update begin
while another is being recorded (`InTurns`). Nothing in the code sees to that. The run
says what the code relies on; it is the complement of `PumpRaceTimeline`, and the
proofs show that there is no other cause of that violation than overlapping updates.
A server that gets no POST to `/api/pump/feedback` is a special case.

Fairness. `PumpState`: a thread that has begun an update goes on (the mutex is
held for a few instructions, SQLite's calls return, with or without success).
`Gateway`: time passes, the MQTT thread makes its insert, the page's timer
asks, and an answer gets through again and again (strong fairness: a single
request may fail any number of times). `HistoryPage`: the browser settles every
fetch. `Delivery`: the daemon's thread and the library's go on (a mutex is held for
a few instructions, `usleep` ends, the keep-alive finds a dead connection), the
broker takes what reached it and acknowledges it; nobody is made to connect,
subscribe, command or lose a connection. `Dashboard`: the same, the publisher's loop
runs, and polls are asked and answered again and again (strong fairness, because a
POST can hold up the daemon's thread and any single request can fail). `Lifecycle`:
every thread goes on, and attempts to connect end; no signal, request or message is
assumed. No message, click or restart is ever assumed to happen.

## What the violations say

1. `PumpRaceTimeline`: with both threads, a POST's snapshot is loaded before an MQTT
   update and inserted after that update's own: the newest row is out of date and
   stays so (`shared.c:99`). Overlapping updates are the only cause
   (`TimelineIsCurrentHolds` under `InTurns`), and they cannot touch what the ring and
   the snapshots say of commands (`RingHoldsCommandsHolds`,
   `CommandsReachSnapshotsHolds`).
2. `GatewayDot`: the dot shows the status last reported, not `is_online`
   (`script.js:187`).
3. `HistoryPageOvertaken`: `loadHistory` does not check that an answer is the one
   asked for last (`script.js:233`). Answers that overtake each other are the only cause
   (`SettledShowsChosenHolds`).
4. `HistoryPageSearch`: `refreshHistory` does not stop the debounce timer
   (`script.js:301`). That is the only way input and rows come apart
   (`BoxShowsSearchHolds`).

Other places where a property needs a condition because of what the code does. The
models contain them, and the condition is in the property; no run is devoted to
them:

- the results of the inserts are ignored and the mirrored copy is updated anyway, so
  that the same message does not repair a loss (`shared.c:52`; `failures = 0`);
- a restart puts every field to 0 without a row (`shared.c:8`; `restarts = 0`);
- the firmware is compared in full with its truncated copy (`shared.c:124`), so that a
  name over 31 characters gets a row at every heartbeat, although only changes should
  (`shared.c:141`; `Cut` in `OnlyChangesAreLogged`);
- a gateway last heard of exactly 30 s ago is offline (`http_api.c:92`), where README:76
  and README:109 ("last_seen > 30s") have it online and README:162 leaves it open
  (`OnlineMeansHeard` allows both);
- a gateway that was heard of just before the server started again is offline until its
  next heartbeat (`shared.c:11`; `Known` in `OnlineMeansHeard`);
- a publisher that lost its connection goes on publishing to nobody, and the retained
  status stays what it was (`mqtt.c:189` against README:122; `pub.link = "up"` in
  `RetainedSettles`);
- a command that the broker takes before the server has subscribed, or although the
  subscription failed, is answered "sent" and never known to the server
  (`mqtt.c:213-219`; `joined` in `PumpsAgree` and `AcceptedIsApplied`);
- at a shutdown the subscriber frees its client while a request or a message may be
  using it, and a command can still begin to, until the handle is cleared
  (`mqtt.c:228`, MQTTClient.c:595-610 and 2532; `LateUseIsBounded` says that this
  happens between the signal and the end of main's joins only);
- where the reported status and `is_online` disagree, nothing is asked of the dot but
  what `GatewayDot` finds violated (`DashboardSettles`);
- the page ignores the body of the answer to a command, so that an error is not
  shown (`script.js:170`).

One divergence is a number that no model would say more about: README:113 promises the
last 100 snapshots, and the code answers with up to 1000 (`http_api.c:133`).

## Proofs

All proofs are for any values of the constants that satisfy the modules' named
assumptions: message sets of the right shape, `MaxHistory > 0`, any `LoadRank`,
any bounds; for `History` a limit between 1 and `MaxLimit` and buffers that fit
together.

- `PumpStateProofs`: `UpdateInvHolds` and from it `TypeOKHolds`,
  `DiffIsPendingHolds`, `OwnWritesInRowHolds`, `CommandChangeIsRecordedHolds`,
  `FeedbackKeepsOmittedHolds`. `DiffIsPending` is not inductive: `Commit`
  copies what was written to `prev`, so one must know that it is still in `cur`.
  `UpdateInv` adds that: the HTTP thread's updates write statuses only, a
  thread holds an update exactly while it records it, what the MQTT thread
  wrote to its own fields is still there, and the values for busy and alarm are
  complete before `update_system_status`. One lemma per action shows that it is
  kept; the status fields, which both threads write, are exactly what it cannot
  cover, and `PumpRaceTimeline` shows why.
- `CommandLogProofs`: `CommandsAreLoggedHolds`, the refinement. Each step is a
  `Change`, a `Stray`, a `Refuse`, a `Restart` or a stutter; it needs `LogInv`
  (only the MQTT thread logs, and a command that waits for its row differs from
  the one logged last) and `UpdateInv`.
  It also proves what is left of two properties of `TurnsProofs` when updates overlap:
  `RingHoldsCommandsHolds` and `CommandsReachSnapshotsHolds`. `OverlapInv` says that
  the ring is the end of the log, counting the command that is in the ring and not yet
  in the table (`RingListed`), that nothing loaded is newer than the state and nothing
  in the state newer than the clock (`ClockInv`), and that each logged command is in a
  snapshot no older than its row, or the snapshot that will have it is on its way
  (`ReachInv`): between the two, only the HTTP thread can step in, and it writes no
  command.
- `TurnsProofs`: as long as no update begins while another is being recorded
  (`[][InTurns]_vars`), `TimelineIsCurrentHolds`, `DetailRowsJoinSnapshotsHolds`,
  `SnapshotsInTimeOrderHolds`, `RingMatchesLogHolds` and `ChangeIsRecordedHolds`, with
  both threads. `Writer` is the thread that records, `Phase`, `Update` and `Loaded`
  where it is and what it holds; every step is then one of the writer's or the start of
  an update by either thread (`WriterStep`). On top of `UpdateInv`, `TurnsInv` says that
  what was written or loaded is still the state (`WriterInv`); that no row is newer
  than the change being recorded (`TimeInv`); that what the newest row does not show
  belongs to an update on its way to its own row (`RowInv`); that a detail row without
  its snapshot is the one just written (`JoinInv`); and that the ring is the end of the
  log (`RingInv`, which needs the arithmetic of an index that wraps, for any size). The
  hypothesis is needed: `PumpRaceTimeline`. `OneWriterTakesTurns` discharges it for a
  server that gets no POST to `/api/pump/feedback`.
- `HistoryProofs`: `HistoryInvHolds`, and from it `BufferHoldsAlways`,
  `LimitHoldsAlways`, `AnswerHasNoHolesHolds`. The properties speak of answers;
  `HistoryInv` says the same of the rows written so far, that these are in SQLite's
  order, and that every row still missing is no newer than the last one written.
- `GatewayProofs`: `OnlineMeansHeardHolds`, `OnlyChangesAreLoggedHolds`,
  `HistoryNamesFirmwareHolds`, for any names, cut or not. `HeardInv` ties
  `gateway_hw_status` to the heartbeats since the start, or says that there was none. A
  row is inserted exactly when a heartbeat changes something the API answers with,
  except its time and device, or names a firmware that is cut: what is stored of such a
  name never equals it (`ImportantMeansChanges`). `FirmwareInv` follows the name from
  the heartbeat through the pending row to the newest row that names any.
- `DeliveryProofs`: `TypeOKHolds`, `PumpsAgreeHolds`, `ErrorMeansNotSentHolds`,
  `SentIsLostWithLinkOnlyHolds`, and the refinement `OneOrderHolds`, for any commands,
  pumps and parties. The inductive invariant `DeliveryInv` has two halves. `OrderInv`:
  what waits for a party is exactly the next part of the order (all of it, while the
  broker sends to it), and a party holds the last command it took for a pump since it
  joined; `PumpsAgree` and the refinement rest on that. `Answers`: a command that has
  not been written is nowhere, and one on the wire awaits its acknowledgement while the
  connection lasts, so that no other is written over it; without it neither of the two
  claims about answers is inductive. `AckIsComingHolds` is the safety half of
  `RequestsAnswered`: at every moment somebody other than the blocked thread can end
  its wait.
- `HistoryPageProofs`: `TableShowsFiltersHolds`, `StatsMatchTableHolds`,
  `PageInRangeHolds`, `LastLoadIsChosenHolds`. The conjunction `ScreenInv` of the first
  two is inductive as it stands: every handler that changes the cache, the filters, the
  order or the page draws the table, or puts a message in its place. `PageInv` adds
  that the filtered rows are an arrangement of the cached rows that pass, so that
  sorting keeps the number of pages; `LoadInv` that the load started last carries the
  range chosen last, and that rows shown for it lie in that range. Two more theorems have a
  hypothesis on the steps: `SettledShowsChosenHolds` under `[][AnswersInOrder]_vars`,
  where `OrderInv` says that the loads under way are all those after the one that filled
  the cache (none left means that the last one did), and `BoxShowsSearchHolds` under
  `[][NoSearchWaits]_vars`, where `SearchInv` says that a waiting search is what the
  input shows. They are the complements of the two violated runs.
- `LifecycleProofs`: `ResourcesOutliveHolds`, `WaitIsHeardHolds`,
  `LateUseIsBoundedHolds`. `LifeInv` follows the four parties: which threads `main`
  has and what it has opened (`MainInv`), that the daemon has no request before it is
  started and after it is stopped (`RequestInv`), that a thread that is done with its
  client has closed it and the subscriber frees its own only after the signal
  (`ClientInv`), and that while the library's thread is in the
  message handler a client is open or somebody waits for it who is not done
  (`LibraryInv`). The last is what keeps the mutex and the database alive until the
  handler is through. They do not keep the client alive: that is what `LateUseIsBounded`
  has to allow.

Every safety property that a run shows to hold is a theorem. Only model-checked is
liveness (`ChangesReachTimeline`, `DashboardSettles`, `AcceptedIsApplied`,
`RequestsAnswered`, `BoardSettles`, `RetainedSettles`, `LoadingEnds`,
`ShutdownCompletes`), which is out of the prover's reach.

## Not modelled

- The generated Doxygen pages of the vendored library, whose search and navigation
  scripts are most of the repository's JavaScript: they are no part of the program.
- The vendored library beyond what the server's two clients use: MQTT 5, TLS,
  persistence, the asynchronous client, QoS 2.
- Formatting, logging, JSON syntax, `createPumpCard`, menus and sidebar, `exportToCSV`,
  the CSS: no state that a property is about.
- The accumulation of POST bodies, `OPTIONS`, headers, unknown paths: private to one
  request of the daemon's only thread.
- `db_get_history` and `db_cleanup_old_records`: called by nobody.
- A clock that is set back, and a gateway log without a row for silence: listed as
  hazards only, because nothing in the repository says what should happen.

What could still be added: `Delivery` with the recording steps of `PumpState` in place
of its one assignment. Each is checked alone now, joined by `current_pump_status`.
