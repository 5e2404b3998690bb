# Models of robocup2Dsim

TLA+ models of the match set-up of robocup2Dsim: how clients register with the
server, how the server and the referee agree on a roster, how clients learn
their places, how the server measures the clients' clocks while it waits for the
match to begin, what a client does with what it is sent, which bodies of the
simulated world may touch, in which engines they live, and what players pay for
moving them. TLC checks the models on small instances
(`tlc -config X.cfg M`), TLAPS proves every safety property that holds, and the
refinement, for all values of the constants (`tlapm XProofs.tla`); liveness is
left to TLC.

Paths below are relative to `src/src` unless they start with `doc/` or `test/`.

## The system

Four programs exchange Cap'n Proto messages:

```
 bot <--pipes--> client <--network--> server <--pipes--> referee
```

Client and server have the same structure: a main thread that runs frames, one
I/O thread for each neighbour, and a bounded single-producer queue for each kind
of message between two threads. The main thread keeps everything in a
`basic_handle` whose state decides which handler a message goes to.

| component | state | operations | interacts through |
|---|---|---|---|
| enrollment (`server/roster.*`) | teams with their occupied uniforms, client -> slot map | `register_client`, `deregister_client`, `finalise` | held by server and by referee |
| roster (`server/roster.*`) | client per player id, goalkeepers' ids, team sheets | `deregister_client`, look-ups | built by `finalise` |
| clock monitor (`server/monitor.*`) | pings sent, last pongs of each client, sequence number | `record_transmit`, `record_receive`, averages | handle of the server |
| server event handlers (`server/event.*`) | the handle: state, enrollment, roster, game state, monitor | one function per message and state | enqueue to the outbound queues |
| server main loop (`server/main.cxx`) | frame counter, six queues | `run` | queues |
| referee link (`server/ref_io.*`) | two pipes | `send`, `receive` | queues, pipes |
| client link (`server/client_io.*`) | the responder of the transport | `handle_server_msg`, `on_connect`, `on_disconnect`, `on_receive_*` | queues, network |
| referee (`referee/*`) | its own enrollment, roster, game state | `process` | pipes |
| client (`client/main.cxx`, `client/event.*`) | unregistered / on bench / playing, its player | one function per message and state | queues |
| client links (`client/server_io.*`, `client/bot_io.*`) | the initiator of the transport; the bot's pipes | mirror images of the server's, but `on_disconnect` ends the thread | queues, network, pipes |
| player ids (`common/entity.hpp`) | none | `uniform_to_id`, `id_to_uniform` | called by roster, server, client |
| stamina and actions (`engine/inventory.*`, `common/action.*`) | energy per player | `accrue`, `spend`, `act` | called by nobody yet |
| game state (`common/state.*`, `player.*`, `ball.*`, `field.*`) | bodies of players, ball, field | constructors | database, physics; made by server, referee, client |
| physics (`engine/physics.*`) | a Box2D world, registered in the database; a second registration displaces the first | `register_system`, `make_*`, `step`, impulses | called by the game state; bodies point back at their engine |
| in-memory database (`runtime/*`) | tables with keys, given or automatic | `emplace`, `auto_emplace`, look-ups | one for each thread |

What is hard:

* **replication**: the server's enrollment and the referee's are updated by the
  same requests at different times, and each is turned into a roster on its own;
* **order between queues**: the referee's decisions and the clients' requests
  reach the server through different queues, one message of each per frame;
* **full queues**: the main thread waits for room, the I/O threads drop;
* **state-dependent handling**: a message that the current state has no handler
  for is dequeued and forgotten; a handler that relies on an object an earlier
  one has reset ends the process;
* **unreliable pings**: pongs are lost, late or overtake one another, and sequence numbers
  wrap around;
* **identifiers**: bodies are told apart by 16-bit groups made from keys of entities
  and ids of players, which come from different sources;
* **eight bits of energy**: prices are rounded from floating point and accounted for in
  a byte, for lists in which any action may be refused;
* **ownership**: bodies call the engine they were made in when they go, while a
  registration hands that engine back to its caller;
* **re-arming**: the transport delivers one event for each `async_receive`.

What makes each part correct: an enrollment has at most two teams, one
goalkeeper each, and its two maps agree; a roster lists under each id the client
that holds that uniform and side; the monitor keeps the pings it still needs and
no more; the handle always holds the objects its state relies on; the two
processes agree on the roster; clients are told their own place, once, and not
too early; bodies touch as their categories say, and never outlive their engine;
keys are never used twice; nobody moves without paying a fair price, and energy stays
within its policy; nothing waits for ever.

## Modules

| module | models | extends |
|---|---|---|
| `Roster` | classes `enrollment` and `roster`, player ids; operators on values | |
| `Enrollment` | one enrollment and the roster made of it, under all call sequences | `Roster` |
| `Monitor` | class `clock_monitor`; operators on values | |
| `ClockMonitor` | the monitor between a ping timer and unreliable clients | `Monitor` |
| `Server` | handle, handlers and the frames of `server::run` | `Roster`, instance of `Monitor` |
| `ServerLoop` | the main thread in the most general environment | `Server` |
| `Referee` | `referee::process` and its pipes | `Roster` |
| `ServerIo` | the two I/O threads of the server | `Server`, `Referee` |
| `Match` | server, referee, I/O threads and clients together | `ServerIo` |
| `RegistrationBook` | what registration promises, without processes | |
| `ClientLoop` | the client program: main thread, handlers, I/O threads | |
| `World` | the entities of a game state, their fixtures' filters, and what may touch what | |
| `Table` | class `table` of the in-memory database; operators on values | |
| `Stamina` | class `inventory` and the actions with their prices and impulses; operators on values | |
| `Simulation` | the simulation of one thread: engines, inventories, game states, energies, lists of actions | `Table`, `Stamina` |
| `RosterProofs`, `EnrollmentProofs`, `ServerLoopProofs`, `MatchProofs`, `ClockMonitorProofs`, `ClientLoopProofs`, `WorldProofs`, `SimulationProofs` | theorems | the modules they are about |
| `MCEnrollment`, `MCClockMonitor`, `MCServerLoop`, `MCMatch`, `MCClientLoop`, `MCSimulation` | instances for TLC | |

Definitions keep the names of the source. The operators introduced by
"Faulty variant" comments are not part of any specification: each is a plausible
slip in the definition that follows it, and replacing that definition's body by
the variant makes one of the properties fail. They show that each property
depends on the code it is about.

### Correspondence

*Enrollment.* `enrollment.opened` is the key set of `enrollment_`,
`enrollment.slot` the entries of its team maps, `enrollment.player` is
`client_player_map_`. `opened` and `slot` are apart because a team whose members
have all left stays in `enrollment_`. Team names are numbers, ordered as the map
orders strings: the first one becomes side alpha. `register_result` makes the
tests of `register_client` in their order. `Emplace` does nothing where a key
exists, as `std::map::emplace`: this matters for a client that registers twice.

*Monitor.* Times are reduced to the number of the ping they belong to. A pair that
the averages add up is right when its pong answers its ping. `Paired` is the loop
`average_round_trip_time` and `average_clock_diff` share, as the number of pongs it has
paired after each ping, and `PairedFrom` the pairs it adds up. Sequence numbers
are kept modulo `SeqModulus`, 2^16 in the code. Pings and pongs go by `send_unreliable` on
`beam::duplex::unordered_mixed` (`server/client_io.cxx:133`, `server/client_io.hpp:33`,
`client/server_io.cxx:115`), so `path` is a set for each client: any pong under way may
arrive next, and any may be lost. None arrives twice.

*Server.* `step` is where in its frame the main thread is. A handler changes the
handle in one step and puts its messages in `pending`; `Enqueue` hands them to
the queues one at a time, waiting for room as `retry_with_random_backoff` does,
and the other threads act in between. A dereference of a null pointer is
undefined; the model lets it end the process, and `halted` names the handler.
Buffer pools are taken to be large enough. Handlers that only move the handle
(`disconnected`, `ref_crashed`, `control_actioned`, `simulation_timedout`, ...)
are the identity on the model's state, so `Keep` stands for them; `ref_crashed`
on a break goes through a handle of the waiting state, but the assignment in
`event.hh:15` makes the state that of the type returned.

*Links.* `to_referee` and `from_referee` are the pipes, `uplink` is what the
network has yet to hand to `client_io`, `delivered` what it has handed to each
client. `listening` says whether an `async_receive` is outstanding. Queues are
bounded; inbound messages that find theirs full are dropped.

*Client.* `ClientLoop` is built as `Server` is: a handler's message goes to `pending` and
waits there for room. The player is the acknowledgement it came from (`Ack`), so
`game_state` stands for the player configuration. Of the two handlers that `client::run`
gives for the bench, `with` calls the first, and `FromServerTrans` has no case for the
second. The timers' handlers return the handle as it is; the frame ends with the server's
transaction. `wire` is what the I/O thread has sent, `heard` the pings it was handed, each
once, in any order. `on_connect` only asks for the next event, which in the model is
always outstanding until `stopped`.

*Referee.* `process_registration` ends the program where an exception would: at a reset
enrollment, and, unless `PhysicsInReferee`, at the game state it makes when the enrollment is
full. `referee/main.cxx` registers no physics (finding 4), so the code has this constant
`FALSE`; `match_referee` runs it so. All other runs of `Match` set it `TRUE`: otherwise no
roster would ever be announced, and what they say about the time after would say nothing.

*World.* An entity is a kind and a number; `Tag` is the `entity_id` it hands to
`make_fixture_def`, `Group` the `groupIndex` made from that, `Mask` the bits of its
`contact_config`. `Inserted` counts the calls of `insert_entity`, which take keys in order.
`ShouldCollide` is Box2D's rule. The programs make one world each today (a server
that finalised a second roster would find no enrollment); `new_game_state` may be taken again, as the constructors may be
called again on the same database, which never gives a key twice.

*Simulation.* A table is its index and its `auto_key`; `systems` is the registry whose rows
are tables of instances, `entities` the registry of names. A body is the engine its
`UserData` points at and the tag of its fixtures; engines are numbered as they are made. A
game state is made body by body (`make_body`), since each looks the engine up and inserts an
entity, and either may throw; nothing else happens on the thread meanwhile. An exception ends
the program, as nobody catches one. `register_physics` ends with what the caller does: it
keeps the engine it is handed back, or drops it, which destroys it -- only without bodies in
it, as the tests do; the programs register once. `reset_game` makes the new state before
the old one's bodies go, as `unique_ptr::reset` does. After a second registration the bodies
there are stay in the old engine. `register_inventory` leaks the table whose `emplace` is
refused; its row of the component map says `physics`, as the code's does, and nothing reads
either.

*Stamina.* Quantities are numbers modulo 256, compared as `int`s before they are stored.
`Cost` is the rounded share of the greatest cost. The code computes it in `double`;
`HalfLost` lists the quotients at which the exact share is a half and the computed one falls
short of it, so that `lround` goes down; elsewhere the two round alike (found by computing
all 65536 velocities of each action both ways). `Impulses` says which bodies are pushed, how, and
by which velocity; scale and direction are left out. A `catch` does nothing yet. An action
whose tag is unknown (a newer schema) would get no result at all; it is left out.

*External.* The clients' decisions to connect, ask and leave, and what the referee
sends after the roster (`fieldOpen`, `matchClose`, `matchAbort`), which
`referee.cxx` does not send yet, come from the environment in the order the
protocol gives them. `ServerLoop` lets them come in any order.

## Runs

| run | shows | instance |
|---|---|---|
| `enrollment` | types; at most two teams, one goalkeeper each; the client map points at the client's own slot; every patient occupant is on it, and on the roster once; the roster agrees with the slots; a slot is vacated by its occupant only | 4 clients, of which 3 are `Patient` (ask only while they hold no slot), 3 team names, teams of 2, outdated requests |
| `monitor` | needed pings are kept, across a wrap-around; before it, spent pings go, and averages are exact just where pongs were recorded in order and their pings are stored | 2 clients, 8 pings modulo 5, samples of 2, 2 answers under way, in any order |
| `server_loop` | exactly one of enrollment and roster, and a roster and a game state on breaks and in play; the server ends only for late or untimely messages; a roster is final; the order of states | all inbound messages in any order, 6 of them; queues of 1 |
| `match_contested` | types; `RegistrationBook` is implemented; only late requests end either program; enrollments in step and rosters equal; acknowledgements true, not early, not twice | 3 clients compete for 2 places, one asks twice, another may leave; the match opens and ends; client queues of 1, referee queues of 2; no pings |
| `match_live` | everybody learns its place; every event is heard; every frame completes | 2 clients fill the roster; referee queues of 1 |
| `client_life` | types; each ping is answered at most once and in order; a registered client keeps its player; the order of states; the loop never waits for ever while connected; a lost connection ends the registration | 2 pings, 2 places, 4 other messages in any order, a disconnection; queues of 1 |
| `world` | types and keys; players pass over themselves; everything else touches as its category says, with one exception | 22 players, 16 bits of key, as many worlds as there are keys for |
| `simulation` | types and keys; bodies keep their engine; tags lead to entities; energy stays within its policy; efforts are paid for; lists are worked off in order | 2 players, 2 engines, 2 inventories, keys for 2 worlds and a part of a third, 2 uses of a game, lists of 3 out of 7 actions, policy 10..230 |
| `match_deaf` | finding 1 | a client leaves |
| `match_late` | finding 2 | a third client asks late |
| `world_ball` | finding 3 | the first world |
| `match_referee` | finding 4 | no engine in the referee |

*Why the bounds are enough.* The tests of `register_client` compare a request with
one team and with the number of teams: three names, two uniforms and four clients
reach every result in every combination, two clients in one team and a vacated
team included; four clients are what it takes to fill two teams of two when each
holds one slot, and the fourth one may hold several. The full enrollment in the composed runs has two places, one in
each team: the exchange does not depend on the size of a team, only the number of
acknowledgements does, and queues of one or two messages make the handlers wait as
22 acknowledgements on a queue of 128 would not. Six inbound messages carry the
server from start through registration, break and play back to waiting, with one
to spare for a message that does not belong. Eight pings modulo five go once
around and past the sample size again; with samples of two, every ping is either
needed, spent or unanswered, and two answers under way are what it takes for one to
overtake the other. Four messages take a client onto the bench, into
play and back, with one to spare -- a crash, a second acknowledgement -- and two pings are
enough to fill a queue of one and leave a handler waiting. `World` has the sizes of the
program: 897 worlds of 73 keys use up a `key_16`, and the groups wrap on the way. `Simulation` has two players, so that a list can interleave theirs, and its thirty
keys run out in the middle of a game state; two engines are what a displacement takes, with
bodies in the first, in the second, or in neither. Its seven actions ask for velocities at a limit, beyond it in
both directions, at a half that is rounded down and in between; accruals of 40 and 215 bring a
player to the maximum, beyond it, and leave it with less than an action costs. Clients are symmetric in `Enrollment`, `ClockMonitor`
and `ServerLoop`; the composed runs give them different wishes and use no
symmetry. Deadlock checking is off where the bounds stop the environment, on for
the enrollment run.

*Fairness* (`Match!FairSpec`). Weak fairness of the main thread, of the referee and
of each loop of the I/O threads: `run` never returns, `send` and
`handle_server_msg` post themselves again, and `receive` waits on the pipe again. The
clients of the live run are assumed to connect and to ask; nothing is assumed of a
client that leaves. Nothing is assumed of the losses: status messages may all get
lost. `ClientLoop!FairSpec` assumes the same of the client: `client::run` never returns,
and `handle_client_msg` posts itself again until the thread is stopped. Nothing is assumed
of its server or its bot.

## Findings

1. *Disconnection* (`server/client_io.cxx:149`): `on_disconnect` does not call
   `async_receive` again, as its siblings do; no client is heard after one leaves.
2. *Late registration* (`server/event.hh:68`): a registration in play, or after a
   match, uses the enrollment that `roster_finalised` has reset. `doc/server-state.dia`
   has such requests lead back to the same state.
3. *Ball and first player* (`common/player.cxx:40`): players' fixtures carry the player's id,
   everything else the key of its entity, and the ball is the first entity of all. Its key
   and the id of uniform one of side alpha are both 0, so both get the group -1, and pass
   over each other: that player can neither see nor touch the ball.
4. *Referee without physics* (`referee/main.cxx:54`): `process` makes a game state once
   the enrollment is full, which throws because only server and client register an engine.
   The referee ends, and its `RosterFinalised` with it.

Four more disagreements show as an exception that a property has to make; each property says that there is
no other, and without the exception TLC finds it:

* *Pongs out of order* (`server/monitor.cxx:46`): the pairing loop passes over the ping of a
  pong that was recorded after a newer one, so that this pong is in the divisor but not in
  the sum. The tests mean the average to be that of the sample ("Calculated average clock
  difference is incorrect", `test/server/monitor_test.cxx:334`), but record in order only.
  `AverageExactAtFirst` says what holds: until the numbers wrap, averages are exact if and
  only if the client's pongs were recorded in order and their pings are stored. Two pings
  whose pongs change places are enough.
* *The oldest pong* (`server/monitor.cxx:110`): `oldest_receive` looks at the pong recorded
  first, which need not be the oldest ("The oldest receive calculation is wrong",
  `test/server/monitor_test.cxx:44`, of pongs in order). With pongs of 3 and 2 on record in
  this order, `record_transmit` evicts ping 2, which the second pong needs. `NeededPingKept` holds
  for pongs that are not older than their client's first.
* *Client that stays registered* (`client/server_io.cxx:137`): `on_disconnect` stops the
  thread that empties the outbound queues, so a client that then has more pongs to enqueue
  than there is room for waits for ever and never handles the disconnection, which
  `doc/client-state.dia:856` and `:1048` have lead to the unregistered state. With queues of 128
  this takes a main thread or an I/O thread that is far behind. `DisconnectionLeaves` excepts this
  state as `WaitsForNobody`.
* *Torso turns* (`common/action.cxx:107`): charged for the capped velocity but applied with
  the velocity that was asked for, although `test/common/action_test.cxx:853` means the
  excess to be capped ("excessive velocity was not capped to the defined maximum", asserted
  of the energy only). `EffortPaidFor` excepts these turns as `Overturned`; one of -32768
  degrees a second is had at the price of one of 200.

Where the code says so itself or nothing depends on it yet, a property states the limit and
no run reports it. Sequence numbers are compared as integers although they wrap
(`server/monitor.cxx:126`, marked FIXME), so `AverageExactAtFirst` stops at the
wrap-around: beyond it a pong may be averaged against an older ping of the same number,
kept for a client that has stopped answering. Acknowledgements leave `playerType` unset
(`server/event.cxx:160`), and a goalkeeper is told it plays in the outfield; `AcksTrue` is
written for the type a message has before it is set. The client keeps that type with its
player (`client/event.cxx:150`), and nothing acts on it yet.

What the properties do not say: that every request or every ping is answered (registrations
are forgotten on a break, and dropped at a full queue); that a client which asks twice can be
found on the roster once (`OccupantRegistered` and `ListedOnce` are about `Patient` clients); that there is
a bound on the pings kept for a client that has stopped answering (`SpentPingsEvicted` says what
keeps them); that callers destroy an engine only when no body is left in it (a guard of
`register_physics`).

Found while reading and not the subject of a run: `select_row` and `update_row` give the
iterator of a key that is not there a column map (`runtime/ram_db.hh:279`), so the check
"The end iterator cannot be deferenced" (`runtime/ram_db.hh:165`) only works on `end()` itself;
all callers compare first. `register_system` of the inventory ignores that `emplace` refused
it (`engine/inventory.cxx:26`) and enters a row for the physics. A bot that crashes in play sends its
client to the bench (`client/event.cxx:311`), from where `doc/client-state.dia` leads on by
a "Bye" that no program sends; the client ignores the end of the match there and plays the
next one without a bot. The ball asks to meet the markers of the field
(`common/ball.cxx:30`), whose own mask refuses it (`common/field.cxx:209`): they pass over each
other. Nothing calls `start()` of the I/O
threads; the referee's `server_io` never writes `output_queue_` and tests a byte count
that it reads only once; the `asio::null_buffers` handlers are called with a byte count
of zero and then read nothing. The model takes the threads as started and the pipes as
working, because everything above would otherwise hold of a system that does nothing.

## Proofs

`RosterProofs` proves the facts about the two classes. `Sound(e)` says that an enrollment
has its type, at most two teams, occupied slots only in those, one goalkeeper a team, and
a client map that points at slots of the client. `RegisterSound` and `DeregisterSound`: it
survives both operations for every request, client, set of names and team size up to 127.
`RosterOf(r, e)` says that a roster has its type and that each id lists, until it
leaves, the client `e` has in the slot the id stands for, and a goalkeeper only where `e`
has one; `FinaliseRosterOf` and `DeregisterRosterOf` establish and keep it. On the way,
`UniformOfId` and `IdOfUniform`: the two conversions of ids undo each other.

`EnrollmentProofs` uses `IInv == Sound(enrollment) /\ (roster # None => RosterOf(roster,
enrollment))`. No single property is inductive: that a registered client holds its
slot, for example, needs that an occupied slot is never overwritten, and that the roster
matches needs that the opened teams are exactly the two with all the slots. From `IInv`
follow all properties of the run. `Patient` clients are those that hold one slot at a time;
that they can always leave and are on the roster once holds whatever the others do.

`ServerLoopProofs` first reduces a step of the main thread or of its environment to one of
five effects on the handle (`StepEffect`: a registration, a finalisation, a move between
states, an end, or no change); the invariant -- the handle is well formed and its
objects are in step with its state -- and the action properties `RosterIsFinal` and
`LifecycleOrder` then follow by cases on the effects. `TypeCorrect` comes after them,
because the types of what handlers send depend on that invariant: acknowledgements are well
formed because the enrollment finalised is sound and full (`AcksTyped`), the pings of a round
because there is a roster on a break (`PingsTyped`). The theorems hold for every budget,
queue length and set of requests.

`MatchProofs` is about server, referee, I/O threads and clients together. Its `IInv` has, beyond
the types, eight parts, none of which is inductive alone:

* `InStep`: until the referee has a roster, replaying what is under way to it (`UnderWay`: pipe,
  queue and the letters of a handler, in this order) on its enrollment gives the server's, and
  accepts every registration. The replay is a recursive function over a sequence; lemmas say
  what it gives for a sequence with one message more, one less, and its tail.
* `RefereeObjects`: from then on no registration is under way, and the server's enrollment, while
  it is there, is full and finalises to the referee's roster. This is where both being full at
  the same registration matters: `ReplayOnFull`, a full enrollment accepts nothing, so nothing
  that was accepted can be behind the registration that completed it.
* `AnnouncedOnce`: one `rosterFinalised` at most is on its way, and only while the server waits
  for it; so the server's enrollment is there and full when it arrives.
* `ServerObjects`: the server has an enrollment or the referee's roster.
* `AcksInOrder`: acknowledgements in the letters, the queue and the mail of each client are true
  of the roster, and no two anywhere are of one place.
* `Wanted`: what is asked for and entered is what clients wish; `Typed`; `OnlyLateRequestsHalt`.

A step has one of the effects listed before `StepEffect`, and each part of `IInv` is shown to
survive each effect. From it follow `TypeCorrect`, `HaltsOnlyLate`, `InStepThroughout` and
`ToldTheTruth`, for every team size, set of wishes and queue length.
`BookImplemented` shows the refinement step by step: the server's acceptance of a registration
(`EnrolsClaims`) claims a place in the `RegistrationBook`, the referee's finalisation
(`ClosesBook`) closes it, the hand-over of an acknowledgement to the queue (`SendsTells`) tells a
client its place, and every other step leaves the mapped book as it is -- the server's own
finalisation too (`FinalisesNothing`), which is the case that needs `RefereeObjects`.

`ClockMonitorProofs` proves all four properties of the monitor, for any clients, sample size,
width of the numbers, losses and order of arrival. Its `IInv`: the pings held are the newest ones without a gap
(`Contiguous`); none from the first wrap-around on has ever been evicted (`EarlyEvictions` --
the comparison of wrapped numbers stops the eviction rather than misguiding it); and every pong
on record or under way carries the number of a ping that was sent (`Answered`). `PingsKept` is
about the least number any front pong carries, `PingsEvicted` about where the eviction loop
stops, and `AveragesExact` about the pairing loop, in both directions: `AllPaired` is an
induction over its iterations, each of which leaves the next pong waiting for this ping or a later
one, if the pongs are in order and their pings stored; `PairsInOrder` has it that pings which
are paired are in order, so that averages over the whole sample leave no pong out of order.

`ClientLoopProofs` does the same for the client, with types in full: `TypeOK` and
`HasPlayer` (a registered client has a player) are inductive together, each handler is a
registration, a move between states, or nothing to the handle, and `PlayerKept` and
`ClientLifecycle` follow. `PingsAnswered` sees the four places a number can be in -- sent,
queued, in a handler's hand, still a ping -- as one line (`Order`): within each place and from
each to those behind it, numbers come in the order in which the client heard them. A step
moves the first number of one place to the end of the next, and one lemma for each says
that the line is kept (`EnqueueOrder`, `SendOrder`, `ArrivalOrder`, ...).

`WorldProofs` is about numbers: `IInv` says that no world but the first takes keys among the
ids of players. `GroupsDiffer`: a 16-bit group tells all keys apart and is never zero;
`TagsDiffer`: the identifiers of two entities differ, but for the first ball and player;
so groups decide nothing between entities, `MasksMeant` does (`EntitiesTouchAsMeant`), and
within a player the group is negative (`PlayersPassOverThemselves`). Both hold for every
number of players an eight-bit id can tell apart.

`SimulationProofs` begins with the prices, of which a test can only try samples: `CostFair`, for every
velocity of sixteen bits and every action, the price never exceeds the greatest cost, so the
narrowing to eight bits changes nothing, and it is the capped velocity's share to half a unit
whichever way halves are rounded; `Accrued` and `Spent`, that no sum or difference wraps.
It goes on with what the operations of a table keep (`IsTable`: it is a record
whose index is a function) and what they add to it. `TypeInv` adds to `TypeOK` that both registries
are tables, without which the look-up of the engine has no value to be proved about. It
is inductive, and from it: `BodiesKeepEngine`, by the partition of the engines into
registered, held and destroyed; `TagsLeadToEntities`, by `TagInv`, which says the same of the
game state under construction; `EffortIsPaidFor`, which needs the outcomes of a list one by
one and `CostFair`; `StaminaStaysWithinPolicy`, for every policy, even one whose minimum
is above its maximum; and `ListIsWorkedOff`, for lists of any length. That one rests on
`CostsExtend` (an action more leaves the costs of those before it as they were) and on
`TurnAlone`: no game state is made while a list is worked off, or the energies would be reset
under it.

Assumptions: those named in `Roster`, `Enrollment`, `Server`, `Referee`, `ServerLoop`, `ClientLoop`,
`World` and `Simulation` about the constants (`None` is none of the values it stands apart from, team names are numbers,
queues have room for a message, `FramePeriod` is a multiple of the ping period, samples have
room for a pong and numbers a modulus above zero).

What recursive functions compute (`Replay`, `Paired`, `CostSoFar`) is proved by induction over
sets of numbers: the lemma `Induction`, from the well-foundedness of `<`, takes a set where the
library's theorem takes an operator. Each of these functions is shown to exist first
(`ReplayExists`, `LoopRuns`, `CostsRun`), without which `CHOOSE` says nothing of it. The inductive
invariants of `Match` and of the monitor were checked by TLC, on the instances of the runs and, for
the monitor, with numbers modulo 1, 2, 3 and 5, before they were proved.

Model-checked only: the liveness properties `EveryoneToldPlace`, `EveryEventHeard`,
`FrameCompletes`, `LoopGoesOn` and `DisconnectionLeaves`, since fairness and `ENABLED` are out of
the prover's reach; and the four runs that end in a violation, which are about particular
instances.

## Not modelled

The steps of the simulation, geometry and joints (floating point, Box2D); columns by
type and name, and the allocators of the run-time database, which are taken to have room; the
bot protocol (schemas only); command lines, logging, thread start and stop, signals.

`plan_kick_off` and its helpers (`server/event.cxx:243-322`) have no caller, and no behaviour
to model if they had: they write through the begin of an empty vector, read a handle that was
moved from, and end without a return.

## Plan

1. (done) `Roster`, `Enrollment`: the data everything rests on; `Monitor`.
2. (done) `Server`, `ServerLoop`, `Referee`, `ServerIo`, `Match`, with
   `RegistrationBook` as abstract specification.
3. (done) Proofs of the enrollment's invariants, of the server's life cycle and of the types of
   its queues.
4. (done) `ClientLoop`: the client's main loop with its I/O threads, and proofs of its life
   cycle and of the order of its pongs. To do: the clients of `Match` as instances of it, so
   that the pongs the clock monitor gets are the client's own and the two life cycles meet.
5. (done) `World`, with proofs of what may touch what.
6. (done) `Table`, `Stamina`, `Simulation`, with proofs of all their properties.
7. (done) Proofs of the monitor, of the agreement of the two programs and of the refinement of
   `RegistrationBook`.
8. Proofs that take more than a safety property of one module: that the requests and
   messages `Match` allows are among those of `ServerLoop`, as a refinement, so that the
   theorems about the main thread carry over; that beyond the wrap-around an average is off by
   whole cycles only.
