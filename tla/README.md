# A verification project for Ephemeral Radar

TLA+ models of the Ephemeral Location Sharing App: a FastAPI backend
(`apps/backend/src`) that keeps short-lived sessions in Redis and relays
locations and chat over WebSockets, and a Flutter app (`apps/mobile/lib`) that
sends its GPS fixes and shows its peers on a radar. TLC checks the models on
small instances; TLAPS proves the safety properties, and three refinements, for all
values of the constants.

## 1. Inventory

The backend is one asyncio process per instance. A coroutine runs alone until it
awaits something that suspends, which in this code is a Redis command or a send
on a socket. The `asyncio.Lock`s of the connection manager and of the viewport
service guard code that never awaits, so they are never contended and their
methods are atomic.

| Component | State | Operations | Interacts with |
|---|---|---|---|
| Connection registry (`connection_manager.py`) | sockets per session, socket per token | connect, disconnect, room snapshot, lookup by token | called by the WebSocket service |
| WebSocket service (`websocket_service.py`) | one coroutine per socket, a Redis listener task | session check, registration, receive loop, `finally` block, room broadcast | registry, viewport service, Redis, rate limiter, pub/sub |
| Viewport service (`viewport_service.py`) | subscription and cells per token | subscribe, unsubscribe, subscribers of a point | WebSocket service, listener task |
| Session store (`session_repository.py`) | Redis keys of a session with TTLs, user profiles | create, join, location, chat, removal, cascade, expiry callback | routes, WebSocket service, expiry listener |
| Session routes (`sessions.py`) | none, but a `WebSocketService` of their own | create, verify, join, members, kick, delete | session store |
| Redis client (`redis_client.py`) | client, expiry listener task | start, stop, keyspace events | session store |
| Pub/sub (`services/pubsub_broadcaster.py`) | a Redis channel, one listener per process | publish, receive | WebSocket services of all processes |
| Rate limiter (`core/rate_limit.py`) | a Redis counter per user | INCR, EXPIRE, TTL | WebSocket service |
| Mobile socket (`RadarWebSocketService`) | channel, connected flag | connect with retries, send, disconnect, stream callbacks | four callers that do not know of each other |
| Mobile session lifecycle (`main.dart`, `location_broadcaster.dart`) | session, GPS subscription, lifecycle flag, log file | start and end of a session | mobile socket, location service |
| Mobile radar, full map, chat | blips, points, messages | messages, HTTP snapshot, own position | mobile socket, routes |
| Join, create, rejoin screens, local storage | cached session, history | HTTP requests with retries | routes |
| Auth, notifications, health, compliance, metrics, widgets | little or none | | |

What makes each of them correct, and what is hard about it:

* Registry and connection handling. Overlapping connections of one user (a phone
  that dials again before the server noticed the loss) share a token, and the old
  connection's clean-up must not damage more than the code lets it; a message is
  never routed to a socket that has left; peers hear of a departure after the
  last location; nothing is left in Redis or in memory. Hard: every await in a
  broadcast or in the `finally` block is a place where the others run; errors of
  Redis skip the rest of the clean-up; restarts lose the memory and keep Redis.
* The location path. A fix is stored, counted, sent to the room, published, and
  sent once more to viewport subscribers, by the sender's coroutine and by the
  listener of every process. A radar must not go back, a full map must not miss
  the last fix, a limited user must recover. Hard: the cell arithmetic; a snapshot
  that is collected over many awaits; two senders of the same fix; errors of
  Redis that the code survives half-way.
* Chat. What is shown is stored, a DM reaches its addressee only, nothing comes
  doubled or reordered through a socket, whoever stays connected gets it. Hard:
  storing, looking up the recipients and sending are separate, and users
  reconnect in between.
* Session store and routes. A session is ephemeral: every key expires, deletion
  and expiry remove all of it, a kick holds. Hard: the session is checked once,
  then written to after any number of awaits; commands that should be one are
  two; expiry events are lost.
* Mobile socket. One connection per instance, no send into a dead socket, every
  call returns. Hard: the guard and the assignment are on two sides of an await,
  and callbacks of any socket clear the shared fields.
* Mobile lifecycle. Joining makes the user heard, again after a rejoin; ending a
  session stops the socket and the GPS. Hard: four owners call the same socket
  without knowing of each other, and providers are rebuilt under their users.

`PROJECT.json` lists all components and, under "hazards", each of these dangers
at its line.

## 2. Modules

| Module | Models | State and actions |
|---|---|---|
| `ConnectionManager` | `services/connection_manager.py` | `room`, `tokenMap`; `Connect`, `Disconnect`, `RoomConnections`. No `Next` of its own: it is the vocabulary of `RadarRoom` and `Chat` |
| `RadarRoom` | `handle_connection`, `_handle_location`, `_send_room` and the listener task of one process, for one session | extends `ConnectionManager` with Redis (`session`, `members`, `locations`), the viewport sockets, the program counter `pc` and the pending sends `todo` of each coroutine, the sockets (`open`), the peers the radar of each user's app shows (`blips`), the channel (`wire`) and the listener |
| `SessionStore` | `session_repository.py`, `sessions.py`, the expiry listener, and the Redis footprint of the WebSocket coroutines | `data` and `ttl` of each key, `profiles`, and where each request is; one action per Redis command or MULTI pipeline |
| `Viewport` | `services/viewport_service.py` | `subs`, `cells`; `Subscribe`, `Unsubscribe`, `SubscribersOf`, with the cell arithmetic of the code |
| `RateLimiter` | `core/rate_limit.py`, `hit` | `counter`, `expiring`, the result of each caller's INCR; `Incr`, `Expire`, `Lapse`, `Allowed` |
| `LocationFeed` | the way of a fix from the app that sends it to the apps that show it, across processes | extends `Viewport` and `RateLimiter` with the numbered fixes in Redis (`geo`), the coroutines, the channel of each process, the listeners, the snapshots under way and what each client shows |
| `Chat` | `_handle_chat`, the chat appends of the repository, the two notifiers of `chat_providers.dart` | extends `ConnectionManager` with sockets and outboxes, the stored lists, the coroutines and what each app lists |
| `LossyFifo` | the abstract promise about frames between clients: some are lost, none is repeated, early or out of order | `sent`, `seen`; `LocationFeed` and `Chat` implement it |
| `RadarSocket` | `RadarWebSocketService` | `channel`, `isConnected`, where each `connect()` and its socket are, where each `disconnect()` is; one action per stretch between two awaits |
| `MobileSession` | `RadarWsLifecycle`, `LocationBroadcaster`, `LocationService` and the dial of `RadarBlipsNotifier`, over the one `RadarSocket` they share | `session`, the lifecycle's flags, where each `start()` is, the position streams; implements `RadarSocket` |
| `MCRadarRoom`, `MCLocationFeed`, `MCChat` | | the small instances |
| `..._proofs` (6) | | theorems |

The overlaps are on purpose. `RadarRoom` has the connections that come and go and
the clean-up; `SessionStore` has every key with its TTL, the HTTP routes and time,
but one connection per user at a time; `LocationFeed` keeps its clients connected
and has what the first abstracts: the number and place of each fix, the index, the
limiter, several processes. `Chat` has registration and clean-up as one step each.

`RadarRoom`, label by label: `idle` is before the session lookup (line 182 of
`websocket_service.py`), `checked` before `add_member` (194), `added` before
`connections.connect` (195), `announce` the USER_CONNECTED broadcast (204),
`serve` the `receive_text` (217), `stored` after GEOADD (69), `relay` the room
broadcast of a location (95), `published` after PUBLISH (103), `forward` the
local viewport copies (109), `left` after the registry's disconnect (272),
`memberRemoved` (273), `locationRemoved` (274), `farewell` the USER_DISCONNECTED
broadcast (282). Each broadcast takes a snapshot into `todo[c]` and sends to its
members one step at a time.

`LocationFeed` uses the same labels, and `counted` and `timed` between the
limiter's commands, `collect` while the members' positions are looked up for a
viewport snapshot. `MobileSession.start` follows `LocationBroadcaster.start()`:
`stopping` the old position stream, `logging` while the log file opens,
`connecting`, `starting` the new stream, `listening`.

A user's app has one radar and one list per chat, whichever sockets feed them:
`blips` in `RadarRoom` outlives a socket, the leave and the rejoin, as the notifier's
map does, and `chats` in `Chat` holds what came through each of the sockets an app has
up. `carried` in `RadarRoom` is history: the peers a radar showed when its client
joined the room and has not heard of since.

A Redis command that fails may have been executed all the same, its reply lost. Every
action of `RadarRoom`, `SessionStore`, `LocationFeed` and `Chat` that writes to Redis
has both outcomes.

Abstractions. `RadarRoom` has no payloads and no cells (a viewport lookup returns
any subset of the subscribers), and the limiter's verdict is a free choice there.
A client's `sender_id` is its token, as the app sends it. In `Viewport` degrees are
integers in units of 0.002, which divide every cell size. The code's floats err by
far less than a unit, so their rounding matters in two places, and both are open in
the model: a coordinate on a border between cells may fall into the cell nearer to the
origin (`Index`; `int(0.15 / 0.05)` is 2), and the last step of a loop may miss its
bound (`Sweeps`). A subscription enters one of the cell sets this allows, a point is
looked up under any of the keys it allows. In `LocationFeed` a position on the edge of
a box may be left out of a snapshot, because Redis rounds the positions it stores. The
index is kept by token instead of by cell. In
`SessionStore` the `dm` key stands for the chat of one pair. In `Chat` the echo of a
DM to its sender is left out, because the sender's app ignores it. Definitions
introduced as "a slip that ... catches" are deliberate mistakes: with the slip in
place of the definition that follows it, TLC finds the named property violated.

## 3. Runs

| Run | Instance | Shows |
|---|---|---|
| `room_safety` | 2 connections of one user, 1 of a peer; 2 frames in all, locations and subscriptions, 1 fault | `RouteSound`, `ServedAlone`, `RouteTakenByTwin`, `LocationOwned`, `NoGhost`, `GhostOrigins`, `ViewportReleased`, `PresentUnlessTwinLeft` |
| `room_ends` | 1 connection each of two users; 3 frames in all, of any of the four kinds, 1 fault, fairness | `TypeOK`, `DroppedEnds` |
| `room_member` | 2 connections of one user | `ConnectedIsMember` is violated |
| `store` | host and guest, 4 requests or frames, TTL of 2 ticks, 1 fault, fairness | `TypeOK`, `EveryKeyExpires`, `KickSticks`, `Forgotten` |
| `store_delete`, `store_told` | host and guest, 3 requests, no faults | `DeletedIsGone`, `AllTold` are violated |
| `socket` | 3 `connect()` with 2 attempts, 2 `disconnect()`, fairness | `TypeOK`, `SendTargetAlive`, `GuardSuffices`, `ConnectReturns`, `DisconnectReturns` |
| `feed` | 1 user who moves, 1 with a radar or a full map, in the same process or another; 2 fixes, 2 viewport frames, limit 1, 1 fault, fairness | `TypeOK`, `InteriorHeard`, `RoomFirst`, `MapFresh`, `CounterExpires`, `NeverBack`, `LimitedRecovers` |
| `viewport` | 1 subscription of a box from 0.096 to 0.154 degrees | `CoversBox` is violated |
| `chat` | bob sends 2 messages on 1 connection, ann has 2 connections, also at once; lists of 1 message, 1 fault, fairness | `TypeOK`, `StoredFirst`, `DmRouted`, `DmListedOnce`, `InOrder`, `Delivered` |
| `mobile` | 2 joins and leaves, 1 dial attempt, fairness | `TypeOK`, `OneStream`, `HeardOnceSettled`, `HeardAgain`, `ImplementsSocket` |
| `mobile_leave` | 1 join and leave, 2 dial attempts | `SilentAfterLeave` is violated |

Why the bounds are enough.

* Room. The races need two connections of one token and one observer: the third
  connection is a peer who both hears the room and leaves it. Two frames
  are a location of each twin, a subscription of each, or a subscription and the
  location that is forwarded to it, by any two connections or by one; they stand at
  every point of the other coroutines, and each property is about two of them at most.
  One fault reaches every error path. In `room_ends` a subscription and a location
  after it take a coroutine through every stage, the viewport copies included, and the
  third frame is the other client's; whether a coroutine ends depends on who else is in
  the room and not on whose connection that is. The theorems have no such bounds.
* Store. Two ticks separate "expires now" from "was refreshed", and four requests
  allow join or connect, a write, a kick or deletion, and one more write.
* Socket. Three calls and two disconnects allow a stale callback to meet a live and
  a dialing socket.
* Feed. Two fixes let a later one overtake an earlier one on each of the three ways
  to a full map (snapshot, own process, listener), and with a limit of 1 the second
  is refused until the counter lapses. Two viewport frames are a subscription and
  its removal or replacement. The two places are on two sides of the origin, where
  the rounding towards zero changes direction, and on borders between cells, where
  both roundings of floats are tried. One fault hits each command of the limiter, the publication or the snapshot.
* Chat. With a list of one message the second send trims the first away. A second
  connection of the addressee comes up, beside the first or after it, while a message is
  being stored or sent;
  one fault is a failed pipeline, executed or not, or a restart.
* Mobile. Two joins are what a rejoin needs: all stale state is of the join before.
  A second attempt of a dial is in `socket` and in `mobile_leave`; here it would only
  lengthen the wait, and `ImplementsSocket` ties the two together.

Symmetry: `room_safety` exchanges the two connections of one user; it checks no
liveness. The models stop when the bounded inputs are used up, so deadlock is not
checked; that nobody waits for ever is what the liveness properties are for.

What the violations say (each is a finding in `PROJECT.json`):

* `room_member`: a reconnecting user is served and yet no member, because the old
  connection's `finally` block removes by token, not by socket. The DM route, the
  location and the viewport subscription go the same way; the theorems
  `OnlyTwinTakesRoute` and `PresentCorrect` say that this is the only way a served
  client loses its route or, while its session lives, its membership, or, while its
  fix is being relayed, its place on the map. (The twin need not come to its end: a
  removal that Redis executed although it reported an error counts.)
* `store_delete`: sockets stay open after DELETE, and what they write is stored
  again, for at most one more TTL.
* `store_told`: nobody hears SESSION_ENDED, since the routes hold another
  `WebSocketService` than the one that serves sockets.
* `viewport`: the loops over a box start in its south-western corner and step by a
  cell, so the cells of the last stretch north and east may be left out. Between 0.096
  and 0.154 degrees they enter the cells 1 and 2, of the samples 0.096 and 0.146, and
  not the cell 3 beyond 0.15. `InteriorFound` proves what does hold.
* `mobile_leave`: a `connect()` that is pending during a leave brings its socket up
  afterwards, and the position stream is never stopped, so fixes go on being sent.

Limits of the code that properties state as exceptions:

* `LocationOwned`, `NoGhost`, `ViewportReleased`: a clean-up cut short by a Redis
  error or a killed process leaves everything behind it undone. Two more things make
  ghosts without any error. The blips outlive the socket, so a peer who leaves while an
  app is away, be it for a drop or for a leave and a rejoin, is still on its radar
  afterwards and no farewell will come; `NoGhost` excepts what a radar showed when its
  client joined the room until the app hears of that peer again. And a client with a
  viewport subscription may get a location from the listener after the sender's
  farewell. `GhostOrigins` says that there is no third way for a frame to leave a ghost,
  on any radar (the members the app fetches by HTTP are not in the model).
* `InteriorHeard`, `MapFresh`: only for subscriptions at zooms 11 to 13, since lookups
  always use the cells of zoom 12; for points a cell away from the far borders; and for
  boxes whose south-western corner is on no border of a cell. From a corner on a border
  the loops add up floats that all lie on borders, give or take an error, and two
  steps can fall into cells that are not adjacent: from 0.15 the cells 2 and 4, without
  3. `MapFresh` also leaves out the very edge of the box.
* `MapFresh`: a snapshot that was overtaken by a fix while it was being collected
  puts the map back, until the next fix.
* `CounterExpires`, `LimitedRecovers`: an error between INCR and EXPIRE leaves a counter
  without a TTL, and its user limited for good.
* `EveryKeyExpires`: the session hash and the chats have a TTL whatever fails. Between
  GEOADD and EXPIRE the locations have none, and an error there leaves them so; the
  members have none until somebody joins.
* `KickSticks`: a kicked guest is no member whatever fails. That the guest is off the
  map too holds without faults, and once the guest is gone; while the guest's socket
  stays open, each update puts the guest back on the map.
* `InOrder`: from one connection of the sender to one socket of the reader. Messages of
  two senders, or of one sender across a reconnect, may be listed and stored in different
  orders; and an app with several sockets up, which an ordinary join often brings about,
  lists a group message once for each of them. A DM goes to one socket only and is listed
  once (`DmListedOnce`).
* `NeverBack`: per connection of the reader; `LocationFeed` gives each client one. An app
  with several sockets gets a fix through each, and one of them may lag.
* `OneStream`, `HeardOnceSettled`, `HeardAgain`: for joins that come after the earlier join and leave are
  over. A quicker one leaks a position stream, or has its socket closed under it.
  After a drop nobody dials again until the user leaves and joins.

Seen in the models, without a run: the members key of a new session has no TTL
until somebody joins (`create_session` sends EXPIRE before SADD; the specification
in `docs/ARCHITECTURE.md` lists a TTL), `user:{id}` hashes are never deleted, and
overlapping `connect()` calls leave several sockets open.

## 4. Fairness

* `RadarRoom!FairSpec`, `LocationFeed!FairSpec`, `Chat!FairSpec`: weak fairness of
  each coroutine's own steps. The event loop runs every ready coroutine, and a Redis
  command or a send completes or raises. Clients and networks owe nothing: they need
  not send, read or close. In `LocationFeed` the TTL of a counter that has one also
  runs out. The listeners need no fairness: no liveness property is about them.
* `SessionStore!FairSpec`: requests that have begun go on and time passes; users and
  failures owe nothing.
* `RadarSocket!FairSpec`, `MobileSession!FairSpec`: a dial succeeds or fails, a
  back-off ends, a file opens, a stream starts or is cancelled, and a socket that is
  being closed does close (the platform's close has a timeout); an open socket need
  never close, and the user need not do anything.

## 5. Theorems

All of them hold for every value of the constants that satisfies the named
assumptions `ConnAssumption`, `RoomAssumption`, `StoreAssumption`,
`SocketAssumption`, `FeedAssumption`, `ChatAssumption` and `MobileAssumption`: sets
that do not overlap, functions of the right kind, bounds that are natural numbers.
Every invariant, action property and refinement that a passing run checks is proved.

* `RadarRoom_proofs`
  * `TypeCorrect`. `TypeOK` alone is not inductive: `Register` writes the token's
    entry, so a coroutine past the check must have a token; and a send needs its
    targets to be connections. `TypeInv` adds both.
  * `RouteCorrect`, `ServedAloneCorrect`, `OnlyTwinTakesRoute`. `RegistryInv`
    relates the room to the program counters and each entry to the room. Only
    `Register`, the three ways into the `finally` block and `Restart` touch the
    registry; the rest is one frame lemma.
  * `LocationsOwned`, `ViewportsReleased`. From the step that makes an entry to the
    one that removes it, the connection that made it is at one of the labels between
    them, or was aborted; with several connections of a user the one that writes is
    the new owner.
  * `NoGhosts`. `GhostInv` adds who may still be sent what: a socket whose user has not
    subscribed a viewport is in nobody's viewport audience, and everyone who is
    still to be sent a location of a user will be sent that user's farewell,
    because the snapshot of the farewell is taken after the last location. A radar that
    outlives its socket brings peers into the room that nobody owes a farewell; they
    stay in `carried` until a frame about them arrives, from when on the argument holds.
  * `GhostsHaveOrigins` drops both exceptions: by the same argument no step of a
    coroutine makes a ghost on any radar in the room (`NoGhostMade`), so a step that
    does is the client's own registration or a delivery by the listener.
  * `PresentCorrect`. `PresentInv` adds that the member is there already when the
    connection is about to register, and that the stages at which a twin has removed
    something, or may have before it was cut short (`MemberGone`, `LocationGone`), are
    never left while anybody is served.
* `SessionStore_proofs`
  * `TypeCorrect`, from one lemma per Redis command.
  * `KeysExpire`. `SafeKeys` has the part that holds whatever fails: the chats and the
    session hash are written and given their TTL by one pipeline. The rest,
    `KeysExcused`, is carried as long as nothing has failed.
  * `KicksStick`: no command adds a kicked user to the members but those that let the
    user in again (`NextNoMember`); and without faults, while the user is still on the
    map, the user's coroutine or the kick has the removal before it. Only guests are
    kicked, since creation makes the host a member.
* `RadarSocket_proofs`
  * `TypeCorrect`: a dialing call has an attempt left.
  * `SendTargetsAlive`: with `CloserSound`, which ties closing sockets to pending
    disconnects.
  * `GuardSufficient`: while callers take turns at most one call is busy, and none
    while a disconnect is pending.
* `LocationFeed_proofs`
  * `TypeCorrect`, from one lemma per action.
  * `InteriorFound`. `Entered` is inductive: a subscription is entered in every cell
    of one of the sweeps its box allows, since a subscription only adds cells and an
    unsubscription ends both. The rest is arithmetic over all integers and roundings: of
    two samples a cell apart around a coordinate, one is in the cell of the coordinate
    (`SharesCell`), on either side of the origin and across it. It needs a corner that is
    on no border, because then no sample is, and only the coordinate's rounding is open.
  * `RoomComesFirst`. `MapsOnly`: only full maps subscribe, so the viewport copies
    and the listeners never touch a radar. `Relayed`: while a fix is relayed, a radar
    of the sender's process has it or is still to be sent it, so none is left when it
    is published.
  * `NeverGoesBack`: the radars implement `LossyFifo`. Storing a fix is its `Send`,
    one send of the relay its `Deliver`, every other step a stutter; `Relayed` says
    that no radar is ahead of its sender.
  * `MapCatchesUp`. `MapFresh` speaks of the moment when nothing is on its way, so it is
    far from inductive. `NoGap` says of every moment where the last published fix is
    for a full map that is to show it: on the channel of the map's process, in the hands
    of its listener, in the snapshot under way or still to be read for it, or on the map
    (`Followed`). `LastIsPublished` says that nothing older about the user comes after it
    on a channel, `Ahead` that Redis is never behind what was published, and `Entered`
    that lookups find the subscription. A lemma or a case per action shows that the
    action hands the fix on.
  * `CountersExpire`: only the INCR that creates a counter leaves it without a TTL, and
    until an error comes the coroutine is then at its EXPIRE.
* `Chat_proofs`
  * `TypeCorrect`, with the limit of the stored lists.
  * `DmsRouted`. `OwnMessages`: the registry routes a token to a socket of that token,
    and what a coroutine reads and sends is its own client's.
  * `StoredBeforeListed`. `OutboxInOrder` and `StoredInOrder`: the messages of a
    connection wait and are stored by increasing number, and all that is stored,
    being sent or listed is older than all that waits (`Past`). So a list that drops
    its first message keeps only later ones of the same connection, and stays full.
  * `ListedAsSent`: what the apps list implements `LossyFifo`, with a socket and a chat as
    a reader (`Inlets`). What it has seen of a connection is the number of that
    connection's last message that came to the list through the socket (`LastOf`);
    `ListedInOrder` says that what came to a list through a socket is in the order of
    sending, and that what is still to be sent to a socket is newer than all that came
    through it, so that nothing comes through it twice, whichever other sockets the app
    has.
  * `DmsListedOnce`: a DM on its way has one socket to go to, and no app has listed it
    (`DmUnlisted`): it is newer than all that was ever sent on.
* `MobileSession_proofs`
  * `SocketImplemented`: each step of the mobile session is a step of `RadarSocket`
    or leaves its variables alone.
  * `TypeCorrect`: with the socket's own type invariant by that refinement.
  * `StreamsOwned`: while joins wait for what came before, one `start()` is under way
    at most, and it forgets the old stream only after cancelling it.
  * `SettledIsHeard`. `HeardInv` follows a join that waited for what came before: no
    disconnect is pending, its broadcaster has begun and its stream is there once it
    listens; until a dial fails or a socket ends nobody backs off, and from the moment
    the broadcaster starts its stream `channel` is an open socket. It needs from
    `RadarSocket` what `channel` may be (`ChannelCorrect`), which the refinement carries
    over, and that a socket closes only for a pending disconnect (`SocketSound`).

`LastOf` in `Chat`, part of the refinement mapping of `InOrder`, takes the last message by
its index and not from a filtered list, since a recursion over a list is out of the
prover's reach.

Only model-checked, since liveness under fairness is out of the prover's reach:
`DroppedEnds`, `Forgotten`, `ConnectReturns`, `DisconnectReturns`, `LimitedRecovers`,
`Delivered` and `HeardAgain`. Two of them rest on a proved invariant: `LimitedRecovers` on
`CounterExpires`, without which a counter need never lapse, and `HeardAgain` on
`HeardOnceSettled`, which leaves it to show that what was begun is over in the end. The
properties of the violation runs are false of the code, so nothing is proved of them.

## 6. Not modelled

* Tokens, blacklist and notifications: the session flow does not use them. Health,
  compliance, metrics, configuration, logging and middleware: reads and wiring.
* The start-up and shutdown of the Redis client, with its fallback to an in-memory
  server: it runs once, before any session.
* The join, create and rejoin screens and the local storage: sequences of HTTP
  requests whose effect on the store is in `SessionStore`, and a list on one device.
  A creation that is repeated after its answer was lost leaves a session nobody
  knows, which expires.
* On the radar: the HTTP snapshot of the members, pausing, distances and bearings. On
  the full map: drawing, and that it sends its subscription on the service of the bare
  URL, whose socket nobody connects, so that in this app the viewport frames that
  `LocationFeed` models do not reach the server.
* In the mobile session: the foreground service, the full map's `connect()` (a fourth
  caller, of the radar's kind; `socket` has callers of any number and order), and
  switching to another session without leaving the first. In the chat: the app's own optimistic copy of what it
  sends, which nothing else touches.
* Security. The properties are about correctness among clients that follow the app's
  protocol.

What would come next: a snapshot of the members merged over live updates, with the
radar's pause; a composition of `RadarRoom` with `SessionStore`, so that deletion and
overlapping connections meet.
