----------------------------- MODULE LocationFeed ------------------------------
(***************************************************************************)
(* The way of a position from the app that sends it to the apps that show  *)
(* it (_handle_location, the VIEWPORT frames and the Redis listener of     *)
(* services/websocket_service.py), for a session whose clients stay        *)
(* connected, to several backend processes that share Redis.  RadarRoom    *)
(* has the connections that come and go; here every fix has a number and a *)
(* point, the viewport index and the rate limiter are the real ones, and   *)
(* what each client shows is the number of the fix.                        *)
(*                                                                         *)
(* A step is one Redis command, one send to one socket, or what a          *)
(* coroutine does between two awaits.  Redis errors are those the handlers *)
(* survive: in the limiter, in PUBLISH and while a snapshot is collected.  *)
(***************************************************************************)
EXTENDS Viewport, RateLimiter, Sequences

CONSTANTS
    Processes,  \* backend processes
    Placements, \* who may be connected where, with what on screen: [home, maps]
    Points,     \* where users may be
    Requests,   \* what watchers may subscribe: [box, zoom]
    MaxFixes,   \* fixes each user sends
    MaxAsks,    \* viewport frames each user sends
    MaxFaults   \* Redis commands that raise

ASSUME FeedAssumption ==
    /\ Tokens # {} /\ Callers = Tokens
    /\ Placements \subseteq [home : [Tokens -> Processes], maps : SUBSET Tokens]
    /\ Points \subseteq Int \X Int
    /\ Requests \subseteq [box : [south : Int, north : Int, west : Int, east : Int], zoom : Int]
    /\ NoSub \notin Requests
    /\ Limit \in Nat \ {0}
    /\ MaxFixes \in [Tokens -> Nat]
    /\ MaxAsks \in [Tokens -> Nat]
    /\ MaxFaults \in Nat

VARIABLES
    home,       \* the process each user is connected to
    maps,       \* the users whose client has the full map open, not the radar
    geo,        \* Redis: the last fix of each user, which its coroutine handles
    pc,         \* where each user's coroutine is
    todo,       \* the sockets, or the members, it has still to get to
    wire,       \* the published fixes each process has still to receive
    listener,   \* each process's listener task: the fix it forwards, and to whom
    snapshot,   \* the numbers a coroutine has collected for a viewport snapshot
    shown,      \* the number of the fix each client shows of each user
    asks,       \* viewport frames a full map may still send
    published,  \* history: the last fix of each user that was published
    late,       \* history: full maps whose last snapshot failed or was overtaken
    faults      \* history: Redis errors so far

feed == <<geo, pc, todo, wire, listener, snapshot, shown, asks, published, late, faults>>
clients == <<home, maps>>
vars == <<viewports, limiter, clients, feed>>

Pc == {"serve", "stored", "counted", "timed", "relay", "published", "forward", "collect"}

NoFix == [n |-> 0]
Unseen == [u \in Tokens |-> 0]

Init ==
    /\ ViewportInit
    /\ LimiterInit
    /\ \E placement \in Placements : home = placement.home /\ maps = placement.maps
    /\ geo = [u \in Tokens |-> NoFix]
    /\ pc = [u \in Tokens |-> "serve"]
    /\ todo = [u \in Tokens |-> {}]
    /\ wire = [p \in Processes |-> <<>>]
    /\ listener = [p \in Processes |-> [of |-> CHOOSE u \in Tokens : TRUE, n |-> 0, to |-> {}]]
    /\ snapshot = [u \in Tokens |-> Unseen]
    /\ shown = [u \in Tokens |-> Unseen]
    /\ asks = MaxAsks
    /\ published = [u \in Tokens |-> NoFix]
    /\ late = {}
    /\ faults = 0

--------------------------------------------------------------------------------
(* Pieces of actions.                                                      *)

Goto(u, label) == pc' = [pc EXCEPT ![u] = label]

\* A Redis command raises.  One that writes may have been executed all the same,
\* its reply lost.
Fault == faults < MaxFaults /\ faults' = faults + 1

\* The sockets of one process: its room, and its viewport subscribers of a cell.
Room(p) == {v \in Tokens : home[v] = p}
SubscribersAt(p, key) == SubscribersOf(key) \cap Room(p)

\* What a lookup of a stored fix for the snapshot of a box finds, as a number.
\* Redis keeps a position to less than a unit: one on the edge may be read outside.
Read(fix, box) ==
    CASE fix = NoFix -> {0}
      [] fix # NoFix /\ ~Inside(fix.at, box) -> {0}
      [] OTHER -> IF fix.at[1] \in {box.south, box.north} \/ fix.at[2] \in {box.west, box.east}
                  THEN {0, fix.n} ELSE {fix.n}

\* The client of v is sent fix n of u.  A radar ignores its own user.  A snapshot
\* that is under way is overtaken.
Show(v, u, n) ==
    /\ shown' = IF u = v /\ v \notin maps THEN shown ELSE [shown EXCEPT ![v][u] = n]
    /\ late' = IF pc[v] = "collect" THEN late \cup {v} ELSE late

\* The coroutine of u has still to reach the sockets in to; nothing is awaited
\* between the last copy to a viewport and the next frame.
Broadcast(u, stage, to) ==
    /\ todo' = [todo EXCEPT ![u] = to]
    /\ Goto(u, IF to = {} /\ stage = "forward" THEN "serve" ELSE stage)

--------------------------------------------------------------------------------
(* LOCATION_UPDATE.                                                        *)

\* The next fix of u is read and stored.
StoreFix(u) ==
    /\ pc[u] = "serve" /\ geo[u].n < MaxFixes[u]
    /\ \E point \in Points : geo' = [geo EXCEPT ![u] = [n |-> geo[u].n + 1, at |-> point]]
    /\ Goto(u, "stored")
    /\ UNCHANGED <<viewports, limiter, clients, todo, wire, listener, snapshot, shown, asks,
                   published, late, faults>>

Relay(u) == Broadcast(u, "relay", Room(home[u]))

\* The limiter's INCR.  An error of the limiter lets the fix pass.
CountHit(u) ==
    /\ pc[u] = "stored"
    /\ \/ Incr(u) /\ Goto(u, "counted") /\ UNCHANGED <<todo, faults>>
       \/ Fault /\ Relay(u) /\ (Incr(u) \/ UNCHANGED limiter)
    /\ UNCHANGED <<viewports, clients, geo, wire, listener, snapshot, shown, asks, published, late>>

\* The EXPIRE that follows the INCR that has created the key.
ExpireKey(u) ==
    /\ pc[u] = "counted" /\ hit[u] = 1
    /\ \/ Expire(u) /\ Goto(u, "timed") /\ UNCHANGED <<todo, faults>>
       \/ Fault /\ Relay(u) /\ (Expire(u) \/ UNCHANGED limiter)
    /\ UNCHANGED <<viewports, clients, geo, wire, listener, snapshot, shown, asks, published, late>>

\* TTL, whose result is not used, then the verdict.  A fix over the limit goes no
\* further, but has been stored.
Judge(u) ==
    /\ pc[u] = "timed" \/ (pc[u] = "counted" /\ hit[u] # 1)
    /\ \/ Allowed(u) /\ Relay(u) /\ UNCHANGED faults
       \/ ~Allowed(u) /\ Goto(u, "serve") /\ UNCHANGED <<todo, faults>>
       \/ Fault /\ Relay(u)
    /\ UNCHANGED <<viewports, limiter, clients, geo, wire, listener, snapshot, shown, asks,
                   published, late>>

\* One send to the room or to a viewport subscriber.
Send(u) ==
    /\ pc[u] \in {"relay", "forward"}
    /\ \E v \in todo[u] : Show(v, u, geo[u].n) /\ Broadcast(u, pc[u], todo[u] \ {v})
    /\ UNCHANGED <<viewports, limiter, clients, geo, wire, listener, snapshot, asks, published, faults>>

\* A slip that RoomFirst catches: PUBLISH does not wait for the room.
PublishEarly(u) ==
    /\ pc[u] = "relay"
    /\ wire' = [p \in Processes |-> Append(wire[p], [of |-> u, fix |-> geo[u]])]
    /\ published' = [published EXCEPT ![u] = geo[u]]
    /\ Goto(u, "published")
    /\ UNCHANGED <<viewports, limiter, clients, geo, todo, listener, snapshot, shown, asks, late, faults>>

\* PUBLISH: every process receives it, the sender's own included.  Its error is
\* ignored.
Publish(u) ==
    /\ pc[u] = "relay" /\ todo[u] = {}
    /\ \/ /\ wire' = [p \in Processes |-> Append(wire[p], [of |-> u, fix |-> geo[u]])]
          /\ published' = [published EXCEPT ![u] = geo[u]]
          /\ Fault \/ UNCHANGED faults
       \/ Fault /\ UNCHANGED <<wire, published>>
    /\ Goto(u, "published")
    /\ UNCHANGED <<viewports, limiter, clients, geo, todo, listener, snapshot, shown, asks, late>>

\* The subscribers of the fix's point in the sender's process get it once more.
Forward(u) ==
    /\ pc[u] = "published"
    /\ \E key \in LookupKeys(geo[u].at) : Broadcast(u, "forward", SubscribersAt(home[u], key))
    /\ UNCHANGED <<viewports, limiter, clients, geo, wire, listener, snapshot, shown, asks,
                   published, late, faults>>

--------------------------------------------------------------------------------
(* The Redis listener task of each process.                                *)

\* A slip that NeverBack catches: the fix goes to the whole room.
ListenerTakeForRoom(p) ==
    /\ wire[p] # <<>> /\ listener[p].to = {}
    /\ LET m == Head(wire[p])
       IN  listener' = [listener EXCEPT ![p] = [of |-> m.of, n |-> m.fix.n, to |-> Room(p)]]
    /\ wire' = [wire EXCEPT ![p] = Tail(@)]
    /\ UNCHANGED <<viewports, limiter, clients, geo, pc, todo, snapshot, shown, asks, published, late, faults>>

\* The next published fix, from whichever process, and its subscribers here.
ListenerTake(p) ==
    /\ wire[p] # <<>> /\ listener[p].to = {}
    /\ LET m == Head(wire[p])
       IN  \E key \in LookupKeys(m.fix.at) :
              listener' = [listener EXCEPT ![p] = [of |-> m.of, n |-> m.fix.n,
                                                   to |-> SubscribersAt(p, key)]]
    /\ wire' = [wire EXCEPT ![p] = Tail(@)]
    /\ UNCHANGED <<viewports, limiter, clients, geo, pc, todo, snapshot, shown, asks, published, late, faults>>

ListenerSend(p) ==
    /\ \E v \in listener[p].to :
          /\ Show(v, listener[p].of, listener[p].n)
          /\ listener' = [listener EXCEPT ![p].to = @ \ {v}]
    /\ UNCHANGED <<viewports, limiter, clients, geo, pc, todo, wire, snapshot, asks, published, faults>>

--------------------------------------------------------------------------------
(* VIEWPORT frames.                                                        *)

ReadAsk(v) ==
    /\ v \in maps
    /\ pc[v] = "serve" /\ asks[v] > 0
    /\ asks' = [asks EXCEPT ![v] = @ - 1]

\* VIEWPORT_SUBSCRIBE, and the members of the session, whose positions are looked
\* up next.  When the members cannot be read, they are taken to be none.
ReadSubscribe(v) ==
    /\ ReadAsk(v)
    /\ \E request \in Requests : Subscribe(v, request.box, request.zoom)
    /\ \/ /\ todo' = [todo EXCEPT ![v] = Tokens]
          /\ late' = late \ {v}
          /\ UNCHANGED faults
       \/ Fault /\ late' = late \cup {v} /\ UNCHANGED todo
    /\ snapshot' = [snapshot EXCEPT ![v] = Unseen]
    /\ Goto(v, "collect")
    /\ UNCHANGED <<limiter, clients, geo, wire, listener, shown, published>>

\* A slip that MapFresh catches: longitude and latitude are taken for each other.
ReadPositionSwapped(v) ==
    /\ pc[v] = "collect"
    /\ \E m \in todo[v] :
          \/ /\ LET swapped == IF geo[m] = NoFix THEN NoFix
                               ELSE [geo[m] EXCEPT !.at = <<@[2], @[1]>>]
                IN  \E n \in Read(swapped, subs[v].box) : snapshot' = [snapshot EXCEPT ![v][m] = n]
             /\ todo' = [todo EXCEPT ![v] = @ \ {m}]
             /\ UNCHANGED <<pc, late, faults>>
          \/ /\ Fault
             /\ todo' = [todo EXCEPT ![v] = {}]
             /\ Goto(v, "serve")
             /\ late' = late \cup {v}
             /\ UNCHANGED snapshot
    /\ UNCHANGED <<viewports, limiter, clients, geo, wire, listener, shown, asks, published>>

\* A slip that TypeOK catches: an error keeps the list of members.
ReadPositionKeepsList(v) ==
    /\ pc[v] = "collect"
    /\ \E m \in todo[v] :
          \/ /\ \E n \in Read(geo[m], subs[v].box) : snapshot' = [snapshot EXCEPT ![v][m] = n]
             /\ todo' = [todo EXCEPT ![v] = @ \ {m}]
             /\ UNCHANGED <<pc, late, faults>>
          \/ /\ Fault
             /\ Goto(v, "serve")
             /\ late' = late \cup {v}
             /\ UNCHANGED <<snapshot, todo>>
    /\ UNCHANGED <<viewports, limiter, clients, geo, wire, listener, shown, asks, published>>

\* GEOPOS of one member.  After an error no snapshot is sent.
ReadPosition(v) ==
    /\ pc[v] = "collect"
    /\ \E m \in todo[v] :
          \/ /\ \E n \in Read(geo[m], subs[v].box) : snapshot' = [snapshot EXCEPT ![v][m] = n]
             /\ todo' = [todo EXCEPT ![v] = @ \ {m}]
             /\ UNCHANGED <<pc, late, faults>>
          \/ /\ Fault
             /\ todo' = [todo EXCEPT ![v] = {}]
             /\ Goto(v, "serve")
             /\ late' = late \cup {v}
             /\ UNCHANGED snapshot
    /\ UNCHANGED <<viewports, limiter, clients, geo, wire, listener, shown, asks, published>>

\* The full map is cleared and filled from the snapshot.
SendSnapshot(v) ==
    /\ pc[v] = "collect" /\ todo[v] = {}
    /\ shown' = [shown EXCEPT ![v] = snapshot[v]]
    /\ Goto(v, "serve")
    /\ UNCHANGED <<viewports, limiter, clients, geo, todo, wire, listener, snapshot, asks, published, late, faults>>

\* VIEWPORT_UNSUBSCRIBE.
ReadUnsubscribe(v) ==
    /\ ReadAsk(v)
    /\ Unsubscribe(v)
    /\ UNCHANGED <<limiter, clients, geo, pc, todo, wire, listener, snapshot, shown, published, late, faults>>

\* A counter's TTL runs out.
Elapse(u) == Lapse(u) /\ UNCHANGED <<viewports, clients, feed>>

--------------------------------------------------------------------------------
\* The steps a coroutine takes without waiting for its client.
Run(u) ==
    \/ CountHit(u) \/ ExpireKey(u) \/ Judge(u)
    \/ Send(u) \/ Publish(u) \/ Forward(u)
    \/ ReadPosition(u) \/ SendSnapshot(u)

Next ==
    \/ \E u \in Tokens :
          Run(u) \/ StoreFix(u) \/ ReadSubscribe(u) \/ ReadUnsubscribe(u) \/ Elapse(u)
    \/ \E p \in Processes : ListenerTake(p) \/ ListenerSend(p)

Spec == Init /\ [][Next]_vars

\* The event loop is fair to every coroutine, Redis commands and sends complete
\* or raise, and a TTL runs out.  Nothing is assumed of clients.
FairSpec == Spec /\ \A u \in Tokens : WF_vars(Run(u)) /\ WF_vars(Elapse(u))

--------------------------------------------------------------------------------
(* Properties.                                                             *)

Fixes == [n : Nat, at : Points] \cup {NoFix}

ViewportType == subs \in [Tokens -> Requests \cup {NoSub}] /\ cells \in [Tokens -> SUBSET (Int \X Int)]

LimiterType == counter \in [Tokens -> Nat] /\ hit \in [Tokens -> Nat] /\ expiring \subseteq Tokens

ClientType ==
    /\ home \in [Tokens -> Processes] /\ maps \subseteq Tokens
    /\ \A u \in Tokens : asks[u] \in 0..MaxAsks[u]

\* A coroutine that is not sending or collecting has nobody left to get to, and
\* only full maps ask for a snapshot.
CoroutineType ==
    /\ pc \in [Tokens -> Pc]
    /\ todo \in [Tokens -> SUBSET Tokens]
    /\ \A u \in Tokens : todo[u] # {} => pc[u] \in {"relay", "forward", "collect"}
    /\ \A u \in Tokens : pc[u] = "collect" => u \in maps

FixType == geo \in [Tokens -> Fixes] /\ published \in [Tokens -> Fixes]

WireType ==
    /\ wire \in [Processes -> Seq([of : Tokens, fix : Fixes])]
    /\ listener \in [Processes -> [of : Tokens, n : Nat, to : SUBSET Tokens]]

ShownType ==
    /\ shown \in [Tokens -> [Tokens -> Nat]] /\ snapshot \in [Tokens -> [Tokens -> Nat]]
    /\ late \subseteq maps

\* Every variable holds a value of its kind.
TypeOK ==
    /\ ViewportType /\ LimiterType /\ ClientType /\ CoroutineType
    /\ FixType /\ WireType /\ ShownType
    /\ faults \in 0..MaxFaults

\* What other processes are told of a user, every radar in the user's own process
\* has been told before.
RoomFirst ==
    \A u \in Tokens, v \in Tokens \ maps :
        home[u] = home[v] /\ u # v => shown[v][u] >= published[u].n

\* No frame about u is on its way to v.
Still(u, v) ==
    /\ pc[u] = "serve" /\ pc[v] = "serve"
    /\ listener[home[v]].to = {}
    /\ \A i \in DOMAIN wire[home[v]] : wire[home[v]][i].of # u

\* The point is inside the box, not on its edge, and a cell away from its northern
\* and eastern borders.
WellInside(point, box) ==
    /\ box.south < point[1] /\ point[1] <= box.north - CellSize(LookupZoom)
    /\ box.west < point[2] /\ point[2] <= box.east - CellSize(LookupZoom)

\* A subscription and its snapshot leave no gap: once nothing is on its way, a
\* full map shows the last published fix of everyone well inside its box, in whichever
\* process they are.  Two cases are excepted: a snapshot that failed, and one
\* that was overtaken by a newer fix while it was being collected and has
\* put the map back.
MapFresh ==
    \A v \in maps \ late, u \in Tokens :
        /\ Still(u, v)
        /\ Regular(v)
        /\ published[u] # NoFix /\ geo[u] = published[u]
        /\ WellInside(geo[u].at, subs[v].box)
        => shown[v][u] = geo[u].n

\* A counter that never expires would refuse a user for good: until Redis fails, one
\* without an expiry has just been created, and its coroutine is at the EXPIRE.
CounterExpires ==
    \A u \in Tokens : counter[u] > 0 =>
        u \in expiring \/ (pc[u] = "counted" /\ hit[u] = 1) \/ faults > 0

\* A user whose fixes are being refused is let through again, unless an error of
\* Redis has come between INCR and EXPIRE: then the key never expires.
LimitedRecovers ==
    \A u \in Tokens : counter[u] > Limit ~> (counter[u] = 0 \/ faults > 0)

\* Whoever is connected where: a radar that never subscribed a viewport never
\* goes back to an older fix and never shows one before it was sent.
Radars == INSTANCE LossyFifo WITH
    Senders <- Tokens,
    Readers <- Tokens,
    sent <- [u \in Tokens |-> geo[u].n],
    seen <- [v \in Tokens |-> IF v \in maps THEN Unseen ELSE shown[v]]
NeverBack == Radars!Spec
================================================================================
