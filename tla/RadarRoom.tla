------------------------------- MODULE RadarRoom -------------------------------
(***************************************************************************)
(* WebSocketService.handle_connection and _handle_location of one backend  *)
(* process, for one session (services/websocket_service.py), together with *)
(* the parts of Redis they touch and the Redis listener task that forwards *)
(* published locations to viewport subscribers.                            *)
(*                                                                         *)
(* Each connection is an asyncio coroutine.  A coroutine runs alone until  *)
(* it awaits a Redis command or a send that may suspend; then any other    *)
(* coroutine may run.  So a step here is one Redis command taking effect,  *)
(* one local segment between two awaits, or one send to one socket.        *)
(*                                                                         *)
(* Chat is another component: only its failure, which ends the connection, *)
(* is modelled here (Raise).  Cell geometry is abstracted: any subset of   *)
(* the subscribed sockets may cover a point.                               *)
(*                                                                         *)
(* A user's app has one radar, which all its sockets feed and which stays  *)
(* when they go (RadarBlipsNotifier of the app's radar_providers.dart).    *)
(* The radar here shows peers because of frames; the list of members that  *)
(* the app also fetches by HTTP is left out.                               *)
(***************************************************************************)
EXTENDS ConnectionManager, Naturals, Sequences

CONSTANTS
    Kinds,      \* the kinds of frames clients send
    MaxFrames,  \* frames the clients send in all
    MaxFaults   \* Redis commands that raise plus process restarts

FrameKinds == {"LOCATION_UPDATE", "VIEWPORT_SUBSCRIBE", "VIEWPORT_UNSUBSCRIBE", "bad"}

ASSUME RoomAssumption ==
    /\ Kinds \subseteq FrameKinds
    /\ MaxFrames \in Nat
    /\ MaxFaults \in Nat

VARIABLES
    session,    \* Redis: the session hash exists
    members,    \* Redis: session:{id}:members
    locations,  \* Redis: who has an entry in session:{id}:locations
    viewport,   \* ViewportService._sessions_tokens: the socket subscribed per token
    pc,         \* where each connection's coroutine is
    todo,       \* the sockets its current _send_room has still to reach
    open,       \* the client's end of the socket is up
    frames,     \* frames the clients may still send
    blips,      \* the peers the radar of each user's app shows
    wire,       \* LOCATION_UPDATEs published to Redis, by sender
    listener,   \* the Redis listener task: the sender it forwards, to whom
    watched,    \* history: the users that ever subscribed a viewport
    carried,    \* history: the peers that were on the radar when a connection
                \* joined the room, and that the app has not heard of since
    faults      \* history: faults so far

redis == <<session, members, locations>>
vars == <<room, tokenMap, session, members, locations, viewport, pc, todo,
          open, frames, blips, wire, listener, watched, carried, faults>>
radar == <<blips, carried>>

\* Connected: from connections.connect to connections.disconnect.
Connected == {"announce", "serve", "stored", "relay", "published", "forward"}
\* The finally block, before its last broadcast is prepared.
Leaving == {"left", "memberRemoved", "locationRemoved"}
\* "rejected": refused, nothing registered.  "aborted": the coroutine died in
\* its finally block, or with its process.  "closed": it ran to its end.
Final == {"rejected", "aborted", "closed"}
Pc == {"idle", "checked", "added", "farewell"} \cup Connected \cup Leaving \cup Final

Init ==
    /\ RegistryInit
    /\ session = TRUE
    /\ members = {}
    /\ locations = {}
    /\ viewport = [u \in Users |-> None]
    /\ pc = [c \in Conns |-> "idle"]
    /\ todo = [c \in Conns |-> {}]
    /\ open = [c \in Conns |-> FALSE]
    /\ frames = MaxFrames
    /\ blips = [u \in Users |-> {}]
    /\ wire = <<>>
    /\ listener = [about |-> NoToken, to |-> {}]
    /\ watched = {}
    /\ carried = [c \in Conns |-> {}]
    /\ faults = 0

--------------------------------------------------------------------------------
(* Pieces of actions.                                                      *)

Goto(c, label) == pc' = [pc EXCEPT ![c] = label]

\* A Redis command raises.  One that writes may have been executed all the same,
\* its reply lost.
Fault == faults < MaxFaults /\ faults' = faults + 1

\* The frame about user u that coroutine c is sending, by the stage c is in.
FrameOf(c) ==
    CASE pc[c] = "announce" -> "USER_CONNECTED"
      [] pc[c] = "farewell" -> "USER_DISCONNECTED"
      [] OTHER -> "LOCATION_UPDATE"

\* The app at the socket d handles a frame about u.  A send to a socket that is
\* down raises, and the exception is swallowed.
Deliver(d, type, u) ==
    LET me == UserOf[d]
        heard == open[d] /\ type # "USER_CONNECTED"
    IN  /\ blips' = [blips EXCEPT ![me] = IF ~heard THEN @
                                          ELSE IF type = "USER_DISCONNECTED" THEN @ \ {u}
                                          ELSE @ \cup ({u} \ {me})]
        /\ carried' = [c \in Conns |-> IF heard /\ UserOf[c] = me THEN carried[c] \ {u}
                                       ELSE carried[c]]

\* The sockets of the viewport subscribers.
Watchers == {viewport[u] : u \in Users} \ {None}

\* Coroutine c has still to reach the sockets in to.  When none is left of the
\* announcement or of the last copy of a location, it is back at receive_text
\* before anything else runs.
Broadcast(c, stage, to) ==
    /\ todo' = [todo EXCEPT ![c] = to]
    /\ Goto(c, IF to = {} /\ stage \in {"announce", "forward"} THEN "serve" ELSE stage)

\* The client has sent a frame of this kind, perhaps just before it went away,
\* and the coroutine reads it.
ReadFrame(c, kind) ==
    /\ pc[c] = "serve"
    /\ kind \in Kinds
    /\ frames > 0
    /\ frames' = frames - 1

\* Leaving the receive loop runs the finally block, whose first call removes
\* the connection from the registry before the coroutine can be suspended.
EnterFinally(c) ==
    /\ Disconnect(c)
    /\ Goto(c, "left")

--------------------------------------------------------------------------------
(* Connecting.                                                             *)

\* The session lookup.  A Redis error reads as an empty hash, so it refuses
\* the client exactly as a missing session does; so does an empty token.
CheckSession(c) ==
    /\ pc[c] = "idle"
    /\ \/ /\ session /\ UserOf[c] # NoToken
          /\ Goto(c, "checked")
          /\ open' = [open EXCEPT ![c] = TRUE]
          /\ UNCHANGED faults
       \/ /\ ~session \/ UserOf[c] = NoToken
          /\ Goto(c, "rejected")
          /\ UNCHANGED <<open, faults>>
       \/ /\ Fault
          /\ Goto(c, "rejected")
          /\ UNCHANGED open
    /\ UNCHANGED <<registry, redis, viewport, todo, frames, radar, wire, listener, watched>>

\* A slip that PresentUnlessTwinLeft catches: only the join route adds members.
AddMemberSkipped(c) ==
    /\ pc[c] = "checked"
    /\ Goto(c, "added")
    /\ UNCHANGED <<registry, redis, viewport, todo, open, frames, radar,
                   wire, listener, watched, faults>>

\* accept(), then SADD of the member.  The session is not looked up again.
\* If either raises, the coroutine ends before the try block.
AddMember(c) ==
    /\ pc[c] = "checked"
    /\ \/ /\ Goto(c, "added")
          /\ members' = members \cup {UserOf[c]}
          /\ UNCHANGED <<open, faults>>
       \/ /\ \/ Fault /\ members' \in {members, members \cup {UserOf[c]}}
             \/ ~open[c] /\ UNCHANGED <<members, faults>>
          /\ Goto(c, "rejected")
          /\ open' = [open EXCEPT ![c] = FALSE]
    /\ UNCHANGED <<registry, session, locations, viewport, todo, frames, radar,
                   wire, listener, watched>>

\* connections.connect, then the snapshot for the USER_CONNECTED broadcast,
\* which excludes the new socket.
Register(c) ==
    /\ pc[c] = "added"
    /\ Connect(c)
    /\ Broadcast(c, "announce", room \ {c})
    /\ carried' = [carried EXCEPT ![c] = blips[UserOf[c]]]
    /\ UNCHANGED <<redis, viewport, open, frames, blips, wire, listener, watched, faults>>

\* A slip that DroppedEnds catches: a dead socket is waited for.
SendOrWait(c) ==
    /\ \E d \in todo[c] :
          /\ open[d]
          /\ Deliver(d, FrameOf(c), UserOf[c])
          /\ Broadcast(c, pc[c], todo[c] \ {d})
    /\ UNCHANGED <<registry, redis, viewport, open, frames, wire, listener, watched, faults>>

\* One send of the broadcast c is in, to any socket of its snapshot.
Send(c) ==
    /\ \E d \in todo[c] :
          /\ Deliver(d, FrameOf(c), UserOf[c])
          /\ Broadcast(c, pc[c], todo[c] \ {d})
    /\ UNCHANGED <<registry, redis, viewport, open, frames, wire, listener, watched, faults>>

--------------------------------------------------------------------------------
(* Frames from the client.                                                 *)

\* LOCATION_UPDATE: GEOADD, then EXPIRE of the key.  When either raises, so does
\* the handler, with or without the location stored.
ReceiveLocation(c) ==
    /\ ReadFrame(c, "LOCATION_UPDATE")
    /\ \/ /\ locations' = locations \cup {UserOf[c]}
          /\ Goto(c, "stored")
          /\ UNCHANGED <<registry, faults>>
       \/ /\ Fault
          /\ EnterFinally(c)
          /\ locations' \in {locations, locations \cup {UserOf[c]}}
    /\ UNCHANGED <<session, members, viewport, todo, open, radar, wire, listener, watched>>

\* The rate limiter: over the limit, the update goes no further.  Otherwise, and
\* when the limiter itself fails, the room is told, the sender included.
Limit(c) ==
    /\ pc[c] = "stored"
    /\ \/ Goto(c, "serve") /\ UNCHANGED todo
       \/ Broadcast(c, "relay", RoomConnections)
    /\ UNCHANGED <<registry, redis, viewport, open, frames, radar, wire, listener, watched, faults>>

\* PUBLISH to the session's channel; an error is logged and ignored.
Publish(c) ==
    /\ pc[c] = "relay" /\ todo[c] = {}
    /\ \/ wire' = Append(wire, UserOf[c]) /\ UNCHANGED faults
       \/ Fault /\ wire' \in {wire, Append(wire, UserOf[c])}
    /\ Goto(c, "published")
    /\ UNCHANGED <<registry, redis, viewport, todo, open, frames, radar, listener, watched>>

\* The local viewport subscribers whose cells cover the point get it again.
ForwardLocal(c) ==
    /\ pc[c] = "published"
    /\ \E covering \in SUBSET Watchers : Broadcast(c, "forward", covering)
    /\ UNCHANGED <<registry, redis, viewport, open, frames, radar, wire, listener, watched, faults>>

\* VIEWPORT_SUBSCRIBE.  The snapshot sent back only reads Redis, and the radar
\* ignores it.
ReceiveSubscribe(c) ==
    /\ ReadFrame(c, "VIEWPORT_SUBSCRIBE")
    /\ viewport' = [viewport EXCEPT ![UserOf[c]] = c]
    /\ watched' = watched \cup {UserOf[c]}
    /\ UNCHANGED <<registry, redis, pc, todo, open, radar, wire, listener, faults>>

\* VIEWPORT_UNSUBSCRIBE.
ReceiveUnsubscribe(c) ==
    /\ ReadFrame(c, "VIEWPORT_UNSUBSCRIBE")
    /\ viewport' = [viewport EXCEPT ![UserOf[c]] = None]
    /\ UNCHANGED <<registry, redis, pc, todo, open, radar, wire, listener, watched, faults>>

\* A frame that is not JSON or not an envelope, or a chat message that Redis
\* does not store: the exception leaves the loop while the socket is up.
Raise(c) ==
    /\ ReadFrame(c, "bad")
    /\ EnterFinally(c)
    /\ UNCHANGED <<redis, viewport, todo, open, radar, wire, listener, watched, faults>>

--------------------------------------------------------------------------------
(* Disconnecting.                                                          *)

\* receive_text raises WebSocketDisconnect.
ReceiveDisconnect(c) ==
    /\ pc[c] = "serve"
    /\ ~open[c]
    /\ EnterFinally(c)
    /\ UNCHANGED <<redis, viewport, todo, open, frames, radar, wire, listener, watched, faults>>

\* An error in the finally block skips what is left of it; the server then
\* drops the socket.
Abort(c) ==
    /\ Fault
    /\ Goto(c, "aborted")
    /\ open' = [open EXCEPT ![c] = FALSE]

\* SREM of the member.
RemoveMember(c) ==
    /\ pc[c] = "left"
    /\ \/ /\ Goto(c, "memberRemoved")
          /\ members' = members \ {UserOf[c]}
          /\ UNCHANGED <<open, faults>>
       \/ Abort(c) /\ members' \in {members, members \ {UserOf[c]}}
    /\ UNCHANGED <<registry, session, locations, viewport, todo, frames, radar,
                   wire, listener, watched>>

\* A slip that LocationOwned catches: the location is left to the expiry.
RemoveLocationSkipped(c) ==
    /\ pc[c] = "memberRemoved"
    /\ Goto(c, "locationRemoved")
    /\ UNCHANGED <<registry, redis, viewport, todo, open, frames, radar,
                   wire, listener, watched, faults>>

\* ZREM of the location.
RemoveLocation(c) ==
    /\ pc[c] = "memberRemoved"
    /\ \/ /\ Goto(c, "locationRemoved")
          /\ locations' = locations \ {UserOf[c]}
          /\ UNCHANGED <<open, faults>>
       \/ Abort(c) /\ locations' \in {locations, locations \ {UserOf[c]}}
    /\ UNCHANGED <<registry, session, members, viewport, todo, frames, radar,
                   wire, listener, watched>>

\* A slip that NoGhost and GhostOrigins catch: nobody is told.
FarewellSilent(c) ==
    /\ pc[c] = "locationRemoved"
    /\ viewport' = [viewport EXCEPT ![UserOf[c]] = None]
    /\ Broadcast(c, "farewell", {})
    /\ UNCHANGED <<registry, redis, open, frames, radar, wire, listener, watched, faults>>

\* A slip that ViewportReleased catches: the subscription is kept.
FarewellKeepsViewport(c) ==
    /\ pc[c] = "locationRemoved"
    /\ Broadcast(c, "farewell", RoomConnections)
    /\ UNCHANGED <<registry, redis, viewport, open, frames, radar, wire, listener,
                   watched, faults>>

\* viewport.unsubscribe, then the snapshot for the USER_DISCONNECTED broadcast.
Farewell(c) ==
    /\ pc[c] = "locationRemoved"
    /\ viewport' = [viewport EXCEPT ![UserOf[c]] = None]
    /\ Broadcast(c, "farewell", RoomConnections)
    /\ UNCHANGED <<registry, redis, open, frames, radar, wire, listener, watched, faults>>

\* The coroutine returns, and the server drops the socket if it is still up.
Finish(c) ==
    /\ pc[c] = "farewell" /\ todo[c] = {}
    /\ Goto(c, "closed")
    /\ open' = [open EXCEPT ![c] = FALSE]
    /\ UNCHANGED <<registry, redis, viewport, todo, frames, radar, wire, listener, watched, faults>>

--------------------------------------------------------------------------------
(* The Redis listener task.                                                *)

\* The task has u's update still to send to the sockets in to, or waits.
Forwarding(u, to) == listener' = [about |-> IF to = {} THEN NoToken ELSE u, to |-> to]

\* It takes the next published update, its own process's included, and looks up
\* the viewport subscribers at that point.
ListenerTake ==
    /\ wire # <<>> /\ listener.to = {}
    /\ wire' = Tail(wire)
    /\ \E covering \in SUBSET Watchers : Forwarding(Head(wire), covering)
    /\ UNCHANGED <<registry, redis, viewport, pc, todo, open, frames, radar, watched, faults>>

ListenerSend ==
    /\ \E d \in listener.to :
          /\ Deliver(d, "LOCATION_UPDATE", listener.about)
          /\ Forwarding(listener.about, listener.to \ {d})
    /\ UNCHANGED <<registry, redis, viewport, pc, todo, open, frames, wire, watched, faults>>

--------------------------------------------------------------------------------
(* The environment.                                                        *)

\* The client goes away: its app closes the socket, or the network drops it.
\* Its radar keeps what it shows, also when the user leaves the session and
\* joins again.
Drop(c) ==
    /\ open[c]
    /\ open' = [open EXCEPT ![c] = FALSE]
    /\ UNCHANGED <<registry, redis, viewport, pc, todo, frames, radar, wire, listener, watched, faults>>

\* The host deletes the session or it expires: one DEL removes the session hash,
\* the members and the locations.  No socket is closed.
EndSession ==
    /\ session
    /\ session' = FALSE /\ members' = {} /\ locations' = {}
    /\ UNCHANGED <<registry, viewport, pc, todo, open, frames, radar, wire, listener, watched, faults>>

\* The backend process is killed and started again: everything in memory is
\* gone, with the coroutines; what they stored in Redis stays.
Restart ==
    /\ Fault
    /\ pc' = [c \in Conns |-> IF pc[c] \in Final \cup {"idle"} THEN pc[c] ELSE "aborted"]
    /\ room' = {}
    /\ tokenMap' = [u \in Users |-> None]
    /\ viewport' = [u \in Users |-> None]
    /\ todo' = [c \in Conns |-> {}]
    /\ open' = [c \in Conns |-> FALSE]
    /\ wire' = <<>>
    /\ Forwarding(NoToken, {})
    /\ UNCHANGED <<redis, frames, radar, watched>>

--------------------------------------------------------------------------------
\* The steps a coroutine takes without waiting for its client.
Run(c) ==
    \/ AddMember(c) \/ Register(c) \/ Send(c)
    \/ Limit(c) \/ Publish(c) \/ ForwardLocal(c)
    \/ ReceiveDisconnect(c)
    \/ RemoveMember(c) \/ RemoveLocation(c) \/ Farewell(c) \/ Finish(c)

\* The steps a client causes.
Client(c) ==
    \/ CheckSession(c) \/ Drop(c)
    \/ ReceiveLocation(c) \/ ReceiveSubscribe(c) \/ ReceiveUnsubscribe(c) \/ Raise(c)

Next ==
    \/ \E c \in Conns : Run(c) \/ Client(c)
    \/ ListenerTake \/ ListenerSend
    \/ EndSession \/ Restart

Spec == Init /\ [][Next]_vars

\* The event loop is fair to every coroutine, every Redis command and send
\* completes or raises, and nothing is assumed of clients or of the session.
FairSpec == Spec /\ \A c \in Conns : WF_vars(Run(c))

--------------------------------------------------------------------------------
(* Properties.                                                             *)

\* Every variable holds a value of its kind.
TypeOK ==
    /\ RegistryTypeOK
    /\ session \in BOOLEAN
    /\ members \subseteq Users
    /\ locations \subseteq Users
    /\ viewport \in [Users -> Conns \cup {None}]
    /\ pc \in [Conns -> Pc]
    /\ todo \in [Conns -> SUBSET Conns]
    /\ open \in [Conns -> BOOLEAN]
    /\ frames \in 0..MaxFrames
    /\ blips \in [Users -> SUBSET Users]
    /\ carried \in [Conns -> SUBSET Users]
    /\ watched \subseteq Users
    /\ wire \in Seq(Users)
    /\ listener \in [about : Users \cup {NoToken}, to : SUBSET Conns]
    /\ faults \in 0..MaxFaults

\* A DM is never routed to a socket that has left, or to somebody else's: an
\* entry of the token map is a connection of that token, still in the room, and
\* the room is exactly the connections between connect and disconnect.  It
\* survives reconnections that overlap, errors and restarts.
RouteSound ==
    /\ \A c \in Conns : c \in room <=> pc[c] \in Connected
    /\ \A u \in Users : tokenMap[u] # None =>
          tokenMap[u] \in room /\ UserOf[tokenMap[u]] = u

\* A connected client whose token no other connection has registered or left
\* with is reachable by DM.
ServedAlone ==
    \A c \in Conns :
        /\ pc[c] \in Connected
        /\ \A d \in Conns \ {c} : UserOf[d] = UserOf[c] =>
              pc[d] \in {"idle", "checked", "added", "rejected"}
        => tokenMap[UserOf[c]] = c

\* A connected client loses its DM route only in a step in which another
\* connection of its token registers or leaves.
RouteTakenByTwin ==
    [][\A c \in room \cap room' :
          tokenMap[UserOf[c]] = c /\ tokenMap'[UserOf[c]] # c =>
              \E d \in Conns \ {c} : UserOf[d] = UserOf[c] /\ (d \in room <=> d \notin room')]_vars

\* The stages of a connection that has not removed its location: it has that
\* still to do, or it was aborted and never will.
MayHold == Connected \cup {"left", "memberRemoved", "aborted"}

\* Nobody who is gone stays on the map: a location in Redis has a connection of
\* its owner that will still remove it.  The one exception is a connection of
\* that owner whose clean-up a Redis error or a killed process cut short; what
\* it left stays until the owner comes back or the 12 h expiry.
LocationOwned ==
    \A u \in locations : \E c \in Conns : UserOf[c] = u /\ pc[c] \in MayHold

\* c will still be told that u went away: by a connection of u that has not yet
\* snapshot the room for its farewell, or whose farewell has c still to reach.
WillHearFarewell(c, u) ==
    \E d \in Conns : UserOf[d] = u /\
        \/ pc[d] \in Connected \cup Leaving
        \/ pc[d] = "farewell" /\ c \in todo[d]

\* No ghosts: while a client is in the room, a peer on its radar is going to say
\* farewell to it, unless an error cut a clean-up of that peer short.  The radar
\* outlives the socket, so a peer it showed before the client joined the room is
\* excepted until the app hears of that peer again: the peer may have left while the
\* app was away.  The listener task is another sender, unordered with the peer's own
\* coroutine, so the app of a user who subscribed a viewport is excepted too.
NoGhost ==
    \A c \in room : open[c] /\ UserOf[c] \notin watched =>
        \A u \in blips[UserOf[c]] \ carried[c] :
            \/ WillHearFarewell(c, u)
            \/ \E d \in Conns : UserOf[d] = u /\ pc[d] = "aborted"

\* The radar of c's app shows a peer who is gone for good: c is in the room and will
\* not be told, and no clean-up of the peer was cut short.
Ghost(c, u) ==
    /\ c \in room /\ open[c] /\ u \in blips[UserOf[c]]
    /\ ~WillHearFarewell(c, u)
    /\ \A d \in Conns : UserOf[d] = u => pc[d] # "aborted"

\* For every app, with a viewport subscription or without: a frame makes a ghost only
\* when the listener task delivers an update of that peer late.  The one other origin
\* is c joining the room when the app already shows the peer.  No order of the
\* coroutines makes one, however many connections the app and the peer have.
GhostOrigins ==
    [][\A c \in room' : \A u \in blips'[UserOf[c]] :
          Ghost(c, u)' /\ ~Ghost(c, u) =>
              \/ c \notin room /\ u \in blips[UserOf[c]]
              \/ /\ listener.about = u
                 /\ \E d \in listener.to \ listener'.to : UserOf[d] = UserOf[c]]_vars

\* A connection of c's user, not c itself, has come as far as to remove the member,
\* or the location, or may have before it was cut short: what it removes is the user's,
\* not its own.
TwinRemoved(c, stages) ==
    \E d \in Conns \ {c} : UserOf[d] = UserOf[c] /\ pc[d] \in stages

\* While its session lives, a client that is being served is a member, and one
\* whose fix is being relayed is on the map, unless the clean-up of another connection
\* of the same token has come that far, or an error cut it short, the removal executed
\* or not: nothing else takes away what a client was given.
PresentUnlessTwinLeft ==
    session => \A c \in Conns :
        /\ pc[c] \in Connected =>
              \/ UserOf[c] \in members
              \/ TwinRemoved(c, {"memberRemoved", "locationRemoved", "farewell",
                                 "closed", "aborted"})
        /\ pc[c] \in {"stored", "relay", "published", "forward"} =>
              \/ UserOf[c] \in locations
              \/ TwinRemoved(c, {"locationRemoved", "farewell", "closed", "aborted"})

\* The sockets the viewport service holds are of connections that have their
\* unsubscribe still to come; only a clean-up that was cut short leaks one.
ViewportReleased ==
    \A u \in Users : viewport[u] # None =>
        /\ UserOf[viewport[u]] = u
        /\ pc[viewport[u]] \in MayHold \cup {"locationRemoved"}

\* A connection whose client is gone always runs to its end, whatever it was
\* doing and whoever else is sending.
DroppedEnds ==
    \A c \in Conns : (pc[c] \in Connected /\ ~open[c]) ~> (pc[c] \in Final)

(* What the code's comments say, and the code does not do.                 *)

\* "Re-add user to session members on every WS connection (handles rejoins)":
\* a client that is being served is a member of its session.
ConnectedIsMember ==
    \A c \in Conns : pc[c] = "serve" /\ session => UserOf[c] \in members
================================================================================
