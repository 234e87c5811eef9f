--------------------------- MODULE ConnectionManager ---------------------------
(***************************************************************************)
(* The in-memory registry of one backend process, for one session          *)
(* (services/connection_manager.py).  A connection is one accepted         *)
(* WebSocket; UserOf gives the ?token= it presented, which the backend     *)
(* uses as the user's identity.  Several connections may present the same  *)
(* token: a phone that lost its network and dials again, or two providers  *)
(* of one app that each open a socket.                                     *)
(*                                                                         *)
(* Every method holds an asyncio.Lock whose critical section never awaits, *)
(* so the lock is never contended and each method is one atomic step.      *)
(***************************************************************************)
EXTENDS FiniteSets

CONSTANTS
    Users,      \* tokens
    Conns,      \* WebSocket connections, each used at most once
    UserOf,     \* the token each connection presents (NoToken: none)
    NoToken,    \* the empty ?token= parameter
    None        \* "no connection"

ASSUME ConnAssumption ==
    /\ UserOf \in [Conns -> Users \cup {NoToken}]
    /\ NoToken \notin Users
    /\ None \notin Conns

VARIABLES
    room,       \* _connections[session]: the sockets a broadcast goes to
    tokenMap    \* _token_map[session]: the socket a DM to a user goes to

registry == <<room, tokenMap>>

\* room and the token map of a session nobody is connected to.
RegistryInit ==
    /\ room = {}
    /\ tokenMap = [u \in Users |-> None]

\* A slip that ServedAlone catches: the token is not tracked.
ConnectUntracked(c) == room' = room \cup {c} /\ UNCHANGED tokenMap

\* A slip that TypeOK catches: the token is tracked in place of the socket.
ConnectToken(c) ==
    /\ room' = room \cup {c}
    /\ tokenMap' = [tokenMap EXCEPT ![UserOf[c]] = UserOf[c]]

\* The latest connection of a token takes over its entry.
Connect(c) ==
    /\ room' = room \cup {c}
    /\ tokenMap' = [tokenMap EXCEPT ![UserOf[c]] = c]

\* A slip that RouteSound catches: the token's entry is left behind.
DisconnectKeepsToken(c) == room' = room \ {c} /\ UNCHANGED tokenMap

\* A slip that RouteTakenByTwin catches: the session's whole map is dropped.
DisconnectClearsTokens(c) ==
    /\ room' = room \ {c}
    /\ tokenMap' = [u \in Users |-> None]

\* The entry of the token is popped, whichever socket it holds.
Disconnect(c) ==
    /\ room' = room \ {c}
    /\ tokenMap' = [tokenMap EXCEPT ![UserOf[c]] = None]

\* list(...) of the room: a snapshot, later changes do not affect it.
RoomConnections == room

RegistryTypeOK ==
    /\ room \subseteq Conns
    /\ tokenMap \in [Users -> Conns \cup {None}]
================================================================================
