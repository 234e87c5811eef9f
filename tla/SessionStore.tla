------------------------------ MODULE SessionStore ------------------------------
(***************************************************************************)
(* The Redis keys of one session and everything that reads and writes      *)
(* them concurrently: the HTTP routes (api/v1/routes/sessions.py), the     *)
(* Redis commands of each user's WebSocket coroutine                       *)
(* (services/websocket_service.py), and the cleanup cascade that DELETE    *)
(* and the key-expiry listener run (repositories/session_repository.py,    *)
(* infrastructure/redis_client.py).                                        *)
(*                                                                         *)
(* A step is one Redis command or MULTI pipeline.  A key is the set of     *)
(* users it holds something of: the members, who has a location, who wrote *)
(* in a chat; the session hash holds its admin.  An empty key is absent,   *)
(* as in Redis.  Time is a countdown per key: TTL ticks are 12 hours.      *)
(*                                                                         *)
(* RadarRoom models overlapping connections of one user and the process's  *)
(* memory; here a user has one connection at a time.                       *)
(***************************************************************************)
EXTENDS Naturals, FiniteSets

CONSTANTS
    Guests,     \* users who may join
    Host,       \* the admin, who creates the session
    TTL,        \* ticks in SESSION_TTL_SECONDS
    MaxOps,     \* requests and frames the users send, in all
    MaxFaults   \* Redis commands that raise, lost expiry events, restarts

ASSUME StoreAssumption ==
    /\ Host \notin Guests
    /\ TTL \in Nat \ {0}
    /\ MaxOps \in Nat
    /\ MaxFaults \in Nat

Users == Guests \cup {Host}
Keys == {"session", "members", "locations", "chat", "dm"}
\* The keys the cascade names without searching.
KnownKeys == {"session", "members", "locations", "chat"}
NoExpiry == 0

VARIABLES
    data,       \* Redis: the users each key holds something of
    ttl,        \* Redis: ticks left of each key, NoExpiry if it has no TTL
    profiles,   \* Redis: the users with a user:{id} hash
    create,     \* where POST /sessions is; "failed": nobody learns the session id
    conn,       \* where each user's WebSocket coroutine is
    join,       \* where each user's POST /sessions/{id}/join is
    kick,       \* where DELETE /sessions/{id}/members/{user} is, and whose
    cascade,    \* where DELETE /sessions/{id} and the expiry listener are
    told,       \* history: the users whose client got SESSION_ENDED
    kicked,     \* history: users kicked and not back since
    ops,        \* requests and frames sent so far
    faults      \* faults so far

redis == <<data, ttl, profiles>>
history == <<told, kicked>>
vars == <<data, ttl, profiles, create, conn, join, kick, cascade, told, kicked, ops, faults>>

ConnPc == {"out", "checked", "in", "geo", "leaving", "left"}
CascadePc == {"idle", "checked", "exact", "scan", "found", "done", "failed"}

Init ==
    /\ data = [k \in Keys |-> {}]
    /\ ttl = [k \in Keys |-> NoExpiry]
    /\ profiles = {}
    /\ create = "idle"
    /\ conn = [u \in Users |-> "out"]
    /\ join = [u \in Users |-> "idle"]
    /\ kick = [at |-> "idle", who |-> Host]
    /\ cascade = [t \in {"delete", "expiry"} |-> "idle"]
    /\ told = {}
    /\ kicked = {}
    /\ ops = 0
    /\ faults = 0

--------------------------------------------------------------------------------
(* Redis commands.                                                         *)

Exists(k) == data[k] # {}

\* SADD, GEOADD, RPUSH, HSET: a new key has no TTL, an old one keeps its own.
Put(k, u) ==
    /\ data' = [data EXCEPT ![k] = @ \cup {u}]
    /\ UNCHANGED ttl

\* The same and EXPIRE, in one pipeline.
PutAndExpire(k, u) ==
    /\ data' = [data EXCEPT ![k] = @ \cup {u}]
    /\ ttl' = [ttl EXCEPT ![k] = TTL]

\* EXPIRE: nothing happens to an absent key.
Expire(k) ==
    /\ ttl' = IF Exists(k) THEN [ttl EXCEPT ![k] = TTL] ELSE ttl
    /\ UNCHANGED data

\* A slip that TypeOK catches: the TTL survives the key.
TakeKeepsTTL(k, u) == data' = [data EXCEPT ![k] = @ \ {u}] /\ UNCHANGED ttl

\* SREM, ZREM: a key is deleted with its last element.
Take(k, u) ==
    /\ data' = [data EXCEPT ![k] = @ \ {u}]
    /\ ttl' = IF data[k] \subseteq {u} THEN [ttl EXCEPT ![k] = NoExpiry] ELSE ttl

\* DEL.
Delete(ks) ==
    /\ data' = [k \in Keys |-> IF k \in ks THEN {} ELSE data[k]]
    /\ ttl' = [k \in Keys |-> IF k \in ks THEN NoExpiry ELSE ttl[k]]

\* A Redis command raises.  One that writes may have been executed all the same,
\* its reply lost.
Fault == faults < MaxFaults /\ faults' = faults + 1

\* The member is added, and the key's expiry renewed.
Admit(u) ==
    /\ PutAndExpire("members", u)
    /\ kicked' = kicked \ {u}

\* A user's app sends a request or a frame.
Ask == ops < MaxOps /\ ops' = ops + 1

--------------------------------------------------------------------------------
(* POST /sessions.                                                         *)

\* One pipeline, whose EXPIRE of the members key comes before its SADD.  (When it
\* raises without effect, there is no session.)
CreateSession ==
    /\ create = "idle"
    /\ \/ create' = "created" /\ UNCHANGED faults
       \/ create' = "failed" /\ Fault
    /\ data' = [data EXCEPT !["session"] = {Host}, !["members"] = {Host}]
    /\ ttl' = [ttl EXCEPT !["session"] = TTL]
    /\ UNCHANGED <<profiles, conn, join, kick, cascade, history, ops>>

\* The admin's profile; the response then tells the host the session id.
CreateProfile ==
    /\ create = "created"
    /\ \/ create' = "done" /\ profiles' = profiles \cup {Host} /\ UNCHANGED faults
       \/ create' = "failed" /\ Fault /\ profiles' \in {profiles, profiles \cup {Host}}
    /\ UNCHANGED <<data, ttl, conn, join, kick, cascade, history, ops>>

--------------------------------------------------------------------------------
(* POST /sessions/{id}/join.                                               *)

JoinCheck(u) ==
    /\ create = "done" /\ join[u] = "idle" /\ Ask
    /\ Exists("session")
    /\ join' = [join EXCEPT ![u] = "checked"]
    /\ UNCHANGED <<redis, create, conn, kick, cascade, history, faults>>

\* The session is not looked up again.
JoinMember(u) ==
    /\ join[u] = "checked"
    /\ \/ join' = [join EXCEPT ![u] = "added"] /\ Admit(u) /\ UNCHANGED faults
       \/ /\ join' = [join EXCEPT ![u] = "idle"] /\ Fault
          /\ Admit(u) \/ UNCHANGED <<data, ttl, kicked>>
    /\ UNCHANGED <<profiles, create, conn, kick, cascade, told, ops>>

JoinProfile(u) ==
    /\ join[u] = "added"
    /\ join' = [join EXCEPT ![u] = "idle"]
    /\ \/ profiles' = profiles \cup {u} /\ UNCHANGED faults
       \/ Fault /\ profiles' \in {profiles, profiles \cup {u}}
    /\ UNCHANGED <<data, ttl, create, conn, kick, cascade, history, ops>>

--------------------------------------------------------------------------------
(* The WebSocket coroutine of a user.                                      *)

GotoConn(u, label) == conn' = [conn EXCEPT ![u] = label]

WsCheck(u) ==
    /\ create = "done" /\ conn[u] = "out" /\ Ask
    /\ Exists("session")
    /\ GotoConn(u, "checked")
    /\ UNCHANGED <<redis, create, join, kick, cascade, history, faults>>

\* The session is not looked up again, here or for any later frame.
WsAddMember(u) ==
    /\ conn[u] = "checked"
    /\ \/ GotoConn(u, "in") /\ Admit(u) /\ UNCHANGED faults
       \/ GotoConn(u, "out") /\ Fault /\ (Admit(u) \/ UNCHANGED <<data, ttl, kicked>>)
    /\ UNCHANGED <<profiles, create, join, kick, cascade, told, ops>>

\* add_location is two commands: GEOADD, then EXPIRE.  An error leaves the
\* receive loop, and the finally block runs.
WsGeoAdd(u) ==
    /\ conn[u] = "in" /\ Ask
    /\ \/ GotoConn(u, "geo") /\ Put("locations", u) /\ UNCHANGED faults
       \/ /\ GotoConn(u, "leaving") /\ Fault
          /\ Put("locations", u) \/ UNCHANGED <<data, ttl>>
    /\ UNCHANGED <<profiles, create, join, kick, cascade, history>>

\* A slip that EveryKeyExpires catches: no EXPIRE.
WsGeoNoExpire(u) ==
    /\ conn[u] = "geo"
    /\ GotoConn(u, "in")
    /\ UNCHANGED <<redis, create, join, kick, cascade, history, ops, faults>>

WsGeoExpire(u) ==
    /\ conn[u] = "geo"
    /\ \/ GotoConn(u, "in") /\ Expire("locations") /\ UNCHANGED faults
       \/ /\ GotoConn(u, "leaving") /\ Fault
          /\ Expire("locations") \/ UNCHANGED <<data, ttl>>
    /\ UNCHANGED <<profiles, create, join, kick, cascade, history, ops>>

\* A chat message: RPUSH, LTRIM and EXPIRE in one pipeline.
WsChat(u) ==
    /\ conn[u] = "in" /\ Ask
    /\ \E k \in {"chat", "dm"} :
          \/ PutAndExpire(k, u) /\ UNCHANGED <<conn, faults>>
          \/ /\ GotoConn(u, "leaving") /\ Fault
             /\ PutAndExpire(k, u) \/ UNCHANGED <<data, ttl>>
    /\ UNCHANGED <<profiles, create, join, kick, cascade, history>>

\* The socket closes, at the client's wish or by an error.
WsLeave(u) ==
    /\ conn[u] = "in"
    /\ GotoConn(u, "leaving")
    /\ UNCHANGED <<redis, create, join, kick, cascade, history, ops, faults>>

\* The finally block; an error in its first command skips the second.
WsRemoveMember(u) ==
    /\ conn[u] = "leaving"
    /\ \/ GotoConn(u, "left") /\ Take("members", u) /\ UNCHANGED faults
       \/ GotoConn(u, "out") /\ Fault /\ (Take("members", u) \/ UNCHANGED <<data, ttl>>)
    /\ UNCHANGED <<profiles, create, join, kick, cascade, history, ops>>

\* A slip that KickSticks catches: the location is not removed on leaving.
WsRemoveNoLocation(u) ==
    /\ conn[u] = "left"
    /\ GotoConn(u, "out")
    /\ UNCHANGED <<redis, create, join, kick, cascade, history, ops, faults>>

WsRemoveLocation(u) ==
    /\ conn[u] = "left"
    /\ GotoConn(u, "out")
    /\ \/ Take("locations", u) /\ UNCHANGED faults
       \/ Fault /\ (Take("locations", u) \/ UNCHANGED <<data, ttl>>)
    /\ UNCHANGED <<profiles, create, join, kick, cascade, history, ops>>

--------------------------------------------------------------------------------
(* DELETE /sessions/{id}/members/{user}.                                   *)

\* The admin's request; nothing tells the member's socket.
KickCheck(u) ==
    /\ create = "done" /\ kick.at = "idle" /\ Ask
    /\ Exists("session")
    /\ kick' = [at |-> "checked", who |-> u]
    /\ UNCHANGED <<redis, create, conn, join, cascade, history, faults>>

KickMember ==
    /\ kick.at = "checked"
    /\ \/ /\ kick' = [kick EXCEPT !.at = "removed"]
          /\ Take("members", kick.who)
          /\ kicked' = kicked \cup {kick.who}
          /\ UNCHANGED faults
       \/ /\ kick' = [kick EXCEPT !.at = "idle"] /\ Fault /\ UNCHANGED kicked
          /\ Take("members", kick.who) \/ UNCHANGED <<data, ttl>>
    /\ UNCHANGED <<profiles, create, conn, join, cascade, told, ops>>

KickLocation ==
    /\ kick.at = "removed"
    /\ kick' = [kick EXCEPT !.at = "idle"]
    /\ \/ Take("locations", kick.who) /\ UNCHANGED faults
       \/ Fault /\ (Take("locations", kick.who) \/ UNCHANGED <<data, ttl>>)
    /\ UNCHANGED <<profiles, create, conn, join, cascade, history, ops>>

--------------------------------------------------------------------------------
(* DELETE /sessions/{id}, and expiry.                                      *)

GotoCascade(t, label) == cascade' = [cascade EXCEPT ![t] = label]

\* The users connected to the WebSocketService a module holds.  Sockets are
\* handled by the instance in main.py, and the routes broadcast through another
\* instance of their own, which no socket ever reaches.
RoomOf(service) ==
    IF service = "main" THEN {u \in Users : conn[u] \in {"in", "geo"}} ELSE {}

\* The admin's request.
DeleteCheck ==
    /\ create = "done" /\ cascade["delete"] = "idle" /\ Ask
    /\ Exists("session")
    /\ GotoCascade("delete", "checked")
    /\ UNCHANGED <<redis, create, conn, join, kick, history, faults>>

\* broadcast_session_ended, by the routes' own service.
DeleteBroadcast ==
    /\ cascade["delete"] = "checked"
    /\ GotoCascade("delete", "exact")
    /\ told' = told \cup RoomOf("routes")
    /\ UNCHANGED <<redis, create, conn, join, kick, kicked, ops, faults>>

\* A slip that Forgotten catches: the members key is not in the cascade.
CascadeWithoutMembers(t) ==
    /\ cascade[t] = "exact"
    /\ GotoCascade(t, "scan")
    /\ Delete({"session", "locations", "chat"})
    /\ UNCHANGED <<profiles, create, conn, join, kick, history, ops, faults>>

\* delete_session_cascade: first one DEL of the four keys with known names.
CascadeExact(t) ==
    /\ cascade[t] = "exact"
    /\ \/ GotoCascade(t, "scan") /\ Delete(KnownKeys) /\ UNCHANGED faults
       \/ GotoCascade(t, "failed") /\ Fault /\ (Delete(KnownKeys) \/ UNCHANGED <<data, ttl>>)
    /\ UNCHANGED <<profiles, create, conn, join, kick, history, ops>>

\* Then a SCAN for the DM keys, and a DEL of those it found.
CascadeScan(t) ==
    /\ cascade[t] = "scan"
    /\ \/ GotoCascade(t, IF Exists("dm") THEN "found" ELSE "done") /\ UNCHANGED faults
       \/ GotoCascade(t, "failed") /\ Fault
    /\ UNCHANGED <<redis, create, conn, join, kick, history, ops>>

CascadeDm(t) ==
    /\ cascade[t] = "found"
    /\ \/ GotoCascade(t, "done") /\ Delete({"dm"}) /\ UNCHANGED faults
       \/ GotoCascade(t, "failed") /\ Fault /\ (Delete({"dm"}) \/ UNCHANGED <<data, ttl>>)
    /\ UNCHANGED <<profiles, create, conn, join, kick, history, ops>>

--------------------------------------------------------------------------------
(* The environment.                                                        *)

Expiring == {k \in Keys : ttl[k] = 1}

\* Time passes, and keys expire.  The listener is told of the session hash's
\* expiry, unless it is not listening just then: the event is not repeated.
Tick ==
    /\ \E k \in Keys : ttl[k] # NoExpiry
    /\ data' = [k \in Keys |-> IF k \in Expiring THEN {} ELSE data[k]]
    /\ ttl' = [k \in Keys |-> IF ttl[k] = NoExpiry THEN NoExpiry ELSE ttl[k] - 1]
    /\ IF "session" \in Expiring
       THEN \/ GotoCascade("expiry", "exact") /\ UNCHANGED faults
            \/ Fault /\ UNCHANGED cascade
       ELSE UNCHANGED <<cascade, faults>>
    /\ UNCHANGED <<profiles, create, conn, join, kick, history, ops>>

\* The backend process is killed and restarted; Redis keeps what it has.
Restart ==
    /\ Fault
    /\ create' = IF create = "created" THEN "failed" ELSE create
    /\ conn' = [u \in Users |-> "out"]
    /\ join' = [u \in Users |-> "idle"]
    /\ kick' = [kick EXCEPT !.at = "idle"]
    /\ cascade' = [t \in {"delete", "expiry"} |->
                     IF cascade[t] \in {"idle", "done"} THEN cascade[t] ELSE "failed"]
    /\ UNCHANGED <<redis, history, ops>>

--------------------------------------------------------------------------------
\* What the backend does once asked.
Run ==
    \/ CreateProfile
    \/ \E u \in Users :
          \/ JoinMember(u) \/ JoinProfile(u)
          \/ WsAddMember(u) \/ WsGeoExpire(u) \/ WsRemoveMember(u) \/ WsRemoveLocation(u)
    \/ KickMember \/ KickLocation
    \/ DeleteBroadcast
    \/ \E t \in {"delete", "expiry"} : CascadeExact(t) \/ CascadeScan(t) \/ CascadeDm(t)

Requests ==
    \/ CreateSession
    \/ \E u \in Guests : JoinCheck(u) \/ KickCheck(u)
    \/ \E u \in Users : WsCheck(u) \/ WsGeoAdd(u) \/ WsChat(u) \/ WsLeave(u)
    \/ DeleteCheck

Next == Run \/ Requests \/ Tick \/ Restart

Spec == Init /\ [][Next]_vars

\* Requests under way complete, and time passes; users and faults owe nothing.
FairSpec == Spec /\ WF_vars(Run) /\ WF_vars(Tick)

--------------------------------------------------------------------------------
(* Properties.                                                             *)

\* Every variable holds a value of its kind, and an absent key has no TTL.
TypeOK ==
    /\ data \in [Keys -> SUBSET Users]
    /\ ttl \in [Keys -> 0..TTL]
    /\ \A k \in Keys : ~Exists(k) => ttl[k] = NoExpiry
    /\ profiles \subseteq Users
    /\ create \in {"idle", "created", "done", "failed"}
    /\ conn \in [Users -> ConnPc]
    /\ join \in [Users -> {"idle", "checked", "added"}]
    /\ kick \in [at : {"idle", "checked", "removed"}, who : Users]
    /\ cascade \in [{"delete", "expiry"} -> CascadePc]
    /\ told \subseteq Users
    /\ kicked \subseteq Users
    /\ ops \in 0..MaxOps
    /\ faults \in 0..MaxFaults

\* No key can outlive its session for good.  Whatever fails, the session and the
\* chats have a TTL.  As long as nothing failed, the locations have one or a
\* coroutine is about to give them one, and members without one are those of a
\* session whose end deletes them: it is still there, or the cascade of its expiry
\* has not begun.
EveryKeyExpires ==
    \A k \in Keys : Exists(k) /\ ttl[k] = NoExpiry =>
        \/ k = "locations" /\ (faults > 0 \/ \E u \in Users : conn[u] = "geo")
        \/ k = "members" /\ (faults > 0 \/ Exists("session") \/ cascade["expiry"] = "exact")

\* A kicked user who has not been let in again is no member, even if the host's
\* second removal or anything else fails.  As long as nothing failed, one who has no
\* socket left is not on the map either, however the removals by the host and by
\* the user's own coroutine interleaved.
KickSticks ==
    \A u \in kicked :
        /\ u \notin data["members"]
        /\ faults = 0 /\ conn[u] = "out" /\ kick.at = "idle" => u \notin data["locations"]

\* Ephemeral in the end: after a session is gone and its users have stopped
\* sending, whatever was written late goes too.  Only the members and the
\* locations, whose EXPIRE is a step of its own or comes too early, can stay
\* for ever, and only if something failed.
Forgotten ==
    (create = "done" /\ ~Exists("session")) ~>
        \A k \in Keys : Exists(k) => k \in {"members", "locations"} /\ faults > 0

(* What the documentation says, and the code does not do.                  *)

\* "All data deleted immediately on session termination": once DELETE has
\* answered, nothing of the session is left.
DeletedIsGone == cascade["delete"] = "done" => \A k \in Keys : ~Exists(k)

\* "Notifies all connected clients first": when the cascade of DELETE begins,
\* every client that is connected has been sent SESSION_ENDED.
AllTold == cascade["delete"] = "exact" => RoomOf("main") \subseteq told
================================================================================
