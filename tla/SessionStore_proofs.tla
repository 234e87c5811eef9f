--------------------------- MODULE SessionStore_proofs ---------------------------
(***************************************************************************)
(* Proofs about SessionStore, for any guests, TTL and number of requests   *)
(* and faults.                                                             *)
(***************************************************************************)
EXTENDS SessionStore, TLAPS

Tasks == {"delete", "expiry"}

(***************************************************************************)
(* Redis: each command keeps the keys well formed.                         *)
(***************************************************************************)
RedisOK ==
    /\ data \in [Keys -> SUBSET Users]
    /\ ttl \in [Keys -> 0..TTL]
    /\ \A k \in Keys : ~Exists(k) => ttl[k] = NoExpiry

\* SADD and its like keep Redis well formed.
LEMMA PutOK ==
    ASSUME RedisOK, NEW k \in Keys, NEW u \in Users, Put(k, u)
    PROVE  RedisOK'
  BY DEF RedisOK, Put, Exists

\* So does the same with an EXPIRE in one pipeline.
LEMMA PutAndExpireOK ==
    ASSUME RedisOK, NEW k \in Keys, NEW u \in Users, PutAndExpire(k, u)
    PROVE  RedisOK'
<1>1. TTL \in 0..TTL
  BY StoreAssumption
<1> QED
  BY <1>1 DEF RedisOK, PutAndExpire, Exists

\* So does EXPIRE.
LEMMA ExpireOK ==
    ASSUME RedisOK, NEW k \in Keys, Expire(k)
    PROVE  RedisOK'
<1>1. TTL \in 0..TTL
  BY StoreAssumption
<1> QED
  BY <1>1 DEF RedisOK, Expire, Exists

\* So do SREM and ZREM.
LEMMA TakeOK ==
    ASSUME RedisOK, NEW k \in Keys, NEW u \in Users, Take(k, u)
    PROVE  RedisOK'
<1>1. NoExpiry \in 0..TTL
  BY StoreAssumption DEF NoExpiry
<1>2. data' \in [Keys -> SUBSET Users] /\ ttl' \in [Keys -> 0..TTL]
  BY <1>1 DEF RedisOK, Take
<1>3. ASSUME NEW j \in Keys, data'[j] = {}
      PROVE  ttl'[j] = NoExpiry
  <2>1. CASE j = k
    BY <1>3, <2>1 DEF RedisOK, Take
  <2>2. CASE j # k
    BY <1>3, <2>2 DEF RedisOK, Take, Exists
  <2> QED
    BY <2>1, <2>2
<1> QED
  BY <1>2, <1>3 DEF RedisOK, Exists

\* So does DEL.
LEMMA DeleteOK ==
    ASSUME RedisOK, NEW ks, Delete(ks)
    PROVE  RedisOK'
<1>1. NoExpiry \in 0..TTL
  BY StoreAssumption DEF NoExpiry
<1>2. data' \in [Keys -> SUBSET Users] /\ ttl' \in [Keys -> 0..TTL]
  BY <1>1 DEF RedisOK, Delete
<1> QED
  BY <1>2 DEF RedisOK, Delete, Exists

\* So do CreateSession's pipeline and the passing of time.
LEMMA CreateOK ==
    ASSUME RedisOK, CreateSession
    PROVE  RedisOK'
<1>1. TTL \in 0..TTL /\ Host \in Users
  BY StoreAssumption DEF Users
<1> QED
  BY <1>1 DEF RedisOK, CreateSession, Exists, Keys

LEMMA TickOK ==
    ASSUME RedisOK, Tick
    PROVE  RedisOK'
<1>1. NoExpiry \in 0..TTL
  BY StoreAssumption DEF NoExpiry
<1>2. \A k \in Keys : ttl[k] # NoExpiry => ttl[k] - 1 \in 0..TTL
  BY StoreAssumption DEF RedisOK, NoExpiry
<1>3. ttl' \in [Keys -> 0..TTL]
  BY <1>1, <1>2 DEF RedisOK, Tick
<1>4. data' \in [Keys -> SUBSET Users]
  BY DEF RedisOK, Tick
<1>5. ASSUME NEW k \in Keys, data'[k] = {}
      PROVE  ttl'[k] = NoExpiry
  <2>1. CASE ttl[k] = NoExpiry
    BY <2>1 DEF Tick
  <2>2. CASE ttl[k] # NoExpiry
    <3>1. k \in Expiring
      BY <1>5, <2>2 DEF Tick, RedisOK, Exists
    <3> QED
      BY <3>1, <2>2 DEF Tick, Expiring, NoExpiry
  <2> QED
    BY <2>1, <2>2
<1> QED
  BY <1>3, <1>4, <1>5 DEF RedisOK, Exists

(***************************************************************************)
(* Type correctness.                                                       *)
(***************************************************************************)
TaskOK ==
    /\ profiles \subseteq Users
    /\ create \in {"idle", "created", "done", "failed"}
    /\ conn \in [Users -> ConnPc]
    /\ join \in [Users -> {"idle", "checked", "added"}]
    /\ kick \in [at : {"idle", "checked", "removed"}, who : Users]
    /\ cascade \in [Tasks -> CascadePc]
    /\ told \subseteq Users
    /\ kicked \subseteq Users
    /\ ops \in 0..MaxOps
    /\ faults \in 0..MaxFaults

\* The two halves of TypeOK.
LEMMA TypeHalves == TypeOK <=> RedisOK /\ TaskOK
  BY DEF TypeOK, RedisOK, TaskOK, Tasks

\* A request and a fault stay within their bounds.
LEMMA Bounds ==
    ASSUME TaskOK
    PROVE  /\ Ask => ops' \in 0..MaxOps
           /\ Fault => faults' \in 0..MaxFaults
  BY StoreAssumption DEF TaskOK, Ask, Fault

\* Initially every variable holds a value of its kind.
LEMMA InitType == Init => TypeOK
<1> SUFFICES ASSUME Init
             PROVE  TypeOK
  OBVIOUS
<1>1. 0 \in 0..TTL /\ 0 \in 0..MaxOps /\ 0 \in 0..MaxFaults /\ Host \in Users
  BY StoreAssumption DEF Users
<1> QED
  BY <1>1 DEF Init, TypeOK, NoExpiry, Exists, ConnPc, CascadePc

\* A step that leaves Redis alone keeps it well formed.
LEMMA SameRedis ==
    ASSUME RedisOK, UNCHANGED <<data, ttl>>
    PROVE  RedisOK'
  BY DEF RedisOK, Exists

\* No step takes a variable out of its kind, or leaves a TTL behind.
LEMMA NextType == TypeOK /\ [Next]_vars => TypeOK'
<1> SUFFICES ASSUME RedisOK, TaskOK, [Next]_vars
             PROVE  RedisOK' /\ TaskOK'
  BY TypeHalves DEF TypeOK, RedisOK, TaskOK, Tasks, Exists
<1>0. /\ Host \in Users /\ Guests \subseteq Users
      /\ Ask => ops' \in 0..MaxOps
      /\ Fault => faults' \in 0..MaxFaults
  BY Bounds DEF Users
<1>1. ASSUME CreateProfile
      PROVE  RedisOK' /\ TaskOK'
  <2>1. RedisOK'
    BY <1>1, SameRedis DEF CreateProfile, redis
  <2>2. TaskOK'
    BY <1>0, <1>1 DEF TaskOK, Tasks, CreateProfile, history, redis
  <2> QED
    BY <2>1, <2>2
<1>2. ASSUME NEW u \in Users, JoinMember(u)
      PROVE  RedisOK' /\ TaskOK'
  <2>1. RedisOK'
    BY <1>2, PutAndExpireOK, SameRedis DEF JoinMember, Admit, Keys
  <2>2. TaskOK'
    BY <1>0, <1>2 DEF TaskOK, Tasks, JoinMember, Admit, history, redis
  <2> QED
    BY <2>1, <2>2
<1>3. ASSUME NEW u \in Users, JoinProfile(u)
      PROVE  RedisOK' /\ TaskOK'
  <2>1. RedisOK'
    BY <1>3, SameRedis DEF JoinProfile, redis
  <2>2. TaskOK'
    BY <1>0, <1>3 DEF TaskOK, Tasks, JoinProfile, history, redis
  <2> QED
    BY <2>1, <2>2
<1>4. ASSUME NEW u \in Users, WsAddMember(u)
      PROVE  RedisOK' /\ TaskOK'
  <2>1. RedisOK'
    BY <1>4, PutAndExpireOK, SameRedis DEF WsAddMember, Admit, Keys
  <2>2. TaskOK'
    BY <1>0, <1>4 DEF TaskOK, Tasks, WsAddMember, Admit, GotoConn, ConnPc, history, redis
  <2> QED
    BY <2>1, <2>2
<1>5. ASSUME NEW u \in Users, WsGeoExpire(u)
      PROVE  RedisOK' /\ TaskOK'
  <2>1. RedisOK'
    BY <1>5, ExpireOK, SameRedis DEF WsGeoExpire, Keys
  <2>2. TaskOK'
    BY <1>0, <1>5 DEF TaskOK, Tasks, WsGeoExpire, GotoConn, ConnPc, history, redis
  <2> QED
    BY <2>1, <2>2
<1>6. ASSUME NEW u \in Users, WsRemoveMember(u)
      PROVE  RedisOK' /\ TaskOK'
  <2>1. RedisOK'
    BY <1>6, TakeOK, SameRedis DEF WsRemoveMember, Keys
  <2>2. TaskOK'
    BY <1>0, <1>6 DEF TaskOK, Tasks, WsRemoveMember, GotoConn, ConnPc, history, redis
  <2> QED
    BY <2>1, <2>2
<1>7. ASSUME NEW u \in Users, WsRemoveLocation(u)
      PROVE  RedisOK' /\ TaskOK'
  <2>1. RedisOK'
    BY <1>7, TakeOK, SameRedis DEF WsRemoveLocation, Keys
  <2>2. TaskOK'
    BY <1>0, <1>7 DEF TaskOK, Tasks, WsRemoveLocation, GotoConn, ConnPc, history, redis
  <2> QED
    BY <2>1, <2>2
<1>8. ASSUME KickMember
      PROVE  RedisOK' /\ TaskOK'
  <2>1. RedisOK'
    BY <1>8, TakeOK, SameRedis DEF KickMember, Keys, TaskOK
  <2>2. TaskOK'
    BY <1>0, <1>8 DEF TaskOK, Tasks, KickMember, history, redis
  <2> QED
    BY <2>1, <2>2
<1>9. ASSUME KickLocation
      PROVE  RedisOK' /\ TaskOK'
  <2>1. RedisOK'
    BY <1>9, TakeOK, SameRedis DEF KickLocation, Keys, TaskOK
  <2>2. TaskOK'
    BY <1>0, <1>9 DEF TaskOK, Tasks, KickLocation, history, redis
  <2> QED
    BY <2>1, <2>2
<1>10. ASSUME DeleteBroadcast
      PROVE  RedisOK' /\ TaskOK'
  <2>1. RedisOK'
    BY <1>10, SameRedis DEF DeleteBroadcast, redis
  <2>2. TaskOK'
    BY <1>0, <1>10 DEF TaskOK, Tasks, DeleteBroadcast, GotoCascade, CascadePc, RoomOf, history, redis
  <2> QED
    BY <2>1, <2>2
<1>11. ASSUME NEW t \in Tasks, CascadeExact(t)
      PROVE  RedisOK' /\ TaskOK'
  <2>1. RedisOK'
    BY <1>11, DeleteOK, SameRedis DEF CascadeExact, KnownKeys, Keys
  <2>2. TaskOK'
    BY <1>0, <1>11 DEF TaskOK, Tasks, CascadeExact, KnownKeys, GotoCascade, CascadePc, history, redis
  <2> QED
    BY <2>1, <2>2
<1>12. ASSUME NEW t \in Tasks, CascadeScan(t)
      PROVE  RedisOK' /\ TaskOK'
  <2>1. RedisOK'
    BY <1>12, SameRedis DEF CascadeScan, redis
  <2>2. TaskOK'
    BY <1>0, <1>12 DEF TaskOK, Tasks, CascadeScan, GotoCascade, CascadePc, history, redis
  <2> QED
    BY <2>1, <2>2
<1>13. ASSUME NEW t \in Tasks, CascadeDm(t)
      PROVE  RedisOK' /\ TaskOK'
  <2>1. RedisOK'
    BY <1>13, DeleteOK, SameRedis DEF CascadeDm, Keys
  <2>2. TaskOK'
    BY <1>0, <1>13 DEF TaskOK, Tasks, CascadeDm, GotoCascade, CascadePc, history, redis
  <2> QED
    BY <2>1, <2>2
<1>14. ASSUME CreateSession
      PROVE  RedisOK' /\ TaskOK'
  <2>1. RedisOK'
    BY <1>14, CreateOK
  <2>2. TaskOK'
    BY <1>0, <1>14 DEF TaskOK, Tasks, CreateSession, history, redis
  <2> QED
    BY <2>1, <2>2
<1>15. ASSUME NEW u \in Guests, JoinCheck(u)
      PROVE  RedisOK' /\ TaskOK'
  <2>1. RedisOK'
    BY <1>15, SameRedis DEF JoinCheck, redis
  <2>2. TaskOK'
    BY <1>0, <1>15 DEF TaskOK, Tasks, JoinCheck, history, redis
  <2> QED
    BY <2>1, <2>2
<1>16. ASSUME NEW u \in Guests, KickCheck(u)
      PROVE  RedisOK' /\ TaskOK'
  <2>1. RedisOK'
    BY <1>16, SameRedis DEF KickCheck, redis
  <2>2. TaskOK'
    BY <1>0, <1>16 DEF TaskOK, Tasks, KickCheck, history, redis
  <2> QED
    BY <2>1, <2>2
<1>17. ASSUME NEW u \in Users, WsCheck(u)
      PROVE  RedisOK' /\ TaskOK'
  <2>1. RedisOK'
    BY <1>17, SameRedis DEF WsCheck, redis
  <2>2. TaskOK'
    BY <1>0, <1>17 DEF TaskOK, Tasks, WsCheck, GotoConn, ConnPc, history, redis
  <2> QED
    BY <2>1, <2>2
<1>18. ASSUME NEW u \in Users, WsGeoAdd(u)
      PROVE  RedisOK' /\ TaskOK'
  <2>1. RedisOK'
    BY <1>18, PutOK, SameRedis DEF WsGeoAdd, Keys
  <2>2. TaskOK'
    BY <1>0, <1>18 DEF TaskOK, Tasks, WsGeoAdd, GotoConn, ConnPc, history, redis
  <2> QED
    BY <2>1, <2>2
<1>19. ASSUME NEW u \in Users, WsChat(u)
      PROVE  RedisOK' /\ TaskOK'
  <2>1. RedisOK'
    BY <1>19, PutAndExpireOK, SameRedis DEF WsChat, Keys
  <2>2. TaskOK'
    BY <1>0, <1>19 DEF TaskOK, Tasks, WsChat, GotoConn, ConnPc, history, redis
  <2> QED
    BY <2>1, <2>2
<1>20. ASSUME NEW u \in Users, WsLeave(u)
      PROVE  RedisOK' /\ TaskOK'
  <2>1. RedisOK'
    BY <1>20, SameRedis DEF WsLeave, redis
  <2>2. TaskOK'
    BY <1>0, <1>20 DEF TaskOK, Tasks, WsLeave, GotoConn, ConnPc, history, redis
  <2> QED
    BY <2>1, <2>2
<1>21. ASSUME DeleteCheck
      PROVE  RedisOK' /\ TaskOK'
  <2>1. RedisOK'
    BY <1>21, SameRedis DEF DeleteCheck, redis
  <2>2. TaskOK'
    BY <1>0, <1>21 DEF TaskOK, Tasks, DeleteCheck, GotoCascade, CascadePc, history, redis
  <2> QED
    BY <2>1, <2>2
<1>22. ASSUME Tick
      PROVE  RedisOK' /\ TaskOK'
  <2>1. RedisOK'
    BY <1>22, TickOK
  <2>2. TaskOK'
    BY <1>0, <1>22 DEF TaskOK, Tasks, Tick, GotoCascade, CascadePc, history, redis
  <2> QED
    BY <2>1, <2>2
<1>23. ASSUME Restart
      PROVE  RedisOK' /\ TaskOK'
  <2>1. RedisOK'
    BY <1>23, SameRedis DEF Restart, redis
  <2>2. TaskOK'
    BY <1>0, <1>23 DEF TaskOK, Tasks, Restart, ConnPc, CascadePc, history, redis
  <2> QED
    BY <2>1, <2>2
<1>24. CASE UNCHANGED vars
  BY <1>24, SameRedis DEF vars, TaskOK
<1> QED
  BY <1>1, <1>2, <1>3, <1>4, <1>5, <1>6, <1>7, <1>8, <1>9, <1>10, <1>11, <1>12, <1>13, <1>14, <1>15, <1>16, <1>17, <1>18, <1>19, <1>20, <1>21, <1>22, <1>23, <1>24 DEF Next, Run, Requests, Tasks, Users

\* Every variable holds a value of its kind, and an absent key has no TTL.
THEOREM TypeCorrect == Spec => []TypeOK
  BY InitType, NextType, PTL DEF Spec

(***************************************************************************)
(* Expiry and kicks, as long as nothing failed.                            *)
(***************************************************************************)

\* A step after which nothing has failed is not a failure itself.
LEMMA NothingFailed ==
    ASSUME TypeOK, [Next]_vars, faults' = 0
    PROVE  faults = 0 /\ ~Fault
<1>1. ~Fault
  BY DEF Fault, TypeOK
<1>2. faults' = faults
  BY <1>1 DEF vars, history, redis, Next, Run, Requests,
         CreateProfile, JoinMember, Admit, JoinProfile, WsAddMember, WsGeoExpire, WsRemoveMember,
         WsRemoveLocation, KickMember, KickLocation, DeleteBroadcast, CascadeExact, KnownKeys, CascadeScan,
         CascadeDm, CreateSession, JoinCheck, KickCheck, WsCheck, WsGeoAdd,
         WsChat, WsLeave, DeleteCheck, Tick, Restart
<1> QED
  BY <1>1, <1>2

\* Whatever fails, the session hash and the chats have a TTL.
SafeKeys == \A k \in {"session", "chat", "dm"} : Exists(k) => ttl[k] # NoExpiry

\* What a step does to the keys in Redis.
LEMMA RedisSteps ==
    ASSUME TypeOK, [Next]_vars
    PROVE  \/ UNCHANGED <<data, ttl>> \/ CreateSession \/ Tick \/ Expire("locations")
           \/ \E u : Put("locations", u)
           \/ \E k \in Keys, u \in Users : PutAndExpire(k, u)
           \/ \E k \in {"members", "locations"}, u \in Users : Take(k, u)
           \/ \E ks : Delete(ks)
  BY DEF TypeOK, vars, redis, Keys, Users, Next, Run, Requests,
         CreateProfile, JoinMember, Admit, JoinProfile, WsAddMember, WsGeoExpire, WsRemoveMember,
         WsRemoveLocation, KickMember, KickLocation, DeleteBroadcast, CascadeExact, KnownKeys, CascadeScan,
         CascadeDm, JoinCheck, KickCheck, WsCheck, WsGeoAdd,
         WsChat, WsLeave, DeleteCheck, Restart

\* No step leaves the session hash or a chat without a TTL.
LEMMA NextSafeKeys == TypeOK /\ SafeKeys /\ [Next]_vars => SafeKeys'
<1> SUFFICES ASSUME TypeOK, SafeKeys, [Next]_vars,
                    NEW j \in {"session", "chat", "dm"}, data'[j] # {}
             PROVE  ttl'[j] # NoExpiry
  BY DEF SafeKeys, Exists
<1>1. data[j] # {} => ttl[j] # NoExpiry
  BY DEF SafeKeys, Exists
<1> USE <1>1, StoreAssumption DEF TypeOK, Keys, NoExpiry
<1>2. ASSUME CreateSession PROVE ttl'[j] # NoExpiry
  BY <1>2 DEF CreateSession
<1>3. ASSUME Tick PROVE ttl'[j] # NoExpiry
  BY <1>3 DEF Tick, Expiring
<1>4. ASSUME Expire("locations") PROVE ttl'[j] # NoExpiry
  BY <1>4 DEF Expire
<1>5. ASSUME NEW u, Put("locations", u) PROVE ttl'[j] # NoExpiry
  BY <1>5 DEF Put
<1>6. ASSUME NEW k \in Keys, NEW u \in Users, PutAndExpire(k, u) PROVE ttl'[j] # NoExpiry
  BY <1>6 DEF PutAndExpire
<1>7. ASSUME NEW k \in {"members", "locations"}, NEW u \in Users, Take(k, u) PROVE ttl'[j] # NoExpiry
  BY <1>7 DEF Take
<1>8. ASSUME NEW ks, Delete(ks) PROVE ttl'[j] # NoExpiry
  BY <1>8 DEF Delete
<1> QED
  BY <1>2, <1>3, <1>4, <1>5, <1>6, <1>7, <1>8, RedisSteps

\* A key without a TTL that does not outlive the session for good.
Excused(k) ==
    \/ k = "locations" /\ \E u \in Users : conn[u] = "geo"
    \/ k = "members" /\ (Exists("session") \/ cascade["expiry"] = "exact")

KeysExcused == faults = 0 => \A k \in Keys : Exists(k) /\ ttl[k] = NoExpiry => Excused(k)

\* Every step, as long as nothing fails, leaves each key with a TTL or excused.
LEMMA NextKeyExpires == TypeOK /\ KeysExcused /\ [Next]_vars => KeysExcused'
<1> SUFFICES ASSUME TypeOK, KeysExcused, [Next]_vars, faults' = 0,
                    NEW k \in Keys, data'[k] # {}, ttl'[k] = NoExpiry
             PROVE  Excused(k)'
  BY DEF KeysExcused, Exists
<1>0. /\ faults = 0 /\ ~Fault
      /\ data[k] # {} /\ ttl[k] = NoExpiry => Excused(k)
  BY NothingFailed DEF KeysExcused, Exists
<1> USE <1>0 DEF TypeOK, Excused, Exists
<1>1. ASSUME CreateProfile
      PROVE  Excused(k)'
  BY <1>1 DEF CreateProfile, redis
<1>2. ASSUME NEW u \in Users, JoinMember(u)
      PROVE  Excused(k)'
  BY <1>2, StoreAssumption DEF JoinMember, Admit, redis, PutAndExpire, Keys, NoExpiry
<1>3. ASSUME NEW u \in Users, JoinProfile(u)
      PROVE  Excused(k)'
  BY <1>3 DEF JoinProfile, redis
<1>4. ASSUME NEW u \in Users, WsAddMember(u)
      PROVE  Excused(k)'
  BY <1>4, StoreAssumption DEF WsAddMember, Admit, redis, PutAndExpire, GotoConn, Keys, NoExpiry
<1>5. ASSUME NEW u \in Users, WsGeoExpire(u)
      PROVE  Excused(k)'
  BY <1>5, StoreAssumption DEF WsGeoExpire, redis, Expire, GotoConn, Keys, NoExpiry
<1>6. ASSUME NEW u \in Users, WsRemoveMember(u)
      PROVE  Excused(k)'
  BY <1>6 DEF WsRemoveMember, redis, Take, GotoConn, Keys, NoExpiry
<1>7. ASSUME NEW u \in Users, WsRemoveLocation(u)
      PROVE  Excused(k)'
  BY <1>7 DEF WsRemoveLocation, redis, Take, GotoConn, Keys, NoExpiry
<1>8. ASSUME KickMember
      PROVE  Excused(k)'
  BY <1>8 DEF KickMember, redis, Take, Keys, NoExpiry
<1>9. ASSUME KickLocation
      PROVE  Excused(k)'
  BY <1>9 DEF KickLocation, redis, Take, Keys, NoExpiry
<1>10. ASSUME DeleteBroadcast
      PROVE  Excused(k)'
  BY <1>10 DEF DeleteBroadcast, redis, GotoCascade
<1>11. ASSUME NEW t \in Tasks, CascadeExact(t)
      PROVE  Excused(k)'
  BY <1>11 DEF CascadeExact, KnownKeys, redis, Delete, GotoCascade, Keys, NoExpiry, Tasks
<1>12. ASSUME NEW t \in Tasks, CascadeScan(t)
      PROVE  Excused(k)'
  BY <1>12 DEF CascadeScan, redis, GotoCascade, Tasks
<1>13. ASSUME NEW t \in Tasks, CascadeDm(t)
      PROVE  Excused(k)'
  BY <1>13 DEF CascadeDm, redis, Delete, GotoCascade, Keys, NoExpiry, Tasks
<1>14. ASSUME CreateSession
      PROVE  Excused(k)'
  BY <1>14, StoreAssumption DEF CreateSession, redis, Keys, NoExpiry
<1>15. ASSUME NEW u \in Guests, JoinCheck(u)
      PROVE  Excused(k)'
  BY <1>15 DEF JoinCheck, redis
<1>16. ASSUME NEW u \in Guests, KickCheck(u)
      PROVE  Excused(k)'
  BY <1>16 DEF KickCheck, redis
<1>17. ASSUME NEW u \in Users, WsCheck(u)
      PROVE  Excused(k)'
  BY <1>17 DEF WsCheck, redis, GotoConn
<1>18. ASSUME NEW u \in Users, WsGeoAdd(u)
      PROVE  Excused(k)'
  BY <1>18 DEF WsGeoAdd, redis, Put, GotoConn, Keys, NoExpiry
<1>19. ASSUME NEW u \in Users, WsChat(u)
      PROVE  Excused(k)'
  BY <1>19, StoreAssumption DEF WsChat, redis, PutAndExpire, GotoConn, Keys, NoExpiry
<1>20. ASSUME NEW u \in Users, WsLeave(u)
      PROVE  Excused(k)'
  BY <1>20 DEF WsLeave, redis, GotoConn
<1>21. ASSUME DeleteCheck
      PROVE  Excused(k)'
  BY <1>21 DEF DeleteCheck, redis, GotoCascade
<1>22. ASSUME Tick
      PROVE  Excused(k)'
  BY <1>22 DEF Tick, redis, GotoCascade, Expiring, Keys, NoExpiry
<1>23. ASSUME Restart
      PROVE  Excused(k)'
  BY <1>23 DEF Restart, redis
<1>24. CASE UNCHANGED vars
  BY <1>24 DEF vars
<1> QED
  BY <1>1, <1>2, <1>3, <1>4, <1>5, <1>6, <1>7, <1>8, <1>9, <1>10, <1>11, <1>12, <1>13, <1>14, <1>15, <1>16, <1>17, <1>18, <1>19, <1>20, <1>21, <1>22, <1>23, <1>24 DEF Next, Run, Requests, Tasks, Users

\* Whatever fails, the session hash and the chats have a TTL; as long as nothing
\* failed, no other key can stay for ever either: it has a TTL, or is about to get
\* one, or the session's end deletes it.
THEOREM KeysExpire == Spec => []EveryKeyExpires
<1>1. Init => SafeKeys /\ KeysExcused
  BY DEF Init, SafeKeys, KeysExcused, Exists, Keys
<1>2. TypeOK /\ SafeKeys /\ KeysExcused => EveryKeyExpires
  <2> SUFFICES ASSUME TypeOK, SafeKeys, KeysExcused, NEW k \in Keys, Exists(k), ttl[k] = NoExpiry
               PROVE  \/ k = "locations" /\ (faults > 0 \/ \E u \in Users : conn[u] = "geo")
                      \/ k = "members" /\ (faults > 0 \/ Exists("session") \/ cascade["expiry"] = "exact")
    BY DEF EveryKeyExpires
  <2>1. k \in {"locations", "members"}
    BY DEF SafeKeys, Keys
  <2>2. CASE faults = 0
    BY <2>2 DEF KeysExcused, Excused
  <2>3. CASE faults # 0
    BY <2>1, <2>3 DEF TypeOK
  <2> QED
    BY <2>2, <2>3
<1> QED
  BY <1>1, <1>2, TypeCorrect, NextSafeKeys, NextKeyExpires, PTL DEF Spec

\* Only guests are kicked, never the host, who is a member from the start.
GuestsKicked ==
    /\ kicked \subseteq Guests
    /\ kick.at # "idle" => kick.who \in Guests

\* A kicked user who is still on the map is about to be taken off it: by the user's
\* own coroutine or by the kick.
Outcast(u) ==
    u \in data["locations"] =>
        \/ conn[u] \in {"in", "geo", "leaving", "left"}
        \/ kick.at = "removed" /\ kick.who = u

KickInv ==
    /\ TypeOK
    /\ GuestsKicked
    /\ kicked \cap data["members"] = {}
    /\ faults = 0 => \A u \in kicked : Outcast(u)

\* No step kicks the host.
LEMMA NextGuestsKicked == TypeOK /\ GuestsKicked /\ [Next]_vars => GuestsKicked'
  BY DEF TypeOK, GuestsKicked, vars, history, redis, Next, Run, Requests,
         CreateProfile, JoinMember, Admit, JoinProfile, WsAddMember, WsGeoExpire, WsRemoveMember,
         WsRemoveLocation, KickMember, KickLocation, DeleteBroadcast, CascadeExact, KnownKeys, CascadeScan,
         CascadeDm, CreateSession, JoinCheck, KickCheck, WsCheck, WsGeoAdd,
         WsChat, WsLeave, DeleteCheck, Tick, Restart

\* Whoever becomes a member is not kicked any more, and whoever is kicked is no member.
LEMMA NextNoMember ==
    TypeOK /\ GuestsKicked /\ kicked \cap data["members"] = {} /\ [Next]_vars
        => (kicked \cap data["members"] = {})'
<1> SUFFICES ASSUME TypeOK, GuestsKicked, kicked \cap data["members"] = {}, [Next]_vars
             PROVE  kicked' \cap data'["members"] = {}
  OBVIOUS
<1> USE StoreAssumption DEF TypeOK, Keys
<1>1. CASE kicked' \subseteq kicked /\ data'["members"] \subseteq data["members"]
  BY <1>1
<1>2. ASSUME NEW v \in Users, JoinMember(v) \/ WsAddMember(v)
      PROVE  kicked' \cap data'["members"] = {}
  BY <1>2 DEF JoinMember, Admit, WsAddMember, PutAndExpire
<1>3. ASSUME KickMember PROVE kicked' \cap data'["members"] = {}
  BY <1>3 DEF KickMember, Take
<1>4. ASSUME CreateSession PROVE kicked' \cap data'["members"] = {}
  BY <1>4 DEF CreateSession, GuestsKicked, history
<1>5. \/ UNCHANGED <<kicked, data>> \/ CreateSession \/ KickMember
      \/ \E v \in Users : JoinMember(v) \/ WsAddMember(v)
      \/ /\ UNCHANGED kicked
         /\ \/ Tick \/ Expire("locations") \/ \E u : Put("locations", u)
            \/ \E k \in {"chat", "dm"}, u \in Users : PutAndExpire(k, u)
            \/ \E k \in {"members", "locations"}, u \in Users : Take(k, u)
            \/ \E ks : Delete(ks)
  BY DEF vars, redis, history, Keys, Users, Next, Run, Requests,
         CreateProfile, JoinProfile, WsGeoExpire, WsRemoveMember,
         WsRemoveLocation, KickLocation, DeleteBroadcast, CascadeExact, KnownKeys, CascadeScan,
         CascadeDm, JoinCheck, KickCheck, WsCheck, WsGeoAdd,
         WsChat, WsLeave, DeleteCheck, Tick, Restart
<1>6. Tick => data'["members"] \subseteq data["members"]
  BY DEF Tick
<1>7. Expire("locations") => data'["members"] \subseteq data["members"]
  BY DEF Expire
<1>8. \A u : Put("locations", u) => data'["members"] \subseteq data["members"]
  BY DEF Put
<1>9. \A k \in {"chat", "dm"}, u \in Users :
         PutAndExpire(k, u) => data'["members"] \subseteq data["members"]
  BY DEF PutAndExpire
<1>10. \A k \in {"members", "locations"}, u \in Users :
          Take(k, u) => data'["members"] \subseteq data["members"]
  BY DEF Take
<1>11. \A ks : Delete(ks) => data'["members"] \subseteq data["members"]
  BY DEF Delete
<1> QED
  BY <1>1, <1>2, <1>3, <1>4, <1>5, <1>6, <1>7, <1>8, <1>9, <1>10, <1>11

\* As long as nothing fails, every step leaves those who were kicked outcast.
LEMMA NextKick == KickInv /\ [Next]_vars => KickInv'
<1> SUFFICES ASSUME KickInv, [Next]_vars, faults' = 0, NEW u \in kicked'
             PROVE  Outcast(u)'
  BY NextType, NextGuestsKicked, NextNoMember DEF KickInv
<1>0. /\ TypeOK /\ GuestsKicked /\ GuestsKicked' /\ u \in Users
      /\ faults = 0 /\ ~Fault
      /\ u \in kicked => Outcast(u)
  BY NothingFailed, NextGuestsKicked DEF KickInv, GuestsKicked, Users
<1> USE <1>0, StoreAssumption DEF TypeOK, GuestsKicked, Outcast, ConnPc
<1>1. ASSUME CreateProfile
      PROVE  Outcast(u)'
  BY <1>1 DEF CreateProfile, redis, history
<1>2. ASSUME NEW v \in Users, JoinMember(v)
      PROVE  Outcast(u)'
  BY <1>2 DEF JoinMember, Admit, redis, history, PutAndExpire, Keys
<1>3. ASSUME NEW v \in Users, JoinProfile(v)
      PROVE  Outcast(u)'
  BY <1>3 DEF JoinProfile, redis, history
<1>4. ASSUME NEW v \in Users, WsAddMember(v)
      PROVE  Outcast(u)'
  BY <1>4 DEF WsAddMember, Admit, redis, history, PutAndExpire, GotoConn, Keys
<1>5. ASSUME NEW v \in Users, WsGeoExpire(v)
      PROVE  Outcast(u)'
  BY <1>5 DEF WsGeoExpire, redis, history, Expire, GotoConn, Keys
<1>6. ASSUME NEW v \in Users, WsRemoveMember(v)
      PROVE  Outcast(u)'
  BY <1>6 DEF WsRemoveMember, redis, history, Take, GotoConn, Keys
<1>7. ASSUME NEW v \in Users, WsRemoveLocation(v)
      PROVE  Outcast(u)'
  BY <1>7 DEF WsRemoveLocation, redis, history, Take, GotoConn, Keys
<1>8. ASSUME KickMember
      PROVE  Outcast(u)'
  BY <1>8 DEF KickMember, redis, history, Take, Keys
<1>9. ASSUME KickLocation
      PROVE  Outcast(u)'
  BY <1>9 DEF KickLocation, redis, history, Take, Keys
<1>10. ASSUME DeleteBroadcast
      PROVE  Outcast(u)'
  BY <1>10 DEF DeleteBroadcast, redis, history
<1>11. ASSUME NEW t \in Tasks, CascadeExact(t)
      PROVE  Outcast(u)'
  BY <1>11 DEF CascadeExact, KnownKeys, redis, history, Delete, Keys
<1>12. ASSUME NEW t \in Tasks, CascadeScan(t)
      PROVE  Outcast(u)'
  BY <1>12 DEF CascadeScan, redis, history
<1>13. ASSUME NEW t \in Tasks, CascadeDm(t)
      PROVE  Outcast(u)'
  BY <1>13 DEF CascadeDm, redis, history, Delete, Keys
<1>14. ASSUME CreateSession
      PROVE  Outcast(u)'
  BY <1>14 DEF CreateSession, redis, history, Keys
<1>15. ASSUME NEW v \in Guests, JoinCheck(v)
      PROVE  Outcast(u)'
  BY <1>15 DEF JoinCheck, redis, history
<1>16. ASSUME NEW v \in Guests, KickCheck(v)
      PROVE  Outcast(u)'
  BY <1>16 DEF KickCheck, redis, history
<1>17. ASSUME NEW v \in Users, WsCheck(v)
      PROVE  Outcast(u)'
  BY <1>17 DEF WsCheck, redis, history, GotoConn
<1>18. ASSUME NEW v \in Users, WsGeoAdd(v)
      PROVE  Outcast(u)'
  BY <1>18 DEF WsGeoAdd, redis, history, Put, GotoConn, Keys
<1>19. ASSUME NEW v \in Users, WsChat(v)
      PROVE  Outcast(u)'
  BY <1>19 DEF WsChat, redis, history, PutAndExpire, GotoConn, Keys
<1>20. ASSUME NEW v \in Users, WsLeave(v)
      PROVE  Outcast(u)'
  BY <1>20 DEF WsLeave, redis, history, GotoConn
<1>21. ASSUME DeleteCheck
      PROVE  Outcast(u)'
  BY <1>21 DEF DeleteCheck, redis, history
<1>22. ASSUME Tick
      PROVE  Outcast(u)'
  BY <1>22 DEF Tick, redis, history, Keys
<1>23. ASSUME Restart
      PROVE  Outcast(u)'
  BY <1>23 DEF Restart, redis, history
<1>24. CASE UNCHANGED vars
  BY <1>24 DEF vars
<1> QED
  BY <1>1, <1>2, <1>3, <1>4, <1>5, <1>6, <1>7, <1>8, <1>9, <1>10, <1>11, <1>12, <1>13, <1>14, <1>15, <1>16, <1>17, <1>18, <1>19, <1>20, <1>21, <1>22, <1>23, <1>24 DEF Next, Run, Requests, Tasks, Users

\* Whatever fails, a kicked user is no member; as long as nothing failed, one
\* without a socket is not on the map either.
THEOREM KicksStick == Spec => []KickSticks
<1>1. Init => KickInv
  BY InitType DEF Init, KickInv, GuestsKicked
<1>2. KickInv => KickSticks
  BY DEF KickInv, Outcast, KickSticks
<1> QED
  BY <1>1, <1>2, NextKick, PTL DEF Spec
=================================================================================
