--------------------------- MODULE LocationFeed_proofs --------------------------
(***************************************************************************)
(* Proofs about LocationFeed and the viewport index, for any users,        *)
(* processes, points and subscriptions.                                    *)
(***************************************************************************)
EXTENDS LocationFeed, SequenceTheorems, TLAPS

(***************************************************************************)
(* The cells of the index.                                                 *)
(***************************************************************************)

Sizes == {2500, 250, 25, 5, 1}

\* Every zoom has one of five cell sizes.
LEMMA SizeKnown == ASSUME NEW zoom \in Int PROVE CellSize(zoom) \in Sizes
  BY DEF CellSize, Sizes

\* Rounding towards zero gives an integer.
LEMMA TruncatedInt ==
    ASSUME NEW x \in Int, NEW size \in Sizes
    PROVE  Truncated(x, size) \in Int
  BY DEF Truncated, Sizes

\* Whatever the rounding, a coordinate's cell is an integer.
LEMMA IndexInt ==
    ASSUME NEW x \in Int, NEW size \in Sizes, NEW short
    PROVE  Index(x, size, short) \in Int
<1>1. Inward(x) \in Int
  BY DEF Inward
<1> QED
  BY <1>1, TruncatedInt DEF Index

\* A sweep enters the cells of its steps, each rounded one way or the other.
LEMMA SweepOf ==
    ASSUME NEW low \in Int, NEW high \in Int, NEW size \in Sizes, NEW sweep \in Sweeps(low, high, size)
    PROVE  /\ \A c \in sweep : \E k \in Int, short \in BOOLEAN : c = Index(low + k * size, size, short)
           /\ \E end \in Int :
                 /\ end >= ((high - low) \div size) - 1
                 /\ end < (high - low) \div size => low + ((high - low) \div size) * size = high
                 /\ \A k \in 0 .. end : \E short \in BOOLEAN : Index(low + k * size, size, short) \in sweep
<1> DEFINE last == (high - low) \div size
           ends == IF last > 0 /\ low + last * size = high THEN {last - 1, last} ELSE {last}
<1>1. PICK end \in ends, cut \in SUBSET (0 .. last) :
         sweep = {Index(low + k * size, size, k \in cut) : k \in 0 .. end}
  BY DEF Sweeps
<1>2. last \in Int
  BY DEF Sizes
<1>3. end \in Int /\ end >= last - 1 /\ (end < last => low + last * size = high)
  <2> HIDE DEF last
  <2> QED
    BY <1>2
<1> DEFINE cell(k, short) == Index(low + k * size, size, short)
<1>4. ASSUME NEW k PROVE \E short \in BOOLEAN : cell(k, k \in cut) = cell(k, short)
  <2>1. k \in cut => cell(k, k \in cut) = cell(k, TRUE)
    BY DEF Index
  <2>2. k \notin cut => cell(k, k \in cut) = cell(k, FALSE)
    BY DEF Index
  <2> QED
    BY <2>1, <2>2
<1>5. ASSUME NEW k \in 0 .. end PROVE \E short \in BOOLEAN : cell(k, short) \in sweep
  <2>1. cell(k, k \in cut) \in sweep
    BY <1>1
  <2> QED
    BY <1>4, <2>1
<1>6. ASSUME NEW c \in sweep PROVE \E k \in Int, short \in BOOLEAN : c = cell(k, short)
  <2>1. PICK k \in 0 .. end : c = cell(k, k \in cut)
    BY <1>1
  <2>2. PICK short \in BOOLEAN : cell(k, k \in cut) = cell(k, short)
    BY <1>4
  <2> QED
    BY <1>3, <2>1, <2>2
<1> HIDE DEF ends
<1> QED
  BY <1>3, <1>5, <1>6

\* A sweep enters integers.
LEMMA SweepInt ==
    ASSUME NEW low \in Int, NEW high \in Int, NEW size \in Sizes, NEW sweep \in Sweeps(low, high, size)
    PROVE  sweep \subseteq Int
<1>1. ASSUME NEW c \in sweep PROVE c \in Int
  <2>1. PICK k \in Int, short \in BOOLEAN : c = Index(low + k * size, size, short)
    BY SweepOf
  <2>2. low + k * size \in Int
    BY DEF Sizes
  <2> QED
    BY <2>1, <2>2, IndexInt
<1> QED
  BY <1>1

\* What lookups use.
LEMMA LookupSize == CellSize(LookupZoom) = 25
  BY DEF CellSize, LookupZoom

\* Between two coordinates a cell apart, every coordinate has the cell of one of the two.
LEMMA SharesCell ==
    ASSUME NEW s \in Int, NEW y \in s .. s + 25
    PROVE  Truncated(y, 25) \in {Truncated(s, 25), Truncated(s + 25, 25)}
<1>1. CASE y = s + 25
  BY <1>1
<1>2. CASE y < s + 25
  BY <1>2 DEF Truncated
<1> QED
  BY <1>1, <1>2

\* A coordinate at least a cell below the upper end of a sweep that starts on no border
\* has a cell that the sweep enters, however either is rounded: the cell of the last step
\* that is not above it, or of the next.
LEMMA SweepShares ==
    ASSUME NEW low \in Int, NEW high \in Int, low % 25 # 0, NEW sweep \in Sweeps(low, high, 25),
           NEW x \in low .. high - 25, NEW short \in BOOLEAN
    PROVE  Index(x, 25, short) \in sweep
<1> DEFINE last == (high - low) \div 25
           k == (x - low) \div 25
           s == low + k * 25
<1>1. PICK end \in Int :
         /\ end >= last - 1
         /\ end < last => low + last * 25 = high
         /\ \A i \in 0 .. end : \E b \in BOOLEAN : Index(low + i * 25, 25, b) \in sweep
  <2>1. 25 \in Sizes
    BY DEF Sizes
  <2> QED
    BY <2>1, SweepOf
<1>2. k \in Nat /\ k + 1 <= last /\ s <= x /\ x < s + 25
  OBVIOUS
<1>3. ASSUME NEW i \in 0 .. end PROVE Truncated(low + i * 25, 25) \in sweep
  <2>1. (low + i * 25) % 25 # 0
    OBVIOUS
  <2>2. \A b \in BOOLEAN : Index(low + i * 25, 25, b) = Truncated(low + i * 25, 25)
    BY <2>1 DEF Index
  <2> QED
    BY <1>1, <2>2
<1>4. Truncated(s, 25) \in sweep
  <2>1. k \in 0 .. end
    BY <1>1, <1>2
  <2> QED
    BY <1>3, <2>1
<1>5. CASE x = s
  <2>1. x % 25 # 0
    BY <1>5
  <2> QED
    BY <1>4, <1>5, <2>1 DEF Index
<1>6. CASE x # s
  <2>1. k + 1 \in 0 .. end
    <3>1. k + 1 = last => low + last * 25 # high
      BY <1>2, <1>6
    <3> QED
      BY <1>1, <1>2, <3>1
  <2>2. s + 25 = low + (k + 1) * 25
    BY <1>2
  <2>3. Truncated(s + 25, 25) \in sweep
    BY <1>3, <2>1, <2>2
  <2>4. s \in Int /\ x \in s .. s + 25 /\ Inward(x) \in s .. s + 25
    <3>1. s \in Int /\ s < x /\ x < s + 25
      BY <1>2, <1>6
    <3> HIDE DEF s
    <3> QED
      BY <3>1 DEF Inward
  <2>5. Index(x, 25, short) \in {Truncated(s, 25), Truncated(s + 25, 25)}
    <3> HIDE DEF s
    <3> QED
      BY <2>4, SharesCell DEF Index
  <2> QED
    BY <1>4, <2>3, <2>5
<1> QED
  BY <1>5, <1>6

\* The cells a subscription enters are pairs of integers.
LEMMA SweepsInt ==
    ASSUME NEW request \in Requests,
           NEW lats \in Sweeps(request.box.south, request.box.north, CellSize(request.zoom)),
           NEW lngs \in Sweeps(request.box.west, request.box.east, CellSize(request.zoom))
    PROVE  lats \X lngs \subseteq Int \X Int
<1>1. /\ request.zoom \in Int
      /\ request.box.south \in Int /\ request.box.north \in Int
      /\ request.box.west \in Int /\ request.box.east \in Int
  BY FeedAssumption
<1>2. lats \subseteq Int /\ lngs \subseteq Int
  BY <1>1, SizeKnown, SweepInt
<1> QED
  BY <1>2

(***************************************************************************)
(* Types.                                                                  *)
(***************************************************************************)

\* The number of a fix is a natural number.
LEMMA FixNumber == ASSUME NEW fix \in Fixes PROVE fix.n \in Nat
<1>1. CASE fix \in [n : Nat, at : Points]
  BY <1>1
<1>2. CASE fix = NoFix
  BY <1>2 DEF NoFix
<1> QED
  BY <1>1, <1>2 DEF Fixes

\* The initial states are of type.
LEMMA InitType == Init => TypeOK
<1> SUFFICES ASSUME Init PROVE TypeOK
  OBVIOUS
<1>1. PICK placement \in Placements : home = placement.home /\ maps = placement.maps
  BY DEF Init
<1>2. home \in [Tokens -> Processes] /\ maps \subseteq Tokens
  BY <1>1, FeedAssumption
<1>3. \A u \in Tokens : asks[u] \in 0..MaxAsks[u]
  <2>1. MaxAsks \in [Tokens -> Nat] /\ asks = MaxAsks
    BY FeedAssumption DEF Init
  <2> QED
    BY <2>1
<1>4. (CHOOSE u \in Tokens : TRUE) \in Tokens
  BY FeedAssumption
<1>5. ViewportType
  BY DEF Init, ViewportInit, ViewportType
<1>6. LimiterType
  BY FeedAssumption DEF Init, LimiterInit, LimiterType
<1>7. CoroutineType
  BY DEF Init, CoroutineType, Pc
<1>8. FixType
  BY DEF Init, FixType, Fixes
<1>9. WireType
  <2>1. wire \in [Processes -> Seq([of : Tokens, fix : Fixes])]
    BY DEF Init
  <2>2. listener \in [Processes -> [of : Tokens, n : Nat, to : SUBSET Tokens]]
    BY <1>4 DEF Init
  <2> QED
    BY <2>1, <2>2 DEF WireType
<1>10. ShownType
  BY DEF Init, ShownType, Unseen
<1>11. faults \in 0..MaxFaults
  BY FeedAssumption DEF Init
<1> QED
  BY <1>2, <1>3, <1>5, <1>6, <1>7, <1>8, <1>9, <1>10, <1>11 DEF TypeOK, ClientType

\* A Redis error is counted.
LEMMA FaultType == ASSUME TypeOK, Fault PROVE faults' \in 0..MaxFaults
<1>1. faults \in 0..MaxFaults /\ MaxFaults \in Nat
  BY FeedAssumption DEF TypeOK
<1> QED
  BY <1>1 DEF Fault

\* A coroutine may go on to any place, with anyone to get to where it sends.
LEMMA BroadcastType ==
    ASSUME CoroutineType, NEW u \in Tokens, NEW to \in SUBSET Tokens,
           NEW stage \in {"relay", "forward"}, Broadcast(u, stage, to), UNCHANGED maps
    PROVE  CoroutineType'
  BY DEF CoroutineType, Broadcast, Goto, Pc

\* A coroutine with nobody left to get to may go on to any place.
LEMMA GotoType ==
    ASSUME CoroutineType, NEW u \in Tokens, todo[u] = {}, NEW label \in Pc \ {"collect"},
           Goto(u, label), UNCHANGED <<todo, maps>>
    PROVE  CoroutineType'
  BY DEF CoroutineType, Goto, Pc

\* One copy of a fix changes what one client shows, and what is late, by type.
LEMMA ShowType ==
    ASSUME ShownType, CoroutineType, NEW v \in Tokens, NEW u \in Tokens, NEW n \in Nat,
           Show(v, u, n), UNCHANGED <<snapshot, maps>>
    PROVE  ShownType'
  BY DEF ShownType, CoroutineType, Show

\* The room and the subscribers of a process are users.
LEMMA Sockets ==
    ASSUME NEW p, NEW key
    PROVE  Room(p) \subseteq Tokens /\ SubscribersAt(p, key) \subseteq Tokens
  BY DEF Room, SubscribersAt

(***************************************************************************)
(* The steps of a user's coroutine.                                        *)
(***************************************************************************)

LEMMA StoreFixType == ASSUME TypeOK, NEW u \in Tokens, StoreFix(u) PROVE TypeOK'
<1>1. PICK point \in Points : geo' = [geo EXCEPT ![u] = [n |-> geo[u].n + 1, at |-> point]]
  BY DEF StoreFix
<1>2. geo[u].n \in Nat
  BY FixNumber DEF TypeOK, FixType
<1>3. [n |-> geo[u].n + 1, at |-> point] \in Fixes
  BY <1>2 DEF Fixes
<1>4. FixType'
  BY <1>1, <1>3 DEF TypeOK, FixType, StoreFix
<1>5. CoroutineType'
  BY GotoType DEF TypeOK, StoreFix, clients, CoroutineType, Pc
<1> QED
  BY <1>4, <1>5
     DEF StoreFix, viewports, limiter, clients, TypeOK, ViewportType, LimiterType, ClientType,
         WireType, ShownType

\* The limiter's three steps end in the next step, the relay or the next frame.
LEMMA LimitedType ==
    ASSUME TypeOK, NEW u \in Tokens, CountHit(u) \/ ExpireKey(u) \/ Judge(u)
    PROVE  TypeOK'
<1>1. todo[u] = {}
  BY DEF TypeOK, CoroutineType, CountHit, ExpireKey, Judge
<1>2. faults' \in 0..MaxFaults
  BY FaultType DEF TypeOK, CountHit, ExpireKey, Judge
<1>3. LimiterType'
  <2>1. CASE Incr(u)
    BY <2>1, FeedAssumption DEF TypeOK, LimiterType, Incr
  <2>2. CASE Expire(u)
    BY <2>2, FeedAssumption DEF TypeOK, LimiterType, Expire
  <2>3. CASE UNCHANGED limiter
    BY <2>3 DEF TypeOK, LimiterType, limiter
  <2> QED
    BY <2>1, <2>2, <2>3 DEF CountHit, ExpireKey, Judge
<1>4. UNCHANGED <<viewports, clients, geo, wire, listener, snapshot, shown, asks, published, late>>
  BY DEF CountHit, ExpireKey, Judge
<1>5. CoroutineType'
  <2>1. UNCHANGED maps /\ CoroutineType
    BY <1>4 DEF clients, TypeOK
  <2>2. CASE Relay(u)
    BY <2>1, <2>2, BroadcastType, Sockets DEF Relay
  <2>3. CASE \E label \in {"counted", "timed", "serve"} : Goto(u, label) /\ UNCHANGED todo
    BY <1>1, <2>1, <2>3, GotoType DEF Pc
  <2> QED
    BY <2>2, <2>3 DEF CountHit, ExpireKey, Judge
<1> QED
  BY <1>2, <1>3, <1>4, <1>5
     DEF viewports, clients, TypeOK, ViewportType, ClientType, FixType, WireType, ShownType

LEMMA SendType == ASSUME TypeOK, NEW u \in Tokens, Send(u) PROVE TypeOK'
<1>1. PICK v \in todo[u] : Show(v, u, geo[u].n) /\ Broadcast(u, pc[u], todo[u] \ {v})
  BY DEF Send
<1>2. geo[u].n \in Nat /\ v \in Tokens /\ todo[u] \subseteq Tokens
  BY FixNumber DEF TypeOK, FixType, CoroutineType
<1>3. ShownType'
  BY <1>1, <1>2, ShowType DEF TypeOK, Send, clients
<1>4. CoroutineType'
  BY <1>1, <1>2, BroadcastType DEF TypeOK, Send, clients
<1> QED
  BY <1>3, <1>4
     DEF Send, viewports, limiter, clients, TypeOK, ViewportType, LimiterType, ClientType,
         FixType, WireType

LEMMA PublishType == ASSUME TypeOK, NEW u \in Tokens, Publish(u) PROVE TypeOK'
<1>1. geo[u] \in Fixes
  BY DEF TypeOK, FixType
<1>2. WireType'
  <2> DEFINE Messages == [of : Tokens, fix : Fixes]
             m == [of |-> u, fix |-> geo[u]]
  <2>1. wire \in [Processes -> Seq(Messages)] /\ m \in Messages
    BY <1>1 DEF TypeOK, WireType
  <2>2. wire' = [p \in Processes |-> Append(wire[p], m)] \/ wire' = wire
    BY DEF Publish
  <2>3. wire' \in [Processes -> Seq(Messages)]
    <3> HIDE DEF Messages, m
    <3>1. ASSUME NEW p \in Processes PROVE Append(wire[p], m) \in Seq(Messages)
      <4>1. wire[p] \in Seq(Messages) /\ m \in Messages
        BY <2>1
      <4> QED
        BY <4>1, AppendProperties
    <3> QED
      BY <2>1, <2>2, <3>1
  <2> QED
    BY <2>3 DEF Publish, TypeOK, WireType
<1>3. FixType'
  BY <1>1 DEF Publish, TypeOK, FixType
<1>4. faults' \in 0..MaxFaults
  BY FaultType DEF Publish, TypeOK
<1>5. CoroutineType'
  BY GotoType DEF TypeOK, Publish, clients, Pc
<1> QED
  BY <1>2, <1>3, <1>4, <1>5
     DEF Publish, viewports, limiter, clients, TypeOK, ViewportType, LimiterType, ClientType,
         ShownType

LEMMA ForwardType == ASSUME TypeOK, NEW u \in Tokens, Forward(u) PROVE TypeOK'
<1>1. CoroutineType'
  BY BroadcastType, Sockets DEF TypeOK, Forward, clients
<1> QED
  BY <1>1
     DEF Forward, viewports, limiter, clients, TypeOK, ViewportType, LimiterType, ClientType,
         FixType, WireType, ShownType

LEMMA ReadPositionType == ASSUME TypeOK, NEW v \in Tokens, ReadPosition(v) PROVE TypeOK'
<1>1. /\ UNCHANGED <<viewports, limiter, clients, geo, wire, listener, shown, asks, published>>
      /\ pc[v] = "collect" /\ v \in maps
  BY DEF ReadPosition, TypeOK, CoroutineType
<1>2. PICK m \in todo[v] :
        \/ /\ \E n \in Read(geo[m], subs[v].box) : snapshot' = [snapshot EXCEPT ![v][m] = n]
           /\ todo' = [todo EXCEPT ![v] = @ \ {m}]
           /\ UNCHANGED <<pc, late, faults>>
        \/ /\ Fault
           /\ todo' = [todo EXCEPT ![v] = {}]
           /\ Goto(v, "serve")
           /\ late' = late \cup {v}
           /\ UNCHANGED snapshot
  BY DEF ReadPosition
<1>3. m \in Tokens /\ Read(geo[m], subs[v].box) \subseteq Nat
  BY FixNumber DEF TypeOK, FixType, CoroutineType, Read
<1>4. ShownType'
  BY <1>1, <1>2, <1>3 DEF TypeOK, ShownType, clients
<1>5. CoroutineType'
  BY <1>1, <1>2 DEF TypeOK, CoroutineType, Goto, Pc, clients
<1>6. faults' \in 0..MaxFaults
  BY <1>2, FaultType DEF TypeOK
<1> QED
  BY <1>1, <1>4, <1>5, <1>6
     DEF viewports, limiter, clients, TypeOK, ViewportType, LimiterType, ClientType, FixType, WireType

LEMMA SendSnapshotType == ASSUME TypeOK, NEW v \in Tokens, SendSnapshot(v) PROVE TypeOK'
<1>1. ShownType'
  BY DEF SendSnapshot, TypeOK, ShownType, clients
<1>2. CoroutineType'
  BY GotoType DEF SendSnapshot, TypeOK, clients, Pc
<1> QED
  BY <1>1, <1>2
     DEF SendSnapshot, viewports, limiter, clients, TypeOK, ViewportType, LimiterType, ClientType,
         FixType, WireType

\* A viewport frame is one of those the client may still send.
LEMMA AskType == ASSUME ClientType, NEW v \in Tokens, ReadAsk(v), UNCHANGED clients PROVE ClientType'
<1>1. \A u \in Tokens : MaxAsks[u] \in Nat /\ asks[u] \in 0..MaxAsks[u]
  BY FeedAssumption DEF ClientType
<1>2. asks[v] - 1 \in 0..MaxAsks[v]
  BY <1>1 DEF ReadAsk
<1>3. \A u \in Tokens : asks'[u] = IF u = v /\ v \in DOMAIN asks THEN asks[v] - 1 ELSE asks[u]
  BY DEF ReadAsk
<1>4. \A u \in Tokens : asks'[u] \in 0..MaxAsks[u]
  BY <1>1, <1>2, <1>3
<1> QED
  BY <1>4 DEF ClientType, clients

LEMMA ReadSubscribeType == ASSUME TypeOK, NEW v \in Tokens, ReadSubscribe(v) PROVE TypeOK'
<1>1. PICK request \in Requests : Subscribe(v, request.box, request.zoom)
  BY DEF ReadSubscribe
<1>2. [box |-> request.box, zoom |-> request.zoom] = request
  BY FeedAssumption
<1>3. PICK added \in SUBSET (Int \X Int) : cells' = [cells EXCEPT ![v] = @ \cup added]
  BY <1>1, SweepsInt DEF Subscribe
<1>4. ViewportType'
  BY <1>1, <1>2, <1>3 DEF TypeOK, ViewportType, Subscribe
<1>5. ClientType'
  BY AskType DEF ReadSubscribe, TypeOK
<1>6. ShownType'
  BY DEF ReadSubscribe, ReadAsk, TypeOK, ShownType, Unseen, clients
<1>7. CoroutineType'
  BY DEF ReadSubscribe, ReadAsk, TypeOK, CoroutineType, Goto, Pc, clients
<1>8. faults' \in 0..MaxFaults
  BY FaultType DEF ReadSubscribe, TypeOK
<1> QED
  BY <1>4, <1>5, <1>6, <1>7, <1>8
     DEF ReadSubscribe, limiter, TypeOK, LimiterType, FixType, WireType

LEMMA ReadUnsubscribeType == ASSUME TypeOK, NEW v \in Tokens, ReadUnsubscribe(v) PROVE TypeOK'
<1>1. ViewportType'
  BY DEF ReadUnsubscribe, Unsubscribe, TypeOK, ViewportType
<1>2. ClientType'
  BY AskType DEF ReadUnsubscribe, TypeOK
<1> QED
  BY <1>1, <1>2
     DEF ReadUnsubscribe, limiter, clients, TypeOK, LimiterType, CoroutineType, FixType, WireType, ShownType

LEMMA ElapseType == ASSUME TypeOK, NEW u \in Tokens, Elapse(u) PROVE TypeOK'
<1>1. LimiterType'
  BY FeedAssumption DEF Elapse, Lapse, TypeOK, LimiterType
<1> QED
  BY <1>1
     DEF Elapse, viewports, clients, feed, TypeOK, ViewportType, ClientType, CoroutineType, FixType,
         WireType, ShownType

(***************************************************************************)
(* The steps of a process's listener.                                      *)
(***************************************************************************)

LEMMA ListenerTakeType == ASSUME TypeOK, NEW p \in Processes, ListenerTake(p) PROVE TypeOK'
<1> DEFINE Messages == [of : Tokens, fix : Fixes]
           m == Head(wire[p])
<1>1. wire \in [Processes -> Seq(Messages)] /\ wire[p] # <<>>
  BY DEF TypeOK, WireType, ListenerTake
<1>2. m \in Messages /\ Tail(wire[p]) \in Seq(Messages)
  <2> HIDE DEF Messages
  <2> QED
    BY <1>1
<1>3. m.of \in Tokens /\ m.fix.n \in Nat
  BY <1>2, FixNumber
<1>4. PICK key : listener' = [listener EXCEPT ![p] = [of |-> m.of, n |-> m.fix.n,
                                                      to |-> SubscribersAt(p, key)]]
  BY DEF ListenerTake
<1>5. listener' \in [Processes -> [of : Tokens, n : Nat, to : SUBSET Tokens]]
  <2> HIDE DEF m
  <2> QED
    BY <1>3, <1>4, Sockets DEF TypeOK, WireType
<1>6. wire' \in [Processes -> Seq(Messages)]
  <2> HIDE DEF Messages, m
  <2> QED
    BY <1>1, <1>2 DEF ListenerTake
<1> QED
  BY <1>5, <1>6
     DEF ListenerTake, viewports, limiter, clients, TypeOK, ViewportType, LimiterType, ClientType,
         CoroutineType, FixType, WireType, ShownType

LEMMA ListenerSendType == ASSUME TypeOK, NEW p \in Processes, ListenerSend(p) PROVE TypeOK'
<1>1. PICK v \in listener[p].to :
        /\ Show(v, listener[p].of, listener[p].n)
        /\ listener' = [listener EXCEPT ![p].to = @ \ {v}]
  BY DEF ListenerSend
<1>2. /\ listener \in [Processes -> [of : Tokens, n : Nat, to : SUBSET Tokens]]
      /\ listener[p].of \in Tokens /\ listener[p].n \in Nat /\ v \in Tokens
  BY DEF TypeOK, WireType
<1>3. ShownType'
  BY <1>1, <1>2, ShowType DEF ListenerSend, TypeOK, clients
<1>4. listener' \in [Processes -> [of : Tokens, n : Nat, to : SUBSET Tokens]]
  BY <1>1, <1>2
<1> QED
  BY <1>3, <1>4
     DEF ListenerSend, viewports, limiter, clients, TypeOK, ViewportType, LimiterType, ClientType,
         CoroutineType, FixType, WireType

\* No step of anyone leaves the types.
LEMMA StepType == TypeOK /\ [Next]_vars => TypeOK'
<1> SUFFICES ASSUME TypeOK, [Next]_vars PROVE TypeOK'
  OBVIOUS
<1>1. CASE UNCHANGED vars
  BY <1>1
     DEF vars, viewports, limiter, clients, feed, TypeOK, ViewportType, LimiterType, ClientType,
         CoroutineType, FixType, WireType, ShownType
<1> QED
  BY <1>1, StoreFixType, LimitedType, SendType, PublishType, ForwardType, ReadPositionType,
     SendSnapshotType, ReadSubscribeType, ReadUnsubscribeType, ElapseType, ListenerTakeType,
     ListenerSendType
     DEF Next, Run

\* Every variable of the feed keeps its kind, whoever is connected where.
THEOREM TypeCorrect == Spec => []TypeOK
  BY InitType, StepType, PTL DEF Spec

(***************************************************************************)
(* The viewport index.                                                     *)
(***************************************************************************)

\* A token is found in the cells that some rounding enters its box in.
EnteredIn(t, box, zoom) ==
    \E lats \in Sweeps(box.south, box.north, CellSize(zoom)),
       lngs \in Sweeps(box.west, box.east, CellSize(zoom)) : lats \X lngs \subseteq cells[t]

Entered == \A t \in Tokens : subs[t] # NoSub => EnteredIn(t, subs[t].box, subs[t].zoom)

LEMMA EnteredStep == TypeOK /\ Entered /\ [Next]_vars => Entered'
<1> SUFFICES ASSUME TypeOK, Entered, [Next]_vars PROVE Entered'
  OBVIOUS
<1>1. CASE UNCHANGED viewports
  BY <1>1 DEF Entered, EnteredIn, viewports
<1>2. ASSUME NEW v \in Tokens, NEW request \in Requests, Subscribe(v, request.box, request.zoom)
      PROVE  Entered'
  <2>1. \A t \in Tokens : t # v => subs'[t] = subs[t] /\ cells'[t] = cells[t]
    BY <1>2 DEF Subscribe, TypeOK, ViewportType
  <2>2. subs'[v].box = request.box /\ subs'[v].zoom = request.zoom
    BY <1>2 DEF Subscribe, TypeOK, ViewportType
  <2>3. EnteredIn(v, request.box, request.zoom)'
    BY <1>2 DEF Subscribe, TypeOK, ViewportType, EnteredIn
  <2> QED
    BY <2>1, <2>2, <2>3 DEF Entered, EnteredIn
<1>3. ASSUME NEW v \in Tokens, Unsubscribe(v) PROVE Entered'
  BY <1>3 DEF Entered, EnteredIn, Unsubscribe, TypeOK, ViewportType
<1> QED
  BY <1>1, <1>2, <1>3
     DEF Next, Run, vars, StoreFix, CountHit, ExpireKey, Judge, Send, Publish, Forward, ReadPosition,
         SendSnapshot, ReadSubscribe, ReadUnsubscribe, Elapse, ListenerTake, ListenerSend

\* A point of the interior shares its cell with a step of the sweep, on either axis.
LEMMA EnteredHeard == TypeOK /\ Entered => InteriorHeard
<1> SUFFICES ASSUME TypeOK, Entered, NEW t \in Tokens, Regular(t),
                    NEW lat \in subs[t].box.south .. subs[t].box.north - CellSize(LookupZoom),
                    NEW lng \in subs[t].box.west .. subs[t].box.east - CellSize(LookupZoom),
                    NEW key \in LookupKeys(<<lat, lng>>)
             PROVE  t \in SubscribersOf(key)
  BY DEF InteriorHeard
<1> DEFINE box == subs[t].box
<1>1. /\ subs[t] # NoSub /\ CellSize(subs[t].zoom) = 25
      /\ box.south % 25 # 0 /\ box.west % 25 # 0
  BY LookupSize DEF Regular
<1>2. subs[t] \in Requests
  BY <1>1 DEF TypeOK, ViewportType
<1>3. box.south \in Int /\ box.north \in Int /\ box.west \in Int /\ box.east \in Int
  BY <1>2, FeedAssumption
<1>4. lat \in box.south .. box.north - 25 /\ lng \in box.west .. box.east - 25
  BY LookupSize
<1>5. PICK lats \in Sweeps(box.south, box.north, 25), lngs \in Sweeps(box.west, box.east, 25) :
         lats \X lngs \subseteq cells[t]
  BY <1>1 DEF Entered, EnteredIn
<1>6. PICK a \in BOOLEAN, b \in BOOLEAN : key = <<Index(lat, 25, a), Index(lng, 25, b)>>
  BY LookupSize DEF LookupKeys, CellKeys
<1>7. Index(lat, 25, a) \in lats
  BY <1>1, <1>3, <1>4, SweepShares
<1>8. Index(lng, 25, b) \in lngs
  BY <1>1, <1>3, <1>4, SweepShares
<1> QED
  BY <1>1, <1>5, <1>6, <1>7, <1>8 DEF SubscribersOf

\* Whatever boxes are subscribed, in whatever order, and however floats are rounded on
\* the borders of cells: a subscription of the lookups' zoom class, whose corner is on no
\* border, is found from every point a cell away from its box's far borders.
THEOREM InteriorFound == Spec => []InteriorHeard
<1>1. Init => Entered
  BY DEF Init, ViewportInit, Entered
<1> QED
  BY <1>1, InitType, StepType, EnteredStep, EnteredHeard, PTL DEF Spec

(***************************************************************************)
(* What radars show.                                                       *)
(***************************************************************************)

\* A radar subscribes nothing, so viewport frames never reach it.
MapsOnly ==
    /\ \A v \in Tokens : subs[v] # NoSub => v \in maps
    /\ \A u \in Tokens : pc[u] = "forward" => todo[u] \subseteq maps
    /\ \A p \in Processes : listener[p].to \subseteq maps

\* The room comes first: a radar of the sender's process shows what is published,
\* and while a fix is relayed it shows that fix unless it is still to be sent to.
Relayed ==
    \A u \in Tokens, v \in Tokens \ maps :
        /\ shown[v][u] <= geo[u].n
        /\ home[u] = home[v] /\ u # v =>
              /\ shown[v][u] >= published[u].n
              /\ pc[u] = "relay" => v \in todo[u] \/ shown[v][u] >= geo[u].n

LEMMA MapsOnlyStep == TypeOK /\ MapsOnly /\ [Next]_vars => MapsOnly'
<1> SUFFICES ASSUME TypeOK, MapsOnly, [Next]_vars PROVE MapsOnly'
  OBVIOUS
<1>1. UNCHANGED maps
  BY DEF Next, Run, vars, clients, feed, StoreFix, CountHit, ExpireKey, Judge, Send, Publish, Forward,
         ReadPosition, SendSnapshot, ReadSubscribe, ReadUnsubscribe, Elapse, ListenerTake, ListenerSend
<1>2. \A p, key : SubscribersAt(p, key) \subseteq maps
  BY DEF MapsOnly, SubscribersAt, SubscribersOf, Room
<1>3. \A v \in Tokens : subs'[v] # NoSub => v \in maps
  <2>1. CASE UNCHANGED viewports
    BY <2>1 DEF MapsOnly, viewports
  <2>2. ASSUME NEW v \in Tokens, ReadSubscribe(v) \/ ReadUnsubscribe(v)
        PROVE  \A t \in Tokens : subs'[t] # NoSub => t \in maps
    BY <2>2 DEF MapsOnly, ReadSubscribe, ReadUnsubscribe, ReadAsk, Subscribe, Unsubscribe, TypeOK,
                ViewportType
  <2> QED
    BY <2>1, <2>2
       DEF Next, Run, vars, StoreFix, CountHit, ExpireKey, Judge, Send, Publish, Forward,
           ReadPosition, SendSnapshot, Elapse, ListenerTake, ListenerSend
<1>4. \A u \in Tokens : pc'[u] = "forward" => todo'[u] \subseteq maps
  <2>1. CASE UNCHANGED <<pc, todo>>
    BY <2>1 DEF MapsOnly
  <2>2. ASSUME NEW u \in Tokens, NEW label \in Pc \ {"forward"}, Goto(u, label),
               \A t \in Tokens \ {u} : todo'[t] = todo[t]
        PROVE  \A t \in Tokens : pc'[t] = "forward" => todo'[t] \subseteq maps
    BY <2>2 DEF MapsOnly, Goto, TypeOK, CoroutineType
  <2>3. ASSUME NEW u \in Tokens, NEW to, NEW stage \in {"relay", "forward"}, Broadcast(u, stage, to),
               stage = "forward" => to \subseteq maps
        PROVE  \A t \in Tokens : pc'[t] = "forward" => todo'[t] \subseteq maps
    BY <2>3 DEF MapsOnly, Broadcast, Goto, TypeOK, CoroutineType
  <2>4. ASSUME NEW u \in Tokens, CountHit(u) \/ ExpireKey(u) \/ Judge(u)
        PROVE  \A t \in Tokens : pc'[t] = "forward" => todo'[t] \subseteq maps
    <3>1. CASE Relay(u)
      BY <3>1, <2>3 DEF Relay
    <3>2. CASE \E label \in {"counted", "timed", "serve"} : Goto(u, label) /\ UNCHANGED todo
      BY <3>2, <2>2 DEF Pc
    <3> QED
      BY <2>4, <3>1, <3>2 DEF CountHit, ExpireKey, Judge
  <2>5. ASSUME NEW u \in Tokens, Send(u)
        PROVE  \A t \in Tokens : pc'[t] = "forward" => todo'[t] \subseteq maps
    <3>1. PICK v \in todo[u] : Broadcast(u, pc[u], todo[u] \ {v})
      BY <2>5 DEF Send
    <3>2. pc[u] \in {"relay", "forward"} /\ (pc[u] = "forward" => todo[u] \ {v} \subseteq maps)
      BY <2>5 DEF Send, MapsOnly
    <3> QED
      BY <3>1, <3>2, <2>3
  <2>6. ASSUME NEW u \in Tokens, Forward(u)
        PROVE  \A t \in Tokens : pc'[t] = "forward" => todo'[t] \subseteq maps
    BY <2>6, <1>2, <2>3 DEF Forward
  <2>7. ASSUME NEW u \in Tokens, ReadPosition(u)
        PROVE  \A t \in Tokens : pc'[t] = "forward" => todo'[t] \subseteq maps
    BY <2>7 DEF ReadPosition, MapsOnly, Goto, TypeOK, CoroutineType
  <2>8. ASSUME NEW u \in Tokens, StoreFix(u) \/ Publish(u) \/ SendSnapshot(u) \/ ReadSubscribe(u)
        PROVE  \A t \in Tokens : pc'[t] = "forward" => todo'[t] \subseteq maps
    <3>1. \E label \in {"stored", "published", "serve", "collect"} : Goto(u, label)
      BY <2>8 DEF StoreFix, Publish, SendSnapshot, ReadSubscribe
    <3>2. \A t \in Tokens \ {u} : todo'[t] = todo[t]
      BY <2>8 DEF StoreFix, Publish, SendSnapshot, ReadSubscribe, TypeOK, CoroutineType
    <3> QED
      BY <3>1, <3>2, <2>2 DEF Pc
  <2> QED
    BY <2>1, <2>4, <2>5, <2>6, <2>7, <2>8
       DEF Next, Run, vars, feed, ReadUnsubscribe, Elapse, ListenerTake, ListenerSend
<1>5. \A p \in Processes : listener'[p].to \subseteq maps
  <2>1. CASE UNCHANGED listener
    BY <2>1 DEF MapsOnly
  <2>2. ASSUME NEW p \in Processes, ListenerTake(p)
        PROVE  \A here \in Processes : listener'[here].to \subseteq maps
    BY <2>2, <1>2 DEF ListenerTake, MapsOnly, TypeOK, WireType
  <2>3. ASSUME NEW p \in Processes, ListenerSend(p)
        PROVE  \A here \in Processes : listener'[here].to \subseteq maps
    BY <2>3 DEF ListenerSend, MapsOnly, TypeOK, WireType
  <2> QED
    BY <2>1, <2>2, <2>3
       DEF Next, Run, vars, feed, StoreFix, CountHit, ExpireKey, Judge, Send, Publish, Forward,
           ReadPosition, SendSnapshot, ReadSubscribe, ReadUnsubscribe, Elapse
<1> QED
  BY <1>1, <1>3, <1>4, <1>5 DEF MapsOnly

LEMMA RelayedStep == TypeOK /\ MapsOnly /\ Relayed /\ [Next]_vars => Relayed'
<1> SUFFICES ASSUME TypeOK, MapsOnly, Relayed, [Next]_vars PROVE Relayed'
  OBVIOUS
<1>1. UNCHANGED clients
  BY DEF Next, Run, vars, feed, StoreFix, CountHit, ExpireKey, Judge, Send, Publish, Forward,
         ReadPosition, SendSnapshot, ReadSubscribe, ReadUnsubscribe, Elapse, ListenerTake, ListenerSend
<1>2. \A u, v \in Tokens : shown[v][u] \in Nat /\ geo[u].n \in Nat /\ published[u].n \in Nat
  BY FixNumber DEF TypeOK, ShownType, FixType
<1>3. ASSUME UNCHANGED <<geo, published>>,
             \A u \in Tokens, v \in Tokens \ maps : shown'[v][u] = shown[v][u],
             \A u \in Tokens : pc'[u] = "relay" =>
                 \/ todo'[u] = Room(home[u])
                 \/ pc[u] = "relay" /\ todo'[u] = todo[u]
      PROVE  Relayed'
  BY <1>1, <1>3 DEF Relayed, Room, clients
<1>4. ASSUME NEW u \in Tokens, StoreFix(u) PROVE Relayed'
  <2>1. geo'[u].n = geo[u].n + 1 /\ \A t \in Tokens \ {u} : geo'[t] = geo[t]
    BY <1>4 DEF StoreFix, TypeOK, FixType
  <2>2. \A t \in Tokens : pc'[t] = "relay" => pc[t] = "relay" /\ t # u
    BY <1>4 DEF StoreFix, Goto, TypeOK, CoroutineType
  <2> QED
    BY <1>1, <1>2, <1>4, <2>1, <2>2 DEF Relayed, StoreFix, clients
<1>5. ASSUME NEW u \in Tokens, CountHit(u) \/ ExpireKey(u) \/ Judge(u) PROVE Relayed'
  <2>1. UNCHANGED <<geo, published, shown>>
    BY <1>5 DEF CountHit, ExpireKey, Judge
  <2>2. CASE Relay(u)
    BY <1>3, <2>1, <2>2 DEF Relay, Broadcast, Goto, TypeOK, CoroutineType
  <2>3. CASE \E label \in {"counted", "timed", "serve"} : Goto(u, label) /\ UNCHANGED todo
    BY <1>3, <2>1, <2>3 DEF Goto, TypeOK, CoroutineType
  <2> QED
    BY <1>5, <2>2, <2>3 DEF CountHit, ExpireKey, Judge
<1>6. ASSUME NEW u \in Tokens, Send(u) PROVE Relayed'
  <2>1. PICK v \in todo[u] : Show(v, u, geo[u].n) /\ Broadcast(u, pc[u], todo[u] \ {v})
    BY <1>6 DEF Send
  <2>2. v \in Tokens /\ UNCHANGED <<geo, published, clients>> /\ pc[u] \in {"relay", "forward"}
    BY <1>6 DEF Send, TypeOK, CoroutineType
  <2>3. \A t \in Tokens : t # u => pc'[t] = pc[t] /\ todo'[t] = todo[t]
    BY <2>1 DEF Broadcast, Goto, TypeOK, CoroutineType
  <2>4. /\ todo'[u] = todo[u] \ {v}
        /\ pc'[u] = "relay" => pc[u] = "relay"
    BY <2>1, <2>2 DEF Broadcast, Goto, TypeOK, CoroutineType
  <2>5. ASSUME NEW r \in Tokens \ maps, NEW t \in Tokens
        PROVE  shown'[r][t] = IF r = v /\ t = u /\ r # u THEN geo[u].n ELSE shown[r][t]
    BY <2>1, <2>2 DEF Show, TypeOK, ShownType
  <2> QED
    BY <1>2, <2>2, <2>3, <2>4, <2>5 DEF Relayed, clients
<1>7. ASSUME NEW u \in Tokens, Publish(u) PROVE Relayed'
  <2>1. /\ UNCHANGED <<geo, clients, shown>>
        /\ pc[u] = "relay" /\ todo[u] = {}
    BY <1>7 DEF Publish
  <2>2. \A t \in Tokens : pc'[t] = "relay" => pc[t] = "relay" /\ todo'[t] = todo[t]
    BY <1>7 DEF Publish, Goto, TypeOK, CoroutineType
  <2>3. \A t \in Tokens : published'[t] = IF t = u /\ published' # published THEN geo[u] ELSE published[t]
    BY <1>7 DEF Publish, TypeOK, FixType
  <2> QED
    BY <1>2, <2>1, <2>2, <2>3 DEF Relayed, clients
<1>8. ASSUME NEW u \in Tokens, Forward(u) PROVE Relayed'
  BY <1>3, <1>8 DEF Forward, Broadcast, Goto, TypeOK, CoroutineType
<1>9. ASSUME NEW v \in Tokens, ReadPosition(v) \/ ReadSubscribe(v) \/ ReadUnsubscribe(v) PROVE Relayed'
  <2>1. UNCHANGED <<geo, published, shown>>
    BY <1>9 DEF ReadPosition, ReadSubscribe, ReadUnsubscribe
  <2>2. ASSUME NEW t \in Tokens, pc'[t] = "relay" PROVE pc[t] = "relay" /\ todo'[t] = todo[t]
    BY <1>9, <2>2 DEF ReadPosition, ReadSubscribe, ReadUnsubscribe, ReadAsk, Goto, TypeOK, CoroutineType
  <2> QED
    BY <1>3, <2>1, <2>2
<1>10. ASSUME NEW v \in Tokens, SendSnapshot(v) PROVE Relayed'
  <2>1. v \in maps
    BY <1>10 DEF SendSnapshot, TypeOK, CoroutineType
  <2>2. \A r \in Tokens \ maps : shown'[r] = shown[r]
    BY <1>10, <2>1 DEF SendSnapshot, TypeOK, ShownType
  <2>3. UNCHANGED <<geo, published, todo>> /\ \A t \in Tokens : pc'[t] = "relay" => pc[t] = "relay"
    BY <1>10 DEF SendSnapshot, Goto, TypeOK, CoroutineType
  <2> QED
    BY <1>3, <2>2, <2>3
<1>11. ASSUME NEW p \in Processes, ListenerSend(p) PROVE Relayed'
  <2>1. PICK v \in listener[p].to : Show(v, listener[p].of, listener[p].n)
    BY <1>11 DEF ListenerSend
  <2>2. v \in maps
    BY DEF MapsOnly
  <2>3. \A r \in Tokens \ maps : shown'[r] = shown[r]
    BY <2>1, <2>2 DEF Show, TypeOK, ShownType
  <2> QED
    BY <1>3, <1>11, <2>3 DEF ListenerSend
<1>12. ASSUME UNCHANGED <<geo, published, shown, pc, todo>> PROVE Relayed'
  BY <1>3, <1>12
<1> QED
  BY <1>4, <1>5, <1>6, <1>7, <1>8, <1>9, <1>10, <1>11, <1>12
     DEF Next, Run, vars, feed, Elapse, ListenerTake

LEMMA InitRadars == Init => MapsOnly /\ Relayed
<1> SUFFICES ASSUME Init PROVE MapsOnly /\ Relayed
  OBVIOUS
<1>1. /\ \A t \in Tokens : subs[t] = NoSub /\ pc[t] = "serve"
      /\ \A p \in Processes : listener[p].to = {}
  BY DEF Init, ViewportInit
<1>2. \A u, v \in Tokens : shown[v][u] = 0 /\ geo[u].n = 0 /\ published[u].n = 0
  BY DEF Init, NoFix, Unseen
<1> QED
  BY <1>1, <1>2 DEF MapsOnly, Relayed

\* What the feed keeps in every state.
LEMMA FeedInv == Spec => [](TypeOK /\ MapsOnly /\ Relayed)
  BY InitType, StepType, InitRadars, MapsOnlyStep, RelayedStep, PTL DEF Spec

\* Whatever fails, and whoever is connected where: what other processes are told of
\* a user, every radar in the user's own process has been told before.
THEOREM RoomComesFirst == Spec => []RoomFirst
<1>1. Relayed => RoomFirst
  BY DEF Relayed, RoomFirst
<1> QED
  BY <1>1, FeedInv, PTL

(***************************************************************************)
(* Radars implement LossyFifo.                                             *)
(***************************************************************************)

\* The frames each radar has been given; a full map counts as given none.
Seen == [v \in Tokens |-> IF v \in maps THEN Unseen ELSE shown[v]]
Sent == [u \in Tokens |-> geo[u].n]

LEMMA RadarsInit == Init => Radars!Init
<1> SUFFICES ASSUME Init PROVE Radars!Init
  OBVIOUS
<1>1. [u \in Tokens |-> geo[u].n] = [u \in Tokens |-> 0]
  BY DEF Init, NoFix
<1>2. [v \in Tokens |-> IF v \in maps THEN Unseen ELSE shown[v]] = [v \in Tokens |-> Unseen]
  BY DEF Init
<1> QED
  BY <1>1, <1>2 DEF Radars!Init, Unseen

\* A step that shows no radar anything and stores no fix is a stutter.
LEMMA RadarsStutter ==
    ASSUME \A u \in Tokens : geo'[u] = geo[u], UNCHANGED maps,
           \A v \in Tokens \ maps : shown'[v] = shown[v]
    PROVE  Sent' = Sent /\ Seen' = Seen
  BY DEF Sent, Seen

LEMMA RadarsStep ==
    TypeOK /\ MapsOnly /\ Relayed /\ [Next]_vars => [Radars!Next]_<<Sent, Seen>>
<1> SUFFICES ASSUME TypeOK, MapsOnly, Relayed, [Next]_vars
             PROVE  [Radars!Next]_<<Sent, Seen>>
  OBVIOUS
<1>1. UNCHANGED clients
  BY DEF Next, Run, vars, feed, StoreFix, CountHit, ExpireKey, Judge, Send, Publish, Forward,
         ReadPosition, SendSnapshot, ReadSubscribe, ReadUnsubscribe, Elapse, ListenerTake, ListenerSend
<1>2. ASSUME NEW u \in Tokens, StoreFix(u) PROVE Radars!Send(u)
  <2>1. geo'[u].n = geo[u].n + 1 /\ \A t \in Tokens \ {u} : geo'[t] = geo[t]
    BY <1>2 DEF StoreFix, TypeOK, FixType
  <2>2. Sent' = [Sent EXCEPT ![u] = @ + 1]
    BY <2>1 DEF Sent
  <2>3. Seen' = Seen
    BY <1>1, <1>2 DEF StoreFix, Seen, clients
  <2> QED
    BY <2>2, <2>3 DEF Radars!Send, Sent, Seen
<1>3. ASSUME NEW u \in Tokens, Send(u)
      PROVE  (Sent' = Sent /\ Seen' = Seen) \/ \E r \in Tokens : Radars!Deliver(r, u)
  <2>1. PICK v \in todo[u] : Show(v, u, geo[u].n)
    BY <1>3 DEF Send
  <2>2. v \in Tokens /\ geo' = geo /\ UNCHANGED clients
    BY <1>3 DEF Send, TypeOK, CoroutineType
  <2>3. CASE v \in maps \/ v = u \/ shown[v][u] = geo[u].n
    <3>1. \A r \in Tokens \ maps : shown'[r] = shown[r]
      BY <2>1, <2>2, <2>3 DEF Show, TypeOK, ShownType
    <3> QED
      BY <2>2, <3>1, RadarsStutter DEF clients
  <2>4. CASE v \notin maps /\ v # u /\ shown[v][u] # geo[u].n
    <3>1. shown[v][u] \in Nat /\ geo[u].n \in Nat /\ shown[v][u] <= geo[u].n
      BY <2>2, <2>4, FixNumber DEF Relayed, TypeOK, ShownType, FixType
    <3>2. geo[u].n \in Seen[v][u] + 1 .. Sent[u]
      BY <2>2, <2>4, <3>1 DEF Seen, Sent
    <3>3. shown' = [shown EXCEPT ![v][u] = geo[u].n]
      BY <2>1, <2>4 DEF Show
    <3>4. Seen' = [Seen EXCEPT ![v][u] = geo[u].n]
      <4>1. Seen' = [r \in Tokens |-> IF r \in maps THEN Unseen ELSE shown'[r]]
        BY <2>2 DEF Seen, clients
      <4>2. ASSUME NEW r \in Tokens
            PROVE  (IF r \in maps THEN Unseen ELSE shown'[r]) = [Seen EXCEPT ![v][u] = geo[u].n][r]
        BY <2>2, <2>4, <3>3 DEF Seen, TypeOK, ShownType
      <4> QED
        BY <4>1, <4>2 DEF Seen
    <3>5. Sent' = Sent
      BY <2>2 DEF Sent
    <3>6. Seen'[v][u] = geo[u].n
      <4>1. v \in DOMAIN Seen /\ u \in DOMAIN Seen[v]
        BY <2>2, <2>4 DEF Seen, TypeOK, ShownType
      <4> QED
        BY <3>4, <4>1
    <3>7. Radars!Deliver(v, u)
      BY <3>2, <3>4, <3>5, <3>6 DEF Radars!Deliver, Seen, Sent
    <3> QED
      BY <2>2, <3>7
  <2> QED
    BY <2>3, <2>4
<1>4. ASSUME NEW v \in Tokens, SendSnapshot(v) PROVE Sent' = Sent /\ Seen' = Seen
  <2>1. v \in maps
    BY <1>4 DEF SendSnapshot, TypeOK, CoroutineType
  <2>2. \A r \in Tokens \ maps : shown'[r] = shown[r]
    BY <1>4, <2>1 DEF SendSnapshot, TypeOK, ShownType
  <2> QED
    BY <1>1, <1>4, <2>2, RadarsStutter DEF SendSnapshot, clients
<1>5. ASSUME NEW p \in Processes, ListenerSend(p) PROVE Sent' = Sent /\ Seen' = Seen
  <2>1. PICK v \in listener[p].to : Show(v, listener[p].of, listener[p].n)
    BY <1>5 DEF ListenerSend
  <2>2. v \in maps
    BY DEF MapsOnly
  <2>3. \A r \in Tokens \ maps : shown'[r] = shown[r]
    BY <2>1, <2>2 DEF Show, TypeOK, ShownType
  <2> QED
    BY <1>1, <1>5, <2>3, RadarsStutter DEF ListenerSend, clients
<1>6. ASSUME UNCHANGED <<geo, shown>> PROVE Sent' = Sent /\ Seen' = Seen
  BY <1>1, <1>6, RadarsStutter DEF clients
<1>7. \/ \E u \in Tokens : StoreFix(u) \/ Send(u) \/ SendSnapshot(u)
      \/ \E p \in Processes : ListenerSend(p)
      \/ UNCHANGED <<geo, shown>>
  BY DEF Next, Run, vars, feed, CountHit, ExpireKey, Judge, Publish, Forward, ReadPosition,
         ReadSubscribe, ReadUnsubscribe, Elapse, ListenerTake
<1> QED
  BY <1>2, <1>3, <1>4, <1>5, <1>6, <1>7 DEF Radars!Next

\* The radars of a session implement LossyFifo: they never go back to an older fix
\* and never show one before it was sent, whatever fails.
THEOREM NeverGoesBack == Spec => NeverBack
<1>1. [Next]_vars /\ TypeOK /\ MapsOnly /\ Relayed =>
      [Radars!Next]_<<[u \in Tokens |-> geo[u].n],
                      [v \in Tokens |-> IF v \in maps THEN Unseen ELSE shown[v]]>>
  BY RadarsStep DEF Sent, Seen
<1> QED
  BY <1>1, RadarsInit, FeedInv, PTL DEF Spec, NeverBack, Radars!Spec

(***************************************************************************)
(* What full maps show.                                                    *)
(***************************************************************************)

\* Nobody changes place or client.
LEMMA ClientsStay == [Next]_vars => UNCHANGED clients
  BY DEF Next, Run, vars, feed, StoreFix, CountHit, ExpireKey, Judge, Send, Publish, Forward,
         ReadPosition, SendSnapshot, ReadSubscribe, ReadUnsubscribe, Elapse, ListenerTake, ListenerSend

Early == {"stored", "counted", "timed", "relay"}

\* No fix is published before it is stored, and one that is still to be published is
\* newer than the last that was.
Ahead ==
    \A u \in Tokens :
        /\ published[u].n <= geo[u].n
        /\ pc[u] \in Early => published[u].n < geo[u].n

\* A fix of u is on its way to process p.
OnWire(p, u) == \E i \in 1..Len(wire[p]) : wire[p][i].of = u

\* The last fix of u on the wire, or else the one in the hands of the listener, is the
\* last published one.
LastIsPublished ==
    \A p \in Processes :
        /\ listener[p].to \subseteq Room(p)
        /\ \A u \in Tokens :
              /\ \A i \in 1..Len(wire[p]) : wire[p][i].of = u =>
                    \/ wire[p][i].fix = published[u]
                    \/ \E j \in i + 1..Len(wire[p]) : wire[p][j].of = u
              /\ \/ OnWire(p, u)
                 \/ listener[p].to # {} /\ listener[p].of = u => listener[p].n = published[u].n

\* The full map of v has to come to show the fix that u has published last.
Watched(v, u) ==
    /\ v \in maps \ late
    /\ Regular(v)
    /\ published[u] # NoFix /\ geo[u] = published[u]
    /\ WellInside(geo[u].at, subs[v].box)

\* It shows the fix, or the wire, the listener or the snapshot will bring it.
Followed(v, u) ==
    \/ OnWire(home[v], u)
    \/ listener[home[v]].of = u /\ v \in listener[home[v]].to
    \/ pc[v] = "collect" /\ (u \in todo[v] \/ snapshot[v][u] = geo[u].n)
    \/ pc[v] # "collect" /\ shown[v][u] = geo[u].n

NoGap == \A v, u \in Tokens : Watched(v, u) => Followed(v, u)

LEMMA InitFresh == Init => Ahead /\ LastIsPublished /\ NoGap
<1> SUFFICES ASSUME Init PROVE Ahead /\ LastIsPublished /\ NoGap
  OBVIOUS
<1>1. \A u \in Tokens : published[u] = NoFix /\ geo[u] = NoFix /\ pc[u] = "serve"
  BY DEF Init
<1>2. \A p \in Processes : Len(wire[p]) = 0 /\ listener[p].to = {}
  BY EmptySeq DEF Init
<1> QED
  BY <1>1, <1>2 DEF Ahead, LastIsPublished, NoGap, Watched, Early, NoFix

\* What a listener takes: the rest of the wire, and what the head of it was.
LEMMA TakenWire ==
    ASSUME TypeOK, NEW p \in Processes, ListenerTake(p)
    PROVE  /\ Len(wire[p]) \in Nat \ {0} /\ Len(wire'[p]) = Len(wire[p]) - 1
           /\ \A i \in 1..Len(wire'[p]) : wire'[p][i] = wire[p][i + 1]
           /\ \A q \in Processes \ {p} : wire'[q] = wire[q] /\ listener'[q] = listener[q]
           /\ listener[p].to = {}
           /\ listener'[p].of = wire[p][1].of /\ listener'[p].n = wire[p][1].fix.n
           /\ \E key \in LookupKeys(wire[p][1].fix.at) : listener'[p].to = SubscribersAt(p, key)
           /\ UNCHANGED <<viewports, snapshot, shown, late, geo, published, pc, todo>>
<1> DEFINE Messages == [of : Tokens, fix : Fixes]
<1>1. wire \in [Processes -> Seq(Messages)] /\ wire[p] # <<>> /\ wire[p] \in Seq(Messages)
  BY DEF TypeOK, WireType, ListenerTake
<1> HIDE DEF Messages
<1>2. Head(wire[p]) = wire[p][1] /\ Len(wire[p]) \in Nat \ {0}
  BY <1>1, EmptySeq, LenProperties
<1>3. /\ Len(Tail(wire[p])) = Len(wire[p]) - 1
      /\ \A i \in 1..Len(Tail(wire[p])) : Tail(wire[p])[i] = wire[p][i + 1]
  BY <1>1, HeadTailProperties
<1>4. wire' = [wire EXCEPT ![p] = Tail(@)]
  BY DEF ListenerTake
<1>5. PICK key \in LookupKeys(wire[p][1].fix.at) :
         listener' = [listener EXCEPT ![p] = [of |-> wire[p][1].of, n |-> wire[p][1].fix.n,
                                              to |-> SubscribersAt(p, key)]]
  BY <1>2 DEF ListenerTake
<1>6. /\ listener'[p] = [of |-> wire[p][1].of, n |-> wire[p][1].fix.n, to |-> SubscribersAt(p, key)]
      /\ \A q \in Processes \ {p} : listener'[q] = listener[q]
  BY <1>5 DEF TypeOK, WireType
<1>7. wire'[p] = Tail(wire[p]) /\ \A q \in Processes \ {p} : wire'[q] = wire[q]
  BY <1>1, <1>4
<1>8. /\ listener[p].to = {}
      /\ UNCHANGED <<viewports, snapshot, shown, late, geo, published, pc, todo>>
  BY DEF ListenerTake
<1> QED
  BY <1>2, <1>3, <1>6, <1>7, <1>8

\* What PUBLISH puts on every wire, if it succeeds.
LEMMA PublishedWire ==
    ASSUME TypeOK, NEW u \in Tokens, Publish(u)
    PROVE  \/ UNCHANGED <<wire, published>>
           \/ /\ \A p \in Processes :
                    /\ Len(wire[p]) \in Nat /\ Len(wire'[p]) = Len(wire[p]) + 1
                    /\ \A i \in 1..Len(wire[p]) : wire'[p][i] = wire[p][i]
                    /\ wire'[p][Len(wire[p]) + 1] = [of |-> u, fix |-> geo[u]]
              /\ \A t \in Tokens : published'[t] = IF t = u THEN geo[u] ELSE published[t]
<1> DEFINE Messages == [of : Tokens, fix : Fixes]
           m == [of |-> u, fix |-> geo[u]]
<1>1. wire \in [Processes -> Seq(Messages)] /\ m \in Messages
  BY DEF TypeOK, WireType, FixType
<1> HIDE DEF Messages
<1>2. ASSUME NEW p \in Processes
      PROVE  /\ Len(wire[p]) \in Nat /\ Len(Append(wire[p], m)) = Len(wire[p]) + 1
             /\ \A i \in 1..Len(wire[p]) : Append(wire[p], m)[i] = wire[p][i]
             /\ Append(wire[p], m)[Len(wire[p]) + 1] = m
  <2>1. wire[p] \in Seq(Messages)
    BY <1>1
  <2> HIDE DEF m
  <2> QED
    BY <1>1, <2>1, AppendProperties, LenProperties
<1>3. CASE wire' = [p \in Processes |-> Append(wire[p], m)] /\ published' = [published EXCEPT ![u] = geo[u]]
  <2> HIDE DEF m
  <2>1. \A t \in Tokens : published'[t] = IF t = u THEN geo[u] ELSE published[t]
    BY <1>3 DEF TypeOK, FixType
  <2> QED
    BY <1>2, <1>3, <2>1 DEF m
<1> QED
  BY <1>3 DEF Publish

LEMMA AheadStep == TypeOK /\ Ahead /\ [Next]_vars => Ahead'
<1> SUFFICES ASSUME TypeOK, Ahead, [Next]_vars PROVE Ahead'
  OBVIOUS
<1>1. \A u \in Tokens : geo[u].n \in Nat /\ published[u].n \in Nat
  BY FixNumber DEF TypeOK, FixType
<1>2. ASSUME UNCHANGED <<geo, published>>, \A u \in Tokens : pc'[u] \in Early => pc[u] \in Early
      PROVE  Ahead'
  BY <1>2 DEF Ahead
<1>3. ASSUME NEW u \in Tokens, StoreFix(u) PROVE Ahead'
  <2>1. geo'[u].n = geo[u].n + 1 /\ \A t \in Tokens \ {u} : geo'[t] = geo[t] /\ pc'[t] = pc[t]
    BY <1>3 DEF StoreFix, Goto, TypeOK, FixType, CoroutineType
  <2> QED
    BY <1>1, <1>3, <2>1 DEF Ahead, StoreFix
<1>4. ASSUME NEW u \in Tokens, CountHit(u) \/ ExpireKey(u) \/ Judge(u) PROVE Ahead'
  <2>1. UNCHANGED <<geo, published>> /\ pc[u] \in Early
    BY <1>4 DEF CountHit, ExpireKey, Judge, Early
  <2>2. \A t \in Tokens \ {u} : pc'[t] = pc[t]
    BY <1>4 DEF CountHit, ExpireKey, Judge, Relay, Broadcast, Goto, TypeOK, CoroutineType
  <2> QED
    BY <1>2, <2>1, <2>2
<1>5. ASSUME NEW u \in Tokens, Send(u) PROVE Ahead'
  <2>1. PICK v \in todo[u] : Broadcast(u, pc[u], todo[u] \ {v})
    BY <1>5 DEF Send
  <2> QED
    BY <1>2, <1>5, <2>1 DEF Send, Broadcast, Goto, Early, TypeOK, CoroutineType
<1>6. ASSUME NEW u \in Tokens, Publish(u) PROVE Ahead'
  <2>1. \A t \in Tokens : published'[t] = IF t = u /\ published' # published THEN geo[t] ELSE published[t]
    <3>1. published' = published \/ \A t \in Tokens : published'[t] = IF t = u THEN geo[u] ELSE published[t]
      BY <1>6, PublishedWire
    <3> QED
      BY <3>1
  <2>2. \A t \in Tokens : pc'[t] = IF t = u THEN "published" ELSE pc[t]
    BY <1>6 DEF Publish, Goto, TypeOK, CoroutineType
  <2> QED
    BY <1>1, <1>6, <2>1, <2>2 DEF Ahead, Publish, Early
<1>7. ASSUME NEW u \in Tokens, Forward(u) PROVE Ahead'
  BY <1>2, <1>7 DEF Forward, Broadcast, Goto, Early, TypeOK, CoroutineType
<1>8. ASSUME NEW v \in Tokens, ReadPosition(v) \/ SendSnapshot(v) \/ ReadSubscribe(v) PROVE Ahead'
  <2>1. UNCHANGED <<geo, published>>
    BY <1>8 DEF ReadPosition, SendSnapshot, ReadSubscribe
  <2>2. UNCHANGED pc \/ Goto(v, "serve") \/ Goto(v, "collect")
    BY <1>8 DEF ReadPosition, SendSnapshot, ReadSubscribe
  <2> QED
    BY <1>2, <2>1, <2>2 DEF Goto, Early, TypeOK, CoroutineType
<1>9. CASE UNCHANGED <<geo, published, pc>>
  BY <1>2, <1>9
<1> QED
  BY <1>3, <1>4, <1>5, <1>6, <1>7, <1>8, <1>9
     DEF Next, Run, vars, feed, ReadUnsubscribe, Elapse, ListenerTake, ListenerSend

LEMMA WireStep == TypeOK /\ LastIsPublished /\ [Next]_vars => LastIsPublished'
<1> SUFFICES ASSUME TypeOK, LastIsPublished, [Next]_vars PROVE LastIsPublished'
  OBVIOUS
<1>1. \A p : Room(p)' = Room(p)
  BY ClientsStay DEF Room, clients
<1>2. CASE UNCHANGED <<wire, listener, published>>
  BY <1>1, <1>2 DEF LastIsPublished, OnWire
<1>3. ASSUME NEW u \in Tokens, Publish(u) PROVE LastIsPublished'
  <2>1. CASE UNCHANGED <<wire, published>>
    BY <1>2, <1>3, <2>1 DEF Publish
  <2>2. ASSUME \A p \in Processes :
                  /\ Len(wire[p]) \in Nat /\ Len(wire'[p]) = Len(wire[p]) + 1
                  /\ \A i \in 1..Len(wire[p]) : wire'[p][i] = wire[p][i]
                  /\ wire'[p][Len(wire[p]) + 1] = [of |-> u, fix |-> geo[u]],
               \A t \in Tokens : published'[t] = IF t = u THEN geo[u] ELSE published[t],
               NEW p \in Processes, NEW t \in Tokens
        PROVE  /\ \A i \in 1..Len(wire'[p]) : wire'[p][i].of = t =>
                     \/ wire'[p][i].fix = published'[t]
                     \/ \E j \in i + 1..Len(wire'[p]) : wire'[p][j].of = t
               /\ \/ OnWire(p, t)'
                  \/ listener'[p].to # {} /\ listener'[p].of = t => listener'[p].n = published'[t].n
    <3> DEFINE last == Len(wire[p]) + 1
    <3>1. last \in Nat /\ Len(wire'[p]) = last /\ wire'[p][last].of = u /\ wire'[p][last].fix = geo[u]
      BY <2>2
    <3>2. \A i \in 1..last : i # last => i \in 1..Len(wire[p]) /\ wire'[p][i] = wire[p][i]
      BY <2>2
    <3>3. \A i \in 1..Len(wire[p]) : i \in 1..last /\ i # last
      BY <2>2
    <3>4. CASE t = u
      <4>1. OnWire(p, t)'
        BY <3>1, <3>4 DEF OnWire
      <4>2. \A i \in 1..last : i # last => last \in i + 1..last
        BY <3>1
      <4> QED
        BY <2>2, <3>1, <3>4, <4>1, <4>2
    <3>5. CASE t # u
      <4>1. OnWire(p, t) => OnWire(p, t)'
        BY <3>1, <3>2, <3>3 DEF OnWire
      <4>2. ASSUME NEW i \in 1..Len(wire'[p]), wire'[p][i].of = t
            PROVE  \/ wire'[p][i].fix = published'[t]
                   \/ \E j \in i + 1..Len(wire'[p]) : wire'[p][j].of = t
        <5>1. i \in 1..Len(wire[p]) /\ wire'[p][i] = wire[p][i]
          BY <3>1, <3>2, <3>5, <4>2
        <5>2. wire[p][i].fix = published[t] \/ \E j \in i + 1..Len(wire[p]) : wire[p][j].of = t
          BY <4>2, <5>1 DEF LastIsPublished
        <5>3. \A j \in i + 1..Len(wire[p]) : j \in i + 1..last /\ wire'[p][j] = wire[p][j]
          BY <2>2, <5>1
        <5> QED
          BY <2>2, <3>1, <3>5, <5>1, <5>2, <5>3
      <4> QED
        BY <1>3, <2>2, <3>5, <4>1, <4>2 DEF LastIsPublished, Publish
    <3> QED
      BY <3>4, <3>5
  <2> QED
    BY <1>1, <1>3, <2>1, <2>2, PublishedWire DEF LastIsPublished, Publish
<1>4. ASSUME NEW p \in Processes, ListenerTake(p) PROVE LastIsPublished'
  <2>1. /\ Len(wire[p]) \in Nat \ {0} /\ Len(wire'[p]) = Len(wire[p]) - 1
        /\ \A i \in 1..Len(wire'[p]) : wire'[p][i] = wire[p][i + 1]
        /\ \A q \in Processes \ {p} : wire'[q] = wire[q] /\ listener'[q] = listener[q]
        /\ listener'[p].of = wire[p][1].of /\ listener'[p].n = wire[p][1].fix.n
        /\ published' = published
    BY <1>4, TakenWire
  <2>2. listener'[p].to \subseteq Room(p)
    BY <1>4, TakenWire DEF SubscribersAt
  <2>3. ASSUME NEW t \in Tokens, NEW i \in 1..Len(wire'[p]), wire'[p][i].of = t
        PROVE  wire'[p][i].fix = published[t] \/ \E j \in i + 1..Len(wire'[p]) : wire'[p][j].of = t
    <3>1. i + 1 \in 1..Len(wire[p]) /\ wire[p][i + 1].of = t
      BY <2>1, <2>3
    <3>2. CASE wire[p][i + 1].fix = published[t]
      BY <2>1, <3>2
    <3>3. ASSUME NEW j \in (i + 1) + 1..Len(wire[p]), wire[p][j].of = t
          PROVE  \E k \in i + 1..Len(wire'[p]) : wire'[p][k].of = t
      <4>1. j - 1 \in i + 1..Len(wire'[p]) /\ j - 1 \in 1..Len(wire'[p]) /\ (j - 1) + 1 = j
        BY <2>1
      <4> QED
        BY <2>1, <3>3, <4>1
    <3> QED
      BY <3>1, <3>2, <3>3 DEF LastIsPublished
  <2>4. ASSUME NEW t \in Tokens, listener'[p].of = t, ~OnWire(p, t)'
        PROVE  listener'[p].n = published[t].n
    <3>1. 1 \in 1..Len(wire[p]) /\ wire[p][1].of = t
      BY <2>1, <2>4
    <3>2. ASSUME NEW j \in 1 + 1..Len(wire[p]), wire[p][j].of = t PROVE FALSE
      <4>1. j - 1 \in 1..Len(wire'[p]) /\ (j - 1) + 1 = j
        BY <2>1
      <4>2. wire'[p][j - 1] = wire[p][j]
        BY <2>1, <4>1
      <4> QED
        BY <2>4, <3>2, <4>1, <4>2 DEF OnWire
    <3>3. wire[p][1].fix = published[t]
      BY <3>1, <3>2 DEF LastIsPublished
    <3> QED
      BY <2>1, <3>3
  <2>5. ASSUME NEW q \in Processes \ {p}, NEW t \in Tokens
        PROVE  /\ \A i \in 1..Len(wire'[q]) : wire'[q][i].of = t =>
                     \/ wire'[q][i].fix = published'[t]
                     \/ \E j \in i + 1..Len(wire'[q]) : wire'[q][j].of = t
               /\ \/ OnWire(q, t)'
                  \/ listener'[q].to # {} /\ listener'[q].of = t => listener'[q].n = published'[t].n
    <3>1. wire'[q] = wire[q] /\ listener'[q] = listener[q] /\ published' = published
      BY <2>1
    <3> QED
      BY <3>1 DEF LastIsPublished, OnWire
  <2>6. ASSUME NEW q \in Processes PROVE listener'[q].to \subseteq Room(q)
    BY <2>1, <2>2 DEF LastIsPublished
  <2>7. ASSUME NEW t \in Tokens
        PROVE  /\ \A i \in 1..Len(wire'[p]) : wire'[p][i].of = t =>
                     \/ wire'[p][i].fix = published'[t]
                     \/ \E j \in i + 1..Len(wire'[p]) : wire'[p][j].of = t
               /\ \/ OnWire(p, t)'
                  \/ listener'[p].to # {} /\ listener'[p].of = t => listener'[p].n = published'[t].n
    <3>1. published' = published
      BY <2>1
    <3> QED
      BY <2>3, <2>4, <3>1
  <2>8. ASSUME NEW q \in Processes, NEW t \in Tokens
        PROVE  /\ \A i \in 1..Len(wire'[q]) : wire'[q][i].of = t =>
                     \/ wire'[q][i].fix = published'[t]
                     \/ \E j \in i + 1..Len(wire'[q]) : wire'[q][j].of = t
               /\ \/ OnWire(q, t)'
                  \/ listener'[q].to # {} /\ listener'[q].of = t => listener'[q].n = published'[t].n
    <3>1. CASE q = p
      BY <2>7, <3>1
    <3>2. CASE q # p
      BY <2>5, <3>2
    <3> QED
      BY <3>1, <3>2
  <2>9. \A q \in Processes : Room(q)' = Room(q)
    BY <1>1 DEF Room
  <2> QED
    BY <2>6, <2>8, <2>9 DEF LastIsPublished
<1>5. ASSUME NEW p \in Processes, ListenerSend(p) PROVE LastIsPublished'
  <2>1. /\ UNCHANGED <<wire, published>>
        /\ \A q \in Processes : /\ listener'[q].of = listener[q].of /\ listener'[q].n = listener[q].n
                                /\ listener'[q].to \subseteq listener[q].to
    BY <1>5 DEF ListenerSend, TypeOK, WireType
  <2> QED
    BY <1>1, <2>1 DEF LastIsPublished, OnWire
<1> QED
  BY <1>2, <1>3, <1>4, <1>5
     DEF Next, Run, vars, feed, StoreFix, CountHit, ExpireKey, Judge, Send, Forward,
         ReadPosition, SendSnapshot, ReadSubscribe, ReadUnsubscribe, Elapse

\* A full map that waits for u's last fix is found from where it is.
LEMMA WatchedFound ==
    ASSUME TypeOK, Entered, NEW v \in Tokens, NEW u \in Tokens, Watched(v, u),
           NEW key \in LookupKeys(published[u].at)
    PROVE  v \in SubscribersAt(home[v], key)
<1> DEFINE box == subs[v].box
           size == CellSize(LookupZoom)
<1>1. Regular(v) /\ subs[v] \in Requests
  BY DEF Watched, Regular, TypeOK, ViewportType
<1>2. box.south \in Int /\ box.north \in Int /\ box.west \in Int /\ box.east \in Int
  BY <1>1, FeedAssumption
<1>3. geo[u] \in [n : Nat, at : Points] /\ published[u] = geo[u]
  BY DEF Watched, TypeOK, FixType, Fixes
<1>4. PICK lat \in Int, lng \in Int : geo[u].at = <<lat, lng>>
  BY <1>3, FeedAssumption
<1>5. lat \in box.south .. box.north - size /\ lng \in box.west .. box.east - size
  <2>1. box.south <= lat /\ lat + 25 <= box.north /\ box.west <= lng /\ lng + 25 <= box.east
    BY <1>2, <1>4, LookupSize DEF Watched, WellInside
  <2> QED
    BY <1>2, <2>1, LookupSize
<1>6. v \in SubscribersOf(key)
  BY <1>1, <1>3, <1>4, <1>5, EnteredHeard DEF InteriorHeard
<1> QED
  BY <1>3, <1>4, <1>6 DEF SubscribersAt, Room

\* A snapshot of that map has the fix: it is neither outside the box nor on its edge.
LEMMA WatchedRead ==
    ASSUME TypeOK, NEW v \in Tokens, NEW u \in Tokens, Watched(v, u)
    PROVE  Read(geo[u], subs[v].box) = {geo[u].n}
<1> DEFINE box == subs[v].box
<1>1. subs[v] \in Requests /\ geo[u] \in [n : Nat, at : Points] /\ geo[u] # NoFix
  BY DEF Watched, Regular, TypeOK, ViewportType, FixType, Fixes
<1>2. box.south \in Int /\ box.north \in Int /\ box.west \in Int /\ box.east \in Int
  BY <1>1, FeedAssumption
<1>3. geo[u].at[1] \in Int /\ geo[u].at[2] \in Int
  BY <1>1, FeedAssumption
<1>4. /\ box.south < geo[u].at[1] /\ geo[u].at[1] < box.north
      /\ box.west < geo[u].at[2] /\ geo[u].at[2] < box.east
  BY <1>2, <1>3, LookupSize DEF Watched, WellInside
<1> QED
  BY <1>1, <1>2, <1>3, <1>4 DEF Read, Inside

LEMMA NoGapStep ==
    TypeOK /\ Entered /\ Ahead /\ LastIsPublished /\ NoGap /\ [Next]_vars => NoGap'
<1> SUFFICES ASSUME TypeOK, Entered, Ahead, LastIsPublished, NoGap, [Next]_vars,
                    NEW v \in Tokens, NEW u \in Tokens, Watched(v, u)'
             PROVE  Followed(v, u)'
  BY DEF NoGap
<1> DEFINE here == home[v]
<1>1. UNCHANGED <<home, maps>> /\ here \in Processes /\ v \in maps
  BY ClientsStay DEF clients, TypeOK, ClientType, Watched
\* The steps that neither write what brings the fix nor what is waited for.
<1>2. ASSUME UNCHANGED <<wire, listener, snapshot, shown, late, geo, published>>,
             subs'[v] = subs[v],
             \/ pc'[v] = pc[v] /\ todo'[v] = todo[v]
             \/ pc[v] # "collect" /\ pc'[v] # "collect"
      PROVE  Followed(v, u)'
  <2>1. Watched(v, u)
    BY <1>1, <1>2 DEF Watched, Regular
  <2>2. Followed(v, u)
    BY <2>1 DEF NoGap
  <2> QED
    BY <1>1, <1>2, <2>2 DEF Followed, OnWire
<1>3. ASSUME NEW w \in Tokens, StoreFix(w) PROVE Followed(v, u)'
  <2>1. geo'[w].n = geo[w].n + 1 /\ (\A t \in Tokens \ {w} : geo'[t] = geo[t]) /\ UNCHANGED published
    BY <1>3 DEF StoreFix, TypeOK, FixType
  <2>2. published[w].n <= geo[w].n /\ published[w].n \in Nat /\ geo[w].n \in Nat
    BY FixNumber DEF Ahead, TypeOK, FixType
  <2>3. geo'[w] # published'[w]
    BY <2>1, <2>2
  <2>4. u # w /\ geo'[u] = geo[u]
    BY <2>1, <2>3 DEF Watched
  <2>5. Watched(v, u)
    BY <1>1, <1>3, <2>1, <2>4 DEF Watched, Regular, StoreFix, viewports
  <2>6. pc'[v] = pc[v] \/ (pc[v] # "collect" /\ pc'[v] # "collect")
    BY <1>3 DEF StoreFix, Goto, TypeOK, CoroutineType
  <2>7. Followed(v, u)
    BY <2>5 DEF NoGap
  <2> QED
    BY <1>1, <1>3, <2>4, <2>6, <2>7 DEF Followed, OnWire, StoreFix
<1>4. ASSUME NEW w \in Tokens, CountHit(w) \/ ExpireKey(w) \/ Judge(w) \/ Forward(w)
      PROVE  Followed(v, u)'
  <2>1. UNCHANGED <<viewports, wire, listener, snapshot, shown, late, geo, published>>
    BY <1>4 DEF CountHit, ExpireKey, Judge, Forward
  <2>2. pc[w] # "collect"
    BY <1>4 DEF CountHit, ExpireKey, Judge, Forward
  <2>3. \/ \E stage \in {"relay", "forward"} : \E to : Broadcast(w, stage, to)
        \/ \E label \in {"counted", "timed", "serve"} : Goto(w, label) /\ UNCHANGED todo
    BY <1>4 DEF CountHit, ExpireKey, Judge, Forward, Relay
  <2>4. \/ pc'[v] = pc[v] /\ todo'[v] = todo[v]
        \/ pc[v] # "collect" /\ pc'[v] # "collect"
    BY <2>2, <2>3 DEF Broadcast, Goto, TypeOK, CoroutineType
  <2> QED
    BY <1>2, <2>1, <2>4 DEF viewports
\* A copy of a fix that a client is sent.
<1>5. ASSUME NEW x \in Tokens, NEW w \in Tokens, NEW n, Show(x, w, n),
             UNCHANGED <<viewports, wire, geo, published, snapshot>>,
             (pc'[v] = pc[v] /\ todo'[v] = todo[v]) \/ (pc[v] # "collect" /\ pc'[v] # "collect"),
             listener'[here] = listener[here]
                \/ (/\ listener'[here].of = listener[here].of
                    /\ listener'[here].to = listener[here].to \ {x}
                    /\ w = listener[here].of /\ n = listener[here].n),
             x = v /\ w = u => OnWire(here, u) \/ n = published[u].n
      PROVE  Followed(v, u)'
  <2>1. Watched(v, u) /\ (pc[v] = "collect" => v # x)
    BY <1>1, <1>5 DEF Watched, Regular, viewports, Show
  <2>2. Followed(v, u) /\ geo[u] = published[u]
    BY <2>1 DEF NoGap, Watched
  <2>3. shown'[v][u] = IF x = v /\ w = u THEN n ELSE shown[v][u]
    BY <1>1, <1>5 DEF Show, TypeOK, ShownType
  <2>4. CASE OnWire(here, u)
    BY <1>1, <1>5, <2>4 DEF Followed, OnWire
  <2>5. CASE listener[here].of = u /\ v \in listener[here].to /\ ~OnWire(here, u)
    <3>1. CASE listener'[here].of = u /\ v \in listener'[here].to
      BY <1>1, <3>1 DEF Followed
    <3>2. CASE x = v /\ w = u
      BY <1>5, <2>1, <2>2, <2>3, <2>5, <3>2 DEF Followed
    <3> QED
      BY <1>5, <2>5, <3>1, <3>2
  <2>6. CASE pc[v] = "collect" /\ (u \in todo[v] \/ snapshot[v][u] = geo[u].n)
    BY <1>5, <2>6 DEF Followed
  <2>7. CASE pc[v] # "collect" /\ shown[v][u] = geo[u].n /\ ~OnWire(here, u)
    BY <1>5, <2>2, <2>3, <2>7 DEF Followed
  <2> QED
    BY <2>2, <2>4, <2>5, <2>6, <2>7 DEF Followed
<1>6. ASSUME NEW w \in Tokens, Send(w) PROVE Followed(v, u)'
  <2>1. PICK x \in todo[w] : Show(x, w, geo[w].n) /\ Broadcast(w, pc[w], todo[w] \ {x})
    BY <1>6 DEF Send
  <2>2. x \in Tokens /\ pc[w] \in {"relay", "forward"}
    BY <1>6 DEF Send, TypeOK, CoroutineType
  <2>3. (pc'[v] = pc[v] /\ todo'[v] = todo[v]) \/ (pc[v] # "collect" /\ pc'[v] # "collect")
    BY <2>1, <2>2 DEF Broadcast, Goto, TypeOK, CoroutineType
  <2>4. geo[u] = published[u]
    BY <1>6 DEF Watched, Send
  <2> QED
    BY <1>5, <1>6, <2>1, <2>2, <2>3, <2>4 DEF Send
<1>7. ASSUME NEW p \in Processes, ListenerSend(p) PROVE Followed(v, u)'
  <2>1. PICK x \in listener[p].to :
          /\ Show(x, listener[p].of, listener[p].n)
          /\ listener' = [listener EXCEPT ![p].to = @ \ {x}]
    BY <1>7 DEF ListenerSend
  <2>2. x \in Tokens /\ listener[p].of \in Tokens /\ home[x] = p
    BY DEF TypeOK, WireType, LastIsPublished, Room
  <2>3. \/ listener'[here] = listener[here] /\ p # here
        \/ /\ p = here
           /\ listener'[here].of = listener[here].of
           /\ listener'[here].to = listener[here].to \ {x}
    BY <1>1, <2>1 DEF TypeOK, WireType
  <2>4. x = v /\ listener[p].of = u => OnWire(here, u) \/ listener[p].n = published[u].n
    BY <2>2 DEF LastIsPublished
  <2> QED
    BY <1>5, <1>7, <2>1, <2>2, <2>3, <2>4 DEF ListenerSend
<1>8. ASSUME NEW w \in Tokens, Publish(w) PROVE Followed(v, u)'
  <2>1. pc[w] # "collect" /\ UNCHANGED <<viewports, listener, snapshot, shown, late, geo, todo>>
    BY <1>8 DEF Publish
  <2>2. pc'[v] = pc[v] \/ (pc[v] # "collect" /\ pc'[v] # "collect")
    BY <1>8, <2>1 DEF Publish, Goto, TypeOK, CoroutineType
  <2>3. CASE UNCHANGED <<wire, published>>
    BY <1>2, <2>1, <2>2, <2>3 DEF viewports
  <2>4. ASSUME Len(wire[here]) \in Nat, Len(wire'[here]) = Len(wire[here]) + 1,
               \A i \in 1..Len(wire[here]) : wire'[here][i] = wire[here][i],
               wire'[here][Len(wire[here]) + 1] = [of |-> w, fix |-> geo[w]],
               published'[u] = IF u = w THEN geo[w] ELSE published[u]
        PROVE  Followed(v, u)'
    <3>1. CASE u = w
      <4>1. Len(wire'[here]) \in 1..Len(wire'[here]) /\ wire'[here][Len(wire'[here])].of = u
        BY <2>4, <3>1
      <4> QED
        BY <1>1, <4>1 DEF Followed, OnWire
    <3>2. CASE u # w
      <4>1. Watched(v, u)
        BY <1>1, <2>1, <2>4, <3>2 DEF Watched, Regular, viewports
      <4>2. Followed(v, u)
        BY <4>1 DEF NoGap
      <4>3. OnWire(here, u) => OnWire(here, u)'
        <5>1. \A i \in 1..Len(wire[here]) : i \in 1..Len(wire'[here])
          BY <2>4
        <5> QED
          BY <1>1, <2>4, <5>1 DEF OnWire
      <4> QED
        BY <1>1, <2>1, <2>2, <4>2, <4>3 DEF Followed
    <3> QED
      BY <3>1, <3>2
  <2> QED
    BY <1>1, <1>8, <2>3, <2>4, PublishedWire
<1>9. ASSUME NEW p \in Processes, ListenerTake(p) PROVE Followed(v, u)'
  <2>1. /\ Len(wire[p]) \in Nat \ {0} /\ Len(wire'[p]) = Len(wire[p]) - 1
        /\ \A i \in 1..Len(wire'[p]) : wire'[p][i] = wire[p][i + 1]
        /\ \A q \in Processes \ {p} : wire'[q] = wire[q] /\ listener'[q] = listener[q]
        /\ listener[p].to = {}
        /\ listener'[p].of = wire[p][1].of
        /\ UNCHANGED <<viewports, snapshot, shown, late, geo, published, pc, todo>>
    BY <1>9, TakenWire
  <2>2. Watched(v, u)
    BY <1>1, <2>1 DEF Watched, Regular, viewports
  <2>3. Followed(v, u)
    BY <2>2 DEF NoGap
  <2>4. CASE OnWire(here, u) /\ p = here
    <3>1. CASE OnWire(here, u)'
      BY <1>1, <3>1 DEF Followed, OnWire
    <3>2. CASE ~OnWire(here, u)'
      <4>1. \A j \in 1 + 1..Len(wire[here]) : wire[here][j].of # u
        <5>1. \A j \in 1 + 1..Len(wire[here]) : j - 1 \in 1..Len(wire'[here]) /\ (j - 1) + 1 = j
          BY <2>1, <2>4
        <5>2. \A i \in 1..Len(wire'[here]) : wire[here][i + 1].of # u
          BY <1>1, <2>1, <2>4, <3>2 DEF OnWire
        <5> QED
          BY <5>1, <5>2
      <4>2. 1 \in 1..Len(wire[here]) /\ wire[here][1].of = u
        <5>1. PICK i \in 1..Len(wire[here]) : wire[here][i].of = u
          BY <2>4 DEF OnWire
        <5>2. i = 1
          BY <2>1, <2>4, <4>1, <5>1
        <5> QED
          BY <5>1, <5>2
      <4>3. wire[here][1].fix = published[u]
        BY <1>1, <4>1, <4>2 DEF LastIsPublished
      <4>4. v \in listener'[here].to /\ listener'[here].of = u
        <5>1. PICK key \in LookupKeys(wire[p][1].fix.at) : listener'[p].to = SubscribersAt(p, key)
          BY <1>9, TakenWire
        <5>2. key \in LookupKeys(published[u].at)
          BY <2>4, <4>3, <5>1
        <5>3. v \in SubscribersAt(home[v], key)
          BY <2>2, <5>2, WatchedFound
        <5> QED
          BY <2>1, <2>4, <4>2, <5>1, <5>3
      <4> QED
        BY <1>1, <4>4 DEF Followed
    <3> QED
      BY <3>1, <3>2
  <2>5. CASE ~(OnWire(here, u) /\ p = here)
    BY <1>1, <2>1, <2>3, <2>5 DEF Followed, OnWire
  <2> QED
    BY <2>4, <2>5
<1>10. ASSUME NEW w \in Tokens, ReadSubscribe(w) \/ ReadUnsubscribe(w) PROVE Followed(v, u)'
  <2>1. w # v => subs'[v] = subs[v]
    BY <1>10 DEF ReadSubscribe, ReadUnsubscribe, Subscribe, Unsubscribe, TypeOK, ViewportType
  <2>2. CASE w = v
    <3>1. ~ReadUnsubscribe(v)
      BY DEF ReadUnsubscribe, Unsubscribe, Watched, Regular, TypeOK, ViewportType
    <3>2. ReadSubscribe(v) /\ v \notin late'
      BY <1>10, <2>2, <3>1 DEF Watched
    <3>3. pc'[v] = "collect" /\ todo'[v] = Tokens
      BY <3>2 DEF ReadSubscribe, Goto, TypeOK, CoroutineType
    <3> QED
      BY <3>3 DEF Followed
  <2>3. CASE w # v
    <3>1. UNCHANGED <<geo, published, wire, listener, shown>> /\ (v \in late <=> v \in late')
      BY <1>10, <2>3 DEF ReadSubscribe, ReadUnsubscribe
    <3>2. pc'[v] = pc[v] /\ todo'[v] = todo[v] /\ snapshot'[v] = snapshot[v]
      BY <1>10, <2>3 DEF ReadSubscribe, ReadUnsubscribe, Goto, TypeOK, CoroutineType, ShownType
    <3>3. Watched(v, u)
      BY <1>1, <2>1, <2>3, <3>1 DEF Watched, Regular
    <3>4. Followed(v, u)
      BY <3>3 DEF NoGap
    <3> QED
      BY <1>1, <3>1, <3>2, <3>4 DEF Followed, OnWire
  <2> QED
    BY <2>2, <2>3
<1>11. ASSUME NEW w \in Tokens, ReadPosition(w) PROVE Followed(v, u)'
  <2>1. /\ UNCHANGED <<viewports, geo, wire, listener, shown, published>>
        /\ pc[w] = "collect"
    BY <1>11 DEF ReadPosition
  <2>2. PICK m \in todo[w] :
        \/ /\ \E n \in Read(geo[m], subs[w].box) : snapshot' = [snapshot EXCEPT ![w][m] = n]
           /\ todo' = [todo EXCEPT ![w] = @ \ {m}]
           /\ UNCHANGED <<pc, late>>
        \/ /\ todo' = [todo EXCEPT ![w] = {}]
           /\ Goto(w, "serve")
           /\ late' = late \cup {w}
           /\ UNCHANGED snapshot
    BY <1>11 DEF ReadPosition
  <2>3. Watched(v, u)
    BY <1>1, <2>1, <2>2 DEF Watched, Regular, viewports
  <2>4. Followed(v, u)
    BY <2>3 DEF NoGap
  <2>5. CASE w = v
    <3>1. /\ \E n \in Read(geo[m], subs[v].box) : snapshot' = [snapshot EXCEPT ![v][m] = n]
          /\ todo' = [todo EXCEPT ![v] = @ \ {m}]
          /\ UNCHANGED pc
      BY <2>2, <2>5 DEF Watched
    <3>2. snapshot'[v][u] = IF u = m THEN geo[u].n ELSE snapshot[v][u]
      <4>1. Read(geo[u], subs[v].box) = {geo[u].n}
        BY <2>3, WatchedRead
      <4> QED
        BY <3>1, <4>1 DEF TypeOK, ShownType
    <3>3. todo'[v] = todo[v] \ {m}
      BY <3>1 DEF TypeOK, CoroutineType
    <3> QED
      BY <1>1, <2>1, <2>4, <2>5, <3>1, <3>2, <3>3 DEF Followed, OnWire
  <2>6. CASE w # v
    <3>1. pc'[v] = pc[v] /\ todo'[v] = todo[v] /\ snapshot'[v] = snapshot[v]
      BY <2>2, <2>6 DEF Goto, TypeOK, CoroutineType, ShownType
    <3> QED
      BY <1>1, <2>1, <2>4, <3>1 DEF Followed, OnWire
  <2> QED
    BY <2>5, <2>6
<1>12. ASSUME NEW w \in Tokens, SendSnapshot(w) PROVE Followed(v, u)'
  <2>1. /\ UNCHANGED <<viewports, geo, wire, listener, snapshot, published, late, todo>>
        /\ pc[w] = "collect" /\ todo[w] = {}
        /\ shown' = [shown EXCEPT ![w] = snapshot[w]] /\ Goto(w, "serve")
    BY <1>12 DEF SendSnapshot
  <2>2. Watched(v, u)
    BY <1>1, <2>1 DEF Watched, Regular, viewports
  <2>3. Followed(v, u)
    BY <2>2 DEF NoGap
  <2>4. /\ shown'[v] = IF v = w THEN snapshot[v] ELSE shown[v]
        /\ pc'[v] = IF v = w THEN "serve" ELSE pc[v]
    BY <2>1 DEF Goto, TypeOK, CoroutineType, ShownType
  <2> QED
    BY <1>1, <2>1, <2>3, <2>4 DEF Followed, OnWire
<1>13. CASE UNCHANGED <<viewports, feed>>
  BY <1>2, <1>13 DEF viewports, feed
<1> QED
  BY <1>3, <1>4, <1>6, <1>7, <1>8, <1>9, <1>10, <1>11, <1>12, <1>13
     DEF Next, Run, vars, Elapse

\* Whatever fails, and whoever is connected where: a subscription and its snapshot
\* leave no gap.
THEOREM MapCatchesUp == Spec => []MapFresh
<1> DEFINE Inv == TypeOK /\ Entered /\ Ahead /\ LastIsPublished /\ NoGap
<1>1. Init => Inv
  BY InitType, InitFresh DEF Init, ViewportInit, Entered
<1>2. Inv /\ [Next]_vars => Inv'
  BY StepType, EnteredStep, AheadStep, WireStep, NoGapStep
<1>3. Inv => MapFresh
  <2> SUFFICES ASSUME Inv, NEW v \in maps \ late, NEW u \in Tokens, Still(u, v), Watched(v, u)
               PROVE  shown[v][u] = geo[u].n
    BY DEF MapFresh, Watched
  <2>1. v \in Tokens /\ Followed(v, u)
    BY DEF NoGap, TypeOK, ShownType, ClientType
  <2>2. ~OnWire(home[v], u)
    <3>1. wire[home[v]] \in Seq([of : Tokens, fix : Fixes])
      BY <2>1 DEF TypeOK, WireType, ClientType
    <3>2. DOMAIN wire[home[v]] = 1..Len(wire[home[v]])
      BY <3>1, LenProperties
    <3> QED
      BY <3>2 DEF Still, OnWire
  <2> QED
    BY <2>1, <2>2 DEF Followed, Still
<1> HIDE DEF Inv
<1> QED
  BY <1>1, <1>2, <1>3, PTL DEF Spec

(***************************************************************************)
(* The limiter's keys.                                                     *)
(***************************************************************************)

LEMMA ExpiresStep == TypeOK /\ CounterExpires /\ [Next]_vars => CounterExpires'
<1> SUFFICES ASSUME TypeOK, CounterExpires, [Next]_vars PROVE CounterExpires'
  OBVIOUS
<1>1. ASSUME NEW u \in Tokens, Fault PROVE CounterExpires'
  BY <1>1 DEF Fault, CounterExpires, TypeOK
<1>2. ASSUME UNCHANGED <<limiter, faults>>, \A u \in Tokens : pc[u] = "counted" => pc'[u] = "counted"
      PROVE  CounterExpires'
  BY <1>2 DEF CounterExpires, limiter
<1>3. ASSUME NEW u \in Tokens, CountHit(u) PROVE CounterExpires'
  <2>1. CASE Incr(u) /\ Goto(u, "counted") /\ UNCHANGED faults
    BY <1>3, <2>1, FeedAssumption DEF CounterExpires, CountHit, Incr, Goto, TypeOK, LimiterType, CoroutineType
  <2> QED
    BY <1>1, <1>3, <2>1 DEF CountHit
<1>4. ASSUME NEW u \in Tokens, ExpireKey(u) PROVE CounterExpires'
  <2>1. CASE Expire(u) /\ Goto(u, "timed") /\ UNCHANGED faults
    BY <2>1 DEF CounterExpires, Expire, Goto, TypeOK, CoroutineType
  <2> QED
    BY <1>1, <1>4, <2>1 DEF ExpireKey
<1>5. ASSUME NEW u \in Tokens, Judge(u) PROVE CounterExpires'
  <2>1. CASE UNCHANGED faults
    <3>1. UNCHANGED limiter /\ (pc[u] = "counted" => hit[u] # 1)
      BY <1>5 DEF Judge
    <3>2. \A t \in Tokens \ {u} : pc'[t] = pc[t]
      BY <1>5 DEF Judge, Relay, Broadcast, Goto, TypeOK, CoroutineType
    <3> QED
      BY <2>1, <3>1, <3>2 DEF CounterExpires, limiter
  <2> QED
    BY <1>1, <1>5, <2>1 DEF Judge
<1>6. ASSUME NEW u \in Tokens, Elapse(u) PROVE CounterExpires'
  BY <1>6, FeedAssumption DEF CounterExpires, Elapse, Lapse, feed, TypeOK, LimiterType
<1>7. ASSUME NEW u \in Tokens, Send(u) PROVE CounterExpires'
  <2>1. PICK v \in todo[u] : Broadcast(u, pc[u], todo[u] \ {v})
    BY <1>7 DEF Send
  <2> QED
    BY <1>2, <1>7, <2>1 DEF Send, Broadcast, Goto, TypeOK, CoroutineType
<1>8. ASSUME NEW u \in Tokens, StoreFix(u) \/ Publish(u) \/ Forward(u) \/ SendSnapshot(u)
                               \/ ReadPosition(u) \/ ReadSubscribe(u)
      PROVE  CounterExpires'
  <2>1. UNCHANGED limiter /\ pc[u] # "counted"
    BY <1>8 DEF StoreFix, Publish, Forward, SendSnapshot, ReadPosition, ReadSubscribe, ReadAsk
  <2>2. \A t \in Tokens \ {u} : pc'[t] = pc[t]
    BY <1>8 DEF StoreFix, Publish, Forward, SendSnapshot, ReadPosition, ReadSubscribe, Broadcast, Goto,
                TypeOK, CoroutineType
  <2>3. Fault \/ UNCHANGED faults
    BY <1>8 DEF StoreFix, Publish, Forward, SendSnapshot, ReadPosition, ReadSubscribe
  <2> QED
    BY <1>1, <1>2, <2>1, <2>2, <2>3
<1>9. CASE UNCHANGED <<limiter, faults, pc>>
  BY <1>2, <1>9
<1> QED
  BY <1>3, <1>4, <1>5, <1>6, <1>7, <1>8, <1>9
     DEF Next, Run, vars, feed, ReadUnsubscribe, ListenerTake, ListenerSend

\* Until Redis fails, every counter of the limiter has an expiry, or the very next
\* command of the coroutine that has created it sets one.
THEOREM CountersExpire == Spec => []CounterExpires
<1>1. Init => CounterExpires
  BY FeedAssumption DEF Init, LimiterInit, CounterExpires
<1> QED
  BY <1>1, InitType, StepType, ExpiresStep, PTL DEF Spec
================================================================================
