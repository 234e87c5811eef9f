---------------------------- MODULE RadarRoom_proofs ----------------------------
(***************************************************************************)
(* The safety of RadarRoom for every set of users and connections, every   *)
(* number of frames and of faults.                                         *)
(***************************************************************************)
EXTENDS RadarRoom, TLAPS

\* A connection that got past the session check presented a token, and so did
\* the sender of an update the listener is forwarding.
TokenHeld ==
    /\ \A c \in Conns : pc[c] \notin {"idle", "rejected"} => UserOf[c] \in Users
    /\ listener.to # {} => listener.about \in Users

\* Only a stage that broadcasts has sockets left to reach.
Broadcasting == {"announce", "relay", "forward", "farewell"}
TodoSound == \A c \in Conns : todo[c] # {} => pc[c] \in Broadcasting

TypeInv == TypeOK /\ TokenHeld /\ TodoSound

--------------------------------------------------------------------------------
(* Facts about the pieces of actions.                                      *)

\* A delivery changes the radar of one app, by at most the user it is about.
LEMMA DeliverType ==
    ASSUME TypeOK, NEW d \in Conns, NEW type, NEW u \in Users, Deliver(d, type, u)
    PROVE  blips' \in [Users -> SUBSET Users] /\ carried' \in [Conns -> SUBSET Users]
  <1>1. carried' \in [Conns -> SUBSET Users]
    BY DEF Deliver, TypeOK
  <1>2. CASE ~open[d] \/ type = "USER_CONNECTED"
    BY <1>1, <1>2 DEF Deliver, TypeOK
  <1>3. CASE open[d] /\ type = "USER_DISCONNECTED"
    BY <1>1, <1>3 DEF Deliver, TypeOK
  <1>4. CASE open[d] /\ type \notin {"USER_CONNECTED", "USER_DISCONNECTED"}
    BY <1>1, <1>4 DEF Deliver, TypeOK
  <1> QED
    BY <1>2, <1>3, <1>4

LEMMA FaultType == ASSUME TypeOK, Fault PROVE faults' \in 0..MaxFaults
  BY RoomAssumption DEF TypeOK, Fault

LEMMA FramesType ==
    ASSUME TypeOK, NEW c \in Conns, NEW kind, ReadFrame(c, kind)
    PROVE  frames' \in 0..MaxFrames
  BY RoomAssumption DEF TypeOK, ReadFrame

LEMMA GotoType ==
    ASSUME TypeOK, NEW c \in Conns, NEW label \in Pc, Goto(c, label)
    PROVE  /\ pc' \in [Conns -> Pc]
           /\ pc'[c] = label
           /\ \A d \in Conns : d # c => pc'[d] = pc[d]
  BY DEF TypeOK, Goto

LEMMA BroadcastType ==
    ASSUME TypeOK, NEW c \in Conns, NEW stage \in Pc, NEW to \in SUBSET Conns,
           Broadcast(c, stage, to)
    PROVE  /\ pc' \in [Conns -> Pc]
           /\ todo' \in [Conns -> SUBSET Conns]
           /\ pc'[c] \in {stage, "serve"}
           /\ todo'[c] = to /\ (to # {} => pc'[c] = stage)
           /\ \A d \in Conns : d # c => pc'[d] = pc[d] /\ todo'[d] = todo[d]
  <1>1. "serve" \in Pc
    BY DEF Pc, Connected
  <1>2. /\ todo' \in [Conns -> SUBSET Conns] /\ todo'[c] = to
        /\ \A d \in Conns : d # c => todo'[d] = todo[d]
    BY DEF Broadcast, TypeOK
  <1> QED
    BY <1>1, <1>2, GotoType DEF Broadcast

LEMMA DisconnectType ==
    ASSUME TypeOK, NEW c \in Conns, UserOf[c] \in Users, EnterFinally(c)
    PROVE  /\ RegistryTypeOK'
           /\ pc' \in [Conns -> Pc]
           /\ pc'[c] = "left"
           /\ \A d \in Conns : d # c => pc'[d] = pc[d]
  <1>1. "left" \in Pc
    BY DEF Pc, Leaving
  <1>2. RegistryTypeOK'
    BY DEF EnterFinally, Disconnect, TypeOK, RegistryTypeOK
  <1> QED
    BY <1>1, <1>2, GotoType DEF EnterFinally

--------------------------------------------------------------------------------
(* Type correctness.                                                       *)

LEMMA InitType == Init => TypeInv
  <1> SUFFICES ASSUME Init PROVE TypeInv
    OBVIOUS
  <1>1. wire \in Seq(Users) /\ faults \in 0..MaxFaults /\ MaxFrames \in 0..MaxFrames
    BY RoomAssumption DEF Init
  <1> QED
    BY <1>1 DEF Init, TypeInv, TypeOK, TokenHeld, TodoSound, RegistryInit, RegistryTypeOK, Pc

LEMMA NextType == TypeInv /\ [Next]_vars => TypeInv'
  <1> SUFFICES ASSUME TypeInv, [Next]_vars
               PROVE  TypeInv'
    OBVIOUS
  <1> USE RoomAssumption, ConnAssumption DEF TypeInv, TokenHeld
  <1> USE DEF TodoSound, Broadcasting, registry, redis, radar, Pc, Connected, Leaving, Final
  <1>a. CASE UNCHANGED vars
    BY <1>a DEF vars, TypeOK, RegistryTypeOK
  <1>b. ASSUME NEW c \in Conns, Run(c) \/ Client(c)
        PROVE  TypeInv'
    <2>0. \A label \in {"checked", "added", "announce", "serve", "stored", "relay", "published",
                      "forward", "left", "memberRemoved", "locationRemoved", "farewell",
                      "rejected", "aborted", "closed"} : label \in Pc
      OBVIOUS
    <2>1. CASE AddMember(c)
      <3>1. UserOf[c] \in Users
        BY <2>1 DEF AddMember
      <3>2. pc' \in [Conns -> Pc] /\ \A d \in Conns \ {c} : pc'[d] = pc[d]
        BY <2>0, <2>1, GotoType DEF AddMember
      <3>3. faults' \in 0..MaxFaults /\ open' \in [Conns -> BOOLEAN]
        BY <2>1, FaultType DEF AddMember, TypeOK
      <3>4. members' \in SUBSET Users /\ locations' \in SUBSET Users
        BY <2>1, <3>1 DEF AddMember, TypeOK
      <3> QED
        BY <2>1, <3>1, <3>2, <3>3, <3>4 DEF AddMember, TypeOK, RegistryTypeOK
    <2>2. CASE Register(c)
      <3>1. UserOf[c] \in Users /\ room \ {c} \in SUBSET Conns
        BY <2>2 DEF Register, TypeOK, RegistryTypeOK
      <3>2. /\ pc' \in [Conns -> Pc] /\ \A d \in Conns \ {c} : pc'[d] = pc[d]
            /\ todo' \in [Conns -> SUBSET Conns] /\ TodoSound'
        BY <2>0, <2>2, <3>1, BroadcastType DEF Register
      <3>3. RegistryTypeOK'
        BY <2>2, <3>1 DEF Register, Connect, TypeOK, RegistryTypeOK
      <3> QED
        BY <2>2, <3>1, <3>2, <3>3 DEF Register, TypeOK
    <2>3. CASE Send(c)
      <3>1. PICK d \in todo[c] : /\ Deliver(d, FrameOf(c), UserOf[c])
                                 /\ Broadcast(c, pc[c], todo[c] \ {d})
        BY <2>3 DEF Send
      <3>2. d \in Conns /\ todo[c] \ {d} \in SUBSET Conns /\ pc[c] \in Pc
        BY <3>1 DEF TypeOK
      <3>3. /\ pc' \in [Conns -> Pc] /\ \A e \in Conns \ {c} : pc'[e] = pc[e]
            /\ todo' \in [Conns -> SUBSET Conns] /\ pc'[c] \in {pc[c], "serve"} /\ TodoSound'
        BY <3>1, <3>2, BroadcastType
      <3>4. UserOf[c] \in Users
        BY <3>1
      <3>5. blips' \in [Users -> SUBSET Users] /\ carried' \in [Conns -> SUBSET Users]
        BY <3>1, <3>2, <3>4, DeliverType
      <3> QED
        BY <2>3, <3>3, <3>4, <3>5 DEF Send, TypeOK, RegistryTypeOK
    <2>4. CASE Limit(c)
      <3>1. UserOf[c] \in Users /\ RoomConnections \in SUBSET Conns
        BY <2>4 DEF Limit, TypeOK, RegistryTypeOK, RoomConnections
      <3>2. /\ pc' \in [Conns -> Pc] /\ \A d \in Conns \ {c} : pc'[d] = pc[d]
            /\ todo' \in [Conns -> SUBSET Conns] /\ TodoSound'
        <4>1. CASE Goto(c, "serve") /\ UNCHANGED todo
          BY <2>0, <2>4, <4>1, GotoType DEF Limit, TypeOK
        <4>2. CASE Broadcast(c, "relay", RoomConnections)
          BY <2>0, <3>1, <4>2, BroadcastType
        <4> QED
          BY <2>4, <4>1, <4>2 DEF Limit
      <3> QED
        BY <2>4, <3>1, <3>2 DEF Limit, TypeOK, RegistryTypeOK
    <2>5. CASE Publish(c)
      <3>1. UserOf[c] \in Users
        BY <2>5 DEF Publish
      <3>2. pc' \in [Conns -> Pc] /\ \A d \in Conns \ {c} : pc'[d] = pc[d]
        BY <2>0, <2>5, GotoType DEF Publish
      <3>3. wire' \in Seq(Users) /\ faults' \in 0..MaxFaults
        <4>1. Append(wire, UserOf[c]) \in Seq(Users)
          BY <3>1 DEF TypeOK
        <4> QED
          BY <2>5, <4>1, FaultType DEF Publish, TypeOK
      <3> QED
        BY <2>5, <3>1, <3>2, <3>3 DEF Publish, TypeOK, RegistryTypeOK
    <2>6. CASE ForwardLocal(c)
      <3>1. PICK covering \in SUBSET Watchers : Broadcast(c, "forward", covering)
        BY <2>6 DEF ForwardLocal
      <3>2. UserOf[c] \in Users /\ covering \in SUBSET Conns
        BY <2>6, <3>1 DEF ForwardLocal, Watchers, TypeOK
      <3>3. /\ pc' \in [Conns -> Pc] /\ \A d \in Conns \ {c} : pc'[d] = pc[d]
            /\ todo' \in [Conns -> SUBSET Conns] /\ TodoSound'
        BY <2>0, <3>1, <3>2, BroadcastType
      <3> QED
        BY <2>6, <3>2, <3>3 DEF ForwardLocal, TypeOK, RegistryTypeOK
    <2>7. CASE ReceiveDisconnect(c)
      <3>1. UserOf[c] \in Users
        BY <2>7 DEF ReceiveDisconnect
      <3>2. /\ RegistryTypeOK'
            /\ pc' \in [Conns -> Pc] /\ \A d \in Conns \ {c} : pc'[d] = pc[d]
        BY <2>7, <3>1, DisconnectType DEF ReceiveDisconnect
      <3> QED
        BY <2>7, <3>1, <3>2 DEF ReceiveDisconnect, TypeOK
    <2>8. CASE RemoveMember(c)
      <3>1. UserOf[c] \in Users
        BY <2>8 DEF RemoveMember
      <3>2. pc' \in [Conns -> Pc] /\ \A d \in Conns \ {c} : pc'[d] = pc[d]
        BY <2>0, <2>8, GotoType DEF RemoveMember, Abort
      <3>3. faults' \in 0..MaxFaults /\ open' \in [Conns -> BOOLEAN]
        BY <2>8, FaultType DEF RemoveMember, Abort, TypeOK
      <3>4. members' \in SUBSET Users /\ locations' \in SUBSET Users
        BY <2>8, <3>1 DEF RemoveMember, TypeOK
      <3> QED
        BY <2>8, <3>1, <3>2, <3>3, <3>4 DEF RemoveMember, TypeOK, RegistryTypeOK
    <2>9. CASE RemoveLocation(c)
      <3>1. UserOf[c] \in Users
        BY <2>9 DEF RemoveLocation
      <3>2. pc' \in [Conns -> Pc] /\ \A d \in Conns \ {c} : pc'[d] = pc[d]
        BY <2>0, <2>9, GotoType DEF RemoveLocation, Abort
      <3>3. faults' \in 0..MaxFaults /\ open' \in [Conns -> BOOLEAN]
        BY <2>9, FaultType DEF RemoveLocation, Abort, TypeOK
      <3>4. members' \in SUBSET Users /\ locations' \in SUBSET Users
        BY <2>9, <3>1 DEF RemoveLocation, TypeOK
      <3> QED
        BY <2>9, <3>1, <3>2, <3>3, <3>4 DEF RemoveLocation, TypeOK, RegistryTypeOK
    <2>10. CASE Farewell(c)
      <3>1. UserOf[c] \in Users /\ RoomConnections \in SUBSET Conns
        BY <2>10 DEF Farewell, TypeOK, RegistryTypeOK, RoomConnections
      <3>2. /\ pc' \in [Conns -> Pc] /\ \A d \in Conns \ {c} : pc'[d] = pc[d]
            /\ todo' \in [Conns -> SUBSET Conns] /\ TodoSound'
        BY <2>0, <2>10, <3>1, BroadcastType DEF Farewell
      <3> QED
        BY <2>10, <3>1, <3>2 DEF Farewell, TypeOK, RegistryTypeOK
    <2>11. CASE Finish(c)
      <3>1. UserOf[c] \in Users
        BY <2>11 DEF Finish
      <3>2. pc' \in [Conns -> Pc] /\ \A d \in Conns \ {c} : pc'[d] = pc[d]
        BY <2>0, <2>11, GotoType DEF Finish
      <3> QED
        BY <2>11, <3>1, <3>2 DEF Finish, TypeOK, RegistryTypeOK
    <2>12. CASE CheckSession(c)
      <3>1. /\ pc' \in [Conns -> Pc] /\ \A d \in Conns \ {c} : pc'[d] = pc[d]
            /\ pc'[c] = "rejected" \/ UserOf[c] # NoToken
        BY <2>0, <2>12, GotoType DEF CheckSession
      <3>2. faults' \in 0..MaxFaults /\ open' \in [Conns -> BOOLEAN]
        BY <2>12, FaultType DEF CheckSession, TypeOK
      <3> QED
        BY <2>12, <3>1, <3>2 DEF CheckSession, TypeOK, RegistryTypeOK
    <2>13. CASE Drop(c)
      BY <2>13 DEF Drop, TypeOK, RegistryTypeOK
    <2>14. CASE ReceiveLocation(c)
      <3>1. UserOf[c] \in Users /\ frames' \in 0..MaxFrames
        BY <2>14, FramesType DEF ReceiveLocation, ReadFrame
      <3>2. /\ RegistryTypeOK'
            /\ pc' \in [Conns -> Pc] /\ \A d \in Conns \ {c} : pc'[d] = pc[d]
        BY <2>0, <2>14, <3>1, GotoType, DisconnectType DEF ReceiveLocation, TypeOK, RegistryTypeOK
      <3>3. faults' \in 0..MaxFaults /\ locations' \in SUBSET Users
        BY <2>14, <3>1, FaultType DEF ReceiveLocation, TypeOK
      <3> QED
        BY <2>14, <3>1, <3>2, <3>3 DEF ReceiveLocation, ReadFrame, TypeOK
    <2>15. CASE ReceiveSubscribe(c)
      <3>1. UserOf[c] \in Users /\ frames' \in 0..MaxFrames
        BY <2>15, FramesType DEF ReceiveSubscribe, ReadFrame
      <3>2. viewport' \in [Users -> Conns \cup {None}]
        BY <2>15, <3>1 DEF ReceiveSubscribe, TypeOK
      <3> QED
        BY <2>15, <3>1, <3>2 DEF ReceiveSubscribe, TypeOK, RegistryTypeOK
    <2>16. CASE ReceiveUnsubscribe(c)
      <3>1. UserOf[c] \in Users /\ frames' \in 0..MaxFrames
        BY <2>16, FramesType DEF ReceiveUnsubscribe, ReadFrame
      <3>2. viewport' \in [Users -> Conns \cup {None}]
        BY <2>16, <3>1 DEF ReceiveUnsubscribe, TypeOK
      <3> QED
        BY <2>16, <3>1, <3>2 DEF ReceiveUnsubscribe, TypeOK, RegistryTypeOK
    <2>17. CASE Raise(c)
      <3>1. UserOf[c] \in Users /\ frames' \in 0..MaxFrames
        BY <2>17, FramesType DEF Raise, ReadFrame
      <3>2. /\ RegistryTypeOK'
            /\ pc' \in [Conns -> Pc] /\ \A d \in Conns \ {c} : pc'[d] = pc[d]
        BY <2>17, <3>1, DisconnectType DEF Raise
      <3> QED
        BY <2>17, <3>1, <3>2 DEF Raise, ReadFrame, TypeOK
    <2> QED
      BY <1>b, <2>1, <2>2, <2>3, <2>4, <2>5, <2>6, <2>7, <2>8, <2>9, <2>10, <2>11,
         <2>12, <2>13, <2>14, <2>15, <2>16, <2>17 DEF Run, Client
  <1>c. CASE ListenerTake
    <2>1. PICK covering \in SUBSET Watchers : Forwarding(Head(wire), covering)
      BY <1>c DEF ListenerTake
    <2>2. Head(wire) \in Users /\ Tail(wire) \in Seq(Users) /\ covering \in SUBSET Conns
      BY <1>c DEF ListenerTake, Watchers, TypeOK
    <2> QED
      BY <1>c, <2>1, <2>2 DEF ListenerTake, Forwarding, TypeOK, RegistryTypeOK
  <1>d. CASE ListenerSend
    <2>1. PICK d \in listener.to : /\ Deliver(d, "LOCATION_UPDATE", listener.about)
                                   /\ Forwarding(listener.about, listener.to \ {d})
      BY <1>d DEF ListenerSend
    <2>2. d \in Conns /\ listener.about \in Users
      BY <2>1 DEF TypeOK
    <2>3. blips' \in [Users -> SUBSET Users] /\ carried' \in [Conns -> SUBSET Users]
      BY <2>1, <2>2, DeliverType
    <2> QED
      BY <1>d, <2>1, <2>2, <2>3 DEF ListenerSend, Forwarding, TypeOK, RegistryTypeOK
  <1>e. CASE EndSession
    BY <1>e DEF EndSession, TypeOK, RegistryTypeOK
  <1>f. CASE Restart
    <2>1. faults' \in 0..MaxFaults
      BY <1>f, FaultType DEF Restart
    <2>2. pc' \in [Conns -> Pc] /\ TokenHeld' /\ TodoSound'
      BY <1>f DEF Restart, Forwarding, TypeOK
    <2>3. listener' \in [about : Users \cup {NoToken}, to : SUBSET Conns]
      BY <1>f DEF Restart, Forwarding, TypeOK
    <2> QED
      BY <1>f, <2>1, <2>2, <2>3 DEF Restart, TypeOK, RegistryTypeOK
  <1> QED
    BY <1>a, <1>b, <1>c, <1>d, <1>e, <1>f DEF Next

\* Every variable of a room always holds a value of its kind.
THEOREM TypeCorrect == Spec => []TypeOK
  <1>1. TypeInv => TypeOK
    BY DEF TypeInv
  <1> QED
    BY <1>1, InitType, NextType, PTL DEF Spec

--------------------------------------------------------------------------------
(* The registry.                                                           *)

Unregistered == {"idle", "checked", "added", "rejected"}

\* c enters the room, c leaves it, or nothing about the registry changes.
Enters(c) ==
    /\ pc[c] = "added" /\ UserOf[c] \in Users /\ Connect(c)
    /\ pc'[c] \in Connected
    /\ \A d \in Conns \ {c} : pc'[d] = pc[d]

Leaves(c) ==
    /\ pc[c] = "serve" /\ UserOf[c] \in Users /\ Disconnect(c)
    /\ pc'[c] = "left"
    /\ \A d \in Conns \ {c} : pc'[d] = pc[d]

Stays ==
    /\ room' = room /\ tokenMap' = tokenMap
    /\ \A c \in Conns : pc'[c] \in Connected <=> pc[c] \in Connected
    /\ \A c \in Conns : pc'[c] \in Unregistered => pc[c] \in Unregistered

\* Every step is one of these as far as the registry is concerned.
LEMMA RegistryStep ==
    ASSUME TypeInv, [Next]_vars
    PROVE  (\E c \in Conns : Enters(c) \/ Leaves(c)) \/ Restart \/ Stays
  <1> USE DEF TypeInv, registry
  <1>a. CASE UNCHANGED vars
    BY <1>a DEF vars, Stays
  <1>b. ASSUME NEW c \in Conns, Run(c) \/ Client(c)
        PROVE  Enters(c) \/ Leaves(c) \/ Stays
    <2>0. /\ \A label \in {"checked", "added", "announce", "serve", "stored", "relay", "published",
                          "forward", "left", "memberRemoved", "locationRemoved", "farewell",
                          "rejected", "aborted", "closed"} : label \in Pc
          /\ pc[c] \in Pc
          /\ RoomConnections \in SUBSET Conns
          /\ room \ {c} \in SUBSET Conns
      BY DEF Pc, Connected, Leaving, Final, TypeOK, RegistryTypeOK, RoomConnections
    <2>1. CASE Register(c)
      <3>1. Enters(c)
        <4>1. UserOf[c] \in Users /\ pc[c] = "added"
          BY <2>1 DEF Register, TokenHeld
        <4>2. pc'[c] \in {"announce", "serve"} /\ \A d \in Conns : d # c => pc'[d] = pc[d]
          BY <2>0, <2>1, BroadcastType DEF Register
        <4> QED
          BY <2>1, <4>1, <4>2 DEF Register, Enters, Connected
      <3> QED
        BY <3>1
    <2>2. ASSUME pc[c] = "serve", EnterFinally(c) PROVE Leaves(c)
      <3>1. UserOf[c] \in Users
        BY <2>2 DEF TokenHeld
      <3> QED
        BY <2>2, <3>1, DisconnectType DEF Leaves, EnterFinally
    <2>3. CASE ReceiveDisconnect(c)
      BY <2>2, <2>3 DEF ReceiveDisconnect
    <2>4. CASE Raise(c)
      BY <2>2, <2>4 DEF Raise, ReadFrame
    <2>5. CASE ReceiveLocation(c)
      <3>1. CASE EnterFinally(c)
        BY <2>2, <2>5, <3>1 DEF ReceiveLocation, ReadFrame
      <3>2. CASE Goto(c, "stored") /\ UNCHANGED registry
        BY <2>0, <2>5, <3>2, GotoType
        DEF ReceiveLocation, ReadFrame, Stays, Connected, Unregistered
      <3> QED
        BY <2>5, <3>1, <3>2 DEF ReceiveLocation
    <2>6. CASE AddMember(c)
      BY <2>0, <2>6, GotoType DEF AddMember, Stays, Connected, Unregistered
    <2>7. CASE Send(c)
      <3>1. PICK d \in todo[c] : Broadcast(c, pc[c], todo[c] \ {d})
        BY <2>7 DEF Send
      <3>2. pc[c] \in Broadcasting /\ todo[c] \ {d} \in SUBSET Conns
        BY <3>1 DEF TodoSound, TypeOK
      <3>3. pc'[c] \in {pc[c], "serve"} /\ \A e \in Conns : e # c => pc'[e] = pc[e]
        BY <2>0, <3>1, <3>2, BroadcastType
      <3>4. pc'[c] = "serve" => pc[c] \in {"announce", "forward"}
        BY <3>1, <3>2 DEF Broadcast, Goto, Broadcasting, TypeOK
      <3> QED
        BY <2>7, <3>3, <3>4 DEF Send, Stays, Connected, Unregistered
    <2>8. CASE Limit(c)
      <3>1. pc'[c] \in {"relay", "serve"} /\ \A d \in Conns : d # c => pc'[d] = pc[d]
        <4>1. CASE Goto(c, "serve")
          BY <2>0, <4>1, GotoType
        <4>2. CASE Broadcast(c, "relay", RoomConnections)
          BY <2>0, <4>2, BroadcastType
        <4> QED
          BY <2>8, <4>1, <4>2 DEF Limit
      <3> QED
        BY <2>8, <3>1 DEF Limit, Stays, Connected, Unregistered
    <2>9. CASE Publish(c)
      BY <2>0, <2>9, GotoType DEF Publish, Stays, Connected, Unregistered
    <2>10. CASE ForwardLocal(c)
      <3>1. PICK covering \in SUBSET Watchers : Broadcast(c, "forward", covering)
        BY <2>10 DEF ForwardLocal
      <3>2. covering \in SUBSET Conns
        BY DEF Watchers, TypeOK
      <3>3. pc'[c] \in {"forward", "serve"} /\ \A d \in Conns : d # c => pc'[d] = pc[d]
        BY <2>0, <3>1, <3>2, BroadcastType
      <3> QED
        BY <2>10, <3>3 DEF ForwardLocal, Stays, Connected, Unregistered
    <2>11. CASE RemoveMember(c)
      BY <2>0, <2>11, GotoType DEF RemoveMember, Abort, Stays, Connected, Unregistered
    <2>12. CASE RemoveLocation(c)
      BY <2>0, <2>12, GotoType DEF RemoveLocation, Abort, Stays, Connected, Unregistered
    <2>13. CASE Farewell(c)
      <3>1. pc'[c] \in {"farewell", "serve"} /\ \A d \in Conns : d # c => pc'[d] = pc[d]
        BY <2>0, <2>13, BroadcastType DEF Farewell
      <3>2. pc'[c] = "farewell"
        BY <2>13 DEF Farewell, Broadcast, Goto, TypeOK
      <3> QED
        BY <2>13, <3>1, <3>2 DEF Farewell, Stays, Connected, Unregistered
    <2>14. CASE Finish(c)
      BY <2>0, <2>14, GotoType DEF Finish, Stays, Connected, Unregistered
    <2>15. CASE CheckSession(c)
      BY <2>0, <2>15, GotoType DEF CheckSession, Stays, Connected, Unregistered
    <2>16. CASE Drop(c)
      BY <2>16 DEF Drop, Stays
    <2>17. CASE ReceiveSubscribe(c)
      BY <2>17 DEF ReceiveSubscribe, Stays
    <2>18. CASE ReceiveUnsubscribe(c)
      BY <2>18 DEF ReceiveUnsubscribe, Stays
    <2> QED
      BY <1>b, <2>1, <2>3, <2>4, <2>5, <2>6, <2>7, <2>8, <2>9, <2>10, <2>11, <2>12, <2>13, <2>14, <2>15, <2>16, <2>17, <2>18 DEF Run, Client
  <1>c. CASE ListenerTake \/ ListenerSend \/ EndSession
    BY <1>c DEF ListenerTake, ListenerSend, EndSession, Stays
  <1> QED
    BY <1>a, <1>b, <1>c DEF Next

RegistryInv == TypeInv /\ RouteSound /\ ServedAlone

LEMMA InitRegistry == Init => RegistryInv
  BY InitType, ConnAssumption
  DEF RegistryInv, RouteSound, ServedAlone, Init, RegistryInit, Connected

LEMMA NextRegistry == RegistryInv /\ [Next]_vars => RegistryInv'
  <1> SUFFICES ASSUME RegistryInv, [Next]_vars
               PROVE  RegistryInv'
    OBVIOUS
  <1>0. TypeInv /\ TypeInv'
    BY NextType DEF RegistryInv
  <1>1. ASSUME NEW c \in Conns, Enters(c)
        PROVE  RouteSound' /\ ServedAlone'
    <2>1. \A d \in Conns : d \in room' <=> pc'[d] \in Connected
      BY <1>1 DEF Enters, Connect, RegistryInv, RouteSound
    <2>2. /\ tokenMap'[UserOf[c]] = c
          /\ \A u \in Users \ {UserOf[c]} : tokenMap'[u] = tokenMap[u]
          /\ room' = room \cup {c}
      BY <1>0, <1>1 DEF Enters, Connect, TypeInv, TypeOK, RegistryTypeOK
    <2>3. RouteSound'
      BY <1>1, <2>1, <2>2 DEF RegistryInv, RouteSound, Enters
    <2>4. ServedAlone'
      BY <1>0, <1>1, <2>2 DEF RegistryInv, ServedAlone, Enters, Connected, TypeInv, TokenHeld
    <2> QED
      BY <2>3, <2>4
  <1>2. ASSUME NEW c \in Conns, Leaves(c)
        PROVE  RouteSound' /\ ServedAlone'
    <2>1. \A d \in Conns : d \in room' <=> pc'[d] \in Connected
      BY <1>2 DEF Leaves, Disconnect, RegistryInv, RouteSound, Connected
    <2>2. /\ tokenMap'[UserOf[c]] = None
          /\ \A u \in Users \ {UserOf[c]} : tokenMap'[u] = tokenMap[u]
          /\ room' = room \ {c}
      BY <1>0, <1>2 DEF Leaves, Disconnect, TypeInv, TypeOK, RegistryTypeOK
    <2>3. RouteSound'
      BY <1>2, <2>1, <2>2 DEF RegistryInv, RouteSound, Leaves
    <2>4. ServedAlone'
      BY <1>0, <1>2, <2>2 DEF RegistryInv, ServedAlone, Leaves, Connected, TypeInv, TokenHeld
    <2> QED
      BY <2>3, <2>4
  <1>3. ASSUME Restart
        PROVE  RouteSound' /\ ServedAlone'
    <2>1. \A c \in Conns : pc'[c] \notin Connected
      BY <1>3 DEF Restart, Connected, Final
    <2> QED
      BY <1>3, <2>1 DEF Restart, RouteSound, ServedAlone
  <1>4. ASSUME Stays
        PROVE  RouteSound' /\ ServedAlone'
    BY <1>4 DEF Stays, RegistryInv, RouteSound, ServedAlone, Unregistered
  <1> QED
    BY <1>0, <1>1, <1>2, <1>3, <1>4, RegistryStep DEF RegistryInv

\* For every number of connections, errors and restarts: a DM is only ever
\* routed to a socket of its addressee that is in the room, and the room is the
\* connections between connect and disconnect.
THEOREM RouteCorrect == Spec => []RouteSound
  <1>1. RegistryInv => RouteSound
    BY DEF RegistryInv
  <1> QED
    BY <1>1, InitRegistry, NextRegistry, PTL DEF Spec

\* A connected client whose token no other connection has used is reachable.
THEOREM ServedAloneCorrect == Spec => []ServedAlone
  <1>1. RegistryInv => ServedAlone
    BY DEF RegistryInv
  <1> QED
    BY <1>1, InitRegistry, NextRegistry, PTL DEF Spec

\* Only a connection of the same token ever takes a connected client's route.
THEOREM OnlyTwinTakesRoute == Spec => RouteTakenByTwin
  <1> DEFINE Step ==
        \A c \in room \cap room' :
          tokenMap[UserOf[c]] = c /\ tokenMap'[UserOf[c]] # c =>
              \E d \in Conns \ {c} : UserOf[d] = UserOf[c] /\ (d \in room <=> d \notin room')
  <1>1. RegistryInv /\ [Next]_vars => [Step]_vars
    <2> SUFFICES ASSUME RegistryInv, [Next]_vars,
                        NEW c \in room \cap room',
                        tokenMap[UserOf[c]] = c, tokenMap'[UserOf[c]] # c
                 PROVE  \E d \in Conns \ {c} :
                           UserOf[d] = UserOf[c] /\ (d \in room <=> d \notin room')
      OBVIOUS
    <2>0. /\ c \in Conns /\ UserOf[c] \in Users
          /\ tokenMap \in [Users -> Conns \cup {None}]
          /\ \A d \in Conns : d \in room <=> pc[d] \in Connected
      BY DEF RegistryInv, RouteSound, TypeInv, TypeOK, RegistryTypeOK, TokenHeld, Connected
    <2>1. ASSUME NEW d \in Conns, Enters(d) PROVE d # c /\ UserOf[d] = UserOf[c] /\ d \in room' /\ d \notin room
      <3>1. /\ UserOf[d] \in Users /\ room' = room \cup {d}
            /\ tokenMap' = [tokenMap EXCEPT ![UserOf[d]] = d]
            /\ d \notin room
        BY <2>0, <2>1 DEF Enters, Connect, Connected
      <3>2. UserOf[d] = UserOf[c]
        BY <2>0, <3>1
      <3> QED
        BY <2>0, <3>1, <3>2
    <2>2. ASSUME NEW d \in Conns, Leaves(d) PROVE d # c /\ UserOf[d] = UserOf[c] /\ d \notin room' /\ d \in room
      <3>1. /\ UserOf[d] \in Users /\ room' = room \ {d}
            /\ tokenMap' = [tokenMap EXCEPT ![UserOf[d]] = None]
            /\ d \in room
        BY <2>0, <2>2 DEF Leaves, Disconnect, Connected
      <3>2. UserOf[d] = UserOf[c]
        BY <2>0, <3>1
      <3> QED
        BY <2>0, <3>1, <3>2
    <2>3. ~Restart /\ ~Stays
      BY <2>0 DEF Restart, Stays
    <2> QED
      BY <2>1, <2>2, <2>3, RegistryStep DEF RegistryInv
  <1> QED
    BY <1>1, InitRegistry, NextRegistry, PTL DEF Spec, RouteTakenByTwin

--------------------------------------------------------------------------------
(* Nobody who is gone stays on the map: locations and radars.              *)

\* The stages in which a connection's farewell has not been prepared.
Active == Connected \cup Leaving

\* What a step of c does to the stages and to the broadcasts in progress.
Advances(c) ==
    /\ \A d \in Conns \ {c} : pc'[d] = pc[d] /\ todo'[d] = todo[d]
    /\ pc'[c] \in Unregistered => pc[c] \in Unregistered
    /\ pc[c] \in Active =>
          pc'[c] \in Active \cup {"aborted"} \/ (pc'[c] = "farewell" /\ todo'[c] = room)
    /\ pc[c] = "farewell" => /\ todo'[c] \subseteq todo[c]
                             /\ pc'[c] = "farewell" \/ todo[c] = {}
    /\ pc[c] = "aborted" => pc'[c] = "aborted"

LEMMA AdvanceStep ==
    ASSUME TypeInv, NEW c \in Conns, Run(c) \/ Client(c)
    PROVE  Advances(c)
  <1> USE DEF TypeInv
  <1> DEFINE Others == \A d \in Conns \ {c} : pc'[d] = pc[d]
  <1>0. /\ \A label \in {"checked", "added", "announce", "serve", "stored", "relay", "published",
                        "forward", "left", "memberRemoved", "locationRemoved", "farewell",
                        "rejected", "aborted", "closed"} : label \in Pc
        /\ pc[c] \in Pc
        /\ RoomConnections \in SUBSET Conns
        /\ room \ {c} \in SUBSET Conns
    BY RoomAssumption
    DEF Pc, Connected, Leaving, Final, TypeOK, RegistryTypeOK, RoomConnections
  <1> USE DEF Advances, Active, Connected, Leaving, Unregistered
  <1>1. CASE AddMember(c)
    BY <1>0, <1>1, GotoType DEF AddMember
  <1>2. CASE RemoveMember(c)
    BY <1>0, <1>2, GotoType DEF RemoveMember, Abort
  <1>3. CASE RemoveLocation(c)
    BY <1>0, <1>3, GotoType DEF RemoveLocation, Abort
  <1>4. CASE Publish(c)
    BY <1>0, <1>4, GotoType DEF Publish
  <1>5. CASE CheckSession(c)
    BY <1>0, <1>5, GotoType DEF CheckSession
  <1>6. CASE Finish(c)
    BY <1>0, <1>6, GotoType DEF Finish
  <1>7. CASE Drop(c)
    BY <1>7 DEF Drop
  <1>8. CASE ReceiveSubscribe(c)
    BY <1>8 DEF ReceiveSubscribe
  <1>9. CASE ReceiveUnsubscribe(c)
    BY <1>9 DEF ReceiveUnsubscribe
  <1>10. CASE Raise(c)
    BY <1>0, <1>10, GotoType DEF Raise, ReadFrame, EnterFinally
  <1>11. CASE ReceiveDisconnect(c)
    BY <1>0, <1>11, GotoType DEF ReceiveDisconnect, EnterFinally
  <1>12. CASE ReceiveLocation(c)
    BY <1>0, <1>12, GotoType DEF ReceiveLocation, ReadFrame, EnterFinally
  <1>13. CASE Register(c)
    BY <1>0, <1>13, BroadcastType DEF Register
  <1>14. CASE Limit(c)
    <2>1. CASE Goto(c, "serve") /\ UNCHANGED todo
      BY <1>0, <1>14, <2>1, GotoType DEF Limit
    <2>2. CASE Broadcast(c, "relay", RoomConnections)
      BY <1>0, <1>14, <2>2, BroadcastType DEF Limit
    <2> QED
      BY <1>14, <2>1, <2>2 DEF Limit
  <1>15. CASE ForwardLocal(c)
    <2>1. PICK covering \in SUBSET Watchers : Broadcast(c, "forward", covering)
      BY <1>15 DEF ForwardLocal
    <2>2. covering \in SUBSET Conns
      BY DEF Watchers, TypeOK
    <2> QED
      BY <1>0, <1>15, <2>1, <2>2, BroadcastType DEF ForwardLocal
  <1>16. CASE Farewell(c)
    <2>1. pc'[c] = "farewell"
      BY <1>16 DEF Farewell, Broadcast, Goto, TypeOK
    <2> QED
      BY <1>0, <1>16, <2>1, BroadcastType DEF Farewell, RoomConnections
  <1>17. CASE Send(c)
    <2>1. PICK d \in todo[c] : Broadcast(c, pc[c], todo[c] \ {d})
      BY <1>17 DEF Send
    <2>2. pc[c] \in Broadcasting /\ todo[c] \ {d} \in SUBSET Conns
      BY <2>1 DEF TodoSound, TypeOK
    <2>3. pc'[c] = IF todo[c] \ {d} = {} /\ pc[c] \in {"announce", "forward"} THEN "serve" ELSE pc[c]
      BY <2>1 DEF Broadcast, Goto, TypeOK
    <2> QED
      BY <1>0, <1>17, <2>1, <2>2, <2>3, BroadcastType DEF Send, Broadcasting
  <1> QED
    BY <1>1, <1>2, <1>3, <1>4, <1>5, <1>6, <1>7, <1>8, <1>9, <1>10, <1>11, <1>12, <1>13, <1>14, <1>15, <1>16, <1>17 DEF Run, Client

\* Every location belongs to a connection that will still remove it, or that was
\* cut short.
LEMMA NextLocation ==
    ASSUME TypeInv, LocationOwned, [Next]_vars
    PROVE  LocationOwned'
  <1> USE DEF TypeInv, LocationOwned, MayHold
  <1>a. CASE UNCHANGED vars
    BY <1>a DEF vars
  <1>b. ASSUME NEW c \in Conns, Run(c) \/ Client(c)
        PROVE  LocationOwned'
    <2> SUFFICES ASSUME NEW u \in locations'
                 PROVE  \E d \in Conns : UserOf[d] = u /\ pc'[d] \in MayHold
      OBVIOUS
    <2>1. Advances(c)
      BY <1>b, AdvanceStep
    <2>2. CASE RemoveLocation(c)
      <3>1. CASE u # UserOf[c]
        <4>1. u \in locations
          BY <2>2 DEF RemoveLocation
        <4> QED
          BY <2>1, <3>1, <4>1 DEF Advances
      <3>2. CASE u = UserOf[c]
        <4>1. pc'[c] = "aborted"
          BY <2>2, <3>2 DEF RemoveLocation, Abort, Goto, TypeOK
        <4> QED
          BY <3>2, <4>1
      <3> QED
        BY <3>1, <3>2
    <2>3. CASE ReceiveLocation(c)
      <3>1. pc[c] \in Connected
        BY <2>3 DEF ReceiveLocation, ReadFrame, Connected
      <3>2. pc'[c] \in {"stored", "left"} /\ u \in locations \cup {UserOf[c]}
        BY <2>3 DEF ReceiveLocation, EnterFinally, Goto, TypeOK
      <3> QED
        BY <2>1, <3>1, <3>2 DEF Advances, Connected
    <2>4. CASE ~RemoveLocation(c) /\ ~ReceiveLocation(c)
      <3>1. locations' = locations
        BY <1>b, <2>4 DEF Run, Client, AddMember, Register, Send, Limit, Publish, ForwardLocal,
           ReceiveDisconnect, RemoveMember, Farewell, Finish, CheckSession, Drop,
           ReceiveSubscribe, ReceiveUnsubscribe, Raise, redis
      <3>2. pc[c] \in MayHold => pc'[c] \in MayHold
        <4>1. pc[c] \in Active /\ pc[c] # "locationRemoved" => pc'[c] # "locationRemoved" /\ pc'[c] # "farewell"
          BY <1>b, <2>4
          DEF Run, Client, AddMember, Register, Send, Limit, Publish, ForwardLocal,
              ReceiveDisconnect, RemoveMember, Farewell, Finish, CheckSession, Drop, Abort,
              ReceiveSubscribe, ReceiveUnsubscribe, Raise, ReadFrame, EnterFinally, Goto,
              Broadcast, Active, Connected, Leaving, TypeOK
        <4> QED
          BY <2>1, <4>1 DEF Advances, Active, Connected, Leaving
      <3> QED
        BY <2>1, <3>1, <3>2 DEF Advances
    <2> QED
      BY <2>2, <2>3, <2>4
  <1>c. CASE ListenerTake \/ ListenerSend
    BY <1>c DEF ListenerTake, ListenerSend, redis
  <1>d. CASE EndSession
    BY <1>d DEF EndSession
  <1>e. CASE Restart
    BY <1>e DEF Restart, redis, Final, Connected
  <1> QED
    BY <1>a, <1>b, <1>c, <1>d, <1>e DEF Next

\* Through errors and restarts, for every number of overlapping connections,
\* every location has an owner that will remove it or that was cut short.
THEOREM LocationsOwned == Spec => []LocationOwned
  <1>1. Init => LocationOwned
    BY DEF Init, LocationOwned
  <1> QED
    BY <1>1, InitType, NextType, NextLocation, PTL DEF Spec

\* The viewport service holds a socket of the user it is held for, whose
\* unsubscribe is still to come, or never will because it was cut short.
LEMMA NextViewport ==
    ASSUME TypeInv, ViewportReleased, [Next]_vars
    PROVE  ViewportReleased'
  <1> DEFINE Holds(u) == viewport[u] # None =>
               UserOf[viewport[u]] = u /\ pc[viewport[u]] \in Active \cup {"aborted"}
  <1>0. ViewportReleased <=> \A u \in Users : Holds(u)
    BY DEF ViewportReleased, MayHold, Active, Leaving
  <1> USE DEF TypeInv
  <1>1. SUFFICES ASSUME NEW u \in Users PROVE Holds(u)'
    BY DEF ViewportReleased, MayHold, Active, Leaving
  <1> HIDE DEF Holds
  <1>2. Holds(u) /\ viewport[u] \in Conns \cup {None} /\ None \notin Conns
    BY <1>0, ConnAssumption DEF TypeOK
  <1> USE DEF Holds
  <1>a. CASE UNCHANGED vars
    BY <1>2, <1>a DEF vars
  <1>b. ASSUME NEW c \in Conns, Run(c) \/ Client(c)
        PROVE  Holds(u)'
    <2>1. Advances(c)
      BY <1>b, AdvanceStep
    <2>2. CASE Farewell(c)
      <3>1. viewport' = [viewport EXCEPT ![UserOf[c]] = None]
        BY <2>2 DEF Farewell
      <3>2. CASE u = UserOf[c]
        BY <3>1, <3>2 DEF TypeOK
      <3>3. CASE u # UserOf[c]
        <4>1. viewport'[u] = viewport[u]
          BY <3>1, <3>3 DEF TypeOK
        <4> QED
          BY <1>2, <2>1, <3>3, <4>1 DEF Advances
      <3> QED
        BY <3>2, <3>3
    <2>3. CASE ReceiveSubscribe(c)
      <3>1. pc' = pc /\ pc[c] = "serve" /\ viewport' = [viewport EXCEPT ![UserOf[c]] = c]
        BY <2>3 DEF ReceiveSubscribe, ReadFrame
      <3> QED
        BY <1>2, <3>1 DEF TypeOK, Active, Connected
    <2>4. CASE ReceiveUnsubscribe(c)
      <3>1. pc' = pc /\ viewport' = [viewport EXCEPT ![UserOf[c]] = None]
        BY <2>4 DEF ReceiveUnsubscribe
      <3> QED
        BY <1>2, <3>1 DEF TypeOK
    <2>5. CASE ~Farewell(c) /\ ~ReceiveSubscribe(c) /\ ~ReceiveUnsubscribe(c)
      <3>1. viewport' = viewport
        BY <1>b, <2>5 DEF Run, Client, AddMember, Register, Send, Limit, Publish, ForwardLocal,
           ReceiveDisconnect, RemoveMember, RemoveLocation, Finish, CheckSession, Drop,
           ReceiveLocation, Raise
      <3>2. pc[c] \in Active => pc'[c] # "farewell"
        BY <1>b, <2>5
        DEF Run, Client, AddMember, Register, Send, Limit, Publish, ForwardLocal,
            ReceiveDisconnect, RemoveMember, RemoveLocation, Finish, CheckSession, Drop, Abort,
            ReceiveLocation, Raise, ReadFrame, EnterFinally, Goto,
            Broadcast, Active, Connected, Leaving, TypeOK
      <3> QED
        BY <1>2, <2>1, <3>1, <3>2 DEF Advances
    <2> QED
      BY <2>2, <2>3, <2>4, <2>5
  <1>c. CASE ListenerTake \/ ListenerSend
    BY <1>2, <1>c DEF ListenerTake, ListenerSend
  <1>d. CASE EndSession
    BY <1>2, <1>d DEF EndSession
  <1>e. CASE Restart
    BY <1>e DEF Restart
  <1> QED
    BY <1>a, <1>b, <1>c, <1>d, <1>e DEF Next

\* No connection that ran to its end is held by the viewport service, however
\* the connections of a user overlap.
THEOREM ViewportsReleased == Spec => []ViewportReleased
  <1>1. Init => ViewportReleased
    BY DEF Init, ViewportReleased
  <1> QED
    BY <1>1, InitType, NextType, NextViewport, PTL DEF Spec

\* Only sockets of users who subscribed a viewport are ever forwarded to.
AudienceSound ==
    /\ \A d \in listener.to : UserOf[d] \in watched
    /\ \A u \in Users : viewport[u] # None => UserOf[viewport[u]] \in watched

GhostInv == RegistryInv /\ AudienceSound /\ NoGhost

\* A connection of u was cut short.
CutShort(u) == \E d \in Conns : UserOf[d] = u /\ pc[d] = "aborted"

\* What c's app shows, and has heard of since c joined the room.
Fresh(c) == blips[UserOf[c]] \ carried[c]

\* Only the radar of the receiver's app changes, and only about the sender.
LEMMA DeliverEffect ==
    ASSUME TypeOK, NEW d \in Conns, NEW type, NEW u \in Users, Deliver(d, type, u),
           NEW c \in Conns, UserOf[c] \in Users
    PROVE  /\ UserOf[c] # UserOf[d] => blips'[UserOf[c]] = blips[UserOf[c]] /\ Fresh(c)' = Fresh(c)
           /\ blips'[UserOf[c]] \subseteq blips[UserOf[c]] \cup {u}
           /\ Fresh(c)' \subseteq Fresh(c) \cup {u}
           /\ type \in {"USER_CONNECTED", "USER_DISCONNECTED"} =>
                 blips'[UserOf[c]] \subseteq blips[UserOf[c]] /\ Fresh(c)' \subseteq Fresh(c)
           /\ open[d] /\ type = "USER_DISCONNECTED" /\ UserOf[d] = UserOf[c] =>
                 u \notin blips'[UserOf[c]]
  <1>1. carried'[c] = IF open[d] /\ type # "USER_CONNECTED" /\ UserOf[c] = UserOf[d]
                      THEN carried[c] \ {u} ELSE carried[c]
    BY DEF Deliver
  <1>2. CASE ~open[d] \/ type = "USER_CONNECTED"
    BY <1>1, <1>2 DEF Deliver, Fresh
  <1>3. CASE open[d] /\ type = "USER_DISCONNECTED"
    <2>1. blips' = [blips EXCEPT ![UserOf[d]] = @ \ {u}]
      BY <1>3 DEF Deliver
    <2>2. blips'[UserOf[c]] = IF UserOf[d] = UserOf[c] THEN blips[UserOf[c]] \ {u} ELSE blips[UserOf[c]]
      BY <2>1 DEF TypeOK
    <2>3. carried'[c] = IF UserOf[c] = UserOf[d] THEN carried[c] \ {u} ELSE carried[c]
      BY <1>1, <1>3
    <2> QED
      BY <1>3, <2>2, <2>3 DEF Fresh
  <1>4. CASE open[d] /\ type \notin {"USER_CONNECTED", "USER_DISCONNECTED"}
    <2>1. UserOf[d] = UserOf[c] => blips'[UserOf[c]] \in {blips[UserOf[c]], blips[UserOf[c]] \cup {u}}
      BY <1>4 DEF Deliver, TypeOK
    <2>2. UserOf[d] # UserOf[c] => blips'[UserOf[c]] = blips[UserOf[c]]
      BY <1>4 DEF Deliver, TypeOK
    <2>3. carried'[c] = IF UserOf[c] = UserOf[d] THEN carried[c] \ {u} ELSE carried[c]
      BY <1>1, <1>4
    <2> QED
      BY <1>4, <2>1, <2>2, <2>3 DEF Fresh
  <1> QED
    BY <1>2, <1>3, <1>4

\* What the steps of a coroutine and its client do to the radars, other than sends.
LEMMA RadarStep ==
    ASSUME NEW e \in Conns, Run(e) \/ Client(e), ~Send(e)
    PROVE  /\ blips' = blips
           /\ Register(e) \/ (room' \subseteq room /\ carried' = carried)
           /\ watched \subseteq watched'
           /\ todo'[e] # todo[e] => pc[e] # "farewell"
  BY DEF Run, Client, AddMember, Register, Limit, Publish, ForwardLocal,
         ReceiveDisconnect, RemoveMember, RemoveLocation, Farewell, Finish, CheckSession, Drop,
         ReceiveLocation, ReceiveSubscribe, ReceiveUnsubscribe, Raise, ReadFrame, EnterFinally,
         Disconnect, registry, radar

\* A socket comes up only when the session check lets it in.
LEMMA OpenStep ==
    ASSUME TypeOK, NEW e \in Conns, Run(e) \/ Client(e), NEW c \in Conns, open'[c]
    PROVE  open[c] \/ pc[c] = "idle"
  BY DEF Run, Client, AddMember, Register, Send, Limit, Publish, ForwardLocal,
         ReceiveDisconnect, RemoveMember, RemoveLocation, Farewell, Finish, CheckSession, Drop,
         ReceiveLocation, ReceiveSubscribe, ReceiveUnsubscribe, Raise, Abort, TypeOK

LEMMA NextAudience ==
    ASSUME TypeInv, AudienceSound, [Next]_vars
    PROVE  AudienceSound'
  <1> USE DEF TypeInv
  <1>w. \A c \in Watchers : UserOf[c] \in watched
    BY DEF AudienceSound, Watchers
  <1>a. CASE UNCHANGED vars
    BY <1>a DEF vars, AudienceSound
  <1>b. ASSUME NEW c \in Conns, Run(c) \/ Client(c)
        PROVE  AudienceSound'
    BY <1>b
    DEF Run, Client, AddMember, Register, Send, Limit, Publish, ForwardLocal,
        ReceiveDisconnect, RemoveMember, RemoveLocation, Farewell, Finish, CheckSession, Drop,
        ReceiveLocation, ReceiveSubscribe, ReceiveUnsubscribe, Raise, ReadFrame, AudienceSound, TypeOK
  <1>c. CASE ListenerTake
    <2>1. PICK covering \in SUBSET Watchers : Forwarding(Head(wire), covering)
      BY <1>c DEF ListenerTake
    <2> QED
      BY <1>c, <1>w, <2>1 DEF ListenerTake, Forwarding, AudienceSound
  <1>d. CASE ListenerSend
    <2>1. PICK d \in listener.to : Forwarding(listener.about, listener.to \ {d})
      BY <1>d DEF ListenerSend
    <2> QED
      BY <1>d, <2>1 DEF ListenerSend, Forwarding, AudienceSound
  <1>e. CASE EndSession
    BY <1>e DEF EndSession, AudienceSound
  <1>f. CASE Restart
    BY <1>f DEF Restart, Forwarding, AudienceSound
  <1> QED
    BY <1>a, <1>b, <1>c, <1>d, <1>e, <1>f DEF Next

\* A farewell that c will hear of u is still to come after a step of e's, unless
\* that step is the farewell reaching c.
LEMMA FarewellKept ==
    ASSUME RegistryInv, NEW e \in Conns, Advances(e),
           NEW c \in room, NEW u, WillHearFarewell(c, u) \/ CutShort(u)
    PROVE  \/ WillHearFarewell(c, u)' \/ CutShort(u)'
           \/ pc[e] = "farewell" /\ UserOf[e] = u /\ c \in todo[e] /\ c \notin todo'[e]
  <1> USE DEF CutShort
  <1>1. PICK d \in Conns : /\ UserOf[d] = u
                           /\ \/ pc[d] \in Active \cup {"aborted"}
                              \/ pc[d] = "farewell" /\ c \in todo[d]
    BY DEF WillHearFarewell, Active
  <1>2. CASE d # e
    BY <1>1, <1>2 DEF Advances, WillHearFarewell, Active
  <1>3. CASE d = e /\ pc[d] \in Active \cup {"aborted"}
    BY <1>1, <1>3 DEF Advances, WillHearFarewell, Active
  <1>4. CASE d = e /\ pc[d] = "farewell" /\ c \in todo[d]
    BY <1>1, <1>4 DEF Advances, WillHearFarewell
  <1> QED
    BY <1>1, <1>2, <1>3, <1>4

\* Whoever a send of e's puts on a radar has a farewell still to come, and the
\* farewell takes its sender off the radar.
LEMMA SendKeepsFarewell ==
    ASSUME RegistryInv, NEW e \in Conns, Send(e), Advances(e), NEW c \in room, c \in Conns, open[c],
           UserOf[c] \in Users, NEW u \in Users, u \in blips'[UserOf[c]]
    PROVE  /\ u \notin blips[UserOf[c]] \/ u \in Fresh(c)' \ Fresh(c) => WillHearFarewell(c, u)'
           /\ WillHearFarewell(c, u) \/ CutShort(u) => WillHearFarewell(c, u)' \/ CutShort(u)'
  <1> USE DEF RegistryInv, TypeInv
  <1>1. PICK d \in todo[e] : /\ Deliver(d, FrameOf(e), UserOf[e])
                             /\ Broadcast(e, pc[e], todo[e] \ {d})
    BY DEF Send
  <1>2. d \in Conns /\ pc[e] \in Broadcasting /\ UserOf[e] \in Users
    BY <1>1 DEF TypeOK, TodoSound, TokenHeld, Broadcasting
  <1>3. ASSUME u \notin blips[UserOf[c]] \/ u \in Fresh(c)' \ Fresh(c)
        PROVE  WillHearFarewell(c, u)'
    <2>1. u = UserOf[e] /\ FrameOf(e) \notin {"USER_CONNECTED", "USER_DISCONNECTED"}
      BY <1>1, <1>2, <1>3, DeliverEffect
    <2>2. pc[e] \in {"relay", "forward"}
      BY <1>2, <2>1 DEF FrameOf, Broadcasting
    <2>3. pc'[e] \in Connected
      BY <1>1, <2>2 DEF Broadcast, Goto, TypeOK, Connected
    <2> QED
      BY <2>1, <2>3 DEF WillHearFarewell
  <1>4. ASSUME pc[e] = "farewell", UserOf[e] = u, c \in todo[e], c \notin todo'[e]
        PROVE  FALSE
    <2>1. c = d /\ FrameOf(e) = "USER_DISCONNECTED"
      BY <1>1, <1>4 DEF Broadcast, FrameOf, TypeOK
    <2> QED
      BY <1>1, <1>2, <1>4, <2>1, DeliverEffect
  <1> QED
    BY <1>3, <1>4, FarewellKept

LEMMA NextGhost == GhostInv /\ [Next]_vars => GhostInv'
  <1> SUFFICES ASSUME GhostInv, [Next]_vars
               PROVE  NoGhost'
    BY NextRegistry, NextAudience DEF GhostInv, RegistryInv
  <1> USE DEF GhostInv, RegistryInv, TypeInv
  <1>r. \A c \in room : c \in Conns /\ pc[c] \in Connected /\ UserOf[c] \in Users
    BY DEF RouteSound, TypeOK, RegistryTypeOK, TokenHeld, Connected
  <1>a. CASE UNCHANGED vars
    BY <1>a DEF vars, NoGhost, WillHearFarewell
  <1>b. ASSUME NEW e \in Conns, Run(e) \/ Client(e)
        PROVE  NoGhost'
    <2> SUFFICES ASSUME NEW c \in room', UserOf[c] \notin watched', NEW u \in Fresh(c)', open'[c]
                 PROVE  WillHearFarewell(c, u)' \/ CutShort(u)'
      BY DEF NoGhost, CutShort, Fresh
    <2>1. Advances(e)
      BY <1>b, AdvanceStep
    <2>2. CASE Send(e)
      <3>1. c \in room /\ UserOf[c] \notin watched /\ open[c]
        BY <2>2 DEF Send, registry
      <3>2. u \in blips'[UserOf[c]] /\ u \in Users
        BY <1>r, <3>1, NextType DEF Fresh, TypeOK
      <3>3. u \in Fresh(c) => WillHearFarewell(c, u) \/ CutShort(u)
        BY <3>1 DEF NoGhost, CutShort, Fresh
      <3> QED
        BY <1>r, <2>1, <2>2, <3>1, <3>2, <3>3, SendKeepsFarewell
    <2>3. CASE ~Send(e)
      <3>1. blips' = blips /\ UserOf[c] \notin watched /\ c \in Conns
        BY <1>b, <2>3, RadarStep, NextType DEF TypeOK, RegistryTypeOK
      <3>2. c \in room /\ carried'[c] = carried[c]
        <4>1. CASE Register(e)
          <5>1. carried' = [carried EXCEPT ![e] = blips[UserOf[e]]] /\ room' = room \cup {e}
            BY <4>1 DEF Register, Connect
          <5>2. c # e
            BY <3>1, <5>1 DEF Fresh, TypeOK
          <5> QED
            BY <3>1, <5>1, <5>2 DEF TypeOK
        <4> QED
          BY <1>b, <2>3, <4>1, RadarStep
      <3>3. open[c]
        BY <1>b, <1>r, <3>2, OpenStep DEF Connected
      <3>4. WillHearFarewell(c, u) \/ CutShort(u)
        BY <3>1, <3>2, <3>3 DEF NoGhost, CutShort, Fresh
      <3> QED
        BY <1>b, <2>1, <2>3, <3>2, <3>4, RadarStep, FarewellKept
    <2> QED
      BY <2>2, <2>3
  <1>c. CASE ListenerTake \/ EndSession
    BY <1>c DEF ListenerTake, EndSession, NoGhost, WillHearFarewell, registry, radar
  <1>d. CASE ListenerSend
    <2>1. PICK d \in listener.to : Deliver(d, "LOCATION_UPDATE", listener.about)
      BY <1>d DEF ListenerSend
    <2>2. UserOf[d] \in watched /\ d \in Conns /\ listener.about \in Users
      BY <2>1 DEF AudienceSound, TypeOK, TokenHeld
    <2>3. \A c \in room : UserOf[c] \notin watched => Fresh(c)' = Fresh(c)
      BY <1>r, <2>1, <2>2, DeliverEffect
    <2> QED
      BY <1>d, <1>r, <2>3 DEF ListenerSend, NoGhost, Fresh, WillHearFarewell, registry
  <1>e. CASE Restart
    BY <1>e DEF Restart, NoGhost
  <1> QED
    BY <1>a, <1>b, <1>c, <1>d, <1>e DEF Next

LEMMA InitGhost == Init => GhostInv
  BY InitRegistry, ConnAssumption
  DEF Init, RegistryInit, GhostInv, AudienceSound, NoGhost

\* No ghosts among the peers that an app has heard of while it was connected, for
\* every number of overlapping connections and frames: they are going to say farewell.
THEOREM NoGhosts == Spec => []NoGhost
  <1>1. GhostInv => NoGhost
    BY DEF GhostInv
  <1> QED
    BY <1>1, InitGhost, NextGhost, PTL DEF Spec

\* No step of a coroutine or of its client makes a ghost, but the one in which a
\* connection joins the room when its app already shows the peer.
LEMMA NoGhostMade ==
    ASSUME RegistryInv, [Next]_vars, NEW e \in Conns, Run(e) \/ Client(e),
           NEW c \in room', NEW u \in blips'[UserOf[c]], Ghost(c, u)', ~Ghost(c, u)
    PROVE  c \notin room /\ u \in blips[UserOf[c]]
  <1> USE DEF RegistryInv, TypeInv
  <1>0. /\ c \in Conns /\ Advances(e)
        /\ c \in room => pc[c] \in Connected /\ UserOf[c] \in Users
        /\ ~WillHearFarewell(c, u)' /\ ~CutShort(u)' /\ open'[c]
    BY AdvanceStep, NextType
    DEF RouteSound, TypeOK, RegistryTypeOK, TokenHeld, Connected, Ghost, CutShort
  <1>1. ASSUME c \in room PROVE FALSE
    <2>1. open[c]
      BY <1>0, <1>1, OpenStep DEF Connected
    <2>2. u \in blips[UserOf[c]] => WillHearFarewell(c, u) \/ CutShort(u)
      BY <1>1, <2>1 DEF Ghost, CutShort
    <2>3. CASE Send(e)
      <3>1. u \in Users
        BY <1>0, <1>1, NextType DEF TypeOK
      <3> QED
        BY <1>0, <1>1, <2>1, <2>2, <2>3, <3>1, SendKeepsFarewell
    <2>4. CASE ~Send(e)
      BY <1>0, <1>1, <2>2, <2>4, RadarStep, FarewellKept
    <2> QED
      BY <2>3, <2>4
  <1>2. CASE Send(e)
    BY <1>1, <1>2 DEF Send, registry
  <1>3. CASE ~Send(e)
    BY <1>1, <1>3, RadarStep
  <1> QED
    BY <1>2, <1>3

\* The only origins of a ghost, on a radar with a viewport or without, are an update
\* that the listener task delivers after the farewell, and a connection that joins
\* the room for an app that shows the peer since before.
THEOREM GhostsHaveOrigins == Spec => GhostOrigins
  <1> DEFINE Step ==
        \A c \in room' : \A u \in blips'[UserOf[c]] :
          Ghost(c, u)' /\ ~Ghost(c, u) =>
              \/ c \notin room /\ u \in blips[UserOf[c]]
              \/ /\ listener.about = u
                 /\ \E d \in listener.to \ listener'.to : UserOf[d] = UserOf[c]
  <1>1. RegistryInv /\ [Next]_vars => [Step]_vars
    <2> SUFFICES ASSUME RegistryInv, [Next]_vars,
                        NEW c \in room', NEW u \in blips'[UserOf[c]],
                        Ghost(c, u)', ~Ghost(c, u)
                 PROVE  \/ c \notin room /\ u \in blips[UserOf[c]]
                        \/ /\ listener.about = u
                           /\ \E d \in listener.to \ listener'.to : UserOf[d] = UserOf[c]
      OBVIOUS
    <2>1. CASE UNCHANGED vars
      BY <2>1 DEF vars, Ghost, WillHearFarewell
    <2>2. CASE \E e \in Conns : Run(e) \/ Client(e)
      BY <2>2, NoGhostMade
    <2>3. CASE ListenerTake \/ EndSession
      BY <2>3 DEF ListenerTake, EndSession, Ghost, WillHearFarewell, registry, radar
    <2>4. CASE ListenerSend
      <3> USE DEF RegistryInv, TypeInv
      <3>1. PICK d \in listener.to : /\ Deliver(d, "LOCATION_UPDATE", listener.about)
                                     /\ Forwarding(listener.about, listener.to \ {d})
        BY <2>4 DEF ListenerSend
      <3>2. c \in room /\ u \notin blips[UserOf[c]]
        BY <2>4 DEF ListenerSend, Ghost, WillHearFarewell, registry
      <3>3. d \in Conns /\ c \in Conns /\ listener.about \in Users /\ UserOf[c] \in Users
        BY <3>1, <3>2 DEF TypeOK, RegistryTypeOK, TokenHeld, RouteSound, Connected
      <3>4. UserOf[d] = UserOf[c] /\ u = listener.about
        BY <3>1, <3>2, <3>3, DeliverEffect
      <3>5. d \notin listener'.to
        BY <3>1 DEF Forwarding
      <3> QED
        BY <3>1, <3>4, <3>5
    <2>5. CASE Restart
      BY <2>5 DEF Restart
    <2> QED
      BY <2>1, <2>2, <2>3, <2>4, <2>5 DEF Next
  <1> QED
    BY <1>1, InitRegistry, NextRegistry, PTL DEF Spec, GhostOrigins

--------------------------------------------------------------------------------
(* What a client was given on arrival.                                     *)

MemberGone == {"memberRemoved", "locationRemoved", "farewell", "closed", "aborted"}
LocationGone == {"locationRemoved", "farewell", "closed", "aborted"}
Relaying == {"stored", "relay", "published", "forward"}

\* The member is added before the connection registers.
MemberKept(c) ==
    pc[c] \in Connected \cup {"added"} =>
        UserOf[c] \in members \/ TwinRemoved(c, MemberGone)

LocationKept(c) ==
    pc[c] \in Relaying => UserOf[c] \in locations \/ TwinRemoved(c, LocationGone)

PresentInv == session => \A c \in Conns : MemberKept(c) /\ LocationKept(c)

\* What a step of e's does to the members and locations: it removes its own user's,
\* as its stage says, and has them both when it comes to the stages that need them.
Provides(e) ==
    /\ session' = session
    /\ \A u \in Users : u \in members /\ u \notin members' =>
          u = UserOf[e] /\ pc'[e] \in {"memberRemoved", "aborted"}
    /\ \A u \in Users : u \in locations /\ u \notin locations' =>
          u = UserOf[e] /\ pc'[e] \in {"locationRemoved", "aborted"}
    /\ pc[e] \in MemberGone => pc'[e] \in MemberGone
    /\ pc[e] \in LocationGone => pc'[e] \in LocationGone
    /\ pc'[e] \in Connected \cup {"added"} =>
          pc[e] \in Connected \cup {"added"} \/ UserOf[e] \in members'
    /\ pc'[e] \in Relaying => pc[e] \in Relaying \/ UserOf[e] \in locations'

LEMMA ProvidesStep ==
    ASSUME TypeInv, NEW e \in Conns, Run(e) \/ Client(e)
    PROVE  Provides(e)
  <1> USE DEF TypeInv, TypeOK, Provides, MemberGone, LocationGone, Relaying, Connected, redis, Goto
  <1>1. CASE AddMember(e)
    BY <1>1 DEF AddMember
  <1>2. CASE Register(e)
    BY <1>2 DEF Register, Broadcast
  <1>3. CASE Send(e)
    BY <1>3 DEF Send, Broadcast, TodoSound, Broadcasting
  <1>4. CASE Limit(e)
    BY <1>4 DEF Limit, Broadcast
  <1>5. CASE Publish(e)
    BY <1>5 DEF Publish
  <1>6. CASE ForwardLocal(e)
    BY <1>6 DEF ForwardLocal, Broadcast
  <1>7. CASE ReceiveDisconnect(e) \/ Raise(e)
    BY <1>7 DEF ReceiveDisconnect, Raise, ReadFrame, EnterFinally
  <1>8. CASE RemoveMember(e)
    BY <1>8 DEF RemoveMember, Abort
  <1>9. CASE RemoveLocation(e)
    BY <1>9 DEF RemoveLocation, Abort
  <1>10. CASE Farewell(e)
    BY <1>10 DEF Farewell, Broadcast
  <1>11. CASE Finish(e)
    BY <1>11 DEF Finish
  <1>12. CASE CheckSession(e)
    BY <1>12 DEF CheckSession
  <1>13. CASE Drop(e) \/ ReceiveSubscribe(e) \/ ReceiveUnsubscribe(e)
    BY <1>13 DEF Drop, ReceiveSubscribe, ReceiveUnsubscribe
  <1>14. CASE ReceiveLocation(e)
    BY <1>14 DEF ReceiveLocation, ReadFrame, EnterFinally
  <1> QED
    BY <1>1, <1>2, <1>3, <1>4, <1>5, <1>6, <1>7, <1>8, <1>9, <1>10, <1>11, <1>12, <1>13, <1>14
    DEF Run, Client

LEMMA NextPresent == TypeInv /\ PresentInv /\ [Next]_vars => PresentInv'
  <1> SUFFICES ASSUME TypeInv, PresentInv, [Next]_vars, session',
                      NEW c \in Conns
               PROVE  MemberKept(c)' /\ LocationKept(c)'
    BY DEF PresentInv
  <1>a. CASE UNCHANGED vars
    BY <1>a DEF vars, PresentInv, MemberKept, LocationKept, TwinRemoved
  <1>b. ASSUME NEW e \in Conns, Run(e) \/ Client(e)
        PROVE  MemberKept(c)' /\ LocationKept(c)'
    <2>1. Provides(e) /\ Advances(e) /\ session
      BY <1>b, ProvidesStep, AdvanceStep DEF Provides
    <2>2. MemberKept(c) /\ LocationKept(c)
      BY <2>1 DEF PresentInv
    <2>3. \A d \in Conns \ {e} : pc'[d] = pc[d]
      BY <2>1 DEF Advances
    <2>4. /\ TwinRemoved(c, MemberGone) => TwinRemoved(c, MemberGone)'
          /\ TwinRemoved(c, LocationGone) => TwinRemoved(c, LocationGone)'
      BY <2>1, <2>3 DEF TwinRemoved, Provides
    <2>5. MemberKept(c)'
      <3> SUFFICES ASSUME pc'[c] \in Connected \cup {"added"}, UserOf[c] \notin members'
                   PROVE  TwinRemoved(c, MemberGone)'
        BY DEF MemberKept
      <3>1. pc[c] \in Connected \cup {"added"}
        BY <2>1, <2>3 DEF Provides
      <3>2. UserOf[c] \in Users
        BY <3>1 DEF TypeInv, TokenHeld, Connected
      <3>3. CASE UserOf[c] \in members
        <4>1. UserOf[e] = UserOf[c] /\ pc'[e] \in {"memberRemoved", "aborted"}
          BY <2>1, <3>2, <3>3 DEF Provides
        <4>2. e # c
          BY <4>1 DEF Connected
        <4> QED
          BY <4>1, <4>2 DEF TwinRemoved, MemberGone
      <3> QED
        BY <2>2, <2>4, <3>1, <3>3 DEF MemberKept
    <2>6. LocationKept(c)'
      <3> SUFFICES ASSUME pc'[c] \in Relaying, UserOf[c] \notin locations'
                   PROVE  TwinRemoved(c, LocationGone)'
        BY DEF LocationKept
      <3>1. pc[c] \in Relaying
        BY <2>1, <2>3 DEF Provides
      <3>2. UserOf[c] \in Users
        BY <3>1 DEF TypeInv, TokenHeld, Relaying
      <3>3. CASE UserOf[c] \in locations
        <4>1. UserOf[e] = UserOf[c] /\ pc'[e] \in {"locationRemoved", "aborted"}
          BY <2>1, <3>2, <3>3 DEF Provides
        <4>2. e # c
          BY <4>1 DEF Relaying
        <4> QED
          BY <4>1, <4>2 DEF TwinRemoved, LocationGone
      <3> QED
        BY <2>2, <2>4, <3>1, <3>3 DEF LocationKept
    <2> QED
      BY <2>5, <2>6
  <1>c. CASE ListenerTake \/ ListenerSend
    BY <1>c DEF ListenerTake, ListenerSend, redis, PresentInv, MemberKept, LocationKept, TwinRemoved
  <1>d. ~EndSession
    BY DEF EndSession
  <1>e. CASE Restart
    BY <1>e DEF Restart, MemberKept, LocationKept, Connected, Relaying, Final
  <1> QED
    BY <1>a, <1>b, <1>c, <1>d, <1>e DEF Next

\* For every number of connections, errors and restarts: while the session lives,
\* only another connection of the same token takes a served client off the list of
\* members or, while its fix is relayed, off the map.
THEOREM PresentCorrect == Spec => []PresentUnlessTwinLeft
  <1>1. Init => PresentInv
    BY DEF Init, PresentInv, MemberKept, LocationKept, Connected, Relaying
  <1>2. PresentInv => PresentUnlessTwinLeft
    BY DEF PresentInv, PresentUnlessTwinLeft, MemberKept, LocationKept, MemberGone,
       LocationGone, Relaying
  <1> QED
    BY <1>1, <1>2, InitType, NextType, NextPresent, PTL DEF Spec
================================================================================
