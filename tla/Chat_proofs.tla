------------------------------- MODULE Chat_proofs -----------------------------
(***************************************************************************)
(* Proofs about Chat, for any users, connections, limits and numbers of    *)
(* messages and faults.                                                    *)
(***************************************************************************)
EXTENDS Chat, SequenceTheorems, WellFoundedInduction, TLAPS

(***************************************************************************)
(* Types.                                                                  *)
(***************************************************************************)

LEMMA InitType == Init => TypeOK
<1> SUFFICES ASSUME Init PROVE TypeOK
  OBVIOUS
<1>1. RegistryTypeOK
  BY DEF Init, RegistryInit, RegistryTypeOK
<1>2. ConnType
  BY DEF Init, ConnType, Pc
<1>3. SentType
  <2>1. outbox \in [Conns -> Seq(Messages)] /\ count \in [Conns -> Nat]
    BY DEF Init
  <2>2. MaxSends \in [Users -> Nat] /\ budget = MaxSends
    BY ChatAssumption DEF Init
  <2> QED
    BY <2>1, <2>2 DEF SentType
<1>4. StoredType
  <2>1. \A k \in Keys : stored[k] = <<>>
    BY DEF Init
  <2>2. stored \in [Keys -> Seq(Messages)]
    BY DEF Init
  <2>3. MaxChat \in Nat \ {0} /\ Len(<<>>) = 0
    BY ChatAssumption, EmptySeq
  <2> QED
    BY <2>1, <2>2, <2>3 DEF StoredType
<1>5. AppType
  BY DEF Init, AppType
<1>6. faults \in 0..MaxFaults
  BY ChatAssumption DEF Init
<1> QED
  BY <1>1, <1>2, <1>3, <1>4, <1>5, <1>6 DEF TypeOK

LEMMA FaultType == ASSUME TypeOK, Fault PROVE faults' \in 0..MaxFaults
<1>1. faults \in 0..MaxFaults /\ MaxFaults \in Nat
  BY ChatAssumption DEF TypeOK
<1> QED
  BY <1>1 DEF Fault

LEMMA MessageType == ASSUME NEW m \in Messages PROVE m.via \in Conns /\ m.n \in Nat /\ m.to \in Users \cup {All}
  BY DEF Messages

LEMMA ConnectType == ASSUME RegistryTypeOK, NEW c \in Conns, Connect(c) PROVE RegistryTypeOK'
  BY DEF RegistryTypeOK, Connect

LEMMA DisconnectType == ASSUME RegistryTypeOK, NEW c \in Conns, Disconnect(c) PROVE RegistryTypeOK'
  BY DEF RegistryTypeOK, Disconnect

LEMMA BroadcastType ==
    ASSUME ConnType, NEW c \in Conns, NEW to \in SUBSET Conns, Broadcast(c, to),
           message' \in [Conns -> Messages \cup {NoMessage}],
           to # {} => message'[c] \in Messages,
           \A d \in Conns \ {c} : message'[d] = message[d],
           open' \in [Conns -> BOOLEAN]
    PROVE  ConnType'
  BY DEF ConnType, Broadcast, Goto, Pc

\* A message goes to connections.
LEMMA AudienceType == ASSUME RegistryTypeOK, NEW m \in Messages PROVE Audience(m) \subseteq Conns
<1>1. m.to = All \/ m.to \in Users
  BY MessageType
<1> QED
  BY <1>1 DEF RegistryTypeOK, Audience, RoomConnections

\* A list that is trimmed is no longer than its limit.
LEMMA AppendType ==
    ASSUME StoredType, NEW m \in Messages, NEW k \in Keys, AppendTrimmed(k, m)
    PROVE  StoredType'
<1> DEFINE list == Append(stored[k], m)
           first == IF Len(list) > MaxChat THEN Len(list) - MaxChat + 1 ELSE 1
<1>1. list \in Seq(Messages) /\ MaxChat \in Nat \ {0}
  BY AppendProperties, ChatAssumption DEF StoredType
<1>2. stored' = [stored EXCEPT ![k] = SubSeq(list, first, Len(list))]
  BY DEF AppendTrimmed
<1> HIDE DEF list
<1>3. Len(list) \in Nat /\ list \in [1..Len(list) -> Messages]
  BY <1>1, LenProperties
<1>4. first \in 1..Len(list) + 1
  BY <1>1, <1>3
<1>5. /\ SubSeq(list, first, Len(list)) \in Seq(Messages)
      /\ Len(SubSeq(list, first, Len(list))) <= MaxChat
  BY <1>1, <1>3, <1>4, SubSeqProperties
<1> HIDE DEF first
<1> QED
  BY <1>2, <1>5 DEF StoredType

\* A message of a connection is kept under a key of the chats.
LEMMA KeyType == ASSUME NEW m \in Messages PROVE KeyOf(m) \in Keys
<1>1. m.to = All \/ m.to \in Users
  BY MessageType
<1>2. UserOf[m.via] \in Users
  BY MessageType, ChatAssumption
<1> QED
  BY <1>1, <1>2 DEF KeyOf, Keys

\* An app lists messages.
LEMMA ReceiveType ==
    ASSUME AppType, NEW d \in Conns, NEW m \in Messages, Receive(d, m), UNCHANGED opened
    PROVE  AppType'
<1> DEFINE u == UserOf[d]
           k == IF m.to = All THEN All ELSE UserOf[m.via]
           e == [message |-> m, through |-> d]
           list == Append(chats[u][k], e)
<1>1. u \in Users /\ k \in Users \cup {All} /\ e \in Entries
  BY MessageType, ChatAssumption DEF Entries
<1>2. chats' = chats \/ chats' = [chats EXCEPT ![u][k] = list]
  BY DEF Receive
<1> HIDE DEF e
<1>3. list \in Seq(Entries)
  BY <1>1, AppendProperties DEF AppType
<1> DEFINE Lists == Seq(Entries)
           row == [chats[u] EXCEPT ![k] = list]
<1> HIDE DEF u, k, list, Lists
<1>4. chats \in [Users -> [Users \cup {All} -> Lists]]
  BY DEF AppType, Lists
<1>5. row \in [Users \cup {All} -> Lists]
  BY <1>1, <1>3, <1>4 DEF Lists
<1>6. chats' \in [Users -> [Users \cup {All} -> Lists]]
  BY <1>1, <1>2, <1>4, <1>5
<1> QED
  BY <1>6 DEF AppType, Lists

(***************************************************************************)
(* The steps.                                                              *)
(***************************************************************************)

\* A coroutine that is not sending goes on to where it does not send.
LEMMA GotoType ==
    ASSUME ConnType, NEW c \in Conns, todo[c] = {}, NEW label \in Pc \ {"sending"}, Goto(c, label),
           UNCHANGED <<todo, message>>, open' \in [Conns -> BOOLEAN]
    PROVE  ConnType'
  BY DEF ConnType, Goto, Pc

LEMMA DialType == ASSUME TypeOK, NEW c \in Conns, Dial(c) PROVE TypeOK'
<1>1. ConnType'
  BY GotoType DEF TypeOK, ConnType, Dial, Pc
<1> QED
  BY <1>1 DEF TypeOK, Dial, registry, RegistryTypeOK, SentType, StoredType, AppType

LEMMA RegisterType == ASSUME TypeOK, NEW c \in Conns, Register(c) PROVE TypeOK'
<1>1. ConnType'
  BY GotoType DEF TypeOK, ConnType, Register, Pc
<1>2. RegistryTypeOK'
  BY ConnectType DEF TypeOK, Register
<1> QED
  BY <1>1, <1>2 DEF TypeOK, Register, SentType, StoredType, AppType

\* The first messages of an outbox are one.
LEMMA Prefix ==
    ASSUME NEW S, NEW s \in Seq(S), NEW n \in 0..Len(s)
    PROVE  /\ SubSeq(s, 1, n) \in Seq(S) /\ Len(SubSeq(s, 1, n)) = n
           /\ \A i \in 1..n : SubSeq(s, 1, n)[i] = s[i]
<1>1. s \in [1..Len(s) -> S] /\ Len(s) \in Nat
  BY LenProperties
<1> QED
  BY <1>1, SubSeqProperties

LEMMA DropType == ASSUME TypeOK, NEW c \in Conns, Drop(c) PROVE TypeOK'
<1>1. ConnType'
  BY DEF TypeOK, ConnType, Drop
<1>2. SentType'
  <2>1. PICK kept \in 0..Len(outbox[c]) : outbox' = [outbox EXCEPT ![c] = SubSeq(outbox[c], 1, kept)]
    BY DEF Drop
  <2> DEFINE rest == SubSeq(outbox[c], 1, kept)
  <2>2. rest \in Seq(Messages)
    BY Prefix DEF TypeOK, SentType
  <2> HIDE DEF rest
  <2> QED
    BY <2>1, <2>2 DEF TypeOK, SentType, Drop, rest
<1> QED
  BY <1>1, <1>2 DEF TypeOK, Drop, registry, RegistryTypeOK, StoredType, AppType

LEMMA ReceiveDisconnectType == ASSUME TypeOK, NEW c \in Conns, ReceiveDisconnect(c) PROVE TypeOK'
<1>1. ConnType'
  BY GotoType DEF TypeOK, ConnType, ReceiveDisconnect, Pc
<1>2. RegistryTypeOK'
  BY DisconnectType DEF TypeOK, ReceiveDisconnect
<1> QED
  BY <1>1, <1>2 DEF TypeOK, ReceiveDisconnect, SentType, StoredType, AppType

LEMMA OpenChatType ==
    ASSUME TypeOK, NEW u \in Users, NEW k \in Users \cup {All}, OpenChat(u, k) PROVE TypeOK'
<1>1. AppType'
  BY DEF TypeOK, AppType, OpenChat
<1> QED
  BY <1>1 DEF TypeOK, OpenChat, registry, RegistryTypeOK, ConnType, SentType, StoredType

LEMMA SendMessageType ==
    ASSUME TypeOK, NEW u \in Users, NEW k \in Users \cup {All}, SendMessage(u, k) PROVE TypeOK'
<1>1. \A v \in Users : budget'[v] \in 0..MaxSends[v]
  <2>1. \A v \in Users : MaxSends[v] \in Nat /\ budget[v] \in 0..MaxSends[v]
    BY ChatAssumption DEF TypeOK, SentType
  <2>2. budget[u] - 1 \in 0..MaxSends[u]
    BY <2>1 DEF SendMessage
  <2>3. \A v \in Users : budget'[v] = budget[v] \/ (v = u /\ budget'[v] = budget[u] - 1)
    BY DEF SendMessage
  <2> QED
    BY <2>1, <2>2, <2>3
<1>2. outbox' \in [Conns -> Seq(Messages)] /\ count' \in [Conns -> Nat]
  <2>1. CASE UNCHANGED <<outbox, count>>
    BY <2>1 DEF TypeOK, SentType
  <2>2. ASSUME NEW c \in Conns, count' = [count EXCEPT ![c] = @ + 1],
               outbox' = [outbox EXCEPT ![c] = Append(@, [via |-> c, n |-> count[c] + 1, to |-> k])]
        PROVE  outbox' \in [Conns -> Seq(Messages)] /\ count' \in [Conns -> Nat]
    <3> DEFINE m == [via |-> c, n |-> count[c] + 1, to |-> k]
               list == Append(outbox[c], m)
    <3>1. m \in Messages
      BY DEF Messages, TypeOK, SentType
    <3>2. list \in Seq(Messages)
      <4> HIDE DEF m
      <4> QED
        BY <3>1, AppendProperties DEF TypeOK, SentType
    <3>3. outbox' = [outbox EXCEPT ![c] = list]
      BY <2>2
    <3> HIDE DEF list
    <3> QED
      BY <2>2, <3>2, <3>3 DEF TypeOK, SentType
  <2> QED
    BY <2>1, <2>2 DEF SendMessage
<1>3. SentType'
  BY <1>1, <1>2 DEF SentType
<1> QED
  BY <1>3 DEF TypeOK, SendMessage, registry, RegistryTypeOK, ConnType, StoredType, AppType

\* The first message of an outbox, and the rest.
LEMMA HeadType ==
    ASSUME SentType, NEW c \in Conns, outbox[c] # <<>>
    PROVE  Head(outbox[c]) \in Messages /\ Tail(outbox[c]) \in Seq(Messages)
  BY HeadTailProperties DEF SentType

LEMMA StoreMessageType == ASSUME TypeOK, NEW c \in Conns, StoreMessage(c) PROVE TypeOK'
<1> DEFINE m == Head(outbox[c])
           rest == Tail(outbox[c])
<1>1. m \in Messages /\ rest \in Seq(Messages) /\ pc[c] = "serve" /\ todo[c] = {}
  BY HeadType DEF TypeOK, ConnType, StoreMessage
<1>2. /\ outbox' = [outbox EXCEPT ![c] = rest]
      /\ UNCHANGED <<count, budget, opened, chats>>
  BY DEF StoreMessage
<1>3. \/ /\ AppendTrimmed(KeyOf(m), m)
         /\ message' = [message EXCEPT ![c] = m]
         /\ Broadcast(c, Audience(m))
         /\ UNCHANGED <<registry, open, faults>>
      \/ /\ Fault
         /\ AppendTrimmed(KeyOf(m), m) \/ UNCHANGED stored
         /\ Disconnect(c)
         /\ open' = [open EXCEPT ![c] = FALSE]
         /\ Goto(c, "closed")
         /\ UNCHANGED <<message, todo>>
  BY DEF StoreMessage
<1> HIDE DEF m, rest
<1>4. SentType'
  BY <1>1, <1>2 DEF TypeOK, SentType
<1>5. AppType'
  BY <1>2 DEF TypeOK, AppType
<1>6. StoredType'
  <2>1. CASE AppendTrimmed(KeyOf(m), m)
    BY <1>1, <2>1, AppendType, KeyType DEF TypeOK
  <2>2. CASE UNCHANGED stored
    BY <2>2 DEF TypeOK, StoredType
  <2> QED
    BY <1>3, <2>1, <2>2
<1>7. CASE Broadcast(c, Audience(m)) /\ message' = [message EXCEPT ![c] = m] /\ UNCHANGED <<registry, open, faults>>
  <2>1. ConnType'
    BY <1>1, <1>7, BroadcastType, AudienceType DEF TypeOK, ConnType
  <2> QED
    BY <1>4, <1>5, <1>6, <1>7, <2>1 DEF TypeOK, registry, RegistryTypeOK
<1>8. CASE Fault /\ Disconnect(c) /\ open' = [open EXCEPT ![c] = FALSE] /\ Goto(c, "closed") /\ UNCHANGED <<message, todo>>
  <2>1. ConnType'
    BY <1>1, <1>8, GotoType DEF TypeOK, ConnType, Pc
  <2> QED
    BY <1>4, <1>5, <1>6, <1>8, <2>1, FaultType, DisconnectType DEF TypeOK
<1> QED
  BY <1>3, <1>7, <1>8

LEMMA SendType == ASSUME TypeOK, NEW c \in Conns, Send(c) PROVE TypeOK'
<1>1. PICK d \in todo[c] : Receive(d, message[c]) /\ Broadcast(c, todo[c] \ {d})
  BY DEF Send
<1>2. d \in Conns /\ message[c] \in Messages
  BY DEF TypeOK, ConnType
<1>3. AppType'
  BY <1>1, <1>2, ReceiveType DEF TypeOK, Send
<1>4. ConnType'
  BY <1>1, <1>2, BroadcastType DEF TypeOK, ConnType, Send
<1> QED
  BY <1>3, <1>4 DEF TypeOK, Send, registry, RegistryTypeOK, SentType, StoredType

LEMMA RestartType == ASSUME TypeOK, Restart PROVE TypeOK'
<1>1. RegistryTypeOK'
  BY DEF Restart, RegistryTypeOK
<1>2. ConnType'
  BY DEF Restart, TypeOK, ConnType, Pc
<1>3. SentType'
  BY DEF Restart, TypeOK, SentType
<1> QED
  BY <1>1, <1>2, <1>3, FaultType DEF Restart, TypeOK, StoredType, AppType

LEMMA StepType == TypeOK /\ [Next]_vars => TypeOK'
<1> SUFFICES ASSUME TypeOK, [Next]_vars PROVE TypeOK'
  OBVIOUS
<1>1. CASE UNCHANGED vars
  BY <1>1 DEF vars, TypeOK, RegistryTypeOK, ConnType, SentType, StoredType, AppType
<1> QED
  BY <1>1, DialType, RegisterType, DropType, ReceiveDisconnectType, OpenChatType, SendMessageType,
     StoreMessageType, SendType, RestartType DEF Next, Run

\* Every variable of the chats keeps its kind, and no list outgrows its limit,
\* whatever comes, goes and fails.
THEOREM TypeCorrect == Spec => []TypeOK
  BY InitType, StepType, PTL DEF Spec

(***************************************************************************)
(* DMs.                                                                    *)
(***************************************************************************)

\* The registry routes a token to a connection of that token, what a client sends
\* is its own, and a DM is on its way to its addressee only.
OwnMessages ==
    /\ \A u \in Users : tokenMap[u] \in Conns => UserOf[tokenMap[u]] = u
    /\ \A c \in Conns : \A i \in 1..Len(outbox[c]) : outbox[c][i].via = c
    /\ \A c \in Conns : \A d \in todo[c] :
          /\ message[c].via = c
          /\ message[c].to = All \/ UserOf[d] = message[c].to

LEMMA InitOwn == Init => OwnMessages
<1> SUFFICES ASSUME Init PROVE OwnMessages
  OBVIOUS
<1>1. \A u \in Users : tokenMap[u] = None
  BY DEF Init, RegistryInit
<1>2. \A c \in Conns : todo[c] = {} /\ outbox[c] = <<>>
  BY DEF Init
<1>3. Len(<<>>) = 0
  BY EmptySeq
<1> QED
  BY <1>1, <1>2, <1>3, ConnAssumption DEF OwnMessages

LEMMA OwnStep == TypeOK /\ OwnMessages /\ [Next]_vars => OwnMessages'
<1> SUFFICES ASSUME TypeOK, OwnMessages, [Next]_vars PROVE OwnMessages'
  OBVIOUS
<1>1. \A u \in Users : tokenMap'[u] \in Conns => UserOf[tokenMap'[u]] = u
  <2>1. CASE UNCHANGED registry
    BY <2>1 DEF OwnMessages, registry
  <2>2. ASSUME NEW c \in Conns, Connect(c) \/ Disconnect(c)
        PROVE  \A u \in Users : tokenMap'[u] \in Conns => UserOf[tokenMap'[u]] = u
    BY <2>2, ConnAssumption DEF Connect, Disconnect, OwnMessages, TypeOK, RegistryTypeOK
  <2>3. CASE Restart
    BY <2>3, ConnAssumption DEF Restart
  <2>4. ASSUME NEW c \in Conns, StoreMessage(c)
        PROVE  \A u \in Users : tokenMap'[u] \in Conns => UserOf[tokenMap'[u]] = u
    <3>1. UNCHANGED registry \/ Disconnect(c)
      BY <2>4 DEF StoreMessage
    <3> QED
      BY <2>1, <2>2, <3>1
  <2> QED
    BY <2>1, <2>2, <2>3, <2>4
       DEF Next, Run, vars, registry, Dial, Register, Drop, ReceiveDisconnect, OpenChat, SendMessage, Send
<1>2. \A c \in Conns : \A i \in 1..Len(outbox'[c]) : outbox'[c][i].via = c
  <2>1. CASE UNCHANGED outbox
    BY <2>1 DEF OwnMessages
  <2>2. ASSUME NEW d \in Conns, Drop(d)
        PROVE  \A c \in Conns : \A i \in 1..Len(outbox'[c]) : outbox'[c][i].via = c
    <3>1. PICK kept \in 0..Len(outbox[d]) : outbox' = [outbox EXCEPT ![d] = SubSeq(outbox[d], 1, kept)]
      BY <2>2 DEF Drop
    <3> DEFINE rest == SubSeq(outbox[d], 1, kept)
    <3>2. Len(rest) = kept /\ \A i \in 1..kept : rest[i] = outbox[d][i]
      BY Prefix DEF TypeOK, SentType
    <3>3. outbox[d] \in Seq(Messages) /\ Len(outbox[d]) \in Nat
      BY LenProperties DEF TypeOK, SentType
    <3> HIDE DEF rest
    <3>4. \A i \in 1..Len(rest) : rest[i].via = d
      BY <3>2, <3>3 DEF OwnMessages
    <3>5. \A c \in Conns : outbox'[c] = IF c = d THEN rest ELSE outbox[c]
      BY <3>1 DEF TypeOK, SentType, rest
    <3> QED
      BY <3>4, <3>5 DEF OwnMessages
  <2>3. ASSUME NEW d \in Conns, StoreMessage(d)
        PROVE  \A c \in Conns : \A i \in 1..Len(outbox'[c]) : outbox'[c][i].via = c
    <3> DEFINE rest == Tail(outbox[d])
    <3>1. /\ Len(rest) = Len(outbox[d]) - 1 /\ Len(outbox[d]) \in Nat
          /\ \A i \in 1..Len(rest) : rest[i] = outbox[d][i + 1]
      BY <2>3, HeadTailProperties, LenProperties DEF StoreMessage, TypeOK, SentType
    <3>2. \A c \in Conns : outbox'[c] = IF c = d THEN rest ELSE outbox[c]
      BY <2>3 DEF StoreMessage, TypeOK, SentType
    <3> HIDE DEF rest
    <3>3. \A i \in 1..Len(rest) : rest[i].via = d
      BY <3>1 DEF OwnMessages
    <3> QED
      BY <3>2, <3>3 DEF OwnMessages
  <2>4. ASSUME NEW u \in Users, NEW k \in Users \cup {All}, SendMessage(u, k), NEW d \in Conns,
               outbox' = [outbox EXCEPT ![d] = Append(@, [via |-> d, n |-> count[d] + 1, to |-> k])]
        PROVE  \A c \in Conns : \A i \in 1..Len(outbox'[c]) : outbox'[c][i].via = c
    <3> DEFINE m == [via |-> d, n |-> count[d] + 1, to |-> k]
               more == Append(outbox[d], m)
    <3>1. m \in Messages /\ m.via = d
      BY <2>4 DEF Messages, TypeOK, SentType
    <3> HIDE DEF m
    <3>2. /\ Len(more) = Len(outbox[d]) + 1 /\ Len(outbox[d]) \in Nat
          /\ \A i \in 1..Len(outbox[d]) : more[i] = outbox[d][i]
          /\ more[Len(outbox[d]) + 1] = m
      BY <3>1, AppendProperties, LenProperties DEF TypeOK, SentType
    <3>3. \A c \in Conns : outbox'[c] = IF c = d THEN more ELSE outbox[c]
      BY <2>4 DEF TypeOK, SentType, m
    <3> HIDE DEF more
    <3>4. \A i \in 1..Len(more) : more[i].via = d
      <4> SUFFICES ASSUME NEW i \in 1..Len(more) PROVE more[i].via = d
        OBVIOUS
      <4>1. CASE i <= Len(outbox[d])
        BY <3>2, <4>1 DEF OwnMessages
      <4>2. CASE i = Len(outbox[d]) + 1
        BY <3>1, <3>2, <4>2
      <4> QED
        BY <3>2, <4>1, <4>2
    <3> QED
      BY <3>3, <3>4 DEF OwnMessages
  <2>5. CASE Restart
    <3>1. \A c \in Conns : outbox'[c] = <<>>
      BY <2>5 DEF Restart
    <3> QED
      BY <3>1, EmptySeq
  <2> QED
    BY <2>1, <2>2, <2>3, <2>4, <2>5
       DEF Next, Run, vars, Dial, Register, ReceiveDisconnect, OpenChat, SendMessage, Send
<1>3. \A c \in Conns : \A d \in todo'[c] :
         message'[c].via = c /\ (message'[c].to = All \/ UserOf[d] = message'[c].to)
  <2>1. CASE UNCHANGED <<todo, message>>
    BY <2>1 DEF OwnMessages
  <2>2. ASSUME NEW b \in Conns, Send(b)
        PROVE  \A c \in Conns : \A d \in todo'[c] :
                  message'[c].via = c /\ (message'[c].to = All \/ UserOf[d] = message'[c].to)
    BY <2>2 DEF Send, Broadcast, OwnMessages, TypeOK, ConnType
  <2>3. ASSUME NEW b \in Conns, StoreMessage(b)
        PROVE  \A c \in Conns : \A d \in todo'[c] :
                  message'[c].via = c /\ (message'[c].to = All \/ UserOf[d] = message'[c].to)
    <3> DEFINE m == Head(outbox[b])
    <3>1. m \in Messages /\ m.via = b
      <4>1. outbox[b] \in Seq(Messages) /\ outbox[b] # <<>>
        BY <2>3 DEF StoreMessage, TypeOK, SentType
      <4>2. Len(outbox[b]) \in Nat \ {0} /\ m = outbox[b][1]
        BY <4>1, EmptySeq
      <4> QED
        BY <4>1, <4>2, HeadTailProperties DEF OwnMessages
    <3>2. \/ /\ message' = [message EXCEPT ![b] = m] /\ todo' = [todo EXCEPT ![b] = Audience(m)]
          \/ UNCHANGED <<todo, message>>
      BY <2>3 DEF StoreMessage, Broadcast
    <3> HIDE DEF m
    <3>3. \A d \in Audience(m) : m.to = All \/ (d \in Conns /\ UserOf[d] = m.to)
      <4>1. m.to \in Users \cup {All}
        BY <3>1, MessageType
      <4>2. CASE m.to \in Users
        BY <4>2, ChatAssumption DEF Audience, OwnMessages, TypeOK, RegistryTypeOK
      <4> QED
        BY <4>1, <4>2
    <3>4. CASE message' = [message EXCEPT ![b] = m] /\ todo' = [todo EXCEPT ![b] = Audience(m)]
      BY <3>1, <3>3, <3>4 DEF OwnMessages, TypeOK, ConnType
    <3> QED
      BY <2>1, <3>2, <3>4
  <2>4. CASE Restart
    BY <2>4 DEF Restart
  <2> QED
    BY <2>1, <2>2, <2>3, <2>4
       DEF Next, Run, vars, Dial, Register, Drop, ReceiveDisconnect, OpenChat, SendMessage
<1> QED
  BY <1>1, <1>2, <1>3 DEF OwnMessages

\* A DM never goes to anyone but its addressee, however connections of the users
\* come and go between the message, its storage and its delivery.
THEOREM DmsRouted == Spec => []DmRouted
<1>1. OwnMessages => DmRouted
  BY DEF OwnMessages, DmRouted
<1> QED
  BY <1>1, InitType, StepType, InitOwn, OwnStep, PTL DEF Spec

(***************************************************************************)
(* What apps list has been stored.                                         *)
(***************************************************************************)

\* m was sent before everything that is still on its way on its connection.
Past(m) ==
    /\ m.n <= count[m.via]
    /\ \A i \in 1..Len(outbox[m.via]) : m.n < outbox[m.via][i].n

\* The same after a step, for the m of before it.
PastAfter(m) ==
    /\ m.n <= count'[m.via]
    /\ \A i \in 1..Len(outbox'[m.via]) : m.n < outbox'[m.via][i].n

\* m is in its chat's history, or has been trimmed from it.
Traceable(m) ==
    LET list == stored[KeyOf(m)]
    IN  \/ \E i \in 1..Len(list) : list[i] = m
        \/ /\ Len(list) = MaxChat
           /\ \A i \in 1..Len(list) : list[i].via = m.via => list[i].n > m.n

\* Each connection's messages wait in the order in which they were sent.
OutboxInOrder ==
    \A c \in Conns : \A i \in 1..Len(outbox[c]) :
        /\ outbox[c][i].via = c /\ outbox[c][i].n <= count[c]
        /\ \A j \in 1..Len(outbox[c]) : i < j => outbox[c][i].n < outbox[c][j].n

\* They are stored in that order.
StoredInOrder ==
    \A k \in Keys : \A i \in 1..Len(stored[k]) :
        /\ Past(stored[k][i])
        /\ \A j \in 1..Len(stored[k]) :
              i < j /\ stored[k][i].via = stored[k][j].via => stored[k][i].n < stored[k][j].n

\* What is on its way to apps, and what they list, has been stored.
OnlyStored ==
    /\ \A c \in Conns : pc[c] = "sending" => Past(message[c]) /\ Traceable(message[c])
    /\ \A u \in Users, k \in Users \cup {All} : \A i \in 1..Len(chats[u][k]) :
          Past(chats[u][k][i].message) /\ Traceable(chats[u][k][i].message)

LEMMA InitOrder == Init => OutboxInOrder /\ StoredInOrder /\ OnlyStored
<1> SUFFICES ASSUME Init PROVE OutboxInOrder /\ StoredInOrder /\ OnlyStored
  OBVIOUS
<1>1. /\ \A c \in Conns : outbox[c] = <<>> /\ pc[c] = "idle"
      /\ \A k \in Keys : stored[k] = <<>>
      /\ \A u \in Users, k \in Users \cup {All} : chats[u][k] = <<>>
  BY DEF Init
<1>2. Len(<<>>) = 0
  BY EmptySeq
<1> QED
  BY <1>1, <1>2 DEF OutboxInOrder, StoredInOrder, OnlyStored

\* A list of messages has positions from 1 to its length.
LEMMA Positions ==
    ASSUME NEW list \in Seq(Messages)
    PROVE  Len(list) \in Nat /\ \A i \in 1..Len(list) : list[i] \in Messages
  BY LenProperties, ElementOfSeq

\* So has a list of an app.
LEMMA EntryType ==
    ASSUME NEW list \in Seq(Entries)
    PROVE  /\ Len(list) \in Nat
           /\ \A i \in 1..Len(list) : /\ list[i] \in Entries /\ list[i].message \in Messages
                                      /\ list[i].through \in Conns /\ list[i].message.n \in Nat \ {0}
<1>1. Len(list) \in Nat /\ \A i \in 1..Len(list) : list[i] \in Entries
  BY LenProperties, ElementOfSeq
<1>2. \A e \in Entries : e.message \in Messages /\ e.through \in Conns
  BY DEF Entries
<1>3. \A m \in Messages : m.n \in Nat \ {0}
  BY DEF Messages
<1> QED
  BY <1>1, <1>2, <1>3

\* What comes on its way in a step is newer than what was counted before.
Newer ==
    \A c \in Conns :
        /\ count'[c] >= count[c]
        /\ \A i \in 1..Len(outbox'[c]) :
              \/ \E j \in 1..Len(outbox[c]) : outbox'[c][i] = outbox[c][j]
              \/ outbox'[c][i].n > count[c]

LEMMA PastStays ==
    ASSUME TypeOK, TypeOK', Newer, NEW m \in Messages, Past(m) PROVE PastAfter(m)
<1> DEFINE c == m.via
<1>1. c \in Conns /\ m.n \in Nat
  BY MessageType
<1>2. count[c] \in Nat /\ count'[c] \in Nat
  BY <1>1 DEF TypeOK, SentType
<1>3. \A i \in 1..Len(outbox'[c]) : outbox'[c][i].n \in Nat
  BY <1>1, Positions, MessageType DEF TypeOK, SentType
<1> HIDE DEF c
<1>4. m.n <= count[c] /\ \A i \in 1..Len(outbox[c]) : m.n < outbox[c][i].n
  BY DEF Past, c
<1>5. m.n <= count'[c] /\ \A i \in 1..Len(outbox'[c]) : m.n < outbox'[c][i].n
  BY <1>1, <1>2, <1>3, <1>4 DEF Newer
<1> QED
  BY <1>5 DEF PastAfter, c

\* The outboxes stay in order, and nothing old gets into them.
LEMMA OutboxStep == TypeOK /\ OutboxInOrder /\ [Next]_vars => OutboxInOrder' /\ Newer
<1> SUFFICES ASSUME TypeOK, OutboxInOrder, [Next]_vars PROVE OutboxInOrder' /\ Newer
  OBVIOUS
<1>1. \A c \in Conns : /\ outbox[c] \in Seq(Messages) /\ count[c] \in Nat
                       /\ Len(outbox[c]) \in Nat
                       /\ \A i \in 1..Len(outbox[c]) : outbox[c][i].n \in Nat
  BY Positions, MessageType DEF TypeOK, SentType
<1>2. CASE UNCHANGED <<outbox, count>>
  BY <1>1, <1>2 DEF OutboxInOrder, Newer
<1>3. ASSUME NEW d \in Conns, NEW rest, NEW skip \in Nat, UNCHANGED count, Len(rest) \in Nat,
             \A c \in Conns : outbox'[c] = IF c = d THEN rest ELSE outbox[c],
             Len(rest) + skip <= Len(outbox[d]),
             \A i \in 1..Len(rest) : rest[i] = outbox[d][i + skip]
      PROVE  OutboxInOrder' /\ Newer
  <2>1. \A i \in 1..Len(rest) : i + skip \in 1..Len(outbox[d])
    BY <1>1, <1>3
  <2>2. ASSUME NEW i \in 1..Len(rest), NEW j \in 1..Len(rest), i < j PROVE rest[i].n < rest[j].n
    <3>1. rest[i] = outbox[d][i + skip] /\ rest[j] = outbox[d][j + skip] /\ i + skip < j + skip
      BY <1>3, <2>2
    <3>2. i + skip \in 1..Len(outbox[d]) /\ j + skip \in 1..Len(outbox[d])
      BY <2>1
    <3> QED
      BY <3>1, <3>2 DEF OutboxInOrder
  <2>3. \A i \in 1..Len(rest) : rest[i].via = d /\ rest[i].n <= count[d]
    BY <1>3, <2>1 DEF OutboxInOrder
  <2>4. OutboxInOrder'
    BY <1>3, <2>2, <2>3 DEF OutboxInOrder
  <2>5. \A i \in 1..Len(rest) : \E j \in 1..Len(outbox[d]) : rest[i] = outbox[d][j]
    BY <1>3, <2>1
  <2>6. ASSUME NEW c \in Conns, NEW i \in 1..Len(outbox'[c])
        PROVE  \E j \in 1..Len(outbox[c]) : outbox'[c][i] = outbox[c][j]
    <3>1. CASE c = d
      BY <1>3, <2>5, <3>1
    <3>2. CASE c # d
      BY <1>3, <3>2
    <3> QED
      BY <3>1, <3>2
  <2>7. Newer
    BY <1>1, <1>3, <2>6 DEF Newer
  <2> QED
    BY <2>4, <2>7
<1>4. ASSUME NEW d \in Conns, Drop(d) PROVE OutboxInOrder' /\ Newer
  <2>1. PICK kept \in 0..Len(outbox[d]) : outbox' = [outbox EXCEPT ![d] = SubSeq(outbox[d], 1, kept)]
    BY <1>4 DEF Drop
  <2> DEFINE rest == SubSeq(outbox[d], 1, kept)
  <2>2. /\ Len(rest) = kept /\ \A i \in 1..kept : rest[i] = outbox[d][i]
        /\ \A c \in Conns : outbox'[c] = IF c = d THEN rest ELSE outbox[c]
    BY <1>1, <2>1, Prefix DEF TypeOK, SentType
  <2> HIDE DEF rest
  <2>3. Len(rest) \in Nat /\ Len(rest) + 0 <= Len(outbox[d]) /\ UNCHANGED count
    BY <1>1, <1>4, <2>2 DEF Drop
  <2>4. \A i \in 1..Len(rest) : rest[i] = outbox[d][i + 0]
    BY <2>2
  <2> QED
    BY <1>3, <2>2, <2>3, <2>4
<1>5. ASSUME NEW d \in Conns, StoreMessage(d) PROVE OutboxInOrder' /\ Newer
  <2> DEFINE rest == Tail(outbox[d])
  <2>1. /\ Len(rest) = Len(outbox[d]) - 1 /\ Len(rest) \in Nat
        /\ \A i \in 1..Len(rest) : rest[i] = outbox[d][i + 1]
    BY <1>1, <1>5, HeadTailProperties, LenProperties DEF StoreMessage
  <2>2. UNCHANGED count /\ \A c \in Conns : outbox'[c] = IF c = d THEN rest ELSE outbox[c]
    BY <1>5 DEF StoreMessage, TypeOK, SentType
  <2> HIDE DEF rest
  <2>3. Len(rest) + 1 <= Len(outbox[d])
    BY <1>1, <2>1
  <2> QED
    BY <1>3, <2>1, <2>2, <2>3
<1>6. ASSUME NEW u \in Users, NEW k \in Users \cup {All}, SendMessage(u, k), NEW d \in Conns,
             outbox' = [outbox EXCEPT ![d] = Append(@, [via |-> d, n |-> count[d] + 1, to |-> k])],
             count' = [count EXCEPT ![d] = @ + 1]
      PROVE  OutboxInOrder' /\ Newer
  <2> DEFINE m == [via |-> d, n |-> count[d] + 1, to |-> k]
             more == Append(outbox[d], m)
  <2>1. m \in Messages /\ m.via = d /\ m.n = count[d] + 1
    BY <1>1 DEF Messages
  <2> HIDE DEF m
  <2>2. /\ Len(more) = Len(outbox[d]) + 1
        /\ \A i \in 1..Len(outbox[d]) : more[i] = outbox[d][i]
        /\ more[Len(outbox[d]) + 1] = m
    BY <1>1, <2>1, AppendProperties
  <2>3. /\ \A c \in Conns : outbox'[c] = IF c = d THEN more ELSE outbox[c]
        /\ \A c \in Conns : count'[c] = IF c = d THEN count[d] + 1 ELSE count[c]
    BY <1>6 DEF TypeOK, SentType, m
  <2> HIDE DEF more
  <2>4. \A i \in 1..Len(more) : (i \in 1..Len(outbox[d]) /\ more[i] = outbox[d][i])
                                \/ (i = Len(outbox[d]) + 1 /\ more[i] = m)
    BY <1>1, <2>2
  <2>5. \A i \in 1..Len(more) : more[i].via = d /\ more[i].n <= count[d] + 1
    BY <1>1, <2>1, <2>4 DEF OutboxInOrder
  <2>6. \A i, j \in 1..Len(more) : i < j => more[i].n < more[j].n
    <3> SUFFICES ASSUME NEW i \in 1..Len(more), NEW j \in 1..Len(more), i < j
                 PROVE  more[i].n < more[j].n
      OBVIOUS
    <3>1. i \in 1..Len(outbox[d]) /\ more[i] = outbox[d][i]
      BY <1>1, <2>2, <2>4
    <3>2. more[i].n <= count[d] /\ more[i].n \in Nat
      BY <1>1, <3>1 DEF OutboxInOrder
    <3>3. CASE j \in 1..Len(outbox[d]) /\ more[j] = outbox[d][j]
      BY <3>1, <3>3 DEF OutboxInOrder
    <3>4. CASE more[j] = m
      BY <1>1, <2>1, <3>2, <3>4
    <3> QED
      BY <2>4, <3>3, <3>4
  <2>7. OutboxInOrder'
    <3>1. ASSUME NEW c \in Conns, NEW i \in 1..Len(outbox'[c])
          PROVE  /\ outbox'[c][i].via = c /\ outbox'[c][i].n <= count'[c]
                 /\ \A j \in 1..Len(outbox'[c]) : i < j => outbox'[c][i].n < outbox'[c][j].n
      <4>1. CASE c = d
        BY <2>3, <2>5, <2>6, <4>1
      <4>2. CASE c # d
        BY <2>3, <4>2 DEF OutboxInOrder
      <4> QED
        BY <4>1, <4>2
    <3> QED
      BY <3>1 DEF OutboxInOrder
  <2>8. Newer
    BY <1>1, <2>1, <2>3, <2>4 DEF Newer
  <2> QED
    BY <2>7, <2>8
<1>7. CASE Restart
  <2>1. \A c \in Conns : outbox'[c] = <<>> /\ count'[c] = count[c]
    BY <1>7 DEF Restart
  <2>2. Len(<<>>) = 0
    BY EmptySeq
  <2> QED
    BY <1>1, <2>1, <2>2 DEF OutboxInOrder, Newer
<1> QED
  BY <1>2, <1>4, <1>5, <1>6, <1>7
     DEF Next, Run, vars, Dial, Register, ReceiveDisconnect, OpenChat, SendMessage, Send

\* Appending keeps the list or drops its first message, when it was full.
LEMMA Trimmed ==
    ASSUME StoredType, NEW m \in Messages, NEW k \in Keys, AppendTrimmed(k, m)
    PROVE  /\ \A j \in Keys \ {k} : stored'[j] = stored[j]
           /\ \E skip \in {0, 1} :
                 /\ skip = 1 => Len(stored[k]) = MaxChat
                 /\ Len(stored'[k]) = Len(stored[k]) + 1 - skip
                 /\ \A i \in 1..Len(stored'[k]) :
                       stored'[k][i] = IF i + skip <= Len(stored[k]) THEN stored[k][i + skip] ELSE m
<1> DEFINE old == stored[k]
           list == Append(old, m)
           first == IF Len(list) > MaxChat THEN Len(list) - MaxChat + 1 ELSE 1
           new == SubSeq(list, first, Len(list))
<1>1. old \in Seq(Messages) /\ Len(old) \in Nat /\ Len(old) <= MaxChat /\ MaxChat \in Nat \ {0}
  BY ChatAssumption, LenProperties DEF StoredType
<1>2. /\ list \in Seq(Messages) /\ Len(list) = Len(old) + 1
      /\ \A i \in 1..Len(old) : list[i] = old[i]
      /\ list[Len(old) + 1] = m
  BY <1>1, AppendProperties
<1>3. /\ stored'[k] = new
      /\ \A j \in Keys \ {k} : stored'[j] = stored[j]
  BY DEF AppendTrimmed, StoredType
<1> HIDE DEF old, list
<1>4. first \in {1, 2} /\ (first = 2 => Len(old) = MaxChat)
  BY <1>1, <1>2
<1> HIDE DEF first
<1>5. /\ Len(new) = Len(list) - first + 1
      /\ \A i \in 1..Len(list) - first + 1 : new[i] = list[first + i - 1]
  <2>1. \A i \in first..Len(list) : list[i] \in Messages
    BY <1>1, <1>2, <1>4, ElementOfSeq
  <2> QED
    BY <1>1, <1>2, <1>4, <2>1, SubSeqProperties
<1> HIDE DEF new
<1>6. first - 1 \in {0, 1} /\ Len(new) = Len(old) + 1 - (first - 1)
  BY <1>1, <1>2, <1>4, <1>5
<1>7. ASSUME NEW i \in 1..Len(new)
      PROVE  new[i] = IF i + (first - 1) <= Len(old) THEN old[i + (first - 1)] ELSE m
  <2>1. new[i] = list[i + (first - 1)] /\ i + (first - 1) \in 1..Len(old) + 1
    BY <1>1, <1>2, <1>4, <1>5
  <2> QED
    BY <1>1, <1>2, <2>1
<1>8. \E skip \in {0, 1} :
         /\ skip = 1 => Len(old) = MaxChat
         /\ Len(new) = Len(old) + 1 - skip
         /\ \A i \in 1..Len(new) : new[i] = IF i + skip <= Len(old) THEN old[i + skip] ELSE m
  <2> DEFINE skip == first - 1
  <2>1. skip \in {0, 1} /\ (skip = 1 => Len(old) = MaxChat)
    BY <1>4
  <2>2. Len(new) = Len(old) + 1 - skip
    BY <1>6
  <2>3. \A i \in 1..Len(new) : new[i] = IF i + skip <= Len(old) THEN old[i + skip] ELSE m
    BY <1>7
  <2> HIDE DEF skip
  <2> QED
    BY <2>1, <2>2, <2>3
<1> QED
  BY <1>3, <1>8 DEF old

\* The next message of a connection is older than those behind it, and newer than
\* anything that is past.
LEMMA NextMessage ==
    ASSUME TypeOK, OutboxInOrder, NEW c \in Conns, StoreMessage(c)
    PROVE  /\ Head(outbox[c]) \in Messages /\ Head(outbox[c]).via = c
           /\ \A m \in Messages : Past(m) /\ m.via = c => m.n < Head(outbox[c]).n
           /\ PastAfter(Head(outbox[c]))
<1> DEFINE m == Head(outbox[c])
           rest == Tail(outbox[c])
<1>1. outbox[c] \in Seq(Messages) /\ outbox[c] # <<>> /\ m \in Messages
  BY HeadType DEF TypeOK, StoreMessage, SentType
<1>2. Len(outbox[c]) \in Nat \ {0} /\ m = outbox[c][1]
  BY <1>1, EmptySeq
<1>3. m.via = c /\ m.n <= count[c]
  BY <1>2 DEF OutboxInOrder
<1>4. \A x \in Messages : Past(x) /\ x.via = c => x.n < m.n
  BY <1>2 DEF Past
<1>5. outbox'[c] = rest /\ count' = count
  BY DEF StoreMessage, TypeOK, SentType
<1>6. Len(rest) = Len(outbox[c]) - 1 /\ \A i \in 1..Len(rest) : rest[i] = outbox[c][i + 1]
  BY <1>1, HeadTailProperties
<1> HIDE DEF m, rest
<1>7. \A i \in 1..Len(rest) : m.n < rest[i].n
  BY <1>2, <1>6 DEF OutboxInOrder
<1>8. PastAfter(m)
  BY <1>3, <1>5, <1>7 DEF PastAfter
<1> QED
  BY <1>1, <1>3, <1>4, <1>8 DEF m

\* The lists of the chats stay in order.
LEMMA StoredStep == TypeOK /\ OutboxInOrder /\ StoredInOrder /\ [Next]_vars => StoredInOrder'
<1> SUFFICES ASSUME TypeOK, OutboxInOrder, StoredInOrder, [Next]_vars PROVE StoredInOrder'
  OBVIOUS
<1>1. TypeOK' /\ Newer
  BY StepType, OutboxStep
<1>2. \A k \in Keys : \A i \in 1..Len(stored[k]) :
         stored[k][i] \in Messages /\ PastAfter(stored[k][i])
  BY <1>1, Positions, PastStays DEF TypeOK, StoredType, StoredInOrder
<1>3. CASE UNCHANGED stored
  BY <1>2, <1>3 DEF StoredInOrder, Past, PastAfter
<1>4. ASSUME NEW c \in Conns, StoreMessage(c), AppendTrimmed(KeyOf(Head(outbox[c])), Head(outbox[c]))
      PROVE  StoredInOrder'
  <2> DEFINE m == Head(outbox[c])
             k == KeyOf(m)
             new == stored'[k]
             old == stored[k]
  <2>1. /\ m \in Messages /\ m.via = c /\ PastAfter(m)
        /\ \A x \in Messages : Past(x) /\ x.via = c => x.n < m.n
    BY <1>4, NextMessage
  <2>2. k \in Keys
    BY <2>1, KeyType
  <2> HIDE DEF m, k
  <2>3. /\ \A j \in Keys \ {k} : stored'[j] = stored[j]
        /\ \E skip \in {0, 1} :
              /\ Len(new) = Len(old) + 1 - skip
              /\ \A i \in 1..Len(new) : new[i] = IF i + skip <= Len(old) THEN old[i + skip] ELSE m
    BY <1>4, <2>1, <2>2, Trimmed DEF TypeOK, m, k
  <2>4. PICK skip \in {0, 1} :
              /\ Len(new) = Len(old) + 1 - skip
              /\ \A i \in 1..Len(new) : new[i] = IF i + skip <= Len(old) THEN old[i + skip] ELSE m
    BY <2>3
  <2>5. Len(old) \in Nat
    BY <2>2, Positions DEF TypeOK, StoredType
  <2> HIDE DEF new
  <2>6. \A i \in 1..Len(new) : \/ i + skip \in 1..Len(old) /\ new[i] = old[i + skip]
                               \/ i + skip = Len(old) + 1 /\ new[i] = m
    BY <2>4, <2>5
  <2>7. \A i \in 1..Len(old) : /\ old[i] \in Messages /\ Past(old[i]) /\ PastAfter(old[i])
                               /\ \A j \in 1..Len(old) :
                                     i < j /\ old[i].via = old[j].via => old[i].n < old[j].n
    BY <1>2, <2>2 DEF StoredInOrder
  <2> HIDE DEF old
  <2>8. ASSUME NEW i \in 1..Len(new) PROVE PastAfter(new[i])
    <3>1. CASE i + skip \in 1..Len(old) /\ new[i] = old[i + skip]
      BY <2>7, <3>1
    <3>2. CASE new[i] = m
      BY <2>1, <3>2
    <3> QED
      BY <2>6, <3>1, <3>2
  <2>9. ASSUME NEW i \in 1..Len(new), NEW j \in 1..Len(new), i < j, new[i].via = new[j].via
        PROVE  new[i].n < new[j].n
    <3>1. i + skip \in 1..Len(old) /\ new[i] = old[i + skip] /\ i + skip < j + skip
      BY <2>4, <2>5, <2>6, <2>9
    <3>2. CASE j + skip \in 1..Len(old) /\ new[j] = old[j + skip]
      BY <2>7, <2>9, <3>1, <3>2
    <3>3. CASE new[j] = m
      BY <2>1, <2>7, <2>9, <3>1, <3>3
    <3> QED
      BY <2>6, <3>2, <3>3
  <2>10. ASSUME NEW j \in Keys, NEW i \in 1..Len(stored'[j])
         PROVE  /\ PastAfter(stored'[j][i])
                /\ \A h \in 1..Len(stored'[j]) :
                      i < h /\ stored'[j][i].via = stored'[j][h].via => stored'[j][i].n < stored'[j][h].n
    <3>1. CASE j = k
      BY <2>8, <2>9, <3>1 DEF new
    <3>2. CASE j # k
      BY <1>2, <2>3, <3>2 DEF StoredInOrder
    <3> QED
      BY <3>1, <3>2
  <2> QED
    BY <2>10 DEF StoredInOrder, Past, PastAfter
<1> QED
  BY <1>3, <1>4 DEF Next, Run, vars, Dial, Register, Drop, ReceiveDisconnect, OpenChat, SendMessage,
                    StoreMessage, Send, Restart

\* The same as Traceable after a step, for the m of before it.
TraceableAfter(m) ==
    LET list == stored'[KeyOf(m)]
    IN  \/ \E i \in 1..Len(list) : list[i] = m
        \/ /\ Len(list) = MaxChat
           /\ \A i \in 1..Len(list) : list[i].via = m.via => list[i].n > m.n

\* A message that is stored is in its list, and those the list loses are older than
\* all that is left of their connection.
LEMMA AppendTraceable ==
    ASSUME TypeOK, OutboxInOrder, StoredInOrder, NEW c \in Conns, StoreMessage(c),
           AppendTrimmed(KeyOf(Head(outbox[c])), Head(outbox[c]))
    PROVE  /\ TraceableAfter(Head(outbox[c]))
           /\ \A m \in Messages : Past(m) /\ Traceable(m) => TraceableAfter(m)
<1> DEFINE x == Head(outbox[c])
           k == KeyOf(x)
           new == stored'[k]
           old == stored[k]
<1>1. x \in Messages /\ x.via = c /\ \A m \in Messages : Past(m) /\ m.via = c => m.n < x.n
  BY NextMessage
<1>2. k \in Keys
  BY <1>1, KeyType
<1> HIDE DEF x, k
<1>3. /\ \A j \in Keys \ {k} : stored'[j] = stored[j]
      /\ \E skip \in {0, 1} :
            /\ skip = 1 => Len(old) = MaxChat
            /\ Len(new) = Len(old) + 1 - skip
            /\ \A i \in 1..Len(new) : new[i] = IF i + skip <= Len(old) THEN old[i + skip] ELSE x
  BY <1>1, <1>2, Trimmed DEF TypeOK, x, k
<1>4. PICK skip \in {0, 1} :
            /\ skip = 1 => Len(old) = MaxChat
            /\ Len(new) = Len(old) + 1 - skip
            /\ \A i \in 1..Len(new) : new[i] = IF i + skip <= Len(old) THEN old[i + skip] ELSE x
  BY <1>3
<1>5. Len(old) \in Nat /\ MaxChat \in Nat \ {0}
  BY <1>2, Positions, ChatAssumption DEF TypeOK, StoredType
<1>6. \A i \in 1..Len(old) : \A j \in 1..Len(old) :
         i < j /\ old[i].via = old[j].via => old[i].n < old[j].n
  BY <1>2 DEF StoredInOrder
<1>7. \A i \in 1..Len(old) : old[i] \in Messages /\ old[i].n \in Nat
  BY <1>2, Positions, MessageType DEF TypeOK, StoredType
<1> HIDE DEF new, old
<1>8. \A i \in 1..Len(new) : \/ i + skip \in 1..Len(old) /\ new[i] = old[i + skip]
                             \/ i + skip = Len(old) + 1 /\ new[i] = x
  BY <1>4, <1>5
<1>9. TraceableAfter(x)
  <2>1. Len(new) \in 1..Len(new) /\ new[Len(new)] = x
    BY <1>4, <1>5
  <2> QED
    BY <2>1 DEF TraceableAfter, new, k
<1>10. ASSUME NEW m \in Messages, Past(m), Traceable(m) PROVE TraceableAfter(m)
  <2>1. CASE KeyOf(m) # k
    <3>1. stored'[KeyOf(m)] = stored[KeyOf(m)]
      BY <1>3, <2>1, KeyType
    <3> QED
      BY <1>10, <3>1 DEF Traceable, TraceableAfter
  <2>2. CASE KeyOf(m) = k /\ \E i \in 1..Len(old) : old[i] = m
    <3>1. PICK h \in 1..Len(old) : old[h] = m
      BY <2>2
    <3>2. CASE h > skip
      <4>1. h - skip \in 1..Len(new) /\ new[h - skip] = m
        BY <1>4, <1>5, <3>1, <3>2
      <4> QED
        BY <2>2, <4>1 DEF TraceableAfter, new
    <3>3. CASE h <= skip
      <4>1. h = 1 /\ skip = 1 /\ Len(new) = MaxChat
        BY <1>4, <1>5, <3>1, <3>3
      <4>2. ASSUME NEW i \in 1..Len(new), new[i].via = m.via PROVE new[i].n > m.n
        <5>1. CASE i + skip \in 1..Len(old) /\ new[i] = old[i + skip]
          <6>1. h < i + skip
            BY <4>1
          <6> QED
            BY <1>6, <1>7, <3>1, <4>2, <5>1, <6>1
        <5>2. CASE new[i] = x
          BY <1>1, <1>10, <3>1, <4>2, <5>2, <1>7, MessageType
        <5> QED
          BY <1>8, <5>1, <5>2
      <4> QED
        BY <2>2, <4>1, <4>2 DEF TraceableAfter, new
    <3> QED
      BY <1>4, <3>2, <3>3
  <2>3. CASE /\ KeyOf(m) = k /\ Len(old) = MaxChat
             /\ \A i \in 1..Len(old) : old[i].via = m.via => old[i].n > m.n
    <3>1. ASSUME NEW i \in 1..Len(new), new[i].via = m.via PROVE new[i].n > m.n
      <4>1. CASE i + skip \in 1..Len(old) /\ new[i] = old[i + skip]
        BY <2>3, <3>1, <4>1
      <4>2. CASE new[i] = x
        BY <1>1, <1>10, <3>1, <4>2, MessageType
      <4> QED
        BY <1>8, <4>1, <4>2
    <3>2. Len(new) = MaxChat
      <4>1. Len(stored'[k]) <= MaxChat
        BY <1>2, StepType DEF TypeOK, StoredType, Next, Run
      <4> QED
        BY <1>4, <1>5, <2>3, <4>1 DEF new
    <3> QED
      BY <2>3, <3>1, <3>2 DEF TraceableAfter, new
  <2> QED
    BY <1>10, <2>1, <2>2, <2>3 DEF Traceable, old
<1> QED
  BY <1>9, <1>10 DEF x

LEMMA TraceableStays ==
    ASSUME TypeOK, OutboxInOrder, StoredInOrder, [Next]_vars, NEW m \in Messages, Past(m), Traceable(m)
    PROVE  TraceableAfter(m)
<1>1. CASE UNCHANGED stored
  BY <1>1 DEF Traceable, TraceableAfter
<1>2. ASSUME NEW c \in Conns, StoreMessage(c), AppendTrimmed(KeyOf(Head(outbox[c])), Head(outbox[c]))
      PROVE  TraceableAfter(m)
  BY <1>2, AppendTraceable
<1> QED
  BY <1>1, <1>2 DEF Next, Run, vars, Dial, Register, Drop, ReceiveDisconnect, OpenChat, SendMessage,
                    StoreMessage, Send, Restart

\* Nothing gets to an app, or on its way to one, that is not stored.
LEMMA OnlyStoredStep ==
    TypeOK /\ OutboxInOrder /\ StoredInOrder /\ OnlyStored /\ [Next]_vars => OnlyStored'
<1> SUFFICES ASSUME TypeOK, OutboxInOrder, StoredInOrder, OnlyStored, [Next]_vars PROVE OnlyStored'
  OBVIOUS
<1> DEFINE Kept(m) == PastAfter(m) /\ TraceableAfter(m)
<1>1. TypeOK' /\ Newer
  BY StepType, OutboxStep
<1>2. \A m \in Messages : Past(m) /\ Traceable(m) => Kept(m)
  BY <1>1, PastStays, TraceableStays
<1>3. \A c \in Conns : pc[c] = "sending" => message[c] \in Messages /\ Kept(message[c])
  BY <1>2 DEF OnlyStored, TypeOK, ConnType
<1>4. \A u \in Users, k \in Users \cup {All} : \A i \in 1..Len(chats[u][k]) : Kept(chats[u][k][i].message)
  BY <1>2, EntryType DEF OnlyStored, TypeOK, AppType
<1> HIDE DEF Kept
<1>5. ASSUME NEW c \in Conns, pc'[c] = "sending" PROVE Kept(message'[c])
  <2>1. CASE pc[c] = "sending" /\ message'[c] = message[c]
    BY <1>3, <2>1
  <2>2. CASE StoreMessage(c)
    <3>1. AppendTrimmed(KeyOf(Head(outbox[c])), Head(outbox[c])) /\ message'[c] = Head(outbox[c])
      BY <1>5, <2>2 DEF StoreMessage, Goto, TypeOK, ConnType
    <3> QED
      BY <2>2, <3>1, NextMessage, AppendTraceable DEF Kept
  <2>3. CASE UNCHANGED <<pc, message>>
    BY <1>5, <2>1, <2>3
  <2>4. CASE Restart
    BY <1>5, <2>4 DEF Restart
  <2>5. ASSUME NEW d \in Conns, Dial(d) \/ Register(d) \/ ReceiveDisconnect(d) \/ Send(d)
                                \/ (d # c /\ StoreMessage(d))
        PROVE  Kept(message'[c])
    <3>1. message'[c] = message[c]
      BY <2>5 DEF Dial, Register, ReceiveDisconnect, Send, StoreMessage, TypeOK, ConnType
    <3>2. pc[c] = "sending"
      BY <1>5, <2>5 DEF Dial, Register, ReceiveDisconnect, Send, StoreMessage, Broadcast, Goto,
                        TypeOK, ConnType
    <3> QED
      BY <2>1, <3>1, <3>2
  <2> QED
    BY <2>2, <2>3, <2>4, <2>5 DEF Next, Run, vars, Drop, OpenChat, SendMessage
<1>6. ASSUME NEW u \in Users, NEW k \in Users \cup {All}, NEW i \in 1..Len(chats'[u][k])
      PROVE  Kept(chats'[u][k][i].message)
  <2>1. CASE UNCHANGED chats
    BY <1>4, <2>1
  <2>2. ASSUME NEW c \in Conns, Send(c) PROVE Kept(chats'[u][k][i].message)
    <3>1. PICK d \in todo[c] : Receive(d, message[c])
      BY <2>2 DEF Send
    <3> DEFINE m == message[c]
               peer == IF m.to = All THEN All ELSE UserOf[m.via]
               e == [message |-> m, through |-> d]
               more == Append(chats[UserOf[d]][peer], e)
    <3>2. /\ d \in Conns /\ UserOf[d] \in Users /\ pc[c] = "sending" /\ m \in Messages /\ Kept(m)
          /\ e \in Entries /\ e.message = m
      BY <1>3, ChatAssumption DEF TypeOK, ConnType, Entries
    <3>3. peer \in Users \cup {All}
      BY <3>2, MessageType, ChatAssumption
    <3>4. UNCHANGED chats \/ chats' = [chats EXCEPT ![UserOf[d]][peer] = more]
      BY <3>1 DEF Receive
    <3>5. /\ Len(more) = Len(chats[UserOf[d]][peer]) + 1 /\ Len(chats[UserOf[d]][peer]) \in Nat
          /\ \A h \in 1..Len(chats[UserOf[d]][peer]) : more[h] = chats[UserOf[d]][peer][h]
          /\ more[Len(chats[UserOf[d]][peer]) + 1] = e
      <4> HIDE DEF peer, m, e
      <4>1. chats[UserOf[d]][peer] \in Seq(Entries)
        BY <3>2, <3>3 DEF TypeOK, AppType
      <4> QED
        BY <3>2, <4>1, AppendProperties, LenProperties
    <3> HIDE DEF m, peer, e, more
    <3>6. \A h \in 1..Len(more) : Kept(more[h].message)
      <4> SUFFICES ASSUME NEW h \in 1..Len(more) PROVE Kept(more[h].message)
        OBVIOUS
      <4>1. h \in 1..Len(chats[UserOf[d]][peer]) \/ h = Len(chats[UserOf[d]][peer]) + 1
        BY <3>5
      <4> QED
        BY <1>4, <3>2, <3>3, <3>5, <4>1
    <3>7. CASE chats' = [chats EXCEPT ![UserOf[d]][peer] = more]
      <4>1. chats'[u][k] = IF u = UserOf[d] /\ k = peer THEN more ELSE chats[u][k]
        <5>1. chats[u] \in [Users \cup {All} -> Seq(Entries)]
          BY DEF TypeOK, AppType
        <5>2. chats'[u] = IF u = UserOf[d] THEN [chats[u] EXCEPT ![peer] = more] ELSE chats[u]
          BY <3>7 DEF TypeOK, AppType
        <5> QED
          BY <5>1, <5>2
      <4> QED
        BY <1>4, <3>6, <4>1
    <3> QED
      BY <2>1, <3>4, <3>7
  <2> QED
    BY <2>1, <2>2 DEF Next, Run, vars, Dial, Register, Drop, ReceiveDisconnect, OpenChat, SendMessage,
                      StoreMessage, Restart
<1> QED
  BY <1>5, <1>6 DEF OnlyStored, Kept, Past, Traceable, PastAfter, TraceableAfter

\* What an app lists of others has been stored before, whatever fails, is dropped
\* or is trimmed.
THEOREM StoredBeforeListed == Spec => []StoredFirst
<1>1. TypeOK /\ OnlyStored => StoredFirst
  <2> SUFFICES ASSUME TypeOK, OnlyStored, NEW u \in Users, NEW k \in Users \cup {All},
                      NEW e \in Range(chats[u][k]), NEW m, m = e.message
               PROVE  \/ m \in Range(stored[KeyOf(m)])
                      \/ /\ Len(stored[KeyOf(m)]) = MaxChat
                         /\ \A x \in Range(stored[KeyOf(m)]) : x.via = m.via => x.n > m.n
    BY DEF StoredFirst
  <2>1. chats[u][k] \in Seq(Entries)
    BY DEF TypeOK, AppType
  <2>2. PICK i \in 1..Len(chats[u][k]) : e = chats[u][k][i]
    BY <2>1, LenProperties DEF Range
  <2>3. m \in Messages /\ Traceable(m)
    BY <2>1, <2>2, EntryType DEF OnlyStored
  <2>4. stored[KeyOf(m)] \in Seq(Messages)
    BY <2>3, KeyType DEF TypeOK, StoredType
  <2>5. DOMAIN stored[KeyOf(m)] = 1..Len(stored[KeyOf(m)])
    BY <2>4, LenProperties
  <2> QED
    BY <2>3, <2>5 DEF Traceable, Range
<1> QED
  BY <1>1, InitType, StepType, InitOrder, OutboxStep, StoredStep, OnlyStoredStep, PTL DEF Spec

(***************************************************************************)
(* What the apps list of one connection implements LossyFifo.              *)
(***************************************************************************)

\* A set of positions that is not empty has a last one.
LEMMA LastPosition ==
    ASSUME NEW n \in Nat, NEW S \in SUBSET (1..n), S # {}
    PROVE  Max(S) \in S /\ \A i \in S : i <= Max(S)
<1> DEFINE back == {n - i : i \in S}
<1>1. back \subseteq Nat /\ back # {}
  <2>1. \A i \in S : n - i \in Nat
    OBVIOUS
  <2>2. PICK i \in S : TRUE
    OBVIOUS
  <2>3. n - i \in back
    OBVIOUS
  <2> QED
    BY <2>1, <2>3
<1>2. PICK x \in back : \A y \in back : ~(<<y, x>> \in OpToRel(<, Nat))
  <2> HIDE DEF back
  <2> QED
    BY <1>1, NatLessThanWellFounded, WFMin
<1>3. \A y \in back : ~(y < x)
  BY <1>1, <1>2 DEF OpToRel
<1>4. PICK i \in S : x = n - i
  OBVIOUS
<1>5. ASSUME NEW j \in S PROVE i >= j
  <2>1. n - j \in back
    OBVIOUS
  <2>2. ~(n - j < n - i)
    BY <1>3, <1>4, <2>1
  <2> QED
    BY <2>2
<1>6. Max(S) \in S /\ \A j \in S : Max(S) >= j
  BY <1>5 DEF Max
<1> QED
  BY <1>6

\* The last message of a connection among those that came to a list through a socket is
\* one of them, if there is any.
LEMMA LastListed ==
    ASSUME NEW list \in Seq(Entries), NEW c \in Conns, NEW d \in Conns
    PROVE  \/ LastOf(list, c, d) = 0
           \/ \E i \in 1..Len(list) : /\ list[i].message.via = c /\ list[i].through = d
                                      /\ LastOf(list, c, d) = list[i].message.n
<1> DEFINE own == {i \in DOMAIN list : list[i].message.via = c /\ list[i].through = d}
<1>1. Len(list) \in Nat /\ DOMAIN list = 1..Len(list)
  BY LenProperties
<1>2. own \in SUBSET (1..Len(list)) /\ \A i \in own : list[i].message.via = c /\ list[i].through = d
  BY <1>1
<1>3. LastOf(list, c, d) = 0 \/ (own # {} /\ LastOf(list, c, d) = list[Max(own)].message.n)
  BY DEF LastOf
<1> HIDE DEF own
<1>4. own # {} => Max(own) \in own
  BY <1>1, <1>2, LastPosition
<1> QED
  BY <1>2, <1>3, <1>4

\* Two entries of a list that came from the same connection through the same socket.
SameWay(e, f) == e.message.via = f.message.via /\ e.through = f.through

\* The messages of each connection came through each socket in the order they were sent in.
Ascending(list) ==
    \A i, j \in 1..Len(list) : i < j /\ SameWay(list[i], list[j]) => list[i].message.n < list[j].message.n

\* A newer message at the end of a list is the last of its connection and socket, and the
\* others' last messages stay.
LEMMA LastAppended ==
    ASSUME NEW list \in Seq(Entries), NEW e \in Entries, Ascending(list),
           \A i \in 1..Len(list) : SameWay(list[i], e) => list[i].message.n < e.message.n
    PROVE  /\ Append(list, e) \in Seq(Entries)
           /\ Ascending(Append(list, e))
           /\ \A c, d \in Conns : LastOf(Append(list, e), c, d) =
                 IF c = e.message.via /\ d = e.through THEN e.message.n ELSE LastOf(list, c, d)
<1> DEFINE more == Append(list, e)
           size == Len(list)
<1>1. /\ size \in Nat /\ DOMAIN list = 1..size
      /\ \A i \in 1..size : list[i] \in Entries /\ list[i].message.n \in Nat
  BY LenProperties, EntryType
<1>2. /\ more \in Seq(Entries) /\ Len(more) = size + 1 /\ DOMAIN more = 1 .. size + 1
      /\ \A i \in 1..size : more[i] = list[i]
      /\ more[size + 1] = e
  <2>1. more \in Seq(Entries) /\ Len(more) = size + 1 /\ \A i \in 1..size : more[i] = list[i]
    BY AppendProperties
  <2> QED
    BY <2>1, AppendProperties, LenProperties
<1> HIDE DEF more, size
<1>3. \A i \in 1 .. size + 1 : i \in 1..size \/ i = size + 1
  BY <1>1
<1>4. e.message.n \in Nat
  BY DEF Entries, Messages
<1>5. ASSUME NEW i \in 1 .. size + 1, NEW j \in 1 .. size + 1, i < j, SameWay(more[i], more[j])
      PROVE  more[i].message.n < more[j].message.n
  <2>1. i \in 1..size
    BY <1>1, <1>5
  <2>2. CASE j \in 1..size
    BY <1>2, <1>5, <2>1, <2>2 DEF Ascending, size
  <2>3. CASE j = size + 1
    BY <1>2, <1>5, <2>1, <2>3 DEF size
  <2> QED
    BY <1>3, <2>2, <2>3
<1>6. ASSUME NEW c \in Conns, NEW d \in Conns
      PROVE  LastOf(more, c, d) =
                IF c = e.message.via /\ d = e.through THEN e.message.n ELSE LastOf(list, c, d)
  <2> DEFINE own == {i \in DOMAIN list : list[i].message.via = c /\ list[i].through = d}
             owned == {i \in DOMAIN more : more[i].message.via = c /\ more[i].through = d}
  <2>1. CASE ~(c = e.message.via /\ d = e.through)
    <3>1. owned = own
      BY <1>1, <1>2, <1>3, <2>1
    <3>2. own \subseteq 1..size
      BY <1>1
    <3>3. LastOf(more, c, d) = IF owned = {} \/ \E i, j \in owned : i # j /\ more[i] = more[j]
                               THEN 0 ELSE more[Max(owned)].message.n
      BY DEF LastOf
    <3>4. LastOf(list, c, d) = IF own = {} \/ \E i, j \in own : i # j /\ list[i] = list[j]
                               THEN 0 ELSE list[Max(own)].message.n
      BY DEF LastOf
    <3> HIDE DEF own, owned
    <3>5. own # {} => Max(own) \in own
      BY <1>1, <3>2, LastPosition
    <3>6. (\E i, j \in own : i # j /\ more[i] = more[j]) <=> (\E i, j \in own : i # j /\ list[i] = list[j])
      BY <1>2, <3>2
    <3>7. own # {} => more[Max(own)] = list[Max(own)]
      BY <1>2, <3>2, <3>5
    <3>8. LastOf(more, c, d) = LastOf(list, c, d)
      BY <3>1, <3>3, <3>4, <3>6, <3>7
    <3> QED
      BY <2>1, <3>8
  <2>2. CASE c = e.message.via /\ d = e.through
    <3>1. /\ size + 1 \in owned /\ owned \subseteq 1 .. size + 1
          /\ \A i \in owned : more[i].message.via = c /\ more[i].through = d
      BY <1>1, <1>2, <2>2
    <3>2. LastOf(more, c, d) = IF owned = {} \/ \E i, j \in owned : i # j /\ more[i] = more[j]
                               THEN 0 ELSE more[Max(owned)].message.n
      BY DEF LastOf
    <3> HIDE DEF owned
    <3>3. ASSUME NEW i \in owned, NEW j \in owned, i # j PROVE more[i] # more[j]
      <4>1. i < j \/ j < i
        BY <1>1, <3>1, <3>3
      <4>2. more[i].message.n \in Nat /\ more[j].message.n \in Nat
        BY <1>1, <1>2, <1>3, <1>4, <3>1
      <4>3. SameWay(more[i], more[j]) /\ SameWay(more[j], more[i])
        BY <3>1 DEF SameWay
      <4> QED
        BY <1>5, <3>1, <4>1, <4>2, <4>3
    <3>4. Max(owned) = size + 1
      <4>1. size + 1 \in Nat
        BY <1>1
      <4>2. PICK last : last = Max(owned)
        OBVIOUS
      <4>3. last \in owned /\ \A i \in owned : i <= last
        BY <3>1, <4>1, <4>2, LastPosition
      <4>4. last = size + 1
        BY <1>1, <3>1, <4>3
      <4> QED
        BY <4>2, <4>4
    <3>5. owned # {} /\ ~\E i, j \in owned : i # j /\ more[i] = more[j]
      BY <3>1, <3>3
    <3>6. LastOf(more, c, d) = more[size + 1].message.n
      BY <3>2, <3>4, <3>5
    <3> QED
      BY <1>2, <2>2, <3>6
  <2> QED
    BY <2>1, <2>2
<1>7. Ascending(more)
  BY <1>2, <1>5 DEF Ascending
<1> QED
  BY <1>2, <1>6, <1>7 DEF more

\* What is still to be sent to a socket is newer than all that came through it from the
\* same connection.
ListedInOrder ==
    /\ \A u \in Users, k \in Users \cup {All} : Ascending(chats[u][k])
    /\ \A c \in Conns : \A d \in todo[c] :
          \A u \in Users, k \in Users \cup {All} : \A i \in 1..Len(chats[u][k]) :
              chats[u][k][i].message.via = c /\ chats[u][k][i].through = d
                  => chats[u][k][i].message.n < message[c].n

LEMMA InitListed == Init => ListedInOrder
<1> SUFFICES ASSUME Init PROVE ListedInOrder
  OBVIOUS
<1>1. \A c \in Conns : todo[c] = {}
  BY DEF Init
<1>2. \A u \in Users, k \in Users \cup {All} : Len(chats[u][k]) = 0
  BY EmptySeq DEF Init
<1> QED
  BY <1>1, <1>2 DEF ListedInOrder, Ascending

\* What a send changes in the apps' lists: nothing, or the message comes to the end of
\* one list of the app whose socket it is.
LEMMA SendLists ==
    ASSUME TypeOK, OwnMessages, NEW c \in Conns, Send(c)
    PROVE  \E d \in todo[c] :
              /\ d \in Conns /\ UserOf[d] \in Users /\ pc[c] = "sending"
              /\ message[c] \in Messages /\ message[c].via = c
              /\ Broadcast(c, todo[c] \ {d}) /\ UNCHANGED <<open, message, count>>
              /\ \/ UNCHANGED chats
                 \/ \E k \in Users \cup {All} :
                        /\ k = All <=> message[c].to = All
                        /\ \A u \in Users, j \in Users \cup {All} :
                              chats'[u][j] = IF u = UserOf[d] /\ j = k
                                             THEN Append(chats[u][k], [message |-> message[c], through |-> d])
                                             ELSE chats[u][j]
<1>1. PICK d \in todo[c] : Receive(d, message[c]) /\ Broadcast(c, todo[c] \ {d})
  BY DEF Send
<1> DEFINE m == message[c]
           e == [message |-> m, through |-> d]
           k == IF m.to = All THEN All ELSE UserOf[m.via]
<1>2. d \in Conns /\ UserOf[d] \in Users /\ pc[c] = "sending" /\ m \in Messages /\ m.via = c
  BY ChatAssumption DEF TypeOK, ConnType, OwnMessages
<1>3. k \in Users \cup {All} /\ (k = All <=> m.to = All)
  BY <1>2, MessageType, ChatAssumption
<1>4. UNCHANGED chats \/ chats' = [chats EXCEPT ![UserOf[d]][k] = Append(@, e)]
  BY <1>1 DEF Receive
<1> HIDE DEF m, k, e
<1>5. CASE chats' = [chats EXCEPT ![UserOf[d]][k] = Append(@, e)]
  <2>1. ASSUME NEW u \in Users, NEW j \in Users \cup {All}
        PROVE  chats'[u][j] = IF u = UserOf[d] /\ j = k THEN Append(chats[u][k], e) ELSE chats[u][j]
    <3>1. chats[u] \in [Users \cup {All} -> Seq(Entries)] /\ chats \in [Users -> [Users \cup {All} -> Seq(Entries)]]
      BY DEF TypeOK, AppType
    <3> HIDE DEF Entries
    <3>2. chats'[u] = IF u = UserOf[d] THEN [chats[u] EXCEPT ![k] = Append(chats[u][k], e)] ELSE chats[u]
      BY <1>5, <3>1
    <3> QED
      BY <1>3, <3>1, <3>2
  <2> QED
    BY <1>1, <1>2, <1>3, <1>5, <2>1 DEF Send, m, e
<1> QED
  BY <1>1, <1>2, <1>4, <1>5 DEF Send, m

LEMMA ListedStep ==
    TypeOK /\ OwnMessages /\ OutboxInOrder /\ OnlyStored /\ ListedInOrder /\ [Next]_vars
        => ListedInOrder'
<1> SUFFICES ASSUME TypeOK, OwnMessages, OutboxInOrder, OnlyStored, ListedInOrder, [Next]_vars
             PROVE  ListedInOrder'
  OBVIOUS
<1>1. ASSUME UNCHANGED chats,
             \A c \in Conns : \A d \in todo'[c] : d \in todo[c] /\ message'[c] = message[c]
      PROVE  ListedInOrder'
  BY <1>1 DEF ListedInOrder
<1>2. CASE UNCHANGED <<todo, message, chats>>
  BY <1>1, <1>2
<1>3. CASE Restart
  BY <1>1, <1>3 DEF Restart
<1>4. ASSUME NEW c \in Conns, StoreMessage(c) PROVE ListedInOrder'
  <2> DEFINE m == Head(outbox[c])
  <2>1. UNCHANGED chats
    BY <1>4 DEF StoreMessage
  <2>2. \/ UNCHANGED <<message, todo>>
        \/ message' = [message EXCEPT ![c] = m] /\ todo' = [todo EXCEPT ![c] = Audience(m)]
    BY <1>4 DEF StoreMessage, Broadcast
  <2>3. m \in Messages /\ \A x \in Messages : Past(x) /\ x.via = c => x.n < m.n
    BY <1>4, NextMessage
  <2> HIDE DEF m
  <2>4. CASE UNCHANGED <<message, todo>>
    BY <1>2, <2>1, <2>4
  <2>5. CASE message' = [message EXCEPT ![c] = m] /\ todo' = [todo EXCEPT ![c] = Audience(m)]
    <3>1. ASSUME NEW u \in Users, NEW k \in Users \cup {All},
                 NEW i \in 1..Len(chats[u][k]), chats[u][k][i].message.via = c
          PROVE  chats[u][k][i].message.n < m.n
      <4>1. chats[u][k] \in Seq(Entries)
        BY DEF TypeOK, AppType
      <4>2. chats[u][k][i].message \in Messages /\ Past(chats[u][k][i].message)
        BY <4>1, EntryType DEF OnlyStored
      <4> QED
        BY <2>3, <3>1, <4>2
    <3>2. ASSUME NEW b \in Conns, NEW d \in todo'[b], NEW u \in Users, NEW k \in Users \cup {All},
                 NEW i \in 1..Len(chats[u][k]), chats[u][k][i].message.via = b, chats[u][k][i].through = d
          PROVE  chats[u][k][i].message.n < message'[b].n
      <4>1. CASE b = c
        BY <2>5, <3>1, <3>2, <4>1 DEF TypeOK, ConnType
      <4>2. CASE b # c
        BY <2>5, <3>2, <4>2 DEF ListedInOrder, TypeOK, ConnType
      <4> QED
        BY <4>1, <4>2
    <3> QED
      BY <2>1, <3>2 DEF ListedInOrder
  <2> QED
    BY <2>2, <2>4, <2>5
<1>5. ASSUME NEW c \in Conns, Send(c) PROVE ListedInOrder'
  <2> DEFINE m == message[c]
  <2>1. PICK d \in todo[c] :
              /\ d \in Conns /\ UserOf[d] \in Users /\ pc[c] = "sending"
              /\ m \in Messages /\ m.via = c
              /\ Broadcast(c, todo[c] \ {d}) /\ UNCHANGED <<open, message, count>>
              /\ \/ UNCHANGED chats
                 \/ \E k \in Users \cup {All} :
                        /\ k = All <=> m.to = All
                        /\ \A u \in Users, j \in Users \cup {All} :
                              chats'[u][j] = IF u = UserOf[d] /\ j = k
                                             THEN Append(chats[u][k], [message |-> m, through |-> d])
                                             ELSE chats[u][j]
    BY <1>5, SendLists
  <2>2. \A b \in Conns : todo'[b] = IF b = c THEN todo[c] \ {d} ELSE todo[b]
    BY <2>1 DEF Broadcast, TypeOK, ConnType
  <2>3. CASE UNCHANGED chats
    BY <1>1, <2>1, <2>2, <2>3
  <2>4. ASSUME NEW k \in Users \cup {All},
               \A u \in Users, j \in Users \cup {All} :
                  chats'[u][j] = IF u = UserOf[d] /\ j = k
                                 THEN Append(chats[u][k], [message |-> m, through |-> d])
                                 ELSE chats[u][j]
        PROVE  ListedInOrder'
    <3> DEFINE e == [message |-> m, through |-> d]
               list == chats[UserOf[d]][k]
               more == Append(list, e)
    <3>1. list \in Seq(Entries) /\ Ascending(list)
      BY <2>1 DEF ListedInOrder, TypeOK, AppType
    <3>2. e \in Entries /\ e.message = m /\ e.through = d
      BY <2>1 DEF Entries
    <3>3. \A i \in 1..Len(list) : SameWay(list[i], e) => list[i].message.n < e.message.n
      BY <2>1 DEF ListedInOrder, SameWay
    <3> HIDE DEF m, e, list
    <3>4. Ascending(more)
      BY <3>1, <3>2, <3>3, LastAppended
    <3>5. /\ Len(list) \in Nat /\ Len(more) = Len(list) + 1 /\ more[Len(list) + 1] = e
          /\ \A i \in 1..Len(list) : more[i] = list[i]
      BY <3>1, <3>2, AppendProperties, LenProperties
    <3>6. \A u \in Users, j \in Users \cup {All} :
             chats'[u][j] = IF u = UserOf[d] /\ j = k THEN more ELSE chats[u][j]
      BY <2>4 DEF e, list
    <3> HIDE DEF more
    <3>7. ASSUME NEW u \in Users, NEW j \in Users \cup {All} PROVE Ascending(chats'[u][j])
      BY <3>4, <3>6 DEF ListedInOrder
    <3>8. ASSUME NEW b \in Conns, NEW f \in todo'[b], NEW u \in Users, NEW j \in Users \cup {All},
                 NEW i \in 1..Len(chats'[u][j]),
                 chats'[u][j][i].message.via = b, chats'[u][j][i].through = f
          PROVE  chats'[u][j][i].message.n < message[b].n
      <4>1. f \in todo[b] /\ ~(b = c /\ f = d)
        BY <2>2
      <4>2. CASE u = UserOf[d] /\ j = k
        <5>1. chats'[u][j] = more /\ chats[u][j] = list
          BY <3>6, <4>2 DEF list
        <5>2. more[i].message.via = b /\ more[i].through = f
          BY <3>8, <5>1
        <5>3. i # Len(list) + 1
          BY <2>1, <3>2, <3>5, <4>1, <5>2 DEF m
        <5>4. i \in 1..Len(list) /\ more[i] = list[i]
          BY <3>5, <5>1, <5>3
        <5> QED
          BY <4>1, <5>1, <5>2, <5>4 DEF ListedInOrder
      <4>3. CASE ~(u = UserOf[d] /\ j = k)
        <5>1. chats'[u][j] = chats[u][j]
          BY <3>6, <4>3
        <5> QED
          BY <3>8, <4>1, <5>1 DEF ListedInOrder
      <4> QED
        BY <4>2, <4>3
    <3> QED
      BY <2>1, <3>7, <3>8 DEF ListedInOrder
  <2> QED
    BY <2>1, <2>3, <2>4
<1> QED
  BY <1>2, <1>3, <1>4, <1>5
     DEF Next, Run, vars, Dial, Drop, Register, ReceiveDisconnect, OpenChat, SendMessage

LEMMA FramesInit == Init => Frames!Init
<1> SUFFICES ASSUME Init PROVE Frames!Init
  OBVIOUS
<1>1. count = [c \in Conns |-> 0] /\ \A l \in Inlets : chats[UserOf[l[1]]][l[2]] = <<>>
  BY ChatAssumption DEF Init, Inlets
<1>2. \A c, d \in Conns : LastOf(<<>>, c, d) = 0
  BY DEF LastOf
<1>3. Listed = [l \in Inlets |-> [c \in Conns |-> 0]]
  BY <1>1, <1>2 DEF Listed, Inlets
<1> QED
  BY <1>1, <1>3 DEF Frames!Init

LEMMA FramesStep ==
    TypeOK /\ OwnMessages /\ OnlyStored /\ ListedInOrder /\ [Next]_vars
        => [Frames!Next]_<<count, Listed>>
<1> SUFFICES ASSUME TypeOK, OwnMessages, OnlyStored, ListedInOrder, [Next]_vars
             PROVE  [Frames!Next]_<<count, Listed>>
  OBVIOUS
<1>1. CASE UNCHANGED <<count, chats>>
  BY <1>1 DEF Listed
<1>2. ASSUME NEW u \in Users, NEW k \in Users \cup {All}, SendMessage(u, k),
             NEW c \in Conns, count' = [count EXCEPT ![c] = @ + 1]
      PROVE  Frames!Send(c)
  <2>1. Listed' = Listed
    BY <1>2 DEF SendMessage, Listed
  <2> QED
    BY <1>2, <2>1 DEF Frames!Send
<1>3. ASSUME NEW c \in Conns, Send(c)
      PROVE  UNCHANGED <<count, Listed>> \/ \E l \in Inlets : Frames!Deliver(l, c)
  <2> DEFINE m == message[c]
  <2>1. PICK d \in todo[c] :
              /\ d \in Conns /\ UserOf[d] \in Users /\ pc[c] = "sending"
              /\ m \in Messages /\ m.via = c
              /\ Broadcast(c, todo[c] \ {d}) /\ UNCHANGED <<open, message, count>>
              /\ \/ UNCHANGED chats
                 \/ \E k \in Users \cup {All} :
                        /\ k = All <=> m.to = All
                        /\ \A u \in Users, j \in Users \cup {All} :
                              chats'[u][j] = IF u = UserOf[d] /\ j = k
                                             THEN Append(chats[u][k], [message |-> m, through |-> d])
                                             ELSE chats[u][j]
    BY <1>3, SendLists
  <2>2. CASE UNCHANGED chats
    BY <2>1, <2>2 DEF Listed
  <2>3. ASSUME NEW k \in Users \cup {All},
               \A u \in Users, j \in Users \cup {All} :
                  chats'[u][j] = IF u = UserOf[d] /\ j = k
                                 THEN Append(chats[u][k], [message |-> m, through |-> d])
                                 ELSE chats[u][j]
        PROVE  \E l \in Inlets : Frames!Deliver(l, c)
    <3> DEFINE e == [message |-> m, through |-> d]
               list == chats[UserOf[d]][k]
               here == <<d, k>>
    <3>1. list \in Seq(Entries) /\ Ascending(list)
      BY <2>1 DEF ListedInOrder, TypeOK, AppType
    <3>2. e \in Entries /\ e.message = m /\ e.through = d
      BY <2>1 DEF Entries
    <3>3. \A i \in 1..Len(list) : SameWay(list[i], e) => list[i].message.n < m.n
      BY <2>1 DEF ListedInOrder, SameWay
    <3>4. m.n \in Nat \ {0} /\ m.n <= count[c] /\ count[c] \in Nat
      BY <2>1 DEF Messages, OnlyStored, Past, TypeOK, SentType
    <3>5. \A u \in Users, j \in Users \cup {All} :
             chats'[u][j] = IF u = UserOf[d] /\ j = k THEN Append(list, e) ELSE chats[u][j]
      BY <2>3
    <3>6. m.via = c /\ d \in Conns /\ UserOf[d] \in Users /\ count' = count
      BY <2>1
    <3>7. here \in Inlets /\ here[1] = d /\ here[2] = k
      BY <2>1 DEF Inlets
    <3>8. Listed[here][c] = LastOf(list, c, d)
      BY <3>7 DEF Listed
    <3> HIDE DEF m, e, list, here
    <3>9. \A b, f \in Conns : LastOf(Append(list, e), b, f) =
             IF b = c /\ f = d THEN m.n ELSE LastOf(list, b, f)
      BY <3>1, <3>2, <3>3, <3>6, LastAppended
    <3>10. LastOf(list, c, d) \in Nat /\ LastOf(list, c, d) < m.n
      <4>1. \A i \in 1..Len(list) : list[i].message.n \in Nat
        BY <3>1, EntryType
      <4>2. CASE LastOf(list, c, d) = 0
        BY <3>4, <4>2
      <4>3. ASSUME NEW i \in 1..Len(list), list[i].message.via = c, list[i].through = d,
                   LastOf(list, c, d) = list[i].message.n
            PROVE  LastOf(list, c, d) \in Nat /\ LastOf(list, c, d) < m.n
        BY <3>2, <3>3, <3>6, <4>1, <4>3 DEF SameWay
      <4> QED
        BY <3>1, <3>6, <4>2, <4>3, LastListed
    <3>11. m.n \in LastOf(list, c, d) + 1 .. count[c]
      BY <3>4, <3>10
    <3>12. ASSUME NEW l \in Inlets, NEW b \in Conns
           PROVE  LastOf(chats'[UserOf[l[1]]][l[2]], b, l[1]) =
                    IF l = here /\ b = c THEN m.n ELSE LastOf(chats[UserOf[l[1]]][l[2]], b, l[1])
      <4>1. /\ l[1] \in Conns /\ UserOf[l[1]] \in Users /\ l[2] \in Users \cup {All}
            /\ l = here <=> l[1] = d /\ l[2] = k
        BY ChatAssumption DEF Inlets, here
      <4>2. CASE UserOf[l[1]] = UserOf[d] /\ l[2] = k
        <5>1. chats'[UserOf[l[1]]][l[2]] = Append(list, e) /\ chats[UserOf[l[1]]][l[2]] = list
          BY <3>5, <3>6, <4>2 DEF list
        <5>2. LastOf(Append(list, e), b, l[1]) = IF b = c /\ l[1] = d THEN m.n ELSE LastOf(list, b, l[1])
          BY <3>9, <4>1
        <5> QED
          BY <4>1, <4>2, <5>1, <5>2
      <4>3. CASE ~(UserOf[l[1]] = UserOf[d] /\ l[2] = k)
        <5>1. chats'[UserOf[l[1]]][l[2]] = chats[UserOf[l[1]]][l[2]]
          BY <3>5, <4>1, <4>3
        <5>2. l # here
          BY <4>1, <4>3
        <5> QED
          BY <5>1, <5>2
      <4> QED
        BY <4>2, <4>3
    <3>13. Listed' = [Listed EXCEPT ![here][c] = m.n]
      <4>1. Listed' = [l \in Inlets |-> [b \in Conns |-> LastOf(chats'[UserOf[l[1]]][l[2]], b, l[1])]]
        BY DEF Listed
      <4>2. [Listed EXCEPT ![here][c] = m.n] =
               [l \in Inlets |-> [b \in Conns |->
                  IF l = here /\ b = c THEN m.n ELSE LastOf(chats[UserOf[l[1]]][l[2]], b, l[1])]]
        BY DEF Listed
      <4> QED
        BY <3>12, <4>1, <4>2
    <3>14. Listed'[here][c] = m.n
      BY <3>7, <3>13 DEF Listed
    <3>15. Frames!Deliver(here, c)
      BY <3>6, <3>8, <3>11, <3>13, <3>14 DEF Frames!Deliver
    <3> QED
      BY <3>7, <3>15
  <2> QED
    BY <2>1, <2>2, <2>3
<1>4. \/ \E u \in Users, k \in Users \cup {All} : SendMessage(u, k)
      \/ \E c \in Conns : Send(c)
      \/ UNCHANGED <<count, chats>>
  BY DEF Next, Run, vars, Dial, Register, Drop, ReceiveDisconnect, OpenChat, StoreMessage, Restart
<1>5. ASSUME NEW u \in Users, NEW k \in Users \cup {All}, SendMessage(u, k)
      PROVE  UNCHANGED <<count, chats>> \/ \E c \in Conns : count' = [count EXCEPT ![c] = @ + 1]
  BY <1>5 DEF SendMessage
<1> QED
  BY <1>1, <1>2, <1>3, <1>4, <1>5 DEF Frames!Next

\* What one client sends on one connection comes to each socket of everyone else, for every
\* chat, in the order in which it was sent, nothing twice and nothing before it was sent,
\* whatever reconnects, fails or is killed and however many sockets an app has up: what the
\* apps list implements LossyFifo.
THEOREM ListedAsSent == Spec => InOrder
<1> DEFINE Inv == TypeOK /\ OwnMessages /\ OutboxInOrder /\ StoredInOrder /\ OnlyStored /\ ListedInOrder
<1>1. Init => Inv
  BY InitType, InitOwn, InitOrder, InitListed
<1>2. Inv /\ [Next]_vars => Inv'
  BY StepType, OwnStep, OutboxStep, StoredStep, OnlyStoredStep, ListedStep
<1>3. Inv /\ [Next]_vars => [Frames!Next]_<<count, Listed>>
  BY FramesStep
<1> HIDE DEF Inv
<1> QED
  BY <1>1, <1>2, <1>3, FramesInit, PTL DEF Spec, InOrder, Frames!Spec

(***************************************************************************)
(* What comes to an app through several of its sockets.                    *)
(***************************************************************************)

\* A DM on its way has one socket to go to, and no app has listed it.
DmUnlisted ==
    \A c \in Conns : todo[c] # {} /\ message[c].to # All =>
        /\ \A d, f \in todo[c] : d = f
        /\ \A u \in Users, k \in Users \cup {All} : \A i \in 1..Len(chats[u][k]) :
              chats[u][k][i].message # message[c]

\* The same with DOMAIN spelt out.
ListedOnce ==
    \A u \in Users, k \in Users \cup {All} : \A i, j \in 1..Len(chats[u][k]) :
        i # j /\ chats[u][k][i].message = chats[u][k][j].message
            => /\ k = All
               /\ chats[u][k][i].through # chats[u][k][j].through

LEMMA InitOnce == Init => DmUnlisted /\ ListedOnce
<1> SUFFICES ASSUME Init PROVE DmUnlisted /\ ListedOnce
  OBVIOUS
<1>1. \A c \in Conns : todo[c] = {}
  BY DEF Init
<1>2. \A u \in Users, k \in Users \cup {All} : Len(chats[u][k]) = 0
  BY EmptySeq DEF Init
<1> QED
  BY <1>1, <1>2 DEF DmUnlisted, ListedOnce

LEMMA OnceStep ==
    /\ TypeOK /\ OwnMessages /\ OutboxInOrder /\ OnlyStored /\ ListedInOrder /\ DmUnlisted /\ ListedOnce
    /\ [Next]_vars
    => DmUnlisted' /\ ListedOnce'
<1> SUFFICES ASSUME TypeOK, OwnMessages, OutboxInOrder, OnlyStored, ListedInOrder, DmUnlisted, ListedOnce,
                    [Next]_vars
             PROVE  DmUnlisted' /\ ListedOnce'
  OBVIOUS
<1>1. CASE UNCHANGED <<todo, message, chats>>
  BY <1>1 DEF DmUnlisted, ListedOnce
<1>2. CASE Restart
  BY <1>2 DEF Restart, DmUnlisted, ListedOnce
<1>3. ASSUME NEW c \in Conns, StoreMessage(c) PROVE DmUnlisted' /\ ListedOnce'
  <2> DEFINE m == Head(outbox[c])
  <2>1. UNCHANGED chats
    BY <1>3 DEF StoreMessage
  <2>2. \/ UNCHANGED <<message, todo>>
        \/ message' = [message EXCEPT ![c] = m] /\ todo' = [todo EXCEPT ![c] = Audience(m)]
    BY <1>3 DEF StoreMessage, Broadcast
  <2>3. m \in Messages /\ m.via = c /\ \A x \in Messages : Past(x) /\ x.via = c => x.n < m.n
    BY <1>3, NextMessage
  <2> HIDE DEF m
  <2>4. CASE UNCHANGED <<message, todo>>
    BY <1>1, <2>1, <2>4
  <2>5. CASE message' = [message EXCEPT ![c] = m] /\ todo' = [todo EXCEPT ![c] = Audience(m)]
    <3>1. ASSUME NEW u \in Users, NEW k \in Users \cup {All}, NEW i \in 1..Len(chats[u][k])
          PROVE  chats[u][k][i].message # m
      <4>1. chats[u][k] \in Seq(Entries)
        BY DEF TypeOK, AppType
      <4>2. chats[u][k][i].message \in Messages /\ Past(chats[u][k][i].message)
        BY <4>1, EntryType DEF OnlyStored
      <4>3. m.n \in Nat
        BY <2>3, MessageType
      <4> QED
        BY <2>3, <4>2, <4>3
    <3>2. m.to # All => \A d, f \in Audience(m) : d = f
      BY DEF Audience
    <3>3. ASSUME NEW b \in Conns, todo'[b] # {}, message'[b].to # All
          PROVE  /\ \A d, f \in todo'[b] : d = f
                 /\ \A u \in Users, k \in Users \cup {All} : \A i \in 1..Len(chats[u][k]) :
                       chats[u][k][i].message # message'[b]
      <4>1. CASE b = c
        BY <2>5, <3>1, <3>2, <3>3, <4>1 DEF TypeOK, ConnType
      <4>2. CASE b # c
        BY <2>5, <3>3, <4>2 DEF DmUnlisted, TypeOK, ConnType
      <4> QED
        BY <4>1, <4>2
    <3> QED
      BY <2>1, <3>3 DEF DmUnlisted, ListedOnce
  <2> QED
    BY <2>2, <2>4, <2>5
<1>4. ASSUME NEW c \in Conns, Send(c) PROVE DmUnlisted' /\ ListedOnce'
  <2> DEFINE m == message[c]
  <2>1. PICK d \in todo[c] :
              /\ d \in Conns /\ UserOf[d] \in Users /\ pc[c] = "sending"
              /\ m \in Messages /\ m.via = c
              /\ Broadcast(c, todo[c] \ {d}) /\ UNCHANGED <<open, message, count>>
              /\ \/ UNCHANGED chats
                 \/ \E k \in Users \cup {All} :
                        /\ k = All <=> m.to = All
                        /\ \A u \in Users, j \in Users \cup {All} :
                              chats'[u][j] = IF u = UserOf[d] /\ j = k
                                             THEN Append(chats[u][k], [message |-> m, through |-> d])
                                             ELSE chats[u][j]
    BY <1>4, SendLists
  <2>2. \A b \in Conns : todo'[b] = IF b = c THEN todo[c] \ {d} ELSE todo[b]
    BY <2>1 DEF Broadcast, TypeOK, ConnType
  <2>3. CASE UNCHANGED chats
    <3>1. DmUnlisted'
      BY <2>1, <2>2, <2>3 DEF DmUnlisted
    <3> QED
      BY <2>3, <3>1 DEF ListedOnce
  <2>4. ASSUME NEW k \in Users \cup {All}, k = All <=> m.to = All,
               \A u \in Users, j \in Users \cup {All} :
                  chats'[u][j] = IF u = UserOf[d] /\ j = k
                                 THEN Append(chats[u][k], [message |-> m, through |-> d])
                                 ELSE chats[u][j]
        PROVE  DmUnlisted' /\ ListedOnce'
    <3> DEFINE e == [message |-> m, through |-> d]
               list == chats[UserOf[d]][k]
               more == Append(list, e)
    <3>1. list \in Seq(Entries) /\ UserOf[d] \in Users
      BY <2>1 DEF TypeOK, AppType
    <3>2. e \in Entries /\ e.message = m /\ e.through = d /\ m.n \in Nat /\ m.via = c
      BY <2>1, MessageType DEF Entries
    <3>3. \A i \in 1..Len(list) : list[i].message = m => k = All /\ list[i].through # d
      <4>1. CASE m.to = All
        <5>1. \A i \in 1..Len(list) : list[i].message.via = c /\ list[i].through = d => list[i].message.n < m.n
          BY <3>1 DEF ListedInOrder
        <5> QED
          BY <2>4, <3>2, <4>1, <5>1
      <4>2. CASE m.to # All
        BY <3>1, <4>2 DEF DmUnlisted
      <4> QED
        BY <4>1, <4>2
    <3> HIDE DEF e, list
    <3>4. /\ Len(list) \in Nat /\ Len(more) = Len(list) + 1 /\ more[Len(list) + 1] = e
          /\ \A i \in 1..Len(list) : more[i] = list[i]
      BY <3>1, <3>2, AppendProperties, LenProperties
    <3>5. \A u \in Users, j \in Users \cup {All} :
             chats'[u][j] = IF u = UserOf[d] /\ j = k THEN more ELSE chats[u][j]
      BY <2>4 DEF e, list
    <3> HIDE DEF more
    <3>6. \A i \in 1..Len(more) : (i \in 1..Len(list) /\ more[i] = list[i]) \/ (i = Len(list) + 1 /\ more[i] = e)
      BY <3>4
    <3>7. ASSUME NEW u \in Users, NEW j \in Users \cup {All}, NEW h \in 1..Len(chats'[u][j]),
                 NEW i \in 1..Len(chats'[u][j]), h # i, chats'[u][j][h].message = chats'[u][j][i].message
          PROVE  j = All /\ chats'[u][j][h].through # chats'[u][j][i].through
      <4>1. CASE u = UserOf[d] /\ j = k
        <5>1. chats'[u][j] = more /\ chats[u][j] = list
          BY <3>5, <4>1 DEF list
        <5>2. CASE more[h] = list[h] /\ h \in 1..Len(list) /\ more[i] = list[i] /\ i \in 1..Len(list)
          BY <3>7, <5>1, <5>2 DEF ListedOnce
        <5>3. CASE more[h] = list[h] /\ h \in 1..Len(list) /\ more[i] = e
          BY <3>2, <3>3, <3>7, <4>1, <5>1, <5>3
        <5>4. CASE more[h] = e /\ more[i] = list[i] /\ i \in 1..Len(list)
          BY <3>2, <3>3, <3>7, <4>1, <5>1, <5>4
        <5> QED
          BY <3>6, <3>7, <5>1, <5>2, <5>3, <5>4
      <4>2. CASE ~(u = UserOf[d] /\ j = k)
        BY <3>5, <3>7, <4>2 DEF ListedOnce
      <4> QED
        BY <4>1, <4>2
    <3>8. ASSUME NEW b \in Conns, todo'[b] # {}, message[b].to # All
          PROVE  /\ \A f, g \in todo'[b] : f = g
                 /\ \A u \in Users, j \in Users \cup {All} : \A i \in 1..Len(chats'[u][j]) :
                       chats'[u][j][i].message # message[b]
      <4>1. b # c /\ todo[b] # {} /\ message[b].via = b
        <5>1. b # c
          BY <2>2, <3>8 DEF DmUnlisted
        <5> QED
          BY <2>2, <3>8, <5>1 DEF OwnMessages
      <4>2. ASSUME NEW u \in Users, NEW j \in Users \cup {All}, NEW i \in 1..Len(chats'[u][j])
            PROVE  chats'[u][j][i].message # message[b]
        <5>1. CASE u = UserOf[d] /\ j = k
          <6>1. chats'[u][j] = more /\ chats[u][j] = list
            BY <3>5, <5>1 DEF list
          <6>2. CASE more[i] = list[i] /\ i \in 1..Len(list)
            BY <3>8, <4>1, <6>1, <6>2 DEF DmUnlisted
          <6>3. CASE more[i] = e
            BY <3>2, <4>1, <6>1, <6>3
          <6> QED
            BY <3>6, <6>1, <6>2, <6>3
        <5>2. CASE ~(u = UserOf[d] /\ j = k)
          BY <3>5, <3>8, <4>1, <5>2 DEF DmUnlisted
        <5> QED
          BY <5>1, <5>2
      <4> QED
        BY <2>2, <3>8, <4>1, <4>2 DEF DmUnlisted
    <3> QED
      BY <2>1, <3>7, <3>8 DEF DmUnlisted, ListedOnce
  <2> QED
    BY <2>1, <2>3, <2>4
<1> QED
  BY <1>1, <1>2, <1>3, <1>4
     DEF Next, Run, vars, Dial, Drop, Register, ReceiveDisconnect, OpenChat, SendMessage

\* However many sockets an app has up, it lists a group message at most once for each of
\* them, and a DM at most once, whatever reconnects, fails or is killed.
THEOREM DmsListedOnce == Spec => []DmListedOnce
<1> DEFINE Inv == /\ TypeOK /\ OwnMessages /\ OutboxInOrder /\ StoredInOrder /\ OnlyStored
                  /\ ListedInOrder /\ DmUnlisted /\ ListedOnce
<1>1. Init => Inv
  BY InitType, InitOwn, InitOrder, InitListed, InitOnce
<1>2. Inv /\ [Next]_vars => Inv'
  BY StepType, OwnStep, OutboxStep, StoredStep, OnlyStoredStep, ListedStep, OnceStep
<1>3. Inv => DmListedOnce
  <2> SUFFICES ASSUME TypeOK, ListedOnce PROVE DmListedOnce
    OBVIOUS
  <2>1. \A u \in Users, k \in Users \cup {All} : DOMAIN chats[u][k] = 1..Len(chats[u][k])
    BY LenProperties DEF TypeOK, AppType
  <2> QED
    BY <2>1 DEF ListedOnce, DmListedOnce
<1> HIDE DEF Inv
<1> QED
  BY <1>1, <1>2, <1>3, PTL DEF Spec
================================================================================
