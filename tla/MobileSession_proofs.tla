-------------------------- MODULE MobileSession_proofs --------------------------
(***************************************************************************)
(* Proofs about MobileSession, for any number of joins and retries.  What  *)
(* holds of RadarSocket for any callers is taken over from its proofs.     *)
(***************************************************************************)
EXTENDS MobileSession, TLAPS

SocketProofs == INSTANCE RadarSocket_proofs WITH Closers <- 1..Joins

(***************************************************************************)
(* The refinement.                                                         *)
(***************************************************************************)

\* The call that each part of the app makes is one of the calls of the socket.
LEMMA CallsMade ==
    /\ \A j \in 1..Joins : Lifecycle(j) \in Calls /\ Broadcaster(j) \in Calls
    /\ Blips \in Calls
  BY DEF Calls, Lifecycle, Broadcaster, Blips

\* The join that follows is one of those the constants allow.
LEMMA NextJoin == ASSUME joined \in 0..Joins, joined < Joins
                  PROVE  joined + 1 \in 1..Joins
  BY MobileAssumption

\* What a step of the app does to the socket is a step of RadarSocket or nothing.
LEMMA NextImplements ==
    joined \in 0..Joins /\ (session => joined \in 1..Joins) /\ [Next]_vars
        => [Socket!Next]_socket
<1> SUFFICES ASSUME joined \in 0..Joins, session => joined \in 1..Joins, [Next]_vars
             PROVE  Socket!Next \/ UNCHANGED socket
  OBVIOUS
<1>1. CASE Join
  <2>1. joined + 1 \in 1..Joins /\ joined' = joined + 1
    BY <1>1, NextJoin DEF Join
  <2> QED
    BY <1>1, <2>1, CallsMade DEF Join, Socket!Next
<1>2. CASE OpenRadar
  BY <1>2, CallsMade DEF OpenRadar, Socket!Next
<1>3. CASE Leave
  BY <1>3 DEF Leave, Socket!Next
<1>4. ASSUME NEW k \in Calls, SocketStep(k) \/ SocketEnds(k)
      PROVE  Socket!Next
  BY <1>4 DEF SocketStep, SocketEnds, Socket!Next
<1>5. ASSUME NEW j \in 1..Joins, LifecycleOver(j)
      PROVE  Socket!Next
  BY <1>5 DEF LifecycleOver, Socket!Next
<1>6. ASSUME NEW j \in 1..Joins, Start(j)
      PROVE  Socket!Next \/ UNCHANGED socket
  BY <1>6, CallsMade DEF Start, StreamStopped, LogOpened, Listen, Socket!Next
<1>7. CASE UNCHANGED vars
  BY <1>7 DEF vars, socket
<1> QED
  BY <1>1, <1>2, <1>3, <1>4, <1>5, <1>6, <1>7 DEF Next

\* The joins that the user has made.
JoinsCounted == joined \in 0..Joins /\ (session => joined \in 1..Joins)

LEMMA JoinsInv == Spec => []JoinsCounted
<1>1. Init => JoinsCounted
  BY MobileAssumption DEF Init, JoinsCounted
<1>2. JoinsCounted /\ [Next]_vars => JoinsCounted'
  <2> SUFFICES ASSUME JoinsCounted, [Next]_vars
               PROVE  JoinsCounted'
    OBVIOUS
  <2> USE DEF JoinsCounted
  <2>1. CASE Join
    BY <2>1, NextJoin DEF Join
  <2>2. CASE OpenRadar \/ Leave
    BY <2>2 DEF OpenRadar, Leave
  <2>3. CASE \E k \in Calls : SocketStep(k) \/ SocketEnds(k)
    BY <2>3 DEF SocketStep, SocketEnds
  <2>4. CASE \E j \in 1..Joins : LifecycleOver(j) \/ Start(j)
    BY <2>4 DEF LifecycleOver, Start, StreamStopped, LogOpened, Listen
  <2>5. CASE UNCHANGED vars
    BY <2>5 DEF vars
  <2> QED
    BY <2>1, <2>2, <2>3, <2>4, <2>5 DEF Next
<1> QED
  BY <1>1, <1>2, PTL DEF Spec

\* The app uses its socket only as RadarSocket has it.
THEOREM SocketImplemented == Spec => ImplementsSocket
<1>1. Init => Socket!Init
  BY DEF Init
<1>2. JoinsCounted /\ [Next]_vars => [Socket!Next]_(Socket!vars)
  BY NextImplements DEF JoinsCounted, socket, Socket!vars
<1>3. Socket!Init /\ [][Socket!Next]_(Socket!vars) => ImplementsSocket
  BY DEF ImplementsSocket, Socket!Spec
<1> QED
  BY <1>1, <1>2, <1>3, JoinsInv, PTL DEF Spec

(***************************************************************************)
(* What RadarSocket promises, of the socket of the app.                    *)
(***************************************************************************)

SocketSound ==
    /\ Socket!TypeOK /\ Socket!SendTargetAlive
    /\ \A k \in Calls : call[k] = "closing" => \E d \in 1..Joins : closer[d] = "closing"

LEMMA SocketInv == Spec => []SocketSound
<1>1. NoCall \notin Calls /\ Retries \in Nat \ {0}
  BY MobileAssumption
<1>2. SocketProofs!Spec => []SocketProofs!TypeOK
  BY <1>1, SocketProofs!TypeCorrect
<1>3. SocketProofs!Spec => []SocketProofs!ChannelInv
  BY <1>1, SocketProofs!ChannelCorrect
<1>4. ImplementsSocket <=> SocketProofs!Spec
  BY DEF ImplementsSocket, Socket!Spec, SocketProofs!Spec, Socket!Init, SocketProofs!Init,
         Socket!Next, SocketProofs!Next, Socket!vars, SocketProofs!vars,
         Socket!Connect, SocketProofs!Connect, Socket!Ready, SocketProofs!Ready,
         Socket!Refused, SocketProofs!Refused, Socket!Retry, SocketProofs!Retry,
         Socket!StreamEnds, SocketProofs!StreamEnds, Socket!Disconnect, SocketProofs!Disconnect,
         Socket!Disconnected, SocketProofs!Disconnected, Socket!Goto, SocketProofs!Goto,
         Socket!Forget, SocketProofs!Forget, Socket!SomethingPending,
         SocketProofs!SomethingPending, Socket!Pending, SocketProofs!Pending
<1>5. SocketProofs!TypeOK /\ SocketProofs!ChannelInv => SocketSound
  BY DEF SocketSound, Socket!TypeOK, SocketProofs!TypeOK, Socket!SendTargetAlive,
         SocketProofs!ChannelInv, SocketProofs!CloserSound,
         SocketProofs!SendTargetAlive, Socket!Pending, SocketProofs!Pending,
         Socket!Settled, SocketProofs!Settled
<1> QED
  BY <1>2, <1>3, <1>4, <1>5, SocketImplemented, PTL

(***************************************************************************)
(* Types, and the one stream of positions.  With the types goes that only  *)
(* joins that were made have broadcasters.                                 *)
(***************************************************************************)

OwnTypes ==
    /\ session \in BOOLEAN
    /\ joined \in 0..Joins
    /\ lifecycle \in BOOLEAN
    /\ service \in BOOLEAN
    /\ start \in [1..Joins -> Stages]
    /\ streams \subseteq 1..Joins
    /\ current \in 1..Joins \cup {NoStream}
    /\ hasty \in BOOLEAN
    /\ disturbed \in BOOLEAN

\* A broadcaster waits for connect() exactly while its call is pending.
Waiting == \A j \in 1..Joins : start[j] = "connecting" <=> call[Broadcaster(j)] \in Socket!Pending

\* Joins that wait for the ones before them leave at most the last broadcaster
\* under way, and while it is there is no stream.
StreamInv == ~hasty =>
    /\ streams \subseteq {current}
    /\ \A j \in 1..Joins : start[j] \notin {"idle", "listening"} => j = joined /\ streams = {}

AppInv ==
    /\ OwnTypes
    /\ Waiting
    /\ StreamInv
    /\ \A j \in 1..Joins : j > joined => start[j] = "idle"

LEMMA InitApp == Init => AppInv
<1> SUFFICES ASSUME Init
             PROVE  AppInv
  OBVIOUS
<1>1. OwnTypes
  <2>1. 0 \in 0..Joins
    BY MobileAssumption
  <2>2. start \in [1..Joins -> Stages]
    BY DEF Init, Stages
  <2> QED
    BY <2>1, <2>2 DEF Init, OwnTypes
<1>2. Waiting
  BY CallsMade DEF Init, Waiting, Socket!Init, Socket!Pending
<1>3. StreamInv /\ \A j \in 1..Joins : j > joined => start[j] = "idle"
  BY DEF Init, StreamInv
<1> QED
  BY <1>1, <1>2, <1>3 DEF AppInv

\* The calls of different parts are different calls.
LEMMA CallsDiffer ==
    ASSUME NEW i \in 1..Joins, NEW j \in 1..Joins
    PROVE  /\ Broadcaster(i) = Broadcaster(j) <=> i = j
           /\ Broadcaster(i) # Lifecycle(j)
           /\ Broadcaster(i) # Blips
           /\ Broadcaster(i)[2] = i
  BY DEF Broadcaster, Lifecycle, Blips

\* A call of connect() by anyone else leaves the broadcasters waiting as they were.
LEMMA ConnectElsewhere ==
    ASSUME Socket!TypeOK, NEW k \in Calls, Socket!Connect(k),
           NEW j \in 1..Joins, k # Broadcaster(j)
    PROVE  call'[Broadcaster(j)] = call[Broadcaster(j)]
  BY CallsMade DEF Socket!TypeOK, Socket!Connect, Socket!Goto

LEMMA JoinApp == AppInv /\ SocketSound /\ Join => AppInv'
<1> SUFFICES ASSUME AppInv, SocketSound, Join
             PROVE  AppInv'
  OBVIOUS
<1> USE DEF AppInv, SocketSound
<1>1. joined + 1 \in 1..Joins /\ joined' = joined + 1 /\ joined' \in 0..Joins
  BY NextJoin DEF Join, OwnTypes
<1>2. start' = [start EXCEPT ![joined + 1] = "stopping"] /\ start[joined + 1] = "idle"
  <2>1. start' = [start EXCEPT ![joined'] = "stopping"]
    BY DEF Join, Stage
  <2>2. start[joined + 1] = "idle"
    BY <1>1 DEF OwnTypes
  <2> QED
    BY <1>1, <2>1, <2>2
<1>3. OwnTypes'
  <2>1. lifecycle' \in BOOLEAN /\ service' \in BOOLEAN
    BY DEF Join, OwnTypes
  <2> QED
    BY <1>1, <1>2, <2>1 DEF Join, OwnTypes, Stages
<1>4. \A j \in 1..Joins : call'[Broadcaster(j)] = call[Broadcaster(j)]
  <2>1. CASE UNCHANGED socket
    BY <2>1 DEF socket
  <2>2. CASE Socket!Connect(Lifecycle(joined'))
    BY <2>2, <1>1, CallsMade, CallsDiffer, ConnectElsewhere
  <2> QED
    BY <2>1, <2>2 DEF Join
<1>5. Waiting'
  BY <1>1, <1>2, <1>4 DEF Waiting, OwnTypes
<1>6. StreamInv'
  <2> SUFFICES ASSUME ~hasty'
               PROVE  /\ streams' = {}
                      /\ \A j \in 1..Joins : start'[j] \notin {"idle", "listening"} => j = joined'
    BY DEF StreamInv
  <2>1. ~hasty /\ \A j \in 1..Joins : start[j] \in {"idle", "listening"}
    BY DEF Join, Settled, OwnTypes
  <2>2. streams' = {}
    BY <2>1 DEF Join, StreamInv
  <2> QED
    BY <1>1, <1>2, <2>1, <2>2 DEF OwnTypes
<1> QED
  BY <1>1, <1>2, <1>3, <1>5, <1>6 DEF OwnTypes

\* What follows a call that has come to an end, or to another attempt.
LEMMA ContinueApp ==
    ASSUME AppInv, SocketSound, NEW k \in Calls, Continue(k),
           \A c \in Calls : c # k => call'[c] = call[c],
           call'[k] \in Socket!Pending \cup Socket!Settled,
           \A j \in 1..Joins : k = Broadcaster(j) => start[j] \in {"logging", "connecting"},
           UNCHANGED <<session, joined, service, current, hasty>>, disturbed' \in BOOLEAN
    PROVE  AppInv'
<1> USE DEF AppInv
<1>1. CASE \A j \in 1..Joins : k # Broadcaster(j)
  <2>1. UNCHANGED <<start, streams>> /\ lifecycle' \in BOOLEAN
    BY <1>1 DEF Continue, OwnTypes
  <2>2. \A j \in 1..Joins : call'[Broadcaster(j)] = call[Broadcaster(j)]
    BY <1>1, CallsMade
  <2> QED
    BY <2>1, <2>2 DEF OwnTypes, Waiting, StreamInv
<1>2. ASSUME NEW i \in 1..Joins, k = Broadcaster(i)
      PROVE  AppInv'
  <2> DEFINE over == call'[k] \in Socket!Settled
  <2>1. /\ start' = [start EXCEPT ![i] = IF over THEN "starting" ELSE "connecting"]
        /\ streams' = IF over THEN streams \ {current} ELSE streams
        /\ lifecycle' \in BOOLEAN
    BY <1>2, CallsDiffer DEF Continue, Stage, OwnTypes
  <2>2. over <=> call'[k] \notin Socket!Pending
    BY DEF Socket!Pending, Socket!Settled
  <2>3. OwnTypes'
    BY <2>1 DEF OwnTypes, Stages
  <2>4. Waiting'
    <3>1. \A j \in 1..Joins : j # i => call'[Broadcaster(j)] = call[Broadcaster(j)]
      BY <1>2, CallsMade, CallsDiffer
    <3> QED
      BY <1>2, <2>1, <2>2, <3>1 DEF Waiting, OwnTypes
  <2>5. StreamInv'
    BY <1>2, <2>1 DEF StreamInv, OwnTypes
  <2> QED
    BY <1>2, <2>1, <2>3, <2>4, <2>5 DEF OwnTypes
<1> QED
  BY <1>1, <1>2

LEMMA NextApp == AppInv /\ SocketSound /\ [Next]_vars => AppInv'
<1> SUFFICES ASSUME AppInv, SocketSound, [Next]_vars
             PROVE  AppInv'
  OBVIOUS
<1> USE DEF AppInv, SocketSound
<1>1. CASE Join
  BY <1>1, JoinApp
<1>2. CASE OpenRadar
  <2>1. \A j \in 1..Joins : call'[Broadcaster(j)] = call[Broadcaster(j)]
    BY <1>2, CallsMade, CallsDiffer, ConnectElsewhere DEF OpenRadar
  <2> QED
    BY <1>2, <2>1 DEF OpenRadar, OwnTypes, Waiting, StreamInv
<1>3. CASE Leave
  <2>1. \A c \in Calls : call'[c] \in Socket!Pending <=> call[c] \in Socket!Pending
    <3>1. CASE Socket!Disconnect(joined)
      <4>1. ASSUME NEW c \in Calls
            PROVE  call'[c] = call[c] \/ (c = channel /\ call'[c] = "closing")
        BY <3>1 DEF Socket!Disconnect
      <4>2. channel # NoCall => call[channel] \in {"open", "closing"}
        BY DEF Socket!SendTargetAlive
      <4> QED
        BY <4>1, <4>2, MobileAssumption DEF Socket!Pending
    <3>2. CASE UNCHANGED socket
      BY <3>2 DEF socket
    <3> QED
      BY <1>3, <3>1, <3>2 DEF Leave
  <2>2. lifecycle' \in BOOLEAN /\ service' \in BOOLEAN
    BY <1>3 DEF Leave, OwnTypes
  <2> QED
    BY <1>3, <2>1, <2>2, CallsMade DEF Leave, OwnTypes, Waiting, StreamInv
<1>4. ASSUME NEW k \in Calls, SocketStep(k)
      PROVE  AppInv'
  <2>1. /\ call[k] \in Socket!Pending
        /\ call'[k] \in Socket!Pending \cup Socket!Settled
        /\ \A c \in Calls : c # k => call'[c] = call[c]
    BY <1>4 DEF SocketStep, Socket!Ready, Socket!Refused, Socket!Retry, Socket!Goto,
                Socket!TypeOK, Socket!Pending, Socket!Settled
  <2>2. \A j \in 1..Joins : k = Broadcaster(j) => start[j] = "connecting"
    BY <2>1 DEF Waiting
  <2>3. disturbed' \in BOOLEAN
    BY <1>4 DEF SocketStep, OwnTypes
  <2> QED
    BY <1>4, <2>1, <2>2, <2>3, ContinueApp DEF SocketStep
<1>5. ASSUME NEW k \in Calls, SocketEnds(k)
      PROVE  AppInv'
  <2>1. \A c \in Calls : call'[c] \in Socket!Pending <=> call[c] \in Socket!Pending
    BY <1>5 DEF SocketEnds, Socket!StreamEnds, Socket!Goto, Socket!TypeOK, Socket!Pending
  <2>2. disturbed' \in BOOLEAN
    BY <1>5 DEF SocketEnds, OwnTypes
  <2> QED
    BY <1>5, <2>1, <2>2, CallsMade DEF SocketEnds, OwnTypes, Waiting, StreamInv
<1>6. ASSUME NEW j \in 1..Joins, LifecycleOver(j)
      PROVE  AppInv'
  BY <1>6 DEF LifecycleOver, Socket!Disconnected, OwnTypes, Waiting, StreamInv
<1>7. ASSUME NEW j \in 1..Joins, StreamStopped(j)
      PROVE  AppInv'
  BY <1>7 DEF StreamStopped, Stage, socket, OwnTypes, Stages, Waiting, StreamInv
<1>8. ASSUME NEW j \in 1..Joins, LogOpened(j)
      PROVE  AppInv'
  <2>1. /\ call'[Broadcaster(j)] \in Socket!Pending \cup Socket!Settled
        /\ \A c \in Calls : c # Broadcaster(j) => call'[c] = call[c]
    BY <1>8, CallsMade DEF LogOpened, Socket!Connect, Socket!Goto, Socket!TypeOK,
                           Socket!Pending, Socket!Settled
  <2>2. \A i \in 1..Joins : Broadcaster(j) = Broadcaster(i) => start[i] = "logging"
    BY <1>8, CallsDiffer DEF LogOpened
  <2> QED
    BY <1>8, <2>1, <2>2, CallsMade, ContinueApp DEF LogOpened, OwnTypes
<1>9. ASSUME NEW j \in 1..Joins, Listen(j)
      PROVE  AppInv'
  BY <1>9 DEF Listen, Stage, socket, OwnTypes, Stages, Waiting, StreamInv
<1>10. CASE UNCHANGED vars
  BY <1>10 DEF vars, OwnTypes, Waiting, StreamInv
<1> QED
  BY <1>1, <1>2, <1>3, <1>4, <1>5, <1>6, <1>7, <1>8, <1>9, <1>10 DEF Next, Start

LEMMA AppCorrect == Spec => [](AppInv /\ SocketSound)
  BY InitApp, NextApp, SocketInv, PTL DEF Spec

\* Every variable holds a value of its kind, and a broadcaster waits for connect()
\* exactly while its call is pending.
THEOREM TypeCorrect == Spec => []TypeOK
<1>1. AppInv /\ SocketSound => TypeOK
  BY DEF AppInv, SocketSound, OwnTypes, Waiting, TypeOK
<1> QED
  BY <1>1, AppCorrect, PTL

\* While joins wait for the ones before them, the app has one stream of positions
\* at most, the one it can still cancel.
THEOREM StreamsOwned == Spec => []OneStream
<1>1. AppInv => OneStream
  BY DEF AppInv, StreamInv, OneStream
<1> QED
  BY <1>1, AppCorrect, PTL

(***************************************************************************)
(* Being heard.                                                            *)
(***************************************************************************)

\* While a join that waited is not left, no disconnect() is under way, so that no
\* socket ends but by itself; nothing backs off until a dial has failed; and once
\* the broadcaster's connect() is back, there is a socket that is up.
HeardInv == session /\ ~hasty =>
    /\ start[joined] # "idle"
    /\ start[joined] = "listening" => joined \in streams
    /\ \A d \in 1..Joins : closer[d] # "closing"
    /\ ~disturbed =>
          /\ \A k \in Calls : call[k] # "backoff"
          /\ start[joined] \in {"starting", "listening"} =>
                channel # NoCall /\ call[channel] = "open"

LEMMA NextHeard ==
    AppInv /\ SocketSound /\ JoinsCounted /\ HeardInv /\ [Next]_vars => HeardInv'
<1> SUFFICES ASSUME AppInv, SocketSound, JoinsCounted, HeardInv, [Next]_vars, session', ~hasty'
             PROVE  /\ start'[joined'] # "idle"
                    /\ start'[joined'] = "listening" => joined' \in streams'
                    /\ \A d \in 1..Joins : closer'[d] # "closing"
                    /\ ~disturbed' =>
                          /\ \A k \in Calls : call'[k] # "backoff"
                          /\ start'[joined'] \in {"starting", "listening"} =>
                                channel' # NoCall /\ call'[channel'] = "open"
  BY DEF HeardInv
<1> DEFINE Heard ==
             /\ start'[joined'] # "idle"
             /\ start'[joined'] = "listening" => joined' \in streams'
             /\ \A d \in 1..Joins : closer'[d] # "closing"
             /\ ~disturbed' =>
                   /\ \A k \in Calls : call'[k] # "backoff"
                   /\ start'[joined'] \in {"starting", "listening"} =>
                         channel' # NoCall /\ call'[channel'] = "open"
<1> USE MobileAssumption DEF AppInv, SocketSound, OwnTypes, Socket!TypeOK
<1>1. CASE Join
  <2>1. joined + 1 \in 1..Joins /\ joined' = joined + 1
    BY <1>1, NextJoin DEF Join
  <2>2. start'[joined'] = "stopping"
    BY <1>1, <2>1 DEF Join, Stage
  <2>3. Settled
    BY <1>1 DEF Join
  <2>4. UNCHANGED closer /\ \A k \in Calls : call'[k] = "backoff" => call[k] = "backoff"
    <3>1. UNCHANGED socket \/ Socket!Connect(Lifecycle(joined'))
      BY <1>1 DEF Join
    <3> QED
      BY <3>1 DEF socket, Socket!Connect, Socket!Goto
  <2> QED
    BY <2>2, <2>3, <2>4 DEF Settled, Socket!SomethingPending, Socket!Pending
<1>2. CASE session /\ ~hasty /\ joined' = joined
  <2>0. /\ joined \in 1..Joins /\ start[joined] # "idle"
        /\ start[joined] = "listening" => joined \in streams
        /\ \A d \in 1..Joins : closer[d] # "closing"
        /\ \A k \in Calls : call[k] # "closing"
        /\ \A j \in 1..Joins : start[j] \notin {"idle", "listening"} => j = joined
        /\ ~disturbed =>
              /\ \A k \in Calls : call[k] # "backoff"
              /\ start[joined] \in {"starting", "listening"} =>
                    channel # NoCall /\ call[channel] = "open"
    BY <1>2 DEF HeardInv, JoinsCounted, StreamInv
  <2>1. CASE OpenRadar
    BY <1>2, <2>0, <2>1 DEF OpenRadar, Socket!Connect, Socket!Goto
  <2>3. ASSUME NEW k \in Calls, Continue(k), UNCHANGED closer,
               \A j \in 1..Joins : k = Broadcaster(j) => start[j] \notin {"idle", "listening"},
               \A c \in Calls : c # k => call'[c] = call[c],
               ~disturbed' =>
                  /\ ~disturbed /\ call'[k] # "backoff"
                  /\ \/ channel' = k /\ call'[k] = "open"
                     \/ channel' = channel /\ call[k] # "open" /\ call'[k] = "dialing"
                     \/ channel' = channel /\ call[k] # "open" /\ channel # NoCall /\ call[channel] = "open"
        PROVE  Heard
    <3>1. ~disturbed' => /\ \A c \in Calls : call'[c] # "backoff"
                         /\ \/ channel' # NoCall /\ call'[channel'] = "open"
                            \/ /\ call'[k] = "dialing"
                               /\ channel # NoCall /\ call[channel] = "open" =>
                                     channel' # NoCall /\ call'[channel'] = "open"
      BY <2>0, <2>3
    <3>2. CASE k = Broadcaster(joined)
      <4>1. start'[joined] = IF call'[k] \in Socket!Settled THEN "starting" ELSE "connecting"
        BY <2>0, <2>3, <3>2, CallsDiffer DEF Continue, Stage
      <4> QED
        BY <1>2, <2>0, <2>3, <3>1, <4>1 DEF Socket!Settled
    <3>3. CASE k # Broadcaster(joined)
      <4>1. \A j \in 1..Joins : k # Broadcaster(j)
        BY <2>0, <2>3, <3>3
      <4>2. UNCHANGED <<start, streams>>
        BY <2>3, <4>1 DEF Continue
      <4> QED
        BY <1>2, <2>0, <2>3, <3>1, <4>2
    <3> QED
      BY <3>2, <3>3
  <2>4. ASSUME NEW k \in Calls, SocketStep(k) PROVE Heard
    <3>1. call[k] \in Socket!Pending /\ Continue(k) /\ UNCHANGED closer
      BY <2>4 DEF SocketStep, Socket!Ready, Socket!Refused, Socket!Retry, Socket!Pending
    <3>2. \A j \in 1..Joins : k = Broadcaster(j) => start[j] = "connecting"
      BY <3>1 DEF Waiting
    <3>3. \A c \in Calls : c # k => call'[c] = call[c]
      BY <2>4 DEF SocketStep, Socket!Ready, Socket!Refused, Socket!Retry, Socket!Goto
    <3>4. ~disturbed' => ~disturbed /\ call'[k] = "open" /\ channel' = k
      <4> SUFFICES ASSUME ~disturbed' PROVE ~disturbed /\ call'[k] = "open" /\ channel' = k
        OBVIOUS
      <4>1. ~disturbed /\ call'[k] # "backoff"
        BY <2>4 DEF SocketStep
      <4>2. ~Socket!Refused(k)
        BY <4>1 DEF Socket!Refused, Socket!Goto
      <4>3. ~Socket!Retry(k)
        BY <2>0, <4>1 DEF Socket!Retry
      <4> QED
        BY <2>4, <4>1, <4>2, <4>3 DEF SocketStep, Socket!Ready, Socket!Goto
    <3> QED
      BY <2>3, <3>1, <3>2, <3>3, <3>4
  <2>5. ASSUME NEW j \in 1..Joins, LogOpened(j) PROVE Heard
    <3> DEFINE k == Broadcaster(j)
    <3>1. /\ Socket!Connect(k) /\ k \in Calls /\ Continue(k) /\ UNCHANGED <<closer, channel, disturbed>>
          /\ start[j] = "logging"
      BY <2>5, CallsMade DEF LogOpened, Socket!Connect
    <3>2. \A i \in 1..Joins : k = Broadcaster(i) => i = j
      BY CallsDiffer
    <3> HIDE DEF k
    <3>3. /\ \A c \in Calls : c # k => call'[c] = call[c]
          /\ call[k] = "idle"
          /\ \/ call'[k] = "dialing"
             \/ call'[k] = "returned" /\ isConnected /\ channel # NoCall
      BY <3>1 DEF Socket!Connect, Socket!Goto
    <3>4. isConnected /\ channel # NoCall => call[channel] = "open"
      BY DEF Socket!SendTargetAlive
    <3> QED
      BY <2>3, <3>1, <3>2, <3>3, <3>4
  <2>6. ASSUME NEW k \in Calls, SocketEnds(k) PROVE Heard
    <3>1. disturbed' /\ UNCHANGED <<start, streams, closer>>
      BY <2>0, <2>6 DEF SocketEnds, Socket!StreamEnds
    <3> QED
      BY <1>2, <2>0, <3>1
  <2>7. ASSUME NEW j \in 1..Joins, LifecycleOver(j) PROVE Heard
    BY <2>0, <2>7 DEF LifecycleOver, Socket!Disconnected
  <2>8. ASSUME NEW j \in 1..Joins, StreamStopped(j) \/ Listen(j) PROVE Heard
    BY <1>2, <2>0, <2>8 DEF StreamStopped, Listen, Stage, socket
  <2>9. CASE UNCHANGED vars
    BY <2>0, <2>9 DEF vars
  <2>10. ~Join /\ ~Leave
    BY <1>2 DEF Join, Leave
  <2> QED
    BY <2>1, <2>4, <2>5, <2>6, <2>7, <2>8, <2>9, <2>10 DEF Next, Start
<1>3. Join \/ (session /\ ~hasty /\ joined' = joined)
  <2>1. CASE OpenRadar \/ Leave
    BY <2>1 DEF OpenRadar, Leave
  <2>2. CASE \E k \in Calls : SocketStep(k) \/ SocketEnds(k)
    BY <2>2 DEF SocketStep, SocketEnds
  <2>3. CASE \E j \in 1..Joins : LifecycleOver(j) \/ Start(j)
    BY <2>3 DEF LifecycleOver, Start, StreamStopped, LogOpened, Listen
  <2>4. CASE UNCHANGED vars
    BY <2>4 DEF vars
  <2> QED
    BY <2>1, <2>2, <2>3, <2>4 DEF Next
<1> QED
  BY <1>1, <1>2, <1>3

\* Once everything is over that a join began, who has joined shares his position,
\* unless the join was hasty, a dial failed or a socket ended.
THEOREM SettledIsHeard == Spec => []HeardOnceSettled
<1>1. Init => HeardInv
  BY DEF Init, HeardInv
<1>2. AppInv /\ JoinsCounted /\ HeardInv => HeardOnceSettled
  <2> SUFFICES ASSUME AppInv, JoinsCounted, HeardInv, session, ~hasty, ~disturbed, Settled
               PROVE  Sending
    BY DEF HeardOnceSettled
  <2>1. joined \in 1..Joins /\ start[joined] = "listening"
    BY DEF JoinsCounted, HeardInv, Settled
  <2> QED
    BY <2>1 DEF HeardInv, Sending
<1> QED
  BY <1>1, <1>2, AppCorrect, JoinsInv, NextHeard, PTL DEF Spec
================================================================================
