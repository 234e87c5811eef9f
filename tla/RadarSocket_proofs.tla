--------------------------- MODULE RadarSocket_proofs ---------------------------
(***************************************************************************)
(* Proofs about RadarSocket, for any calls, closers and number of retries. *)
(***************************************************************************)
EXTENDS RadarSocket, TLAPS

(***************************************************************************)
(* Type correctness.  That a call never counts more failures than its      *)
(* retries needs to know that an attempt is only under way while some are  *)
(* left.                                                                   *)
(***************************************************************************)
TypeInv ==
    /\ TypeOK
    /\ \A k \in Calls : call[k] = "idle" => attempt[k] = 0
    /\ \A k \in Calls : call[k] = "dialing" => attempt[k] < Retries

\* Initially every variable holds a value of its kind.
LEMMA InitType == Init => TypeInv
<1> SUFFICES ASSUME Init
             PROVE  TypeInv
  OBVIOUS
<1>1. attempt \in [Calls -> 0..Retries]
  <2>1. 0 \in 0..Retries
    BY SocketAssumption
  <2> QED
    BY <2>1 DEF Init
<1>2. TypeOK
  BY <1>1 DEF Init, TypeOK
<1>3. \A k \in Calls : call[k] = "idle" /\ attempt[k] = 0
  BY DEF Init
<1> QED
  BY <1>2, <1>3 DEF TypeInv

\* No step of the service takes a variable out of its kind.
LEMMA NextType == TypeInv /\ [Next]_vars => TypeInv'
<1> SUFFICES ASSUME TypeInv, [Next]_vars
             PROVE  TypeInv'
  OBVIOUS
<1> USE SocketAssumption DEF TypeInv, TypeOK, Pending, Settled
<1>1. ASSUME NEW k \in Calls, Connect(k)
      PROVE  TypeInv'
  BY <1>1 DEF Connect, Goto
<1>2. ASSUME NEW k \in Calls, Ready(k)
      PROVE  TypeInv'
  BY <1>2 DEF Ready, Goto
<1>3. ASSUME NEW k \in Calls, Refused(k)
      PROVE  TypeInv'
  <2>1. attempt[k] + 1 \in 0..Retries
    <3>1. attempt[k] \in 0..Retries /\ attempt[k] < Retries
      BY <1>3 DEF Refused
    <3> QED
      BY <3>1
  <2>2. attempt' \in [Calls -> 0..Retries]
    BY <1>3, <2>1 DEF Refused
  <2>3. TypeOK'
    BY <1>3, <2>2 DEF Refused, Goto, Forget
  <2>4. \A j \in Calls : call'[j] = call[j] \/ call'[j] = "backoff"
    BY <1>3 DEF Refused, Goto
  <2>5. \A j \in Calls : call'[j] = "backoff" \/ attempt'[j] = attempt[j]
    BY <1>3 DEF Refused, Goto
  <2> QED
    BY <2>3, <2>4, <2>5
<1>4. ASSUME NEW k \in Calls, Retry(k)
      PROVE  TypeInv'
  BY <1>4 DEF Retry, Goto
<1>5. ASSUME NEW k \in Calls, StreamEnds(k)
      PROVE  TypeInv'
  BY <1>5 DEF StreamEnds, Goto, Forget
<1>6. ASSUME NEW d \in Closers, Disconnect(d)
      PROVE  TypeInv'
  BY <1>6 DEF Disconnect
<1>7. ASSUME NEW d \in Closers, Disconnected(d)
      PROVE  TypeInv'
  BY <1>7 DEF Disconnected
<1>8. CASE UNCHANGED vars
  BY <1>8 DEF vars
<1> QED
  BY <1>1, <1>2, <1>3, <1>4, <1>5, <1>6, <1>7, <1>8 DEF Next

\* Every variable holds a value of its kind, and no connect() makes more attempts
\* than its retries.
THEOREM TypeCorrect == Spec => []TypeOK
<1>1. Spec => []TypeInv
  BY InitType, NextType, PTL DEF Spec
<1> QED
  BY <1>1, PTL DEF TypeInv

(***************************************************************************)
(* The channel.                                                            *)
(***************************************************************************)

\* A disconnect() under way closes the socket of a call, and a socket is only
\* closing while such a disconnect() is there.
CloserSound ==
    /\ \A d \in Closers : closer[d] = "closing" =>
          closing[d] \in Calls /\ call[closing[d]] \in {"closing", "closed"}
    /\ \A k \in Calls : call[k] = "closing" =>
          \E d \in Closers : closer[d] = "closing" /\ closing[d] = k

ChannelInv == TypeInv /\ SendTargetAlive /\ CloserSound

\* Initially there is no socket.
LEMMA InitChannel == Init => ChannelInv
  BY InitType DEF Init, ChannelInv, SendTargetAlive, CloserSound

\* Every step of the service keeps the channel and the disconnects sound.
LEMMA NextChannel == ChannelInv /\ [Next]_vars => ChannelInv'
<1> SUFFICES ASSUME ChannelInv, [Next]_vars
             PROVE  SendTargetAlive' /\ CloserSound'
  BY NextType DEF ChannelInv
<1> USE SocketAssumption DEF ChannelInv, TypeInv, TypeOK, SendTargetAlive, CloserSound, Pending
<1>1. ASSUME NEW k \in Calls, Connect(k)
      PROVE  SendTargetAlive' /\ CloserSound'
  BY <1>1 DEF Connect, Goto
<1>2. ASSUME NEW k \in Calls, Ready(k)
      PROVE  SendTargetAlive' /\ CloserSound'
  BY <1>2 DEF Ready, Goto
<1>3. ASSUME NEW k \in Calls, Refused(k)
      PROVE  SendTargetAlive' /\ CloserSound'
  BY <1>3 DEF Refused, Goto, Forget
<1>4. ASSUME NEW k \in Calls, Retry(k)
      PROVE  SendTargetAlive' /\ CloserSound'
  BY <1>4 DEF Retry, Goto
<1>5. ASSUME NEW k \in Calls, StreamEnds(k)
      PROVE  SendTargetAlive' /\ CloserSound'
  BY <1>5 DEF StreamEnds, Goto, Forget
<1>6. ASSUME NEW d \in Closers, Disconnect(d)
      PROVE  SendTargetAlive' /\ CloserSound'
  <2>1. SendTargetAlive'
    BY <1>6 DEF Disconnect
  <2>2. ASSUME NEW e \in Closers, closer'[e] = "closing"
        PROVE  closing'[e] \in Calls /\ call'[closing'[e]] \in {"closing", "closed"}
    BY <1>6, <2>2 DEF Disconnect
  <2>3. ASSUME NEW k \in Calls, call'[k] = "closing"
        PROVE  \E e \in Closers : closer'[e] = "closing" /\ closing'[e] = k
    <3>1. CASE k = channel
      BY <1>6, <3>1 DEF Disconnect
    <3>2. CASE k # channel
      <4>1. PICK e \in Closers : closer[e] = "closing" /\ closing[e] = k
        BY <1>6, <2>3, <3>2 DEF Disconnect
      <4> QED
        BY <1>6, <4>1 DEF Disconnect
    <3> QED
      BY <3>1, <3>2
  <2> QED
    BY <2>1, <2>2, <2>3
<1>7. ASSUME NEW d \in Closers, Disconnected(d)
      PROVE  SendTargetAlive' /\ CloserSound'
  BY <1>7 DEF Disconnected
<1>8. CASE UNCHANGED vars
  BY <1>8 DEF vars
<1> QED
  BY <1>1, <1>2, <1>3, <1>4, <1>5, <1>6, <1>7, <1>8 DEF Next

\* What the channel and the disconnects keep in every state.
LEMMA ChannelCorrect == Spec => []ChannelInv
  BY InitChannel, NextChannel, PTL DEF Spec

\* send() never writes into a socket that has ended, and while the service takes
\* itself for connected, not into one that is being closed either.
THEOREM SendTargetsAlive == Spec => []SendTargetAlive
  BY ChannelCorrect, PTL DEF ChannelInv

(***************************************************************************)
(* The guard.  While callers take turns, one call at most is busy, and     *)
(* none is while a disconnect() is under way; so a call that finds the     *)
(* guard open finds no socket that is up.                                  *)
(***************************************************************************)
Busy(k) == call[k] \in {"dialing", "backoff", "open"}

TurnsTaken ==
    /\ \A j, k \in Calls : Busy(j) /\ Busy(k) => j = k
    /\ \A k \in Calls : call[k] = "open" => channel = k /\ isConnected
    /\ \A d \in Closers : \A k \in Calls : closer[d] = "closing" => ~Busy(k)

GuardInv == ChannelInv /\ (~overlapped => TurnsTaken)

\* Initially nobody has called.
LEMMA InitGuard == Init => GuardInv
  BY InitChannel DEF Init, GuardInv, TurnsTaken, Busy

\* A step in which no call begins out of turn keeps the turns.
LEMMA NextGuard == GuardInv /\ [Next]_vars => GuardInv'
<1> SUFFICES ASSUME GuardInv, [Next]_vars, ~overlapped'
             PROVE  TurnsTaken'
  BY NextChannel DEF GuardInv
<1>0. ~overlapped /\ TurnsTaken
  BY DEF GuardInv, Next, vars, Connect, Ready, Refused, Retry, StreamEnds,
         Disconnect, Disconnected, ChannelInv, TypeInv, TypeOK
<1> USE <1>0, SocketAssumption
        DEF GuardInv, ChannelInv, TypeInv, TypeOK, SendTargetAlive, CloserSound,
            TurnsTaken, Busy, Pending
<1>1. ASSUME NEW k \in Calls, Connect(k)
      PROVE  TurnsTaken'
  <2>1. ~SomethingPending
    BY <1>1 DEF Connect
  <2>2. CASE isConnected /\ channel # NoCall
    BY <1>1, <2>2 DEF Connect, Goto
  <2>3. CASE ~(isConnected /\ channel # NoCall)
    <3>1. \A j \in Calls : ~Busy(j)
      BY <2>1, <2>3 DEF SomethingPending
    <3> QED
      BY <1>1, <2>1, <2>3, <3>1 DEF Connect, Goto, SomethingPending
  <2> QED
    BY <2>2, <2>3
<1>2. ASSUME NEW k \in Calls, Ready(k)
      PROVE  TurnsTaken'
  BY <1>2 DEF Ready, Goto
<1>3. ASSUME NEW k \in Calls, Refused(k)
      PROVE  TurnsTaken'
  BY <1>3 DEF Refused, Goto, Forget
<1>4. ASSUME NEW k \in Calls, Retry(k)
      PROVE  TurnsTaken'
  BY <1>4 DEF Retry, Goto
<1>5. ASSUME NEW k \in Calls, StreamEnds(k)
      PROVE  TurnsTaken'
  BY <1>5 DEF StreamEnds, Goto, Forget
<1>6. ASSUME NEW d \in Closers, Disconnect(d)
      PROVE  TurnsTaken'
  BY <1>6 DEF Disconnect
<1>7. ASSUME NEW d \in Closers, Disconnected(d)
      PROVE  TurnsTaken'
  BY <1>7 DEF Disconnected
<1>8. CASE UNCHANGED vars
  BY <1>8 DEF vars
<1> QED
  BY <1>1, <1>2, <1>3, <1>4, <1>5, <1>6, <1>7, <1>8 DEF Next

\* As long as no connect() begins while another connect() or a disconnect() is
\* pending, there is at most one connection, and it is the one send() uses.
THEOREM GuardSufficient == Spec => []GuardSuffices
<1>1. Spec => []GuardInv
  BY InitGuard, NextGuard, PTL DEF Spec
<1>2. GuardInv => GuardSuffices
  BY DEF GuardInv, TurnsTaken, Busy, GuardSuffices, Live
<1> QED
  BY <1>1, <1>2, PTL
================================================================================
