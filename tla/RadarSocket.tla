------------------------------ MODULE RadarSocket ------------------------------
(***************************************************************************)
(* RadarWebSocketService of the mobile app, one instance                   *)
(* (features/session/infrastructure/network_providers.dart): connect() and *)
(* disconnect(), which RadarWsLifecycle, LocationBroadcaster,              *)
(* RadarBlipsNotifier and the full map call without knowing of each other. *)
(*                                                                         *)
(* Dart runs one callback at a time, so a step here is what runs between   *)
(* two awaits, or one callback of the socket's stream.  A call is an       *)
(* invocation of connect(); it has at most one live socket at any time, so *)
(* the socket it opened is named after it.                                 *)
(***************************************************************************)
EXTENDS Naturals

CONSTANTS
    Calls,      \* invocations of connect(), each made at most once
    Closers,    \* invocations of disconnect(), each made at most once
    Retries,    \* the retries parameter of connect()
    NoCall      \* null

ASSUME SocketAssumption ==
    /\ NoCall \notin Calls
    /\ Retries \in Nat \ {0}

VARIABLES
    channel,        \* _channel: the call whose socket send() uses
    isConnected,    \* _isConnected
    call,           \* where each connect() and the socket it opened are
    attempt,        \* the attempts of each connect() that failed
    closer,         \* where each disconnect() is
    closing,        \* the socket each disconnect() closes
    overlapped      \* history: a connect() began while another call was pending

vars == <<channel, isConnected, call, attempt, closer, closing, overlapped>>

\* connect() has not returned.
Pending == {"dialing", "backoff"}
\* It returned without dialing; its socket is up; a disconnect() is closing it;
\* it was closed; it threw.
Settled == {"returned", "open", "closing", "closed", "failed"}

Init ==
    /\ channel = NoCall
    /\ isConnected = FALSE
    /\ call = [k \in Calls |-> "idle"]
    /\ attempt = [k \in Calls |-> 0]
    /\ closer = [d \in Closers |-> "idle"]
    /\ closing = [d \in Closers |-> NoCall]
    /\ overlapped = FALSE

--------------------------------------------------------------------------------
Goto(k, label) == call' = [call EXCEPT ![k] = label]

\* What every failure and every end of a stream does, whichever socket it was.
Forget ==
    /\ isConnected' = FALSE
    /\ channel' = NoCall

SomethingPending ==
    \/ \E k \in Calls : call[k] \in Pending
    \/ \E d \in Closers : closer[d] = "closing"

\* A slip that GuardSuffices catches: no guard.
ConnectAlways(k) ==
    /\ call[k] = "idle"
    /\ Goto(k, "dialing")
    /\ overlapped' = (overlapped \/ SomethingPending)
    /\ UNCHANGED <<channel, isConnected, attempt, closer, closing>>

\* A slip that HeardOnceSettled catches: the guard looks at _isConnected alone.
ConnectFlagOnly(k) ==
    /\ call[k] = "idle"
    /\ Goto(k, IF isConnected THEN "returned" ELSE "dialing")
    /\ overlapped' = (overlapped \/ SomethingPending)
    /\ UNCHANGED <<channel, isConnected, attempt, closer, closing>>

\* connect(): the guard, then the first attempt up to the await.
Connect(k) ==
    /\ call[k] = "idle"
    /\ Goto(k, IF isConnected /\ channel # NoCall THEN "returned" ELSE "dialing")
    /\ overlapped' = (overlapped \/ SomethingPending)
    /\ UNCHANGED <<channel, isConnected, attempt, closer, closing>>

\* channel.ready completes: the service adopts the socket and listens to it.
Ready(k) ==
    /\ call[k] = "dialing"
    /\ Goto(k, "open")
    /\ channel' = k
    /\ isConnected' = TRUE
    /\ UNCHANGED <<attempt, closer, closing, overlapped>>

\* A slip that ConnectReturns catches: the attempt is not counted.
RefusedUncounted(k) ==
    /\ call[k] = "dialing"
    /\ Goto(k, "backoff")
    /\ Forget
    /\ UNCHANGED <<attempt, closer, closing, overlapped>>

\* channel.ready throws: the attempt is counted, and the call backs off.
Refused(k) ==
    /\ call[k] = "dialing"
    /\ Goto(k, "backoff")
    /\ attempt' = [attempt EXCEPT ![k] = @ + 1]
    /\ Forget
    /\ UNCHANGED <<closer, closing, overlapped>>

\* A slip that TypeOK catches: one attempt too many.
RetryOnceMore(k) ==
    /\ call[k] = "backoff"
    /\ Goto(k, IF attempt[k] <= Retries THEN "dialing" ELSE "failed")
    /\ UNCHANGED <<channel, isConnected, attempt, closer, closing, overlapped>>

\* The delay is over: the next attempt, without a second look at the guard, or
\* NetworkException.
Retry(k) ==
    /\ call[k] = "backoff"
    /\ Goto(k, IF attempt[k] < Retries THEN "dialing" ELSE "failed")
    /\ UNCHANGED <<channel, isConnected, attempt, closer, closing, overlapped>>

\* A slip that SendTargetAlive catches: the dead channel is kept.
StreamEndsKeepsChannel(k) ==
    /\ call[k] \in {"open", "closing"}
    /\ Goto(k, "closed")
    /\ isConnected' = FALSE
    /\ UNCHANGED <<channel, attempt, closer, closing, overlapped>>

\* A slip that DisconnectReturns catches: the end of a socket that we close
\* ourselves goes unnoticed.
StreamEndsUnlessClosing(k) ==
    /\ call[k] = "open"
    /\ Goto(k, "closed")
    /\ Forget
    /\ UNCHANGED <<attempt, closer, closing, overlapped>>

\* onDone or onError of the stream: the peer or the network ended the socket, or
\* answered our close.
StreamEnds(k) ==
    /\ call[k] \in {"open", "closing"}
    /\ Goto(k, "closed")
    /\ Forget
    /\ UNCHANGED <<attempt, closer, closing, overlapped>>

\* disconnect() up to the await of sink.close(); with no channel there is
\* nothing to wait for, and it returns before any other event is handled.
Disconnect(d) ==
    /\ closer[d] = "idle"
    /\ closer' = [closer EXCEPT ![d] = IF channel = NoCall THEN "done" ELSE "closing"]
    /\ closing' = [closing EXCEPT ![d] = channel]
    /\ isConnected' = FALSE
    /\ call' = [k \in Calls |-> IF k = channel THEN "closing" ELSE call[k]]
    /\ UNCHANGED <<channel, attempt, overlapped>>

\* sink.close() completes, when the close handshake did.
Disconnected(d) ==
    /\ closer[d] = "closing"
    /\ call[closing[d]] = "closed"
    /\ closer' = [closer EXCEPT ![d] = "done"]
    /\ channel' = NoCall
    /\ UNCHANGED <<isConnected, call, attempt, closing, overlapped>>

--------------------------------------------------------------------------------
Next ==
    \/ \E k \in Calls :
          Connect(k) \/ Ready(k) \/ Refused(k) \/ Retry(k) \/ StreamEnds(k)
    \/ \E d \in Closers : Disconnect(d) \/ Disconnected(d)

Spec == Init /\ [][Next]_vars

\* A dial ends one way or the other, a delay ends, and a socket that is being
\* closed does close; callers and open sockets owe nothing.
FairSpec ==
    /\ Spec
    /\ \A k \in Calls :
          /\ WF_vars(Ready(k) \/ Refused(k))
          /\ WF_vars(Retry(k))
          /\ WF_vars(call[k] = "closing" /\ StreamEnds(k))
    /\ \A d \in Closers : WF_vars(Disconnected(d))

--------------------------------------------------------------------------------
(* Properties.                                                             *)

\* Every variable holds a value of its kind, and no call makes more attempts than
\* its retries.
TypeOK ==
    /\ channel \in Calls \cup {NoCall}
    /\ isConnected \in BOOLEAN
    /\ call \in [Calls -> {"idle"} \cup Pending \cup Settled]
    /\ attempt \in [Calls -> 0..Retries]
    /\ closer \in [Closers -> {"idle", "closing", "done"}]
    /\ closing \in [Closers -> Calls \cup {NoCall}]
    /\ overlapped \in BOOLEAN

\* send() never writes into a socket that has ended, whatever calls race: the
\* channel is a socket that is up or closing, and while the service takes itself
\* for connected it is one that nobody is closing.
SendTargetAlive ==
    channel # NoCall =>
        /\ call[channel] \in {"open", "closing"}
        /\ isConnected => call[channel] = "open"

Live(k) == call[k] \in {"dialing", "open"}

\* The guard of connect() is enough for callers that take turns: as long as no
\* connect() began while another connect() or a disconnect() was pending, there
\* is one connection at most, and an open one is the one send() uses.
GuardSuffices ==
    ~overlapped =>
        /\ \A j, k \in Calls : Live(j) /\ Live(k) => j = k
        /\ \A k \in Calls : call[k] = "open" => channel = k

\* Every connect() comes back: with a socket, at once, or with an exception once
\* its attempts are spent.
ConnectReturns == \A k \in Calls : (call[k] \in Pending) ~> (call[k] \in Settled)

\* Every disconnect() comes back, however many others run.
DisconnectReturns == \A d \in Closers : (closer[d] = "closing") ~> (closer[d] = "done")
================================================================================
