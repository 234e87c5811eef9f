----------------------------- MODULE MobileSession -----------------------------
(***************************************************************************)
(* What the mobile app starts when a session is joined and stops when it   *)
(* is left (main.dart): RadarWsLifecycle, LocationBroadcaster with its     *)
(* LocationService, and RadarBlipsNotifier, all of them callers of the one *)
(* RadarWebSocketService of the session's URL.  The user joins, leaves and *)
(* joins the same session again.                                           *)
(*                                                                         *)
(* A step is what runs between two awaits, with the continuations that are *)
(* due at once.  The foreground service is left out, and of the log file   *)
(* only the time it takes to open it is kept.                              *)
(***************************************************************************)
EXTENDS Naturals

CONSTANTS
    Joins,      \* how often the session is joined
    Retries,    \* the retries parameter of RadarWebSocketService.connect()
    NoCall,     \* null
    NoStream    \* null

VARIABLES
    channel, isConnected, call, attempt, closer, closing, overlapped, \* RadarSocket
    session,    \* sessionStateProvider holds a session
    joined,     \* how often it has been joined so far
    lifecycle,  \* RadarWsLifecycle.state: it takes itself for connected
    service,    \* RadarWsLifecycle._wsService is set
    start,      \* where each LocationBroadcaster.start() is; each join has its own broadcaster
    streams,    \* the position streams of the platform that deliver fixes
    current,    \* LocationService._subscription
    hasty,      \* history: a join came before what earlier joins and leaves began was over
    disturbed   \* history: since the last join a dial failed or an open socket ended

\* The call of connect() that each of them makes.
Lifecycle(j) == <<"lifecycle", j>>
Broadcaster(j) == <<"broadcaster", j>>
Blips == <<"blips", 0>>
Calls == ({"lifecycle", "broadcaster"} \X (1..Joins)) \cup {Blips}

ASSUME MobileAssumption ==
    /\ Joins \in Nat \ {0}
    /\ Retries \in Nat \ {0}
    /\ NoCall \notin Calls
    /\ NoStream \notin 1..Joins

Socket == INSTANCE RadarSocket WITH Closers <- 1..Joins

socket == <<channel, isConnected, call, attempt, closer, closing, overlapped>>
vars == <<channel, isConnected, call, attempt, closer, closing, overlapped, session, joined,
          lifecycle, service, start, streams, current, hasty, disturbed>>

Stages == {"idle", "stopping", "logging", "connecting", "starting", "listening"}

Init ==
    /\ Socket!Init
    /\ session = FALSE
    /\ joined = 0
    /\ lifecycle = FALSE
    /\ service = FALSE
    /\ start = [j \in 1..Joins |-> "idle"]
    /\ streams = {}
    /\ current = NoStream
    /\ hasty = FALSE
    /\ disturbed = FALSE

--------------------------------------------------------------------------------
\* Nothing that was begun is still under way.
Settled ==
    /\ ~Socket!SomethingPending
    /\ \A j \in 1..Joins : start[j] \in {"idle", "listening"}

Stage(j, label) == start' = [start EXCEPT ![j] = label]

\* A slip that HeardAgain catches: nothing follows a connect() that found the
\* socket up.
ContinueIfDialed(k) ==
    LET over == call'[k] \in {"open", "failed"}
    IN  /\ lifecycle' = (lifecycle \/ \E j \in 1..Joins : k = Lifecycle(j) /\ call'[k] = "open")
        /\ IF \E j \in 1..Joins : k = Broadcaster(j)
           THEN /\ Stage(k[2], IF over THEN "starting" ELSE "connecting")
                /\ streams' = IF over THEN streams \ {current} ELSE streams
           ELSE UNCHANGED <<start, streams>>

\* What follows the await of connect(): RadarWsLifecycle notes its success;
\* LocationBroadcaster, which does not care, has LocationService cancel its stream.
Continue(k) ==
    LET over == call'[k] \in Socket!Settled
    IN  /\ lifecycle' = (lifecycle \/ \E j \in 1..Joins :
                            k = Lifecycle(j) /\ over /\ call'[k] # "failed")
        /\ IF \E j \in 1..Joins : k = Broadcaster(j)
           THEN /\ Stage(k[2], IF over THEN "starting" ELSE "connecting")
                /\ streams' = IF over THEN streams \ {current} ELSE streams
           ELSE UNCHANGED <<start, streams>>

--------------------------------------------------------------------------------
(* The user.                                                               *)

\* A slip that OneStream catches: LocationService.stop() forgets its stream
\* without cancelling it.
JoinWithoutCancel ==
    /\ ~session /\ joined < Joins
    /\ session' = TRUE
    /\ joined' = joined + 1
    /\ hasty' = (hasty \/ ~Settled)
    /\ disturbed' = FALSE
    /\ \/ lifecycle /\ UNCHANGED <<socket, lifecycle, service>>
       \/ /\ ~lifecycle
          /\ service' = TRUE
          /\ Socket!Connect(Lifecycle(joined'))
          /\ lifecycle' = (call'[Lifecycle(joined')] = "returned")
    /\ Stage(joined', "stopping")
    /\ UNCHANGED <<streams, current>>

\* The session is set: RadarWsLifecycle.connect() unless it takes itself for
\* connected, and start() of a new broadcaster, which stops the LocationService.
Join ==
    /\ ~session /\ joined < Joins
    /\ session' = TRUE
    /\ joined' = joined + 1
    /\ hasty' = (hasty \/ ~Settled)
    /\ disturbed' = FALSE
    /\ \/ lifecycle /\ UNCHANGED <<socket, lifecycle, service>>
       \/ /\ ~lifecycle
          /\ service' = TRUE
          /\ Socket!Connect(Lifecycle(joined'))
          /\ lifecycle' = (call'[Lifecycle(joined')] = "returned")
    /\ Stage(joined', "stopping")
    /\ streams' = streams \ {current}
    /\ UNCHANGED current

\* The radar is on screen for the first time: its notifier connects, once and for
\* the life of the app.
OpenRadar ==
    /\ session /\ call[Blips] = "idle"
    /\ Socket!Connect(Blips)
    /\ UNCHANGED <<session, joined, lifecycle, service, start, streams, current, hasty, disturbed>>

\* A slip that ImplementsSocket catches: the channel is forgotten and not closed.
LeaveForgets ==
    /\ session
    /\ session' = FALSE
    /\ channel' = NoCall
    /\ isConnected' = FALSE
    /\ lifecycle' = FALSE
    /\ UNCHANGED <<call, attempt, closer, closing, overlapped>>
    /\ UNCHANGED <<joined, service, start, streams, current, hasty, disturbed>>

\* The session is cleared: RadarWsLifecycle.disconnect().  The provider of the
\* broadcaster is null by now, so that stop() is called on nothing.
Leave ==
    /\ session
    /\ session' = FALSE
    /\ IF service
       THEN /\ Socket!Disconnect(joined)
            /\ IF closer'[joined] = "done"
               THEN lifecycle' = FALSE /\ service' = FALSE
               ELSE UNCHANGED <<lifecycle, service>>
       ELSE lifecycle' = FALSE /\ UNCHANGED <<socket, service>>
    /\ UNCHANGED <<joined, start, streams, current, hasty, disturbed>>

--------------------------------------------------------------------------------
(* What runs on.                                                           *)

\* A step of connect() or of its socket.
SocketStep(k) ==
    /\ \/ Socket!Ready(k)
       \/ Socket!Refused(k)
       \/ Socket!Retry(k)
    /\ Continue(k)
    /\ disturbed' = (disturbed \/ call'[k] = "backoff")
    /\ UNCHANGED <<session, joined, service, current, hasty>>

SocketEnds(k) ==
    /\ Socket!StreamEnds(k)
    /\ disturbed' = (disturbed \/ call[k] = "open")
    /\ UNCHANGED <<session, joined, lifecycle, service, start, streams, current, hasty>>

\* RadarWsLifecycle.disconnect() after its await.
LifecycleOver(j) ==
    /\ Socket!Disconnected(j)
    /\ lifecycle' = FALSE
    /\ service' = FALSE
    /\ UNCHANGED <<session, joined, start, streams, current, hasty, disturbed>>

\* A slip that TypeOK catches: the call is not made.
LogOpenedOnly(j) ==
    /\ start[j] = "logging"
    /\ Stage(j, "connecting")
    /\ UNCHANGED <<socket, session, joined, lifecycle, service, streams, current, hasty, disturbed>>

\* start() goes on: the old stream is cancelled and forgotten; the log file is
\* open, and connect() is called; the stream is cancelled once more, and the new
\* one subscribed to.
StreamStopped(j) ==
    /\ start[j] = "stopping"
    /\ current' = NoStream
    /\ Stage(j, "logging")
    /\ UNCHANGED <<socket, session, joined, lifecycle, service, streams, hasty, disturbed>>

LogOpened(j) ==
    /\ start[j] = "logging"
    /\ Socket!Connect(Broadcaster(j))
    /\ Continue(Broadcaster(j))
    /\ UNCHANGED <<session, joined, service, current, hasty, disturbed>>

Listen(j) ==
    /\ start[j] = "starting"
    /\ current' = j
    /\ streams' = streams \cup {j}
    /\ Stage(j, "listening")
    /\ UNCHANGED <<socket, session, joined, lifecycle, service, hasty, disturbed>>

--------------------------------------------------------------------------------
Start(j) == StreamStopped(j) \/ LogOpened(j) \/ Listen(j)

Next ==
    \/ Join \/ OpenRadar \/ Leave
    \/ \E k \in Calls : SocketStep(k) \/ SocketEnds(k)
    \/ \E j \in 1..Joins : LifecycleOver(j) \/ Start(j)

Spec == Init /\ [][Next]_vars

\* Dials and delays end, files and streams open and close, a socket that is being
\* closed does close; nothing is assumed of the user and of open sockets.
FairSpec ==
    /\ Spec
    /\ \A k \in Calls :
          /\ WF_vars(SocketStep(k))
          /\ WF_vars(call[k] = "closing" /\ SocketEnds(k))
    /\ \A j \in 1..Joins : WF_vars(LifecycleOver(j)) /\ WF_vars(Start(j))

--------------------------------------------------------------------------------
(* Properties.                                                             *)

\* Every variable holds a value of its kind, and a broadcaster waits for connect()
\* exactly while the call it made is pending.
TypeOK ==
    /\ Socket!TypeOK
    /\ session \in BOOLEAN
    /\ joined \in 0..Joins
    /\ lifecycle \in BOOLEAN
    /\ service \in BOOLEAN
    /\ start \in [1..Joins -> Stages]
    /\ \A j \in 1..Joins : start[j] = "connecting" <=> call[Broadcaster(j)] \in Socket!Pending
    /\ streams \subseteq 1..Joins
    /\ current \in 1..Joins \cup {NoStream}
    /\ hasty \in BOOLEAN
    /\ disturbed \in BOOLEAN

\* The app keeps one stream of positions at most, the one it can still cancel, and
\* nobody ever stops it on leaving, so the next join has to; that suffices if no
\* join comes before the earlier ones are over.
OneStream == ~hasty => streams \subseteq {current}

\* A fix of the platform would be sent to the server.
Sending ==
    /\ streams # {}
    /\ \E j \in 1..Joins : start[j] = "listening"
    /\ channel # NoCall /\ call[channel] = "open"

\* Once everything is over that a join began, who has joined shares his position,
\* unless a dial failed or a socket ended: whichever of the callers of connect() was
\* answered by the guard, and whichever sockets an earlier leave overlooked.
HeardOnceSettled == session /\ ~hasty /\ ~disturbed /\ Settled => Sending

\* Who joins shares his position, soon, and again on a later join: whichever of
\* the callers of connect() dial, in whichever order they get their sockets and
\* whichever sockets a leave overlooked, if joins wait for the leaves before them,
\* until a dial fails or a socket ends.
HeardAgain ==
    (session /\ ~hasty /\ ~disturbed) ~> (Sending \/ ~session \/ disturbed)

\* The service does all this as the callers of RadarSocket may make it do.
ImplementsSocket == Socket!Spec

(* What the code's comments say, and the code does not do.                 *)

\* "Session ended: stop foreground service, disconnect WS, and stop GPS broadcast":
\* once everything is over that a leave began, no fix is sent any more.
SilentAfterLeave == ~session /\ Settled => ~Sending
================================================================================
