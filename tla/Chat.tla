---------------------------------- MODULE Chat ---------------------------------
(***************************************************************************)
(* Chat, from the app that sends a message to the apps that list it        *)
(* (_handle_chat of services/websocket_service.py, the appends of          *)
(* session_repository.py, and the notifiers of chat_providers.dart), for   *)
(* one session of one process.                                             *)
(*                                                                         *)
(* A user's app may have several sockets up, whose frames all go to the    *)
(* same lists, and the coroutine of a socket that is down may not have     *)
(* noticed.  Registration and clean-up are what they do to the registry;   *)
(* RadarRoom has their other steps.  A step is one Redis pipeline, one     *)
(* send, or what a coroutine does between two awaits.  The echo of a DM to *)
(* its sender is left out: the sender's app ignores what it sent itself,   *)
(* and lists it when it sends it.                                          *)
(***************************************************************************)
EXTENDS ConnectionManager, SequencesExt

CONSTANTS
    All,        \* the group chat
    MaxSends,   \* messages each user sends
    MaxChat,    \* MAX_CHAT_MESSAGES
    MaxFaults   \* pipelines that raise plus process restarts

\* The apps never dial without a token.
ASSUME ChatAssumption ==
    /\ UserOf \in [Conns -> Users]
    /\ All \notin Users
    /\ MaxSends \in [Users -> Nat]
    /\ MaxChat \in Nat \ {0}
    /\ MaxFaults \in Nat

VARIABLES
    open,       \* the client's end of a connection is up
    pc,         \* where each connection's coroutine is
    todo,       \* the sockets it has still to send its message to
    message,    \* that message
    outbox,     \* the messages on their way from the client to the coroutine
    count,      \* how many messages the client has sent on each connection
    budget,     \* messages each user may still send
    stored,     \* Redis: the list of each chat
    opened,     \* the chats each app has had on screen, which are the ones it keeps
    chats,      \* what each app lists of others in each chat, and the socket it came through
    faults      \* history: faults so far

vars == <<room, tokenMap, open, pc, todo, message, outbox, count, budget, stored,
          opened, chats, faults>>

\* The nth message a client sends on a connection.
Messages == [via : Conns, n : Nat \ {0}, to : Users \cup {All}]
NoMessage == [n |-> 0]

\* What an app appends to a list when a message arrives.
Entries == [message : Messages, through : Conns]

\* A chat's key in Redis: that of two users does not depend on their order.
Keys == {{u, v} : u, v \in Users} \cup {All}
KeyOf(m) == IF m.to = All THEN All ELSE {UserOf[m.via], m.to}

Pc == {"idle", "accepted", "serve", "sending", "closed"}

Init ==
    /\ RegistryInit
    /\ open = [c \in Conns |-> FALSE]
    /\ pc = [c \in Conns |-> "idle"]
    /\ todo = [c \in Conns |-> {}]
    /\ message = [c \in Conns |-> NoMessage]
    /\ outbox = [c \in Conns |-> <<>>]
    /\ count = [c \in Conns |-> 0]
    /\ budget = MaxSends
    /\ stored = [k \in Keys |-> <<>>]
    /\ opened = [u \in Users |-> {}]
    /\ chats = [u \in Users |-> [k \in Users \cup {All} |-> <<>>]]
    /\ faults = 0

--------------------------------------------------------------------------------
(* Pieces of actions.                                                      *)

Goto(c, label) == pc' = [pc EXCEPT ![c] = label]

Fault == faults < MaxFaults /\ faults' = faults + 1

\* A slip that TypeOK catches: the list is not trimmed.
AppendUntrimmed(k, m) == stored' = [stored EXCEPT ![k] = Append(@, m)]

\* RPUSH and LTRIM in one transaction.
AppendTrimmed(k, m) ==
    LET list == Append(stored[k], m)
    IN  stored' = [stored EXCEPT ![k] =
            SubSeq(list, IF Len(list) > MaxChat THEN Len(list) - MaxChat + 1 ELSE 1, Len(list))]

\* The app of connection d receives m: it lists the messages of others, in the
\* chats that have been on screen, also when they came through another socket.
Receive(d, m) ==
    LET u == UserOf[d]
        from == UserOf[m.via]
        k == IF m.to = All THEN All ELSE from
    IN  chats' = IF open[d] /\ from # u /\ m.to \in {All, u} /\ k \in opened[u]
                 THEN [chats EXCEPT ![u][k] = Append(@, [message |-> m, through |-> d])]
                 ELSE chats

\* The coroutine of c has its message still to send to the sockets in to; then it
\* is back at receive_text.
Broadcast(c, to) ==
    /\ todo' = [todo EXCEPT ![c] = to]
    /\ Goto(c, IF to = {} THEN "serve" ELSE "sending")

--------------------------------------------------------------------------------
(* Connections.                                                            *)

\* The app dials, and the handshake completes.  Several connect() of one app may be
\* pending at once, and each keeps the socket it gets.
Dial(c) ==
    /\ pc[c] = "idle"
    /\ open' = [open EXCEPT ![c] = TRUE]
    /\ Goto(c, "accepted")
    /\ UNCHANGED <<registry, todo, message, outbox, count, budget, stored, opened, chats, faults>>

Register(c) ==
    /\ pc[c] = "accepted"
    /\ Connect(c)
    /\ Goto(c, "serve")
    /\ UNCHANGED <<open, todo, message, outbox, count, budget, stored, opened, chats, faults>>

\* The app closes the socket or the network drops it; what is on its way to the
\* server may still arrive, or may be lost.
Drop(c) ==
    /\ open[c]
    /\ open' = [open EXCEPT ![c] = FALSE]
    /\ \E kept \in 0..Len(outbox[c]) : outbox' = [outbox EXCEPT ![c] = SubSeq(@, 1, kept)]
    /\ UNCHANGED <<registry, pc, todo, message, count, budget, stored, opened, chats, faults>>

\* The coroutine has read all there was and notices that the socket is down.
ReceiveDisconnect(c) ==
    /\ pc[c] = "serve" /\ ~open[c] /\ outbox[c] = <<>>
    /\ Disconnect(c)
    /\ Goto(c, "closed")
    /\ UNCHANGED <<open, todo, message, outbox, count, budget, stored, opened, chats, faults>>

--------------------------------------------------------------------------------
(* The app.                                                                *)

\* The group chat, or the chat with one peer, is on screen for the first time:
\* its notifier exists from then on.
OpenChat(u, k) ==
    /\ k \notin opened[u] \cup {u}
    /\ opened' = [opened EXCEPT ![u] = @ \cup {k}]
    /\ UNCHANGED <<registry, open, pc, todo, message, outbox, count, budget, stored, chats, faults>>

\* A message goes to the socket that the app took last, which may be any of those that
\* are up; when the app has none, or the end of another one has cleared it, the message
\* is lost, although the sender's own list has it.  (RadarSocket has which socket that is.)
SendMessage(u, k) ==
    /\ k \in opened[u] /\ budget[u] > 0
    /\ budget' = [budget EXCEPT ![u] = @ - 1]
    /\ \/ UNCHANGED <<outbox, count>>
       \/ \E c \in Conns :
          /\ open[c] /\ UserOf[c] = u
          /\ count' = [count EXCEPT ![c] = @ + 1]
          /\ outbox' = [outbox EXCEPT ![c] = Append(@, [via |-> c, n |-> count[c] + 1, to |-> k])]
    /\ UNCHANGED <<registry, open, pc, todo, message, stored, opened, chats, faults>>

--------------------------------------------------------------------------------
(* The coroutine.                                                          *)

\* A slip that DmRouted catches: a DM is sent to the room, for the apps to sort out.
AudienceRoom(m) == RoomConnections

\* The sockets a message goes to: the room, or the one entry of the token.
Audience(m) == IF m.to = All THEN RoomConnections ELSE {tokenMap[m.to]} \ {None}

\* A slip that StoredFirst catches: a message is sent before it is stored.
StoreLater(c) ==
    /\ pc[c] = "serve" /\ outbox[c] # <<>>
    /\ outbox' = [outbox EXCEPT ![c] = Tail(@)]
    /\ message' = [message EXCEPT ![c] = Head(outbox[c])]
    /\ Broadcast(c, Audience(Head(outbox[c])))
    /\ UNCHANGED <<registry, open, count, budget, stored, opened, chats, faults>>

\* The next message is read and stored; the recipients are looked up right after.
\* When the pipeline raises, executed or not, the connection ends.
StoreMessage(c) ==
    /\ pc[c] = "serve" /\ outbox[c] # <<>>
    /\ outbox' = [outbox EXCEPT ![c] = Tail(@)]
    /\ LET m == Head(outbox[c])
       IN  \/ /\ AppendTrimmed(KeyOf(m), m)
              /\ message' = [message EXCEPT ![c] = m]
              /\ Broadcast(c, Audience(m))
              /\ UNCHANGED <<registry, open, faults>>
           \/ /\ Fault
              /\ AppendTrimmed(KeyOf(m), m) \/ UNCHANGED stored
              /\ Disconnect(c)
              /\ open' = [open EXCEPT ![c] = FALSE]
              /\ Goto(c, "closed")
              /\ UNCHANGED <<message, todo>>
    /\ UNCHANGED <<count, budget, opened, chats>>

\* A slip that Delivered catches: an error ends the round of sends.
SendOrStop(c) ==
    /\ \E d \in todo[c] :
          /\ Receive(d, message[c])
          /\ Broadcast(c, IF open[d] THEN todo[c] \ {d} ELSE {})
    /\ UNCHANGED <<registry, open, message, outbox, count, budget, stored, opened, faults>>

\* A slip that InOrder catches: a send is repeated.
SendTwice(c) ==
    /\ \E d \in todo[c] :
          /\ Receive(d, message[c])
          /\ \/ Broadcast(c, todo[c] \ {d})
             \/ open[d] /\ Broadcast(c, todo[c])
    /\ UNCHANGED <<registry, open, message, outbox, count, budget, stored, opened, faults>>

\* One send; to a socket that is down it raises, and the error is swallowed.
Send(c) ==
    /\ \E d \in todo[c] :
          /\ Receive(d, message[c])
          /\ Broadcast(c, todo[c] \ {d})
    /\ UNCHANGED <<registry, open, message, outbox, count, budget, stored, opened, faults>>

\* The process is killed and started again: sockets, coroutines and registry are
\* gone, the lists stay.
Restart ==
    /\ Fault
    /\ room' = {}
    /\ tokenMap' = [u \in Users |-> None]
    /\ open' = [c \in Conns |-> FALSE]
    /\ pc' = [c \in Conns |-> IF pc[c] = "idle" THEN "idle" ELSE "closed"]
    /\ todo' = [c \in Conns |-> {}]
    /\ outbox' = [c \in Conns |-> <<>>]
    /\ UNCHANGED <<message, count, budget, stored, opened, chats>>

--------------------------------------------------------------------------------
\* The steps a coroutine takes without waiting for its client.
Run(c) == Register(c) \/ StoreMessage(c) \/ Send(c) \/ ReceiveDisconnect(c)

Next ==
    \/ \E c \in Conns : Run(c) \/ Dial(c) \/ Drop(c)
    \/ \E u \in Users, k \in Users \cup {All} : OpenChat(u, k) \/ SendMessage(u, k)
    \/ Restart

Spec == Init /\ [][Next]_vars

\* The event loop is fair to every coroutine, and Redis pipelines and sends
\* complete or raise; nothing is assumed of users and networks.
FairSpec == Spec /\ \A c \in Conns : WF_vars(Run(c))

--------------------------------------------------------------------------------
(* Properties.                                                             *)

ConnType ==
    /\ open \in [Conns -> BOOLEAN]
    /\ pc \in [Conns -> Pc]
    /\ todo \in [Conns -> SUBSET Conns]
    /\ \A c \in Conns : todo[c] # {} <=> pc[c] = "sending"
    /\ message \in [Conns -> Messages \cup {NoMessage}]
    /\ \A c \in Conns : pc[c] = "sending" => message[c] \in Messages

SentType ==
    /\ outbox \in [Conns -> Seq(Messages)]
    /\ count \in [Conns -> Nat]
    /\ \A u \in Users : budget[u] \in 0..MaxSends[u]

StoredType ==
    /\ stored \in [Keys -> Seq(Messages)]
    /\ \A k \in Keys : Len(stored[k]) <= MaxChat

AppType ==
    /\ opened \in [Users -> SUBSET (Users \cup {All})]
    /\ chats \in [Users -> [Users \cup {All} -> Seq(Entries)]]

\* Every variable holds a value of its kind, and no list is longer than its limit.
TypeOK ==
    /\ RegistryTypeOK /\ ConnType /\ SentType /\ StoredType /\ AppType
    /\ faults \in 0..MaxFaults

\* What an app lists of others is in the stored history of its chat, unless so
\* many messages were stored since that it has been trimmed away: a message whose
\* pipeline failed is shown to nobody, and a killed process takes none with it.
StoredFirst ==
    \A u \in Users, k \in Users \cup {All} : \A e \in Range(chats[u][k]) :
        LET m == e.message
        IN  \/ m \in Range(stored[KeyOf(m)])
            \/ /\ Len(stored[KeyOf(m)]) = MaxChat
               /\ \A x \in Range(stored[KeyOf(m)]) : x.via = m.via => x.n > m.n

\* A DM is on its way to nobody but its addressee, however connections of the
\* users come and go between the message, its storage and its delivery.
DmRouted ==
    \A c \in Conns : \A d \in todo[c] :
        /\ UserOf[message[c].via] = UserOf[c]
        /\ message[c].to = All \/ UserOf[d] = message[c].to

\* An app with several sockets lists a group message once for each of them that was in
\* the room, but a DM only once: the registry has one socket of its addressee.
DmListedOnce ==
    \A u \in Users, k \in Users \cup {All} : \A i, j \in DOMAIN chats[u][k] :
        i # j /\ chats[u][k][i].message = chats[u][k][j].message
            => /\ k = All
               /\ chats[u][k][i].through # chats[u][k][j].through

\* What one client sends on one connection comes to each socket of everyone else, for the
\* chat of the group and those of its peers, in the order in which it was sent, nothing
\* twice and nothing before it was sent.
\* (A list with a repetition counts as one that went back to its beginning.)
LastOf(list, c, d) ==
    LET own == {i \in DOMAIN list : list[i].message.via = c /\ list[i].through = d}
    IN  IF own = {} \/ \E i, j \in own : i # j /\ list[i] = list[j]
        THEN 0 ELSE list[Max(own)].message.n
Inlets == Conns \X (Users \cup {All})
Listed == [l \in Inlets |-> [c \in Conns |-> LastOf(chats[UserOf[l[1]]][l[2]], c, l[1])]]
Frames == INSTANCE LossyFifo WITH
    Senders <- Conns,
    Readers <- Inlets,
    sent <- count,
    seen <- Listed
InOrder == Frames!Spec

\* A group message sent on a connection that stays up reaches every socket of others that
\* was in the room and stays, whoever else comes and goes meanwhile, if the member's
\* app has had the group chat on screen.
Delivered ==
    \A c, d \in Conns : \A n \in 1..MaxSends[UserOf[c]] :
        LET m == [via |-> c, n |-> n, to |-> All]
        IN  (/\ m \in Range(outbox[c])
             /\ d \in room /\ UserOf[d] # UserOf[c] /\ All \in opened[UserOf[d]])
            ~> \/ [message |-> m, through |-> d] \in Range(chats[UserOf[d]][All])
               \/ ~open[c] \/ ~open[d]
================================================================================
