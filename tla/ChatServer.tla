----------------------------- MODULE ChatServer -----------------------------
(***************************************************************************)
(* The chat server: the Netty handlers of a channel (UserAuthHandler,      *)
(* MessageHandler), the two scheduled tasks of QuarkChatServer and the     *)
(* connections' own life, over the operations of ChannelManager.           *)
(*                                                                         *)
(* An event of a channel (a frame, an idle timeout, an error, the          *)
(* channel's deregistration) is handled when the executor of the channel   *)
(* is free; frames that were read before the connection went down may      *)
(* still be handled after it, until the deregistration.  What a client     *)
(* sends and when it disappears is arbitrary.  A write is delivered when   *)
(* it is made: writes of one thread to one channel stay in order.          *)
(***************************************************************************)
EXTENDS ChannelManager

CONSTANTS Request,   \* what the clients of a run send
          MaxLogin,  \* bound: successful authentications of one channel
          MaxChat    \* bound: chat messages of one channel

ASSUME ServerAssumption ==
  /\ Request \subseteq {"upgrade", "unsupported", "plain", "auth", "refused",
                        "chat", "pong", "bad", "close", "idle", "io"}
  /\ MaxLogin \in Nat
  /\ MaxChat \in Nat

VARIABLES
  handshaker,  \* the handshaker field of the one UserAuthHandler is not null
  stage,       \* the codecs in the pipeline of the channel: HTTP or websocket
  registered,  \* its deregistration has not been handled yet
  logins,      \* how often it authenticated
  sent         \* how many chat messages it broadcast

serverVars == <<handshaker, stage, registered, logins, sent>>
vars == <<managerVars, serverVars>>

Init ==
  /\ ManagerInit
  /\ handshaker = FALSE
  /\ stage = [c \in Channel |-> "http"]
  /\ registered = [c \in Channel |-> TRUE]
  /\ logins = [c \in Channel |-> 0]
  /\ sent = [c \in Channel |-> 0]

\* The executor of c is free and takes an event of the kind r.
Takes(c, r) ==
  /\ r \in Request
  /\ pc[c] = "idle"
  /\ registered[c]

TakesFrame(c, r) == Takes(c, r) /\ stage[c] = "websocket"

-----------------------------------------------------------------------------
(* handleHttpRequest.  The handshaker is a field of a handler that all      *)
(* channels share, tested and used in steps of their own.                   *)

PlainRequest(c) ==
  /\ Takes(c, "plain")
  /\ stage[c] = "http"
  /\ closing' = [closing EXCEPT ![c] = TRUE]
  /\ UNCHANGED <<registry, rwLock, open, thread, client, serverVars>>

\* newHandshaker gives null for a websocket version it does not know.
Upgrade(c) ==
  /\ stage[c] = "http"
  /\ \/ Takes(c, "upgrade") /\ handshaker' = TRUE
     \/ Takes(c, "unsupported") /\ handshaker' = FALSE
  /\ Goto(c, "hsTest")
  /\ UNCHANGED <<registry, rwLock, connection, ret, todo, arg, scanned, catching,
                 client, stage, registered, logins, sent>>

HandshakerTest(c) ==
  /\ pc[c] = "hsTest"
  /\ Goto(c, IF handshaker THEN "hsUse" ELSE "idle")
  /\ UNCHANGED <<registry, rwLock, connection, ret, todo, arg, scanned, catching,
                 client, serverVars>>

Handshake(c) ==
  /\ pc[c] = "hsUse"
  /\ IF handshaker
     THEN /\ stage' = [stage EXCEPT ![c] = "websocket"]
          /\ Goto(c, "add")
          /\ UNCHANGED <<arg, catching>>
     ELSE /\ Throw(c, "null")
          /\ UNCHANGED stage
  /\ UNCHANGED <<registry, rwLock, connection, ret, todo, scanned, client,
                 handshaker, registered, logins, sent>>

-----------------------------------------------------------------------------
(* handleWebSocket and MessageHandler.channelRead0.  Control pings and      *)
(* frames of a wrong magic or an unknown type change no state.              *)

CloseFrame(c) ==
  /\ TakesFrame(c, "close")
  /\ IF handshaker
     THEN /\ closing' = [closing EXCEPT ![c] = TRUE]
          /\ CallRemove(c, "idle")
          /\ UNCHANGED <<arg, catching>>
     ELSE /\ Throw(c, "null")
          /\ UNCHANGED <<closing, ret, queue>>
  /\ UNCHANGED <<registry, readers, writer, open, todo, scanned, client, serverVars>>

\* Anything that is not text, a control pong included, and text that is not
\* the JSON of a QuarkClientProtocol.
BadFrame(c) ==
  /\ TakesFrame(c, "bad")
  /\ Throw(c, "frame")
  /\ UNCHANGED <<registry, rwLock, connection, ret, todo, scanned, client,
                 serverVars>>

PongFrame(c) ==
  /\ TakesFrame(c, "pong")
  /\ fresh' = IF c \in chatUserMap THEN [fresh EXCEPT ![c] = TRUE] ELSE fresh
  /\ UNCHANGED <<chatUserMap, hasUser, isAuth, userCount, rwLock, connection,
                 thread, client, serverVars>>

\* authUser up to the map lookup: no session or a disabled account is a
\* failure, broadcast at once; Redis or the database may fail, and a user
\* that is gone from the database is dereferenced.
AuthAccepted(c) ==
  /\ TakesFrame(c, "auth")
  /\ logins[c] < MaxLogin
  /\ logins' = [logins EXCEPT ![c] = @ + 1]
  /\ Goto(c, "authGet")
  /\ UNCHANGED <<registry, rwLock, connection, ret, todo, arg, scanned, catching,
                 client, handshaker, stage, registered, sent>>

AuthRefused(c) ==
  /\ TakesFrame(c, "refused")
  /\ CallBroadcast(c, AuthResult(FALSE), "idle")
  /\ UNCHANGED <<registry, readers, writer, connection, todo, scanned, catching, client,
                 serverVars>>

AuthFails(c) ==
  /\ TakesFrame(c, "refused")
  /\ Throw(c, "service")
  /\ UNCHANGED <<registry, rwLock, connection, ret, todo, scanned, client,
                 serverVars>>

Chat(c) ==
  /\ TakesFrame(c, "chat")
  /\ c \in chatUserMap /\ isAuth[c]
  /\ sent[c] < MaxChat
  /\ sent' = [sent EXCEPT ![c] = @ + 1]
  /\ CallBroadcast(c, ChatMessage(c, sent[c] + 1), "idle")
  /\ UNCHANGED <<registry, readers, writer, connection, todo, scanned, catching, client,
                 handshaker, stage, registered, logins>>

-----------------------------------------------------------------------------
(* The other events of a channel. *)

\* userEventTriggered: READER_IDLE.
ReaderIdle(c) ==
  /\ Takes(c, "idle")
  /\ CallRemove(c, "users")
  /\ UNCHANGED <<registry, readers, writer, connection, todo, arg, scanned, catching,
                 client, serverVars>>

IOError(c) ==
  /\ Takes(c, "io")
  /\ Throw(c, "io")
  /\ UNCHANGED <<registry, rwLock, connection, ret, todo, scanned, client,
                 serverVars>>

ExceptionCaught(c) ==
  /\ pc[c] = "except"
  /\ catching' = catching \cup {c}
  /\ CallRemove(c, "users")
  /\ UNCHANGED <<registry, readers, writer, connection, todo, arg, scanned, client,
                 serverVars>>

ChannelUnregistered(c) ==
  /\ ~open[c]
  /\ pc[c] = "idle"
  /\ registered[c]
  /\ registered' = [registered EXCEPT ![c] = FALSE]
  /\ CallRemove(c, "users")
  /\ UNCHANGED <<registry, readers, writer, connection, todo, arg, scanned, catching,
                 client, handshaker, stage, logins, sent>>

-----------------------------------------------------------------------------
(* The scheduled tasks, and what happens to a connection. *)

ScanStart ==
  /\ Scanner \in Task
  /\ pc[Scanner] = "idle"
  /\ todo' = [todo EXCEPT ![Scanner] = chatUserMap]
  /\ Goto(Scanner, "scan")
  /\ UNCHANGED <<registry, rwLock, connection, ret, arg, scanned, catching, client,
                 serverVars>>

PingStart ==
  /\ Pinger \in Task
  /\ pc[Pinger] = "idle"
  /\ CallBroadcast(Pinger, Ping, "idle")
  /\ UNCHANGED <<registry, readers, writer, connection, todo, scanned, catching, client,
                 serverVars>>

\* The peer goes away, and its page with it, at any time, or a close() that was
\* asked for completes.
Disconnect(c) ==
  /\ open[c]
  /\ open' = [open EXCEPT ![c] = FALSE]
  /\ client' = [client EXCEPT ![c] = NoPage]
  /\ UNCHANGED <<registry, rwLock, closing, thread, serverVars>>

CloseCompletes(c) == closing[c] /\ Disconnect(c)

\* Ten seconds pass without a sign of life.
Age(c) ==
  /\ fresh[c]
  /\ fresh' = [fresh EXCEPT ![c] = FALSE]
  /\ UNCHANGED <<chatUserMap, hasUser, isAuth, userCount, rwLock, connection,
                 thread, client, serverVars>>

-----------------------------------------------------------------------------
Event(c) ==
  \/ PlainRequest(c) \/ Upgrade(c) \/ CloseFrame(c) \/ BadFrame(c) \/ PongFrame(c)
  \/ AuthAccepted(c) \/ AuthRefused(c) \/ AuthFails(c) \/ Chat(c)
  \/ ReaderIdle(c) \/ IOError(c) \/ Disconnect(c)

\* What a thread does once it has begun to handle an event or a task.
HandlerStep(c) == HandshakerTest(c) \/ Handshake(c) \/ ExceptionCaught(c)

Run(t) ==
  \/ ManagerStep(t) /\ UNCHANGED serverVars
  \/ t \in Channel /\ HandlerStep(t)

Next ==
  \/ \E t \in Thread : Run(t)
  \/ \E c \in Channel : Event(c) \/ ChannelUnregistered(c) \/ Age(c)
  \/ ScanStart
  \/ PingStart

\* Threads run, a close completes, time passes and the tasks are scheduled
\* again and again.  A closed channel is deregistered, after the frames read
\* before, and these are finitely many: strong fairness.  Nothing is assumed of
\* the clients.
Fairness ==
  /\ \A t \in Thread : WF_vars(Run(t))
  /\ \A c \in Channel : /\ WF_vars(CloseCompletes(c))
                        /\ SF_vars(ChannelUnregistered(c))
                        /\ WF_vars(Age(c))
  /\ WF_vars(ScanStart)
  /\ WF_vars(PingStart)

Spec == Init /\ [][Next]_vars
FairSpec == Spec /\ Fairness

-----------------------------------------------------------------------------
(* Safety. *)

\* Every variable has the values the code can give it; userCount is an
\* integer and not a natural: a channel that is removed between setAuth and
\* incrementAndGet is discounted before it is counted.
TypeOK ==
  /\ chatUserMap \subseteq Channel
  /\ hasUser \in [Channel -> BOOLEAN]
  /\ isAuth \in [Channel -> BOOLEAN]
  /\ fresh \in [Channel -> BOOLEAN]
  /\ userCount \in Int
  /\ readers \subseteq Thread
  /\ writer \in Thread \cup {NoThread}
  /\ queue \in Seq(Thread)
  /\ open \in [Channel -> BOOLEAN]
  /\ closing \in [Channel -> BOOLEAN]
  /\ pc \in [Thread -> Location]
  /\ ret \in [Thread -> {"idle", "users", "scan"}]
  /\ todo \in [Thread -> SUBSET Channel]
  /\ arg \in [Thread -> Message]
  /\ scanned \in Channel \cup {NoThread}
  /\ catching \subseteq Channel
  /\ client \in [Channel -> Page]
  /\ handshaker \in BOOLEAN
  /\ stage \in [Channel -> {"http", "websocket"}]
  /\ registered \in [Channel -> BOOLEAN]
  /\ logins \in [Channel -> Nat]
  /\ sent \in [Channel -> Nat]

Authenticated == {c \in chatUserMap : isAuth[c]}

\* The channels whose authentication is done but for the increment, and the
\* one whose removal is done but for the decrement.
Counting == {c \in Channel : pc[c] = "count"}
Discounted(c) == \E t \in Thread : pc[t] = "rCount" /\ Victim(t) = c
Uncounting == {c \in Channel : isAuth[c] /\ Discounted(c)}

\* The counter never falls short of the authenticated channels of the map by
\* more than the increments still on their way: however authentications,
\* repeated ones included, interleave with removals of the same channel by its
\* own executor and by the scan, no channel is discounted twice or without
\* having been authenticated (authUser, removeChannel).
CountCoversAuthenticated ==
  Cardinality(Authenticated) <= userCount + Cardinality(Counting)

\* A broadcast never comes across a key without its ChatUser, although it
\* reads keys and values one after the other: removals wait for it
\* (broadMessage and broadPing against removeChannel).
BroadcastSeesLiveEntries ==
  \A t \in Thread : pc[t] = "bIter" => todo[t] \subseteq chatUserMap

\* No websocket connection is forgotten while it is still up: one that has
\* been upgraded and that the map no longer holds has been told to close,
\* whoever removed it (removeChannel closes before it removes).
NoOrphanSocket ==
  \A c \in Channel : stage[c] = "websocket" /\ pc[c] # "add" /\ c \notin chatUserMap
                        => closing[c]

\* A page that has received a message of a sender receives the next ones of
\* this sender in the order they were sent and without a gap, as long as it
\* receives any: broadcasts wait for removals instead of being dropped, and a
\* page hears nothing again after its removal (MessageHandler, broadMessage).
NoChatSkipped ==
  [][\A to, from \in Channel :
       LET before == client[to].heard[from]   \* 0: none, or the page is gone
           after == client'[to].heard[from]
       IN  before # 0 /\ after \notin {0, before} => after = before + 1]_vars

-----------------------------------------------------------------------------
(* Liveness. *)

\* A connection that went down leaves the map for good, even if its upgrade is
\* handled after it went down (addChannel only logs that the channel is not
\* active; channelUnregistered and the scan remove it).
ClosedIsForgotten ==
  \A c \in Channel : ~open[c] ~> [](c \notin chatUserMap)

\* A channel that neither authenticates nor sends a pong does not stay in the
\* map (scanNotActiveChannel).
SilentStrangerSwept ==
  \A c \in Channel : []<>(c \notin chatUserMap \/ isAuth[c] \/ fresh[c])

\* Every handler and every run of a task comes to its end: nobody waits for the
\* lock for ever, and an exception ends in exceptionCaught.
HandlersFinish ==
  \A t \in Thread : []<>(pc[t] = "idle")

-----------------------------------------------------------------------------
(* What the comments say, and the code does not do. *)

\* Nothing is under way.
Quiet ==
  /\ \A t \in Thread : pc[t] = "idle"
  /\ \A c \in Channel : registered[c] => open[c] /\ ~closing[c]

\* "One authenticated user more", "one authenticated user less"
\* (ChannelManager.java:69, :87): with nothing under way, the counter is the
\* number of authenticated channels of the map.
CountIsExact == Quiet => userCount = Cardinality(Authenticated)

\* "Broadcast the number of users" (UserAuthHandler.java:76): with nothing under
\* way, the users that every authenticated page shows are those that are there.
ListIsCurrent ==
  Quiet => \A c \in Authenticated : client[c].users \ {NoUser} = Authenticated

\* "Netty I/O exception event" (MessageHandler.java:58): an authenticated
\* connection that is up is thrown out by exceptionCaught for an error of its
\* own, never because another one left.
EvictedForOwnFault ==
  \A c \in Authenticated :
    pc[c] = "except" /\ open[c] /\ ~closing[c] => arg[c] # Thrown("null")
=============================================================================
