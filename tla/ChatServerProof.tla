--------------------------- MODULE ChatServerProof --------------------------
(***************************************************************************)
(* The safety of the chat server for any finite set of channels, with or   *)
(* without the two scheduled tasks, proved with TLAPS.                     *)
(***************************************************************************)
EXTENDS ChatServer, FiniteSetTheorems, TLAPS

UsersMessage == [kind : {"users"}, users : SUBSET (Channel \cup {NoUser})]

\* A thread in getUsers is building a list of users.
ArgInv == \A t \in Thread : pc[t] = "users" => arg[t] \in UsersMessage

TypeInv == TypeOK /\ ArgInv

-----------------------------------------------------------------------------
(* The constructors of messages, and what a page does with one. *)

LEMMA MessageTypes ==
  /\ Nothing \in Message
  /\ Ping \in Message
  /\ AuthResult(TRUE) \in Message /\ AuthResult(FALSE) \in Message
  /\ \A c \in Channel, n \in Nat : ChatMessage(c, n) \in Message
  /\ \A cause \in Cause : Thrown(cause) \in Message
  /\ UsersMessage \subseteq Message
  /\ SysUserInfo({}) \in UsersMessage
BY DEF Nothing, Ping, AuthResult, ChatMessage, Thrown, SysUserInfo, Message,
       UsersMessage

LEMMA NoPageType == NoPage \in Page
BY DEF NoPage, Page

LEMMA UsersGrow ==
  ASSUME NEW m \in UsersMessage, NEW u \in Channel \cup {NoUser}
  PROVE  [m EXCEPT !.users = @ \cup {u}] \in UsersMessage
BY DEF UsersMessage

LEMMA ReceivedType ==
  ASSUME NEW page \in Page, NEW m \in Message
  PROVE  Received(page, m) \in Page
<1>1. CASE m.kind \notin Observed
  BY <1>1 DEF Received
<1>2. CASE m.kind \in Observed /\ m.kind = "auth"
  BY <1>2 DEF Received, Page, Message
<1>3. CASE m.kind \in Observed /\ m.kind = "users"
  <2>1. m.users \in SUBSET (Channel \cup {NoUser})
    BY <1>3 DEF Message
  <2> QED BY <1>3, <2>1 DEF Received, Page
<1>4. CASE m.kind \in Observed /\ m.kind = "chat"
  <2>1. m.from \in Channel /\ m.n \in Nat
    BY <1>4 DEF Message
  <2> QED BY <1>4, <2>1 DEF Received, Page
<1>5. CASE m.kind \in Observed /\ m.kind \notin {"auth", "users", "chat"}
  BY <1>5 DEF Received
<1> QED BY <1>1, <1>2, <1>3, <1>4, <1>5
-----------------------------------------------------------------------------
(* What a call and an exception do to the types. *)

LEMMA CallTypes ==
  ASSUME TypeInv, NEW t \in Thread, NEW l \in {"idle", "users", "scan"}
  PROVE  /\ CallRemove(t, l)
              => /\ pc' \in [Thread -> Location]
                 /\ ret' \in [Thread -> {"idle", "users", "scan"}]
                 /\ queue' \in Seq(Thread)
                 /\ arg' = arg => ArgInv'
         /\ \A m \in Message : CallBroadcast(t, m, l)
              => /\ pc' \in [Thread -> Location]
                 /\ ret' \in [Thread -> {"idle", "users", "scan"}]
                 /\ queue' \in Seq(Thread)
                 /\ arg' \in [Thread -> Message]
                 /\ ArgInv'
<1>1. ASSUME CallRemove(t, l)
      PROVE  /\ pc' \in [Thread -> Location]
             /\ ret' \in [Thread -> {"idle", "users", "scan"}]
             /\ queue' \in Seq(Thread)
             /\ arg' = arg => ArgInv'
  BY <1>1 DEF TypeInv, TypeOK, ArgInv, CallRemove, Goto, Location
<1>2. ASSUME NEW m \in Message, CallBroadcast(t, m, l)
      PROVE  /\ pc' \in [Thread -> Location]
             /\ ret' \in [Thread -> {"idle", "users", "scan"}]
             /\ queue' \in Seq(Thread)
             /\ arg' \in [Thread -> Message]
             /\ ArgInv'
  BY <1>2 DEF TypeInv, TypeOK, ArgInv, CallBroadcast, Goto, Location
<1> QED BY <1>1, <1>2

LEMMA ThrowTypes ==
  ASSUME TypeInv, NEW c \in Channel, NEW cause \in Cause, Throw(c, cause)
  PROVE  /\ pc' \in [Thread -> Location]
         /\ arg' \in [Thread -> Message]
         /\ catching' \subseteq Channel
         /\ ArgInv'
<1>1. c \in Thread
  BY DEF Thread
<1>2. CASE c \in catching
  <2>1. pc' = [pc EXCEPT ![c] = "idle"] /\ arg' = [arg EXCEPT ![c] = Nothing]
        /\ catching' \subseteq Channel
    BY <1>2 DEF Throw, Goto, TypeInv, TypeOK
  <2>2. pc' \in [Thread -> Location] /\ arg' \in [Thread -> Message]
    BY <1>1, <2>1, MessageTypes DEF TypeInv, TypeOK, Location
  <2> QED BY <1>1, <2>1, <2>2 DEF TypeInv, TypeOK, ArgInv
<1>3. CASE c \notin catching
  <2>1. pc' = [pc EXCEPT ![c] = "except"] /\ arg' = [arg EXCEPT ![c] = Thrown(cause)]
        /\ catching' \subseteq Channel
    BY <1>3 DEF Throw, Goto, TypeInv, TypeOK
  <2>2. pc' \in [Thread -> Location] /\ arg' \in [Thread -> Message]
    BY <1>1, <2>1, MessageTypes DEF TypeInv, TypeOK, Location
  <2> QED BY <1>1, <2>1, <2>2 DEF TypeInv, TypeOK, ArgInv
<1> QED BY <1>2, <1>3

-----------------------------------------------------------------------------
(* The steps of the manager. *)

LEMMA TypeManager ==
  ASSUME TypeInv, NEW t \in Thread, ManagerStep(t), UNCHANGED serverVars
  PROVE  TypeInv'
<1> USE MessageTypes DEF TypeInv, TypeOK, ArgInv, Goto, registry, rwLock,
        connection, thread, managerVars, serverVars
<1>1. CASE t \in Channel /\ AddChannel(t)
  BY <1>1 DEF AddChannel, Location
<1>2. CASE t \in Channel /\ AuthGet(t)
  BY <1>2 DEF AuthGet, Throw, Location, Cause
<1>3. CASE t \in Channel /\ SetUser(t)
  BY <1>3 DEF SetUser, Location
<1>4. CASE t \in Channel /\ SetAuth(t)
  BY <1>4 DEF SetAuth, Location
<1>5. CASE t \in Channel /\ CountUser(t)
  <2>1. arg' \in [Thread -> Message] /\ ArgInv'
    BY <1>5 DEF CountUser, CallBroadcast
  <2>2. queue' \in Seq(Thread)
    BY <1>5 DEF CountUser, CallBroadcast
  <2>3. /\ pc' \in [Thread -> Location]
        /\ ret' \in [Thread -> {"idle", "users", "scan"}]
        /\ userCount' \in Int
    BY <1>5 DEF CountUser, CallBroadcast, Location
  <2> QED BY <1>5, <2>1, <2>2, <2>3 DEF CountUser
<1>6. CASE LockWrite(t)
  BY <1>6 DEF LockWrite, Granted, Location
<1>7. CASE RemoveEntry(t)
  <2>1. CASE Victim(t) \in chatUserMap
    BY <1>7, <2>1 DEF RemoveEntry, Location
  <2>2. CASE Victim(t) \notin chatUserMap /\ ret[t] = "users"
    <3>1. /\ arg' = [arg EXCEPT ![t] = SysUserInfo({})]
          /\ pc' = [pc EXCEPT ![t] = ret[t]]
      BY <1>7, <2>2 DEF RemoveEntry, UnlockWrite
    <3>3. arg' \in [Thread -> Message] /\ ArgInv'
      BY <3>1
    <3>2. todo' \in [Thread -> SUBSET Channel] /\ chatUserMap' \subseteq Channel
      <4>1. chatUserMap' \subseteq Channel
        BY <1>7 DEF RemoveEntry
      <4>2. todo' = [todo EXCEPT ![t] = chatUserMap']
        BY <1>7, <2>2 DEF RemoveEntry, UnlockWrite
      <4> QED BY <4>1, <4>2
    <3> QED BY <1>7, <2>2, <3>1, <3>2, <3>3 DEF RemoveEntry, UnlockWrite, Location
  <2>3. CASE Victim(t) \notin chatUserMap /\ ret[t] # "users"
    BY <1>7, <2>3 DEF RemoveEntry, UnlockWrite, Location
  <2> QED BY <2>1, <2>2, <2>3
<1>8. CASE Uncount(t)
  <2>1. userCount' \in Int
    BY <1>8 DEF Uncount
  <2>2. CASE ret[t] = "users"
    BY <1>8, <2>1, <2>2 DEF Uncount, UnlockWrite, Location
  <2>3. CASE ret[t] # "users"
    BY <1>8, <2>1, <2>3 DEF Uncount, UnlockWrite, Location
  <2> QED BY <2>2, <2>3
<1>9. CASE LockRead(t)
  BY <1>9 DEF LockRead, Granted, Location
<1>10. ASSUME NEW ch \in Channel, Write(t, ch)
      PROVE  TypeInv'
  <2>1. Received(client[ch], arg[t]) \in Page
    BY <1>10, ReceivedType
  <2>2. client' \in [Channel -> Page]
    BY <1>10, <2>1 DEF Write
  <2> QED BY <1>10, <2>2 DEF Write
<1>11. CASE UnlockRead(t)
  BY <1>11 DEF UnlockRead, Location
<1>12. ASSUME t \in Channel, NEW ch \in Channel, GetUser(t, ch)
      PROVE  TypeInv'
  <2> DEFINE u == IF hasUser[ch] THEN ch ELSE NoUser
  <2>1. arg[t] \in UsersMessage
    BY <1>12 DEF GetUser
  <2>2. [arg[t] EXCEPT !.users = @ \cup {u}] \in UsersMessage
    BY <2>1, UsersGrow
  <2>3. arg' = [arg EXCEPT ![t] = [arg[t] EXCEPT !.users = @ \cup {u}]]
    BY <1>12 DEF GetUser
  <2> HIDE DEF u
  <2> QED BY <1>12, <2>2, <2>3 DEF GetUser, Location
<1>13. ASSUME t \in Channel, NEW ch \in Channel, GetUserGone(t, ch)
      PROVE  TypeInv'
  <2>1. todo' \in [Thread -> SUBSET Channel]
    BY <1>13 DEF GetUserGone
  <2>2. /\ pc' \in [Thread -> Location]
        /\ arg' \in [Thread -> Message]
        /\ catching' \subseteq Channel
        /\ ArgInv'
    <3>1. CASE UNCHANGED <<pc, arg, catching>>
      BY <3>1
    <3>2. CASE Throw(t, "null")
      BY <1>13, <3>2, ThrowTypes DEF Cause
    <3> QED BY <1>13, <3>1, <3>2 DEF GetUserGone
  <2>3. UNCHANGED <<registry, rwLock, connection, ret, scanned, client>>
    BY <1>13 DEF GetUserGone
  <2> QED BY <2>1, <2>2, <2>3
<1>14. CASE t \in Channel /\ GotUsers(t)
  BY <1>14 DEF GotUsers, CallBroadcast, Location
<1>15. ASSUME t = Scanner, NEW ch \in Channel, ScanKey(ch)
      PROVE  TypeInv'
  <2>1. CASE ch \in chatUserMap /\ Expired(ch)
    <3>0. queue' = Append(queue, t)
      BY <1>15, <2>1 DEF ScanKey, CallRemove
    <3>1. queue' \in Seq(Thread)
      BY <3>0
    <3>2. /\ pc' \in [Thread -> Location]
          /\ ret' \in [Thread -> {"idle", "users", "scan"}]
          /\ ArgInv'
      BY <1>15, <2>1 DEF ScanKey, CallRemove, Location
    <3>3. todo' \in [Thread -> SUBSET Channel] /\ scanned' \in Channel \cup {NoThread}
      BY <1>15, <2>1 DEF ScanKey
    <3>4. UNCHANGED <<registry, readers, writer, connection, arg, catching, client>>
      BY <1>15 DEF ScanKey
    <3> QED BY <3>1, <3>2, <3>3, <3>4
  <2>2. CASE ~(ch \in chatUserMap /\ Expired(ch))
    BY <1>15, <2>2 DEF ScanKey, Location
  <2> QED BY <2>1, <2>2
<1>16. CASE t = Scanner /\ ScanEnd
  BY <1>16 DEF ScanEnd, Location
<1> QED
  BY <1>1, <1>2, <1>3, <1>4, <1>5, <1>6, <1>7, <1>8, <1>9, <1>10, <1>11, <1>12, <1>13, <1>14, <1>15, <1>16 DEF ManagerStep
-----------------------------------------------------------------------------
(* The handlers, the tasks and the connections. *)

\* What calls and exceptions do to the state of a thread, whoever makes them.
LEMMA TypeServer ==
  ASSUME TypeInv, NEW c \in Channel,
         Event(c) \/ HandlerStep(c) \/ ChannelUnregistered(c) \/ Age(c)
  PROVE  TypeInv'
<1> c \in Thread
  BY DEF Thread
<1> USE DEF TypeInv, TypeOK, ArgInv, Goto, registry, rwLock, connection, thread,
        managerVars, serverVars
<1>1. CASE PlainRequest(c)
  BY <1>1 DEF PlainRequest
<1>2. CASE Upgrade(c)
  BY <1>2 DEF Upgrade, Takes, Location
<1>3. CASE HandshakerTest(c)
  BY <1>3 DEF HandshakerTest, Location
<1>4. CASE Handshake(c)
  <2>1. CASE handshaker
    BY <1>4, <2>1 DEF Handshake, Location
  <2>2. CASE ~handshaker
    BY <1>4, <2>2, ThrowTypes DEF Handshake, Cause
  <2> QED BY <2>1, <2>2
<1>5. CASE CloseFrame(c)
  <2>1. CASE handshaker
    BY <1>5, <2>1, CallTypes DEF CloseFrame
  <2>2. CASE ~handshaker
    BY <1>5, <2>2, ThrowTypes DEF CloseFrame, Cause
  <2> QED BY <2>1, <2>2
<1>6. CASE BadFrame(c)
  BY <1>6, ThrowTypes DEF BadFrame, Cause
<1>7. CASE PongFrame(c)
  BY <1>7 DEF PongFrame
<1>8. CASE AuthAccepted(c)
  BY <1>8 DEF AuthAccepted, Location
<1>9. CASE AuthRefused(c)
  <2>1. AuthResult(FALSE) \in Message
    BY MessageTypes
  <2> QED BY <1>9, <2>1, CallTypes DEF AuthRefused
<1>10. CASE AuthFails(c)
  BY <1>10, ThrowTypes DEF AuthFails, Cause
<1>11. CASE Chat(c)
  <2>1. ChatMessage(c, sent[c] + 1) \in Message
    BY MessageTypes
  <2> QED BY <1>11, <2>1, CallTypes DEF Chat
<1>12. CASE ReaderIdle(c)
  BY <1>12, CallTypes DEF ReaderIdle
<1>13. CASE IOError(c)
  BY <1>13, ThrowTypes DEF IOError, Cause
<1>14. CASE ExceptionCaught(c)
  BY <1>14, CallTypes DEF ExceptionCaught
<1>15. CASE ChannelUnregistered(c)
  BY <1>15, CallTypes DEF ChannelUnregistered
<1>16. CASE Disconnect(c)
  BY <1>16, NoPageType DEF Disconnect
<1>17. CASE Age(c)
  BY <1>17 DEF Age
<1> QED
  BY <1>1, <1>2, <1>3, <1>4, <1>5, <1>6, <1>7, <1>8, <1>9, <1>10, <1>11, <1>12, <1>13, <1>14, <1>15, <1>16, <1>17
  DEF Event, HandlerStep

LEMMA TypeTasks ==
  ASSUME TypeInv, ScanStart \/ PingStart
  PROVE  TypeInv'
<1> USE DEF TypeInv, TypeOK, ArgInv, Goto, registry, rwLock, connection, thread,
        managerVars, serverVars
<1>1. CASE ScanStart
  <2>1. Scanner \in Thread
    BY <1>1 DEF ScanStart, Thread
  <2> QED BY <1>1, <2>1 DEF ScanStart, Location
<1>2. CASE PingStart
  <2>1. Pinger \in Thread /\ Ping \in Message
    BY <1>2, MessageTypes DEF PingStart, Thread
  <2> QED BY <1>2, <2>1, CallTypes DEF PingStart
<1> QED BY <1>1, <1>2

LEMMA TypeInit == Init => TypeInv
<1> SUFFICES ASSUME Init
             PROVE  TypeInv
  OBVIOUS
<1>1. client \in [Channel -> Page]
  BY NoPageType DEF Init, ManagerInit
<1>2. arg \in [Thread -> Message] /\ ArgInv
  BY MessageTypes DEF Init, ManagerInit, ArgInv
<1>3. pc \in [Thread -> Location] /\ queue \in Seq(Thread)
  BY DEF Init, ManagerInit, Location
<1>4. chatUserMap \subseteq Channel /\ userCount \in Int /\ writer \in Thread \cup {NoThread}
  BY DEF Init, ManagerInit
<1> QED BY <1>1, <1>2, <1>3, <1>4 DEF Init, ManagerInit, TypeInv, TypeOK

LEMMA TypeNext == TypeInv /\ [Next]_vars => TypeInv'
<1> SUFFICES ASSUME TypeInv, [Next]_vars
             PROVE  TypeInv'
  OBVIOUS
<1>1. ASSUME NEW t \in Thread, Run(t)
      PROVE  TypeInv'
  <2>1. CASE ManagerStep(t) /\ UNCHANGED serverVars
    BY <2>1, TypeManager
  <2>2. CASE t \in Channel /\ HandlerStep(t)
    BY <2>2, TypeServer
  <2> QED BY <1>1, <2>1, <2>2 DEF Run
<1>2. ASSUME NEW c \in Channel, Event(c) \/ ChannelUnregistered(c) \/ Age(c)
      PROVE  TypeInv'
  BY <1>2, TypeServer
<1>3. CASE ScanStart \/ PingStart
  BY <1>3, TypeTasks
<1>4. CASE UNCHANGED vars
  BY <1>4 DEF vars, managerVars, serverVars, registry, rwLock, connection, thread,
              TypeInv, TypeOK, ArgInv
<1> QED BY <1>1, <1>2, <1>3, <1>4 DEF Next

\* Every variable keeps its type, for any number of channels (TypeOK).
THEOREM TypeCorrect == Spec => []TypeOK
<1>1. TypeInv => TypeOK
  BY DEF TypeInv
<1> QED BY TypeInit, TypeNext, <1>1, PTL DEF Spec
-----------------------------------------------------------------------------
(* The inductive invariant behind the safety properties. *)

\* The lock: who holds it, seen from the lock and seen from the threads.
LockInv ==
  /\ writer # NoThread => readers = {}
  /\ \A t \in Thread : t \in readers <=> pc[t] = "bIter"
  /\ \A t \in Thread : writer = t <=> pc[t] \in {"rRemove", "rCount"}

\* A channel enters the map once, when its upgrade is done.
EntryInv ==
  \A c \in Channel :
    /\ c \in chatUserMap => stage[c] = "websocket" /\ pc[c] # "add"
    /\ pc[c] \in {"hsTest", "hsUse"} => stage[c] = "http"
    /\ pc[c] = "add" => stage[c] = "websocket"

\* The tasks keep to their operations, and the scan removes a channel.
TaskInv ==
  /\ Pinger \in Thread => /\ pc[Pinger] \in {"idle", "bLock", "bIter"}
                          /\ ret[Pinger] = "idle"
  /\ Scanner \in Thread =>
       /\ pc[Scanner] \in {"idle", "scan", "rLock", "rRemove", "rCount"}
       /\ ret[Scanner] \in {"idle", "scan"}
       /\ pc[Scanner] \in {"rLock", "rRemove", "rCount"} => scanned \in Channel

\* A channel that is removed but not yet discounted is out of the map, and does
\* not come back.
RemovedInv ==
  \A t \in Thread : pc[t] = "rCount" =>
    /\ Victim(t) \in Channel /\ Victim(t) \notin chatUserMap
    /\ stage[Victim(t)] = "websocket" /\ pc[Victim(t)] # "add"

ControlInv == LockInv /\ EntryInv /\ TaskInv /\ RemovedInv

\* Each channel in the map or half removed is covered by the counter, or by an
\* increment on its way.
CountInv ==
  Cardinality(Authenticated) + Cardinality(Uncounting)
    <= userCount + Cardinality(Counting)

SafeInv == ControlInv /\ BroadcastSeesLiveEntries /\ NoOrphanSocket

LEMMA VictimIsChannel ==
  ASSUME TypeInv, TaskInv, NEW t \in Thread,
         pc[t] \in {"rLock", "rRemove", "rCount"}
  PROVE  Victim(t) \in Channel
BY ChannelAssumption DEF TypeInv, TypeOK, TaskInv, Victim, Thread

LEMMA ThrowGoes ==
  ASSUME NEW c \in Channel, NEW cause \in Cause, Throw(c, cause)
  PROVE  \E l \in {"idle", "except"} : Goto(c, l)
BY DEF Throw

\* The executor of a channel moves on without touching the lock, the map or
\* another thread.
LEMMA HandlerMove ==
  ASSUME TypeInv, SafeInv, NEW c \in Channel,
         NEW l \in {"idle", "setUser", "setAuth", "count", "users", "except", "bLock",
                    "rLock", "authGet"},
         pc[c] \notin {"rRemove", "rCount", "bIter", "add"},
         Goto(c, l),
         UNCHANGED <<chatUserMap, readers, writer, stage, scanned>>,
         \A u \in Thread \ {c} : todo'[u] = todo[u] /\ ret'[u] = ret[u],
         \A d \in Channel : closing[d] => closing'[d]
  PROVE  SafeInv'
<1> USE DEF TypeInv, TypeOK, SafeInv, ControlInv, Goto
<1> c \in Thread /\ c # Scanner /\ c # Pinger
  BY ChannelAssumption DEF Thread
<1>1. LockInv'
  BY DEF LockInv
<1>2. EntryInv'
  BY DEF EntryInv, Thread
<1>3. TaskInv'
  BY DEF TaskInv
<1>4. RemovedInv'
  <2> SUFFICES ASSUME NEW t \in Thread, pc'[t] = "rCount"
               PROVE  /\ Victim(t)' \in Channel /\ Victim(t)' \notin chatUserMap'
                      /\ stage'[Victim(t)'] = "websocket" /\ pc'[Victim(t)'] # "add"
    BY DEF RemovedInv
  <2>1. pc[t] = "rCount" /\ Victim(t)' = Victim(t)
    BY DEF Victim
  <2> QED BY <2>1 DEF RemovedInv
<1>5. BroadcastSeesLiveEntries'
  BY DEF BroadcastSeesLiveEntries
<1>6. NoOrphanSocket'
  BY DEF NoOrphanSocket, Thread
<1> QED BY <1>1, <1>2, <1>3, <1>4, <1>5, <1>6

LEMMA SafeGetUserGone ==
  ASSUME TypeInv, SafeInv, NEW c \in Channel, NEW ch \in Channel,
         GetUserGone(c, ch), UNCHANGED serverVars
  PROVE  SafeInv'
<1>1. PICK l \in {"idle", "except", "users"} : Goto(c, l)
  <2>1. CASE UNCHANGED pc
    <3>1. pc \in [Thread -> Location] /\ pc[c] = "users"
      BY DEF GetUserGone, TypeInv, TypeOK
    <3>2. pc' = [pc EXCEPT ![c] = "users"]
      BY <2>1, <3>1
    <3> QED BY <3>2 DEF Goto
  <2>2. CASE Throw(c, "null")
    BY <2>2, ThrowGoes DEF Cause
  <2> QED BY <2>1, <2>2 DEF GetUserGone
<1>2. \A u \in Thread \ {c} : todo'[u] = todo[u] /\ ret'[u] = ret[u]
  BY DEF GetUserGone, TypeInv, TypeOK
<1>3. /\ pc[c] = "users"
      /\ UNCHANGED <<chatUserMap, readers, writer, stage, scanned, closing>>
  BY DEF GetUserGone, registry, rwLock, connection, serverVars
<1> QED BY <1>1, <1>2, <1>3, HandlerMove

LEMMA SafeCloseFrame ==
  ASSUME TypeInv, SafeInv, NEW c \in Channel, CloseFrame(c)
  PROVE  SafeInv'
<1>1. PICK l \in {"idle", "except", "rLock"} : Goto(c, l)
  BY ThrowGoes DEF CloseFrame, CallRemove, Cause
<1>2. \A u \in Thread \ {c} : todo'[u] = todo[u] /\ ret'[u] = ret[u]
  BY DEF CloseFrame, CallRemove, TypeInv, TypeOK
<1>3. \A d \in Channel : closing[d] => closing'[d]
  BY DEF CloseFrame, TypeInv, TypeOK
<1>4. /\ pc[c] = "idle"
      /\ UNCHANGED <<chatUserMap, readers, writer, stage, scanned>>
  BY DEF CloseFrame, TakesFrame, Takes, registry, rwLock, serverVars
<1> QED BY <1>1, <1>2, <1>3, <1>4, HandlerMove

LEMMA SafeManager ==
  ASSUME TypeInv, SafeInv, NEW t \in Thread, ManagerStep(t), UNCHANGED serverVars
  PROVE  SafeInv'
<1> USE ChannelAssumption DEF TypeInv, TypeOK, SafeInv, ControlInv, LockInv, EntryInv,
        TaskInv, RemovedInv, BroadcastSeesLiveEntries, NoOrphanSocket, Goto, Victim,
        Thread, registry, rwLock, connection, thread, serverVars
<1>1. CASE t \in Channel /\ AddChannel(t)
  <2>1. LockInv' /\ TaskInv'
    BY <1>1 DEF AddChannel
  <2>2. /\ pc' = [pc EXCEPT ![t] = "idle"] /\ pc[t] = "add"
        /\ chatUserMap' = chatUserMap \cup {t}
        /\ UNCHANGED <<stage, scanned, closing>>
    BY <1>1 DEF AddChannel
  <2>4. stage[t] = "websocket"
    BY <1>1, <2>2
  <2>5. EntryInv' /\ NoOrphanSocket'
    BY <1>1, <2>2, <2>4
  <2>6. RemovedInv'
    BY <1>1, <2>2
  <2>3. BroadcastSeesLiveEntries'
    BY <1>1 DEF AddChannel
  <2> QED BY <2>1, <2>3, <2>5, <2>6
<1>2. CASE t \in Channel /\ AuthGet(t)
  <2>1. \E l \in {"idle", "except", "setUser"} : Goto(t, l)
    BY <1>2, ThrowGoes DEF AuthGet, Cause
  <2> QED BY <1>2, <2>1, HandlerMove DEF AuthGet
<1>3. CASE t \in Channel /\ SetUser(t)
  BY <1>3 DEF SetUser
<1>4. CASE t \in Channel /\ SetAuth(t)
  BY <1>4 DEF SetAuth
<1>5. CASE t \in Channel /\ CountUser(t)
  BY <1>5 DEF CountUser, CallBroadcast
<1>6. CASE LockWrite(t)
  BY <1>6 DEF LockWrite
<1>7. CASE RemoveEntry(t)
  <2>1. CASE Victim(t) \in chatUserMap
    BY <1>7, <2>1 DEF RemoveEntry
  <2>2. CASE Victim(t) \notin chatUserMap
    <3>1. pc' = [pc EXCEPT ![t] = ret[t]] /\ chatUserMap' = chatUserMap
      BY <1>7, <2>2 DEF RemoveEntry, UnlockWrite
    <3>2. LockInv' /\ TaskInv'
      BY <1>7, <2>2, <3>1 DEF RemoveEntry, UnlockWrite
    <3>3. EntryInv' /\ RemovedInv'
      BY <1>7, <2>2, <3>1 DEF RemoveEntry, UnlockWrite
    <3>4. BroadcastSeesLiveEntries' /\ NoOrphanSocket'
      BY <1>7, <2>2, <3>1 DEF RemoveEntry, UnlockWrite
    <3> QED BY <3>2, <3>3, <3>4
  <2> QED BY <2>1, <2>2
<1>8. CASE Uncount(t)
  BY <1>8 DEF Uncount, UnlockWrite
<1>9. CASE LockRead(t)
  BY <1>9 DEF LockRead
<1>10. ASSUME NEW ch \in Channel, Write(t, ch)
      PROVE  SafeInv'
  BY <1>10 DEF Write
<1>11. CASE UnlockRead(t)
  BY <1>11 DEF UnlockRead
<1>12. ASSUME t \in Channel, NEW ch \in Channel, GetUser(t, ch)
      PROVE  SafeInv'
  BY <1>12 DEF GetUser
<1>13. ASSUME t \in Channel, NEW ch \in Channel, GetUserGone(t, ch)
      PROVE  SafeInv'
  BY <1>13, SafeGetUserGone
<1>14. CASE t \in Channel /\ GotUsers(t)
  BY <1>14 DEF GotUsers, CallBroadcast
<1>15. ASSUME t = Scanner, NEW ch \in Channel, ScanKey(ch)
      PROVE  SafeInv'
  BY <1>15 DEF ScanKey, CallRemove
<1>16. CASE t = Scanner /\ ScanEnd
  BY <1>16 DEF ScanEnd
<1> QED
  BY <1>1, <1>2, <1>3, <1>4, <1>5, <1>6, <1>7, <1>8, <1>9, <1>10, <1>11, <1>12, <1>13, <1>14, <1>15, <1>16 DEF ManagerStep

LEMMA SafeServer ==
  ASSUME TypeInv, SafeInv, NEW c \in Channel,
         Event(c) \/ HandlerStep(c) \/ ChannelUnregistered(c) \/ Age(c)
  PROVE  SafeInv'
<1> USE ChannelAssumption DEF TypeInv, TypeOK, SafeInv, ControlInv, LockInv, EntryInv,
        TaskInv, RemovedInv, BroadcastSeesLiveEntries, NoOrphanSocket, Goto, Victim,
        Thread, registry, rwLock, connection, thread, serverVars
<1>1. CASE PlainRequest(c)
  BY <1>1 DEF PlainRequest
<1>2. CASE Upgrade(c)
  BY <1>2 DEF Upgrade, Takes
<1>3. CASE HandshakerTest(c)
  BY <1>3 DEF HandshakerTest
<1>4. CASE Handshake(c)
  <2>1. CASE handshaker
    <3>1. /\ pc[c] = "hsUse" /\ pc' = [pc EXCEPT ![c] = "add"]
          /\ stage' = [stage EXCEPT ![c] = "websocket"]
          /\ UNCHANGED <<chatUserMap, readers, writer, scanned, todo, ret, closing>>
      BY <1>4, <2>1 DEF Handshake
    <3>2. LockInv' /\ TaskInv'
      BY <3>1
    <3>3. EntryInv' /\ NoOrphanSocket'
      BY <3>1
    <3>4. RemovedInv' /\ BroadcastSeesLiveEntries'
      BY <3>1
    <3> QED BY <3>2, <3>3, <3>4
  <2>2. CASE ~handshaker
    <3>1. PICK l \in {"idle", "except"} : Goto(c, l)
      BY <1>4, <2>2, ThrowGoes DEF Handshake, Cause
    <3> QED BY <1>4, <2>2, <3>1 DEF Handshake
  <2> QED BY <2>1, <2>2
<1>5. CASE CloseFrame(c)
  BY <1>5, SafeCloseFrame
<1>6. CASE BadFrame(c)
  <2>1. PICK l \in {"idle", "except"} : Goto(c, l)
    BY <1>6, ThrowGoes DEF BadFrame, Cause
  <2> QED BY <1>6, <2>1 DEF BadFrame, TakesFrame, Takes
<1>7. CASE PongFrame(c)
  BY <1>7 DEF PongFrame
<1>8. CASE AuthAccepted(c)
  BY <1>8 DEF AuthAccepted, TakesFrame, Takes
<1>9. CASE AuthRefused(c)
  BY <1>9 DEF AuthRefused, TakesFrame, Takes, CallBroadcast
<1>10. CASE AuthFails(c)
  <2>1. PICK l \in {"idle", "except"} : Goto(c, l)
    BY <1>10, ThrowGoes DEF AuthFails, Cause
  <2> QED BY <1>10, <2>1 DEF AuthFails, TakesFrame, Takes
<1>11. CASE Chat(c)
  BY <1>11 DEF Chat, TakesFrame, Takes, CallBroadcast
<1>12. CASE ReaderIdle(c)
  BY <1>12 DEF ReaderIdle, Takes, CallRemove
<1>13. CASE IOError(c)
  <2>1. PICK l \in {"idle", "except"} : Goto(c, l)
    BY <1>13, ThrowGoes DEF IOError, Cause
  <2> QED BY <1>13, <2>1 DEF IOError, TakesFrame, Takes
<1>14. CASE ExceptionCaught(c)
  BY <1>14 DEF ExceptionCaught, CallRemove
<1>15. CASE ChannelUnregistered(c)
  BY <1>15 DEF ChannelUnregistered, CallRemove
<1>16. CASE Disconnect(c)
  BY <1>16, NoPageType DEF Disconnect
<1>17. CASE Age(c)
  BY <1>17 DEF Age
<1> QED
  BY <1>1, <1>2, <1>3, <1>4, <1>5, <1>6, <1>7, <1>8, <1>9, <1>10, <1>11, <1>12, <1>13, <1>14, <1>15, <1>16, <1>17
  DEF Event, HandlerStep

LEMMA SafeTasks ==
  ASSUME TypeInv, SafeInv, ScanStart \/ PingStart
  PROVE  SafeInv'
<1> USE ChannelAssumption DEF TypeInv, TypeOK, SafeInv, ControlInv, LockInv, EntryInv,
        TaskInv, RemovedInv, BroadcastSeesLiveEntries, NoOrphanSocket, Goto, Victim,
        Thread, registry, rwLock, connection, thread, serverVars
<1>1. CASE ScanStart
  BY <1>1 DEF ScanStart
<1>2. CASE PingStart
  BY <1>2 DEF PingStart, CallBroadcast
<1> QED BY <1>1, <1>2

LEMMA SafeInit == Init => SafeInv
BY ChannelAssumption
DEF Init, ManagerInit, SafeInv, ControlInv, LockInv, EntryInv, TaskInv, RemovedInv,
    BroadcastSeesLiveEntries, NoOrphanSocket, Thread

LEMMA SafeNext == TypeInv /\ SafeInv /\ [Next]_vars => SafeInv'
<1> SUFFICES ASSUME TypeInv, SafeInv, [Next]_vars
             PROVE  SafeInv'
  OBVIOUS
<1>1. ASSUME NEW t \in Thread, Run(t)
      PROVE  SafeInv'
  BY <1>1, SafeManager, SafeServer DEF Run
<1>2. ASSUME NEW c \in Channel, Event(c) \/ ChannelUnregistered(c) \/ Age(c)
      PROVE  SafeInv'
  BY <1>2, SafeServer
<1>3. CASE ScanStart \/ PingStart
  BY <1>3, SafeTasks
<1>4. CASE UNCHANGED vars
  BY <1>4 DEF vars, managerVars, serverVars, registry, rwLock, connection, thread,
              SafeInv, ControlInv, LockInv, EntryInv, TaskInv, RemovedInv, Victim,
              BroadcastSeesLiveEntries, NoOrphanSocket
<1> QED BY <1>1, <1>2, <1>3, <1>4 DEF Next

LEMMA SafeAlways == Spec => [](TypeInv /\ SafeInv)
BY TypeInit, TypeNext, SafeInit, SafeNext, PTL DEF Spec

\* A broadcast never comes across a removed channel (broadMessage, broadPing).
THEOREM BroadcastsSeeLiveEntries == Spec => []BroadcastSeesLiveEntries
<1>1. SafeInv => BroadcastSeesLiveEntries
  BY DEF SafeInv
<1> QED BY SafeAlways, <1>1, PTL

\* No connection is forgotten while it is up (removeChannel).
THEOREM NoOrphans == Spec => []NoOrphanSocket
<1>1. SafeInv => NoOrphanSocket
  BY DEF SafeInv
<1> QED BY SafeAlways, <1>1, PTL

-----------------------------------------------------------------------------
(* The counter. *)

LEMMA CountedSets ==
  ASSUME TypeInv
  PROVE  /\ IsFiniteSet(Authenticated) /\ Cardinality(Authenticated) \in Nat
         /\ IsFiniteSet(Uncounting) /\ Cardinality(Uncounting) \in Nat
         /\ IsFiniteSet(Counting) /\ Cardinality(Counting) \in Nat
<1>1. /\ Authenticated \subseteq Channel
      /\ Uncounting \subseteq Channel
      /\ Counting \subseteq Channel
  BY DEF TypeInv, TypeOK, Authenticated, Uncounting, Counting
<1>2. IsFiniteSet(Channel)
  BY ChannelAssumption
<1> QED BY <1>1, <1>2, FS_Subset, FS_CardinalityType

LEMMA AddAtMostOne ==
  ASSUME NEW S, IsFiniteSet(S), NEW x
  PROVE  /\ Cardinality(S \cup {x}) \in Nat
         /\ Cardinality(S \cup {x}) <= Cardinality(S) + 1
<1>1. Cardinality(S) \in Nat
  BY FS_CardinalityType
<1> QED BY <1>1, FS_AddElement

\* A step that neither counts, authenticates nor removes.
LEMMA CountMove ==
  ASSUME TypeInv, CountInv, NEW t \in Thread, NEW l, l \notin {"count", "rCount"},
         pc[t] \notin {"count", "rCount"}, Goto(t, l),
         UNCHANGED <<chatUserMap, isAuth, userCount>>,
         t = Scanner \/ UNCHANGED scanned
  PROVE  CountInv'
<1>1. \A u \in Thread : pc'[u] = IF u = t THEN l ELSE pc[u]
  BY DEF Goto, TypeInv, TypeOK
<1>2. Authenticated' = Authenticated
  BY DEF Authenticated
<1>3. Counting' = Counting
  BY <1>1 DEF Counting, Thread
<1>4. \A u \in Thread : pc'[u] = "rCount" => pc[u] = "rCount" /\ Victim(u)' = Victim(u)
  BY <1>1 DEF Victim
<1>5. \A u \in Thread : pc[u] = "rCount" => pc'[u] = "rCount" /\ Victim(u)' = Victim(u)
  BY <1>1 DEF Victim
<1>6. Uncounting' = Uncounting
  BY <1>4, <1>5 DEF Uncounting, Discounted
<1> QED BY <1>2, <1>3, <1>6 DEF CountInv

\* A channel that becomes authenticated is covered by its own increment.
LEMMA CountSetAuth ==
  ASSUME TypeInv, SafeInv, CountInv, NEW c \in Channel, SetAuth(c)
  PROVE  CountInv'
<1>1. c \in Thread /\ c # Scanner
  BY ChannelAssumption DEF Thread
<1>2. /\ pc[c] = "setAuth" /\ pc' = [pc EXCEPT ![c] = "count"]
      /\ isAuth' = [isAuth EXCEPT ![c] = TRUE]
      /\ UNCHANGED <<chatUserMap, userCount, scanned>>
  BY DEF SetAuth, Goto
<1>3. Counting' = Counting \cup {c} /\ c \notin Counting
  BY <1>1, <1>2 DEF Counting, TypeInv, TypeOK, Thread
<1>4. Cardinality(Counting') = Cardinality(Counting) + 1
  BY <1>3, CountedSets, FS_AddElement
<1>5. \A t \in Thread : /\ (pc'[t] = "rCount") <=> (pc[t] = "rCount")
                        /\ Victim(t)' = Victim(t)
  BY <1>1, <1>2 DEF TypeInv, TypeOK, Victim
<1>8. ASSUME NEW d \in Channel
      PROVE  Discounted(d)' <=> Discounted(d)
  <2>1. ASSUME NEW t \in Thread, pc[t] = "rCount", Victim(t) = d
        PROVE  Discounted(d)'
    <3>1. pc'[t] = "rCount" /\ Victim(t)' = d
      BY <1>5, <2>1
    <3> QED BY <3>1 DEF Discounted, Victim
  <2>2. ASSUME NEW t \in Thread, pc'[t] = "rCount", Victim(t)' = d
        PROVE  Discounted(d)
    BY <1>5, <2>2 DEF Discounted
  <2> QED BY <2>1, <2>2 DEF Discounted
<1>6. CASE c \in chatUserMap
  <2>1. Authenticated' = Authenticated \cup {c}
    BY <1>2, <1>6 DEF Authenticated, TypeInv, TypeOK
  <2>2. \A t \in Thread : pc[t] = "rCount" => Victim(t) # c
    BY <1>6 DEF SafeInv, ControlInv, RemovedInv
  <2>3. Uncounting' = Uncounting
    <3>1. \A d \in Channel \ {c} : d \in Uncounting' <=> d \in Uncounting
      BY <1>2, <1>8 DEF Uncounting, TypeInv, TypeOK
    <3>2. c \notin Uncounting /\ c \notin Uncounting'
      BY <1>8, <2>2 DEF Uncounting, Discounted
    <3>3. Uncounting \subseteq Channel /\ Uncounting' \subseteq Channel
      BY DEF Uncounting
    <3> QED BY <3>1, <3>2, <3>3
  <2>4. /\ Cardinality(Authenticated') \in Nat
        /\ Cardinality(Authenticated') <= Cardinality(Authenticated) + 1
    BY <2>1, CountedSets, AddAtMostOne
  <2> QED BY <1>2, <1>4, <2>3, <2>4, CountedSets DEF CountInv, TypeInv, TypeOK
<1>7. CASE c \notin chatUserMap
  <2>1. Authenticated' = Authenticated
    BY <1>2, <1>7 DEF Authenticated, TypeInv, TypeOK
  <2>2. Uncounting' = Uncounting \/ Uncounting' = Uncounting \cup {c}
    <3>1. \A d \in Channel \ {c} : d \in Uncounting' <=> d \in Uncounting
      BY <1>2, <1>8 DEF Uncounting, TypeInv, TypeOK
    <3>2. c \in Uncounting => c \in Uncounting'
      BY <1>2, <1>8 DEF Uncounting, TypeInv, TypeOK
    <3>3. Uncounting \subseteq Channel /\ Uncounting' \subseteq Channel
      BY DEF Uncounting
    <3> QED BY <3>1, <3>2, <3>3
  <2>3. /\ Cardinality(Uncounting') \in Nat
        /\ Cardinality(Uncounting') <= Cardinality(Uncounting) + 1
    <3>1. CASE Uncounting' = Uncounting
      BY <3>1, CountedSets
    <3>2. CASE Uncounting' = Uncounting \cup {c}
      BY <3>2, CountedSets, AddAtMostOne
    <3> QED BY <2>2, <3>1, <3>2
  <2> QED BY <1>2, <1>4, <2>1, <2>3, CountedSets DEF CountInv, TypeInv, TypeOK
<1> QED BY <1>6, <1>7

LEMMA CountCountUser ==
  ASSUME TypeInv, CountInv, NEW c \in Channel, CountUser(c)
  PROVE  CountInv'
<1>1. c \in Thread /\ c # Scanner
  BY ChannelAssumption DEF Thread
<1>2. /\ pc[c] = "count" /\ pc' = [pc EXCEPT ![c] = "bLock"]
      /\ userCount' = userCount + 1
      /\ UNCHANGED <<chatUserMap, isAuth, scanned>>
  BY DEF CountUser, CallBroadcast, Goto
<1>3. Counting' = Counting \ {c} /\ c \in Counting
  BY <1>1, <1>2 DEF Counting, TypeInv, TypeOK, Thread
<1>4. Cardinality(Counting') = Cardinality(Counting) - 1
  BY <1>3, CountedSets, FS_RemoveElement
<1>5. Authenticated' = Authenticated
  BY <1>2 DEF Authenticated
<1>6. Uncounting' = Uncounting
  BY <1>1, <1>2 DEF Uncounting, Discounted, Victim, TypeInv, TypeOK
<1> QED BY <1>2, <1>4, <1>5, <1>6, CountedSets DEF CountInv, TypeInv, TypeOK

\* addChannel resets isAuth of a channel that is neither in the map nor being
\* removed from it.
LEMMA CountAddChannel ==
  ASSUME TypeInv, SafeInv, CountInv, NEW c \in Channel, AddChannel(c)
  PROVE  CountInv'
<1>1. c \in Thread /\ c # Scanner
  BY ChannelAssumption DEF Thread
<1>2. /\ pc[c] = "add" /\ pc' = [pc EXCEPT ![c] = "idle"]
      /\ isAuth' = [isAuth EXCEPT ![c] = FALSE]
      /\ chatUserMap' = chatUserMap \cup {c}
      /\ UNCHANGED <<userCount, scanned>>
  BY DEF AddChannel, Goto
<1>3. c \notin chatUserMap
  BY <1>2 DEF SafeInv, ControlInv, EntryInv
<1>4. Authenticated' = Authenticated
  BY <1>2, <1>3 DEF Authenticated, TypeInv, TypeOK
<1>5. Counting' = Counting
  BY <1>1, <1>2 DEF Counting, TypeInv, TypeOK, Thread
<1>6. \A t \in Thread : pc[t] = "rCount" => Victim(t) # c
  BY <1>2 DEF SafeInv, ControlInv, RemovedInv
<1>7. Uncounting' = Uncounting
  BY <1>1, <1>2, <1>6 DEF Uncounting, Discounted, Victim, TypeInv, TypeOK
<1> QED BY <1>2, <1>4, <1>5, <1>7 DEF CountInv

\* A removed channel that was authenticated is on its way to be discounted.
LEMMA CountRemoveEntry ==
  ASSUME TypeInv, SafeInv, CountInv, NEW t \in Thread, RemoveEntry(t)
  PROVE  CountInv'
<1> DEFINE v == Victim(t)
<1>1. v \in Channel
  BY VictimIsChannel DEF RemoveEntry, SafeInv, ControlInv
<1>2. /\ pc[t] = "rRemove" /\ chatUserMap' = chatUserMap \ {v}
      /\ UNCHANGED <<isAuth, userCount, scanned>>
  BY DEF RemoveEntry
<1>3. CASE v \in chatUserMap
  <2>1. pc' = [pc EXCEPT ![t] = "rCount"]
    BY <1>3 DEF RemoveEntry, Goto
  <2>2. Counting' = Counting
    BY <1>2, <2>1 DEF Counting, TypeInv, TypeOK, Thread
  <2>3. Authenticated' = Authenticated \ {v}
    BY <1>2 DEF Authenticated
  <2>4. \A u \in Thread : Victim(u)' = Victim(u)
    BY <1>2 DEF Victim
  <2>5. CASE isAuth[v]
    <3>1. v \in Authenticated
      BY <1>3, <2>5 DEF Authenticated
    <3>2. Uncounting' = Uncounting \cup {v}
      BY <1>1, <1>2, <2>1, <2>4, <2>5 DEF Uncounting, Discounted, TypeInv, TypeOK
    <3>3. Cardinality(Authenticated') = Cardinality(Authenticated) - 1
      BY <2>3, <3>1, CountedSets, FS_RemoveElement
    <3>4. /\ Cardinality(Uncounting') \in Nat
          /\ Cardinality(Uncounting') <= Cardinality(Uncounting) + 1
      BY <3>2, CountedSets, AddAtMostOne
    <3> QED BY <1>2, <2>2, <3>3, <3>4, CountedSets
            DEF CountInv, TypeInv, TypeOK
  <2>6. CASE ~isAuth[v]
    <3>1. Authenticated' = Authenticated
      BY <2>3, <2>6 DEF Authenticated
    <3>2. Uncounting' = Uncounting
      BY <1>2, <2>1, <2>4, <2>6 DEF Uncounting, Discounted, TypeInv, TypeOK
    <3> QED BY <1>2, <2>2, <3>1, <3>2 DEF CountInv
  <2> QED BY <2>5, <2>6
<1>4. CASE v \notin chatUserMap
  <2>1. chatUserMap' = chatUserMap
    BY <1>2, <1>4
  <2>2. ret[t] \notin {"count", "rCount"} /\ Goto(t, ret[t])
    BY <1>4 DEF RemoveEntry, UnlockWrite, TypeInv, TypeOK
  <2> QED BY <1>2, <2>1, <2>2, CountMove
<1> QED BY <1>3, <1>4

\* Only one thread removes at a time: what it discounts, no other does.
LEMMA CountUncount ==
  ASSUME TypeInv, SafeInv, CountInv, NEW t \in Thread, Uncount(t)
  PROVE  CountInv'
<1> DEFINE v == Victim(t)
<1>1. v \in Channel
  BY VictimIsChannel DEF Uncount, SafeInv, ControlInv
<1>2. /\ pc[t] = "rCount" /\ pc' = [pc EXCEPT ![t] = ret[t]]
      /\ userCount' = IF isAuth[v] THEN userCount - 1 ELSE userCount
      /\ UNCHANGED <<chatUserMap, isAuth, scanned>>
  BY DEF Uncount, UnlockWrite, Goto
<1>3. ret[t] \notin {"count", "rCount"}
  BY DEF TypeInv, TypeOK
<1>4. \A u \in Thread : pc[u] = "rCount" => u = t
  BY <1>2 DEF SafeInv, ControlInv, LockInv
<1>5. \A u \in Thread : pc'[u] # "rCount"
  BY <1>2, <1>3, <1>4 DEF TypeInv, TypeOK
<1>6. Uncounting' = {}
  BY <1>5 DEF Uncounting, Discounted
<1>7. Cardinality(Uncounting') = 0
  BY <1>6, FS_EmptySet
<1>8. Authenticated' = Authenticated
  BY <1>2 DEF Authenticated
<1>9. Counting' = Counting
  BY <1>2, <1>3 DEF Counting, TypeInv, TypeOK, Thread
<1>10. CASE isAuth[v]
  <2>1. Uncounting = {v}
    BY <1>1, <1>2, <1>4, <1>10 DEF Uncounting, Discounted
  <2>2. Cardinality(Uncounting) = 1
    BY <2>1, FS_Singleton
  <2> QED BY <1>2, <1>7, <1>8, <1>9, <1>10, <2>2, CountedSets
          DEF CountInv, TypeInv, TypeOK
<1>11. CASE ~isAuth[v]
  BY <1>2, <1>7, <1>8, <1>9, <1>11, CountedSets DEF CountInv, TypeInv, TypeOK
<1> QED BY <1>10, <1>11

LEMMA CountManager ==
  ASSUME TypeInv, SafeInv, CountInv, NEW t \in Thread, ManagerStep(t)
  PROVE  CountInv'
<1>1. ASSUME NEW l \in Location \ {"count", "rCount"}, Goto(t, l),
             pc[t] \notin {"count", "rCount"},
             UNCHANGED <<chatUserMap, isAuth, userCount>>,
             t = Scanner \/ UNCHANGED scanned
      PROVE  CountInv'
  BY <1>1, CountMove
<1>2. ASSUME UNCHANGED <<chatUserMap, isAuth, userCount, pc, scanned>>
      PROVE  CountInv'
  BY <1>2 DEF CountInv, Authenticated, Counting, Uncounting, Discounted, Victim
<1> USE DEF registry, Location
<1>3. CASE t \in Channel /\ AddChannel(t)
  BY <1>3, CountAddChannel
<1>4. CASE t \in Channel /\ AuthGet(t)
  <2>1. \E l \in {"idle", "except", "setUser"} : Goto(t, l)
    BY <1>4, ThrowGoes DEF AuthGet, Cause
  <2> QED BY <1>4, <1>1, <2>1 DEF AuthGet
<1>5. CASE t \in Channel /\ SetUser(t)
  BY <1>5, <1>1 DEF SetUser
<1>6. CASE t \in Channel /\ SetAuth(t)
  BY <1>6, CountSetAuth
<1>7. CASE t \in Channel /\ CountUser(t)
  BY <1>7, CountCountUser
<1>8. CASE LockWrite(t)
  BY <1>8, <1>1 DEF LockWrite
<1>9. CASE RemoveEntry(t)
  BY <1>9, CountRemoveEntry
<1>10. CASE Uncount(t)
  BY <1>10, CountUncount
<1>11. CASE LockRead(t)
  BY <1>11, <1>1 DEF LockRead
<1>12. ASSUME NEW ch \in Channel, Write(t, ch)
      PROVE  CountInv'
  BY <1>12, <1>2 DEF Write
<1>13. CASE UnlockRead(t)
  <2>1. Goto(t, ret[t]) /\ ret[t] \in Location \ {"count", "rCount"}
    BY <1>13 DEF UnlockRead, TypeInv, TypeOK
  <2> QED BY <1>13, <1>1, <2>1 DEF UnlockRead
<1>14. ASSUME t \in Channel, NEW ch \in Channel, GetUser(t, ch)
      PROVE  CountInv'
  BY <1>14, <1>2 DEF GetUser
<1>15. ASSUME t \in Channel, NEW ch \in Channel, GetUserGone(t, ch)
      PROVE  CountInv'
  <2>1. CASE UNCHANGED pc
    BY <1>15, <1>2, <2>1 DEF GetUserGone
  <2>2. CASE Throw(t, "null")
    <3>1. PICK l \in {"idle", "except"} : Goto(t, l)
      BY <1>15, <2>2, ThrowGoes DEF Cause
    <3> QED BY <1>15, <1>1, <3>1 DEF GetUserGone
  <2> QED BY <1>15, <2>1, <2>2 DEF GetUserGone
<1>16. CASE t \in Channel /\ GotUsers(t)
  BY <1>16, <1>1 DEF GotUsers, CallBroadcast
<1>17. ASSUME t = Scanner, NEW ch \in Channel, ScanKey(ch)
      PROVE  CountInv'
  <2>1. CASE ch \in chatUserMap /\ Expired(ch)
    BY <1>17, <1>1, <2>1 DEF ScanKey, CallRemove
  <2>2. CASE ~(ch \in chatUserMap /\ Expired(ch))
    BY <1>17, <1>2, <2>2 DEF ScanKey
  <2> QED BY <2>1, <2>2
<1>18. CASE t = Scanner /\ ScanEnd
  BY <1>18, <1>1 DEF ScanEnd
<1> QED
  BY <1>3, <1>4, <1>5, <1>6, <1>7, <1>8, <1>9, <1>10, <1>11, <1>12, <1>13, <1>14, <1>15, <1>16, <1>17, <1>18
  DEF ManagerStep

LEMMA CountServer ==
  ASSUME TypeInv, CountInv, NEW c \in Channel,
         Event(c) \/ HandlerStep(c) \/ ChannelUnregistered(c) \/ Age(c)
  PROVE  CountInv'
<1>1. ASSUME NEW l \in Location \ {"count", "rCount"}, Goto(c, l),
             pc[c] \notin {"count", "rCount"},
             UNCHANGED <<chatUserMap, isAuth, userCount, scanned>>
      PROVE  CountInv'
  BY <1>1, CountMove DEF Thread
<1>2. ASSUME UNCHANGED <<chatUserMap, isAuth, userCount, pc, scanned>>
      PROVE  CountInv'
  BY <1>2 DEF CountInv, Authenticated, Counting, Uncounting, Discounted, Victim
<1> USE DEF registry, thread, Location
<1>3. CASE PlainRequest(c)
  BY <1>3, <1>2 DEF PlainRequest
<1>4. CASE Upgrade(c)
  BY <1>4, <1>1 DEF Upgrade, Takes
<1>5. CASE HandshakerTest(c)
  BY <1>5, <1>1 DEF HandshakerTest
<1>6. CASE Handshake(c)
  <2>1. \E l \in {"idle", "except", "add"} : Goto(c, l)
    BY <1>6, ThrowGoes DEF Handshake, Cause
  <2> QED BY <1>6, <1>1, <2>1 DEF Handshake
<1>7. CASE CloseFrame(c)
  <2>1. \E l \in {"idle", "except", "rLock"} : Goto(c, l)
    BY <1>7, ThrowGoes DEF CloseFrame, CallRemove, Cause
  <2> QED BY <1>7, <1>1, <2>1 DEF CloseFrame, TakesFrame, Takes
<1>8. CASE BadFrame(c)
  <2>1. PICK l \in {"idle", "except"} : Goto(c, l)
    BY <1>8, ThrowGoes DEF BadFrame, Cause
  <2> QED BY <1>8, <1>1, <2>1 DEF BadFrame, TakesFrame, Takes
<1>9. CASE PongFrame(c)
  BY <1>9, <1>2 DEF PongFrame
<1>10. CASE AuthAccepted(c)
  BY <1>10, <1>1 DEF AuthAccepted, TakesFrame, Takes
<1>11. CASE AuthRefused(c)
  BY <1>11, <1>1 DEF AuthRefused, TakesFrame, Takes, CallBroadcast
<1>12. CASE AuthFails(c)
  <2>1. PICK l \in {"idle", "except"} : Goto(c, l)
    BY <1>12, ThrowGoes DEF AuthFails, Cause
  <2> QED BY <1>12, <1>1, <2>1 DEF AuthFails, TakesFrame, Takes
<1>13. CASE Chat(c)
  BY <1>13, <1>1 DEF Chat, TakesFrame, Takes, CallBroadcast
<1>14. CASE ReaderIdle(c)
  BY <1>14, <1>1 DEF ReaderIdle, Takes, CallRemove
<1>15. CASE IOError(c)
  <2>1. PICK l \in {"idle", "except"} : Goto(c, l)
    BY <1>15, ThrowGoes DEF IOError, Cause
  <2> QED BY <1>15, <1>1, <2>1 DEF IOError, TakesFrame, Takes
<1>16. CASE ExceptionCaught(c)
  BY <1>16, <1>1 DEF ExceptionCaught, CallRemove
<1>17. CASE ChannelUnregistered(c)
  BY <1>17, <1>1 DEF ChannelUnregistered, CallRemove
<1>18. CASE Disconnect(c)
  BY <1>18, <1>2 DEF Disconnect
<1>19. CASE Age(c)
  BY <1>19, <1>2 DEF Age
<1> QED
  BY <1>3, <1>4, <1>5, <1>6, <1>7, <1>8, <1>9, <1>10, <1>11, <1>12, <1>13, <1>14, <1>15, <1>16, <1>17, <1>18, <1>19
  DEF Event, HandlerStep

LEMMA CountTasks ==
  ASSUME TypeInv, SafeInv, CountInv, ScanStart \/ PingStart
  PROVE  CountInv'
<1>1. CASE ScanStart
  BY <1>1, CountMove DEF ScanStart, Thread, registry
<1>2. CASE PingStart
  BY <1>2, CountMove DEF PingStart, CallBroadcast, Thread, registry
<1> QED BY <1>1, <1>2

LEMMA CountInit == Init => CountInv
<1> SUFFICES ASSUME Init
             PROVE  CountInv
  OBVIOUS
<1>1. Authenticated = {} /\ userCount = 0
  BY DEF Init, ManagerInit, Authenticated
<1>2. Uncounting = {}
  BY DEF Init, ManagerInit, Uncounting
<1>3. Counting = {}
  BY DEF Init, ManagerInit, Counting, Thread
<1> QED BY <1>1, <1>2, <1>3, FS_EmptySet DEF CountInv

LEMMA CountNext == TypeInv /\ SafeInv /\ CountInv /\ [Next]_vars => CountInv'
<1> SUFFICES ASSUME TypeInv, SafeInv, CountInv, [Next]_vars
             PROVE  CountInv'
  OBVIOUS
<1>1. ASSUME NEW t \in Thread, Run(t)
      PROVE  CountInv'
  BY <1>1, CountManager, CountServer DEF Run
<1>2. ASSUME NEW c \in Channel, Event(c) \/ ChannelUnregistered(c) \/ Age(c)
      PROVE  CountInv'
  BY <1>2, CountServer
<1>3. CASE ScanStart \/ PingStart
  BY <1>3, CountTasks
<1>4. CASE UNCHANGED vars
  BY <1>4 DEF vars, managerVars, registry, thread, CountInv, Authenticated, Counting,
              Uncounting, Discounted, Victim
<1> QED BY <1>1, <1>2, <1>3, <1>4 DEF Next

\* The counter covers the authenticated channels but for the increments on
\* their way, for any number of channels and of repeated authentications
\* (authUser, removeChannel).
THEOREM CountCovers == Spec => []CountCoversAuthenticated
<1>1. TypeInv /\ CountInv => CountCoversAuthenticated
  BY CountedSets DEF CountInv, CountCoversAuthenticated, TypeInv, TypeOK
<1> QED BY TypeInit, TypeNext, SafeInit, SafeNext, CountInit, CountNext, <1>1, PTL
        DEF Spec

-----------------------------------------------------------------------------
(* The order in which a page hears the chat messages of a sender:          *)
(* NoChatSkipped.                                                          *)

\* Only a broadcast has a chat message in hand: the last one that its thread sent.
ChatArgInv ==
  \A t \in Thread : arg[t].kind = "chat" =>
    t \in Channel /\ pc[t] \in {"bLock", "bIter"} /\ arg[t] = ChatMessage(t, sent[t])

\* The last message of from that has been written to a page that is there to hear it: one
\* that is being broadcast counts from the moment the page has had its turn.
Told(to, from) ==
  IF arg[from].kind = "chat" /\ (pc[from] = "bLock" \/ to \in todo[from])
  THEN sent[from] - 1 ELSE sent[from]

\* A page that has heard of a sender is up, its channel authenticated and not about to
\* enter the map again; as long as it is in the map it has heard all there was.
HeardInv ==
  \A to, from \in Channel : client[to].heard[from] # 0 =>
    /\ "chat" \in Observed
    /\ open[to] /\ isAuth[to] /\ stage[to] = "websocket" /\ pc[to] # "add"
    /\ to \in chatUserMap => client[to].heard[from] = Told(to, from)

OrderInv == ChatArgInv /\ HeardInv

-----------------------------------------------------------------------------
(* What does not disturb the order. *)

\* A step of t that writes to no page, and after which each page in the map is told of t
\* what it was told before.
LEMMA OrderFrame ==
  ASSUME TypeInv, OrderInv, NEW t \in Thread,
         UNCHANGED <<client, open>>, chatUserMap' \subseteq chatUserMap,
         \A u \in Thread \ {t} : pc'[u] = pc[u] /\ arg'[u] = arg[u] /\ todo'[u] = todo[u],
         \A c \in Channel \ {t} : sent'[c] = sent[c],
         \A c \in Channel : /\ isAuth[c] => isAuth'[c]
                            /\ stage[c] = "websocket" => stage'[c] = "websocket",
         pc'[t] # "add",
         arg'[t].kind = "chat" =>
           t \in Channel /\ pc'[t] \in {"bLock", "bIter"} /\ arg'[t] = ChatMessage(t, sent'[t]),
         t \in Channel => \A to \in chatUserMap' : Told(to, t)' = Told(to, t)
  PROVE  OrderInv'
<1>1. ChatArgInv'
  BY DEF OrderInv, ChatArgInv
<1>2. ASSUME NEW to \in Channel, NEW from \in Channel, client'[to].heard[from] # 0
      PROVE  /\ "chat" \in Observed
             /\ open'[to] /\ isAuth'[to] /\ stage'[to] = "websocket" /\ pc'[to] # "add"
             /\ to \in chatUserMap' => client'[to].heard[from] = Told(to, from)'
  <2>1. /\ "chat" \in Observed
        /\ open[to] /\ isAuth[to] /\ stage[to] = "websocket" /\ pc[to] # "add"
        /\ to \in chatUserMap => client[to].heard[from] = Told(to, from)
    BY <1>2 DEF OrderInv, HeardInv
  <2>2. to \in Thread /\ from \in Thread
    BY DEF Thread
  <2>3. pc'[to] # "add"
    BY <2>1, <2>2
  <2>4. to \in chatUserMap' => Told(to, from)' = Told(to, from)
    <3>1. CASE from = t
      BY <3>1
    <3>2. CASE from # t
      BY <2>2, <3>2 DEF Told
    <3>. QED  BY <3>1, <3>2
  <2>. QED  BY <2>1, <2>3, <2>4
<1>. QED  BY <1>1, <1>2 DEF OrderInv, HeardInv

\* A step of a thread that has no chat message in hand, neither before nor after.
LEMMA OrderQuiet ==
  ASSUME TypeInv, OrderInv, NEW t \in Thread,
         UNCHANGED <<client, open, sent>>, chatUserMap' \subseteq chatUserMap,
         \A u \in Thread \ {t} : pc'[u] = pc[u] /\ arg'[u] = arg[u] /\ todo'[u] = todo[u],
         \A c \in Channel : /\ isAuth[c] => isAuth'[c]
                            /\ stage[c] = "websocket" => stage'[c] = "websocket",
         pc'[t] # "add", pc[t] \notin {"bLock", "bIter"}, arg'[t].kind # "chat"
  PROVE  OrderInv'
<1>1. arg[t].kind # "chat"
  BY DEF OrderInv, ChatArgInv
<1>2. \A to : Told(to, t)' = Told(to, t)
  BY <1>1 DEF Told
<1>. QED  BY <1>2, OrderFrame

LEMMA Kinds ==
  /\ Nothing.kind # "chat" /\ Ping.kind # "chat" /\ \A ok : AuthResult(ok).kind # "chat"
  /\ \A users : SysUserInfo(users).kind # "chat" /\ \A cause : Thrown(cause).kind # "chat"
  /\ \A m \in UsersMessage : m.kind # "chat"
BY DEF Nothing, Ping, AuthResult, SysUserInfo, Thrown, UsersMessage

LEMMA ThrowQuiet ==
  ASSUME TypeInv, NEW c \in Channel, NEW cause, Throw(c, cause)
  PROVE  /\ pc'[c] # "add" /\ arg'[c].kind # "chat"
         /\ \A u \in Thread \ {c} : pc'[u] = pc[u] /\ arg'[u] = arg[u]
<1>. c \in Thread
  BY DEF Thread
<1>1. CASE c \in catching
  BY <1>1, Kinds DEF Throw, Goto, TypeInv, TypeOK
<1>2. CASE c \notin catching
  <2>1. pc' = [pc EXCEPT ![c] = "except"] /\ arg' = [arg EXCEPT ![c] = Thrown(cause)]
    BY <1>2 DEF Throw, Goto
  <2>. QED  BY <2>1, Kinds DEF TypeInv, TypeOK
<1>. QED  BY <1>1, <1>2

-----------------------------------------------------------------------------
(* The steps of the manager. *)

\* The channel that enters the map has heard nothing yet.
LEMMA OrderAdd ==
  ASSUME TypeInv, OrderInv, NEW c \in Channel, AddChannel(c), UNCHANGED serverVars
  PROVE  OrderInv'
<1>. c \in Thread
  BY DEF Thread
<1>1. /\ pc[c] = "add" /\ UNCHANGED <<client, open, arg, sent, stage>>
      /\ chatUserMap' = chatUserMap \cup {c}
      /\ pc' = [pc EXCEPT ![c] = "idle"] /\ isAuth' = [isAuth EXCEPT ![c] = FALSE]
      /\ \A u \in Thread : todo'[u] \in {todo[u], todo[u] \cup {c}}
  BY DEF AddChannel, Goto, connection, serverVars
<1>2. \A u \in Thread : u # c => pc'[u] = pc[u]
  BY <1>1 DEF TypeInv, TypeOK
<1>3. arg[c].kind # "chat"
  BY <1>1 DEF OrderInv, ChatArgInv
<1>4. ChatArgInv'
  BY <1>1, <1>2, <1>3 DEF OrderInv, ChatArgInv
<1>5. ASSUME NEW to \in Channel, NEW from \in Channel, client'[to].heard[from] # 0
      PROVE  /\ "chat" \in Observed
             /\ open'[to] /\ isAuth'[to] /\ stage'[to] = "websocket" /\ pc'[to] # "add"
             /\ to \in chatUserMap' => client'[to].heard[from] = Told(to, from)'
  <2>1. /\ "chat" \in Observed
        /\ open[to] /\ isAuth[to] /\ stage[to] = "websocket" /\ pc[to] # "add"
        /\ to \in chatUserMap => client[to].heard[from] = Told(to, from)
    BY <1>1, <1>5 DEF OrderInv, HeardInv
  <2>2. to # c /\ to \in Thread /\ from \in Thread
    BY <1>1, <2>1 DEF Thread
  <2>3. isAuth'[to] = isAuth[to] /\ pc'[to] = pc[to] /\ (to \in chatUserMap' <=> to \in chatUserMap)
    BY <1>1, <1>2, <2>2 DEF TypeInv, TypeOK
  <2>4. Told(to, from)' = Told(to, from)
    <3>1. to \in todo'[from] <=> to \in todo[from]
      BY <1>1, <2>2
    <3>2. CASE from = c
      BY <1>1, <1>3, <3>2 DEF Told
    <3>3. CASE from # c
      BY <1>1, <1>2, <2>2, <3>1, <3>3 DEF Told
    <3>. QED  BY <3>2, <3>3
  <2>. QED  BY <1>1, <2>1, <2>3, <2>4
<1>. QED  BY <1>4, <1>5 DEF OrderInv, HeardInv

\* The page whose turn it is has heard all, or is no longer in the map.
LEMMA OrderWrite ==
  ASSUME TypeInv, SafeInv, OrderInv, NEW t \in Thread, NEW ch \in Channel, Write(t, ch),
         UNCHANGED serverVars
  PROVE  OrderInv'
<1>1. /\ pc[t] = "bIter" /\ ch \in todo[t]
      /\ todo' = [todo EXCEPT ![t] = @ \ {ch}]
      /\ UNCHANGED <<chatUserMap, isAuth, open, pc, arg, stage, sent>>
  BY DEF Write, registry, connection, serverVars
<1>2. /\ todo'[t] = todo[t] \ {ch}
      /\ \A u \in Thread \ {t} : todo'[u] = todo[u]
  BY <1>1 DEF TypeInv, TypeOK
<1>3. ChatArgInv'
  BY <1>1 DEF OrderInv, ChatArgInv
<1>4. ASSUME NEW to \in Channel, NEW from \in Channel, to # ch \/ from # t PROVE Told(to, from)' = Told(to, from)
  BY <1>1, <1>2, <1>4 DEF Told, Thread
<1>5. CASE ch \in chatUserMap /\ isAuth[ch] /\ open[ch]
  <2>1. /\ client'[ch] = Received(client[ch], arg[t])
        /\ \A to \in Channel \ {ch} : client'[to] = client[to]
    BY <1>5 DEF Write, TypeInv, TypeOK
  <2>2. stage[ch] = "websocket" /\ pc[ch] # "add"
    BY <1>5 DEF SafeInv, ControlInv, EntryInv
  <2>3. client[ch] \in Page /\ arg[t] \in Message
    BY DEF TypeInv, TypeOK
  <2>4. CASE arg[t].kind = "chat" /\ "chat" \in Observed
    <3>1. t \in Channel /\ arg[t].from = t /\ arg[t].n = sent[t]
      <4>1. t \in Channel /\ arg[t] = ChatMessage(t, sent[t])
        BY <2>4 DEF OrderInv, ChatArgInv
      <4>2. ChatMessage(t, sent[t]).from = t /\ ChatMessage(t, sent[t]).n = sent[t]
        BY DEF ChatMessage
      <4>. QED  BY <4>1, <4>2
    <3>2. client'[ch] = [client[ch] EXCEPT !.heard[t] = sent[t]]
      BY <2>1, <2>4, <3>1 DEF Received
    <3>3. /\ client'[ch].heard[t] = sent[t]
          /\ \A from \in Channel \ {t} : client'[ch].heard[from] = client[ch].heard[from]
      BY <2>3, <3>1, <3>2 DEF Page
    <3>4. Told(ch, t)' = sent[t]
      BY <1>1, <1>2 DEF Told
    <3>. QED  BY <1>1, <1>3, <1>4, <1>5, <2>1, <2>2, <2>4, <3>3, <3>4 DEF OrderInv, HeardInv
  <2>5. CASE arg[t].kind # "chat" \/ "chat" \notin Observed
    <3>1. client'[ch].heard = client[ch].heard
      BY <2>1, <2>3, <2>5 DEF Received, Page, Message
    <3>2. ASSUME NEW from \in Channel, client'[ch].heard[from] # 0 PROVE Told(ch, from)' = Told(ch, from)
      <4>1. "chat" \in Observed
        BY <3>1, <3>2 DEF OrderInv, HeardInv
      <4>2. from = t => arg[t].kind # "chat"
        BY <2>5, <4>1
      <4>. QED  BY <1>1, <1>4, <4>2 DEF Told
    <3>. QED  BY <1>1, <1>3, <1>4, <2>1, <3>1, <3>2 DEF OrderInv, HeardInv
  <2>. QED  BY <2>4, <2>5
<1>6. CASE ~(ch \in chatUserMap /\ isAuth[ch] /\ open[ch])
  <2>1. client' = client
    BY <1>6 DEF Write
  <2>2. \A from \in Channel : client[ch].heard[from] # 0 => ch \notin chatUserMap
    BY <1>6 DEF OrderInv, HeardInv
  <2>. QED  BY <1>1, <1>3, <1>4, <2>1, <2>2 DEF OrderInv, HeardInv
<1>. QED  BY <1>5, <1>6

LEMMA OrderManager ==
  ASSUME TypeInv, SafeInv, OrderInv, NEW t \in Thread, ManagerStep(t), UNCHANGED serverVars
  PROVE  OrderInv'
<1>. USE DEF Goto, registry, connection, serverVars
<1>0. pc[t] \notin {"bLock", "bIter"} => arg[t].kind # "chat"
  BY DEF OrderInv, ChatArgInv
<1>1. CASE t \in Channel /\ AddChannel(t)
  BY <1>1, OrderAdd
<1>2. CASE t \in Channel /\ AuthGet(t)
  <2>1. pc'[t] # "add" /\ arg'[t].kind # "chat" /\ \A u \in Thread \ {t} : pc'[u] = pc[u] /\ arg'[u] = arg[u]
    <3>1. CASE t \in chatUserMap
      BY <1>0, <1>2, <3>1 DEF AuthGet, TypeInv, TypeOK
    <3>2. CASE t \notin chatUserMap
      BY <1>2, <3>2, ThrowQuiet DEF AuthGet
    <3>. QED  BY <3>1, <3>2
  <2>. QED  BY <1>2, <2>1, OrderQuiet DEF AuthGet
<1>3. CASE t \in Channel /\ SetUser(t)
  <2>1. pc'[t] # "add" /\ \A u \in Thread \ {t} : pc'[u] = pc[u]
    BY <1>3 DEF SetUser, TypeInv, TypeOK
  <2>. QED  BY <1>0, <1>3, <2>1, OrderQuiet DEF SetUser
<1>4. CASE t \in Channel /\ SetAuth(t)
  <2>1. /\ pc'[t] # "add" /\ \A u \in Thread \ {t} : pc'[u] = pc[u]
        /\ \A c \in Channel : isAuth[c] => isAuth'[c]
    BY <1>4 DEF SetAuth, TypeInv, TypeOK
  <2>. QED  BY <1>0, <1>4, <2>1, OrderQuiet DEF SetAuth
<1>5. CASE t \in Channel /\ CountUser(t)
  <2>1. /\ pc'[t] # "add" /\ arg'[t] = AuthResult(TRUE)
        /\ \A u \in Thread \ {t} : pc'[u] = pc[u] /\ arg'[u] = arg[u]
    BY <1>5 DEF CountUser, CallBroadcast, TypeInv, TypeOK
  <2>2. UNCHANGED <<client, open, sent, todo, isAuth, stage, chatUserMap>> /\ pc[t] = "count"
    BY <1>5 DEF CountUser
  <2>. QED  BY <2>1, <2>2, Kinds, OrderQuiet
<1>6. CASE LockWrite(t)
  <2>1. pc'[t] # "add" /\ \A u \in Thread \ {t} : pc'[u] = pc[u]
    BY <1>6 DEF LockWrite, TypeInv, TypeOK
  <2>. QED  BY <1>0, <1>6, <2>1, OrderQuiet DEF LockWrite
<1>7. ASSUME UnlockWrite(t), pc[t] \in {"rRemove", "rCount"}
      PROVE  /\ pc'[t] # "add" /\ arg'[t].kind # "chat"
             /\ \A u \in Thread \ {t} : pc'[u] = pc[u] /\ arg'[u] = arg[u] /\ todo'[u] = todo[u]
  <2>1. pc' = [pc EXCEPT ![t] = ret[t]] /\ ret[t] # "add"
    BY <1>7 DEF UnlockWrite, TypeInv, TypeOK
  <2>2. CASE ret[t] = "users"
    <3>1. todo' = [todo EXCEPT ![t] = chatUserMap'] /\ arg' = [arg EXCEPT ![t] = SysUserInfo({})]
      BY <1>7, <2>2 DEF UnlockWrite
    <3>. QED  BY <2>1, <3>1, Kinds DEF TypeInv, TypeOK
  <2>3. CASE ret[t] # "users"
    BY <1>0, <1>7, <2>1, <2>3 DEF UnlockWrite, TypeInv, TypeOK
  <2>. QED  BY <2>2, <2>3
<1>8. CASE RemoveEntry(t)
  <2>1. /\ UNCHANGED <<client, open, sent, isAuth, stage>> /\ chatUserMap' \subseteq chatUserMap
        /\ pc[t] = "rRemove"
    BY <1>8 DEF RemoveEntry
  <2>2. CASE Victim(t) \in chatUserMap
    <3>1. /\ pc'[t] # "add" /\ arg'[t] = arg[t]
          /\ \A u \in Thread \ {t} : pc'[u] = pc[u] /\ arg'[u] = arg[u] /\ todo'[u] = todo[u]
      BY <1>8, <2>2 DEF RemoveEntry, TypeInv, TypeOK
    <3>. QED  BY <1>0, <2>1, <3>1, OrderQuiet
  <2>3. CASE Victim(t) \notin chatUserMap
    <3>1. UnlockWrite(t)
      BY <1>8, <2>3 DEF RemoveEntry
    <3>. QED  BY <1>7, <2>1, <3>1, OrderQuiet
  <2>. QED  BY <2>2, <2>3
<1>9. CASE Uncount(t)
  <2>1. UNCHANGED <<client, open, sent, isAuth, stage, chatUserMap>> /\ pc[t] = "rCount" /\ UnlockWrite(t)
    BY <1>9 DEF Uncount
  <2>. QED  BY <1>7, <2>1, OrderQuiet
<1>10. CASE LockRead(t)
  <2>1. /\ pc[t] = "bLock" /\ pc'[t] = "bIter" /\ todo'[t] = chatUserMap
        /\ \A u \in Thread \ {t} : pc'[u] = pc[u] /\ todo'[u] = todo[u]
        /\ UNCHANGED <<chatUserMap, isAuth, open, arg, client, sent, stage>>
    BY <1>10 DEF LockRead, TypeInv, TypeOK
  <2>2. \A to \in chatUserMap : Told(to, t)' = Told(to, t)
    BY <2>1 DEF Told
  <2>3. arg[t].kind = "chat" => t \in Channel /\ arg[t] = ChatMessage(t, sent[t])
    BY DEF OrderInv, ChatArgInv
  <2>4. /\ UNCHANGED <<client, open>> /\ chatUserMap' \subseteq chatUserMap
        /\ \A u \in Thread \ {t} : pc'[u] = pc[u] /\ arg'[u] = arg[u] /\ todo'[u] = todo[u]
        /\ \A c \in Channel \ {t} : sent'[c] = sent[c]
        /\ \A c \in Channel : /\ isAuth[c] => isAuth'[c]
                              /\ stage[c] = "websocket" => stage'[c] = "websocket"
        /\ pc'[t] # "add"
    BY <2>1
  <2>5. arg'[t].kind = "chat" =>
           t \in Channel /\ pc'[t] \in {"bLock", "bIter"} /\ arg'[t] = ChatMessage(t, sent'[t])
    BY <2>1, <2>3
  <2>6. \A to \in chatUserMap' : Told(to, t)' = Told(to, t)
    BY <2>1, <2>2
  <2>. QED  BY <2>4, <2>5, <2>6, OrderFrame
<1>11. ASSUME NEW ch \in Channel, Write(t, ch) PROVE OrderInv'
  BY <1>11, OrderWrite
<1>12. CASE UnlockRead(t)
  <2>1. /\ pc[t] = "bIter" /\ todo[t] = {} /\ pc' = [pc EXCEPT ![t] = ret[t]]
        /\ arg' = [arg EXCEPT ![t] = IF ret[t] = "users" THEN SysUserInfo({}) ELSE Nothing]
        /\ todo' = [todo EXCEPT ![t] = IF ret[t] = "users" THEN chatUserMap ELSE {}]
        /\ UNCHANGED <<chatUserMap, isAuth, open, client, sent, stage>>
    BY <1>12 DEF UnlockRead
  <2>2. ret[t] # "add"
    BY DEF TypeInv, TypeOK
  <2>3. /\ pc'[t] # "add" /\ arg'[t] \in {SysUserInfo({}), Nothing}
        /\ \A u \in Thread \ {t} : pc'[u] = pc[u] /\ arg'[u] = arg[u] /\ todo'[u] = todo[u]
    BY <2>1, <2>2 DEF TypeInv, TypeOK
  <2>4. arg'[t].kind # "chat"
    BY <2>3, Kinds
  <2>5. \A to \in chatUserMap' : Told(to, t)' = Told(to, t)
    BY <2>1, <2>4 DEF Told
  <2>. QED  BY <2>1, <2>3, <2>4, <2>5, OrderFrame
<1>13. ASSUME t \in Channel, NEW ch \in Channel, GetUser(t, ch) PROVE OrderInv'
  <2>1. /\ pc[t] = "users" /\ UNCHANGED <<client, open, sent, isAuth, stage, chatUserMap, pc>>
        /\ todo' = [todo EXCEPT ![t] = @ \ {ch}]
        /\ arg' = [arg EXCEPT ![t].users = @ \cup {IF hasUser[ch] THEN ch ELSE NoUser}]
    BY <1>13 DEF GetUser
  <2>2. arg[t] \in UsersMessage
    BY <2>1 DEF TypeInv, ArgInv
  <2>3. /\ arg'[t] \in UsersMessage
        /\ \A u \in Thread \ {t} : arg'[u] = arg[u] /\ todo'[u] = todo[u]
    BY <2>1, <2>2, UsersGrow DEF TypeInv, TypeOK
  <2>4. arg'[t].kind # "chat"
    BY <2>3, Kinds
  <2>. QED  BY <2>1, <2>3, <2>4, OrderQuiet
<1>14. ASSUME t \in Channel, NEW ch \in Channel, GetUserGone(t, ch) PROVE OrderInv'
  <2>1. /\ pc'[t] # "add" /\ arg'[t].kind # "chat"
        /\ \A u \in Thread \ {t} : pc'[u] = pc[u] /\ arg'[u] = arg[u]
    <3>1. CASE UNCHANGED <<pc, arg>>
      BY <1>0, <1>14, <3>1 DEF GetUserGone
    <3>2. CASE Throw(t, "null")
      BY <1>14, <3>2, ThrowQuiet
    <3>. QED  BY <1>14, <3>1, <3>2 DEF GetUserGone
  <2>2. \A u \in Thread \ {t} : todo'[u] = todo[u]
    BY <1>14 DEF GetUserGone, TypeInv, TypeOK
  <2>3. pc[t] = "users" /\ UNCHANGED <<client, open, sent, isAuth, stage, chatUserMap>>
    BY <1>14 DEF GetUserGone
  <2>. QED  BY <2>1, <2>2, <2>3, OrderQuiet
<1>15. CASE t \in Channel /\ GotUsers(t)
  <2>1. /\ pc[t] = "users" /\ pc'[t] # "add" /\ arg'[t] = arg[t]
        /\ \A u \in Thread \ {t} : pc'[u] = pc[u] /\ arg'[u] = arg[u]
    BY <1>15 DEF GotUsers, CallBroadcast, TypeInv, TypeOK
  <2>2. UNCHANGED <<client, open, sent, isAuth, stage, chatUserMap, todo>>
    BY <1>15 DEF GotUsers
  <2>. QED  BY <1>0, <2>1, <2>2, OrderQuiet
<1>16. ASSUME t = Scanner, NEW ch \in Channel, ScanKey(ch) PROVE OrderInv'
  <2>1. /\ pc[t] = "scan" /\ UNCHANGED <<client, open, sent, isAuth, stage, chatUserMap, arg>>
        /\ \A u \in Thread \ {t} : todo'[u] = todo[u]
    BY <1>16 DEF ScanKey, TypeInv, TypeOK
  <2>2. pc'[t] # "add" /\ \A u \in Thread \ {t} : pc'[u] = pc[u]
    BY <1>16 DEF ScanKey, CallRemove, TypeInv, TypeOK
  <2>. QED  BY <1>0, <2>1, <2>2, OrderQuiet
<1>17. CASE t = Scanner /\ ScanEnd
  <2>1. pc'[t] # "add" /\ \A u \in Thread \ {t} : pc'[u] = pc[u]
    BY <1>17 DEF ScanEnd, TypeInv, TypeOK
  <2>. QED  BY <1>0, <1>17, <2>1, OrderQuiet DEF ScanEnd
<1>. QED
  BY <1>1, <1>2, <1>3, <1>4, <1>5, <1>6, <1>8, <1>9, <1>10, <1>11, <1>12, <1>13, <1>14, <1>15, <1>16, <1>17
     DEF ManagerStep

-----------------------------------------------------------------------------
(* The handlers, the connections and the tasks.                            *)

\* An event is taken by an idle executor.
LEMMA OrderEvent ==
  ASSUME TypeInv, OrderInv, NEW c \in Channel, pc[c] \notin {"bLock", "bIter"}, NEW place,
         place # "add", Goto(c, place),
         UNCHANGED <<client, open, sent, isAuth, todo, chatUserMap, stage>>,
         \A u \in Thread \ {c} : arg'[u] = arg[u], arg'[c].kind # "chat"
  PROVE  OrderInv'
<1>1. c \in Thread
  BY DEF Thread
<1>2. pc'[c] # "add" /\ \A u \in Thread \ {c} : pc'[u] = pc[u]
  BY <1>1 DEF Goto, TypeInv, TypeOK
<1>. QED  BY <1>1, <1>2, OrderQuiet

LEMMA OrderThrow ==
  ASSUME TypeInv, OrderInv, NEW c \in Channel, pc[c] \notin {"bLock", "bIter"}, NEW cause, Throw(c, cause),
         UNCHANGED <<client, open, sent, isAuth, todo, chatUserMap, stage>>
  PROVE  OrderInv'
<1>1. c \in Thread
  BY DEF Thread
<1>2. /\ pc'[c] # "add" /\ arg'[c].kind # "chat"
      /\ \A u \in Thread \ {c} : pc'[u] = pc[u] /\ arg'[u] = arg[u]
  BY ThrowQuiet
<1>. QED  BY <1>1, <1>2, OrderQuiet

\* The next message is broadcast with the next number.
LEMMA OrderChat ==
  ASSUME TypeInv, OrderInv, NEW c \in Channel, Chat(c)
  PROVE  OrderInv'
<1>. c \in Thread
  BY DEF Thread
<1>1. /\ pc[c] = "idle" /\ pc' = [pc EXCEPT ![c] = "bLock"]
      /\ arg' = [arg EXCEPT ![c] = ChatMessage(c, sent[c] + 1)]
      /\ sent' = [sent EXCEPT ![c] = @ + 1]
      /\ UNCHANGED <<client, open, isAuth, todo, chatUserMap, stage>>
  BY DEF Chat, CallBroadcast, Goto, TakesFrame, Takes, registry, connection
<1>2. /\ pc'[c] = "bLock" /\ arg'[c] = ChatMessage(c, sent[c] + 1) /\ sent'[c] = sent[c] + 1
      /\ \A u \in Thread \ {c} : pc'[u] = pc[u] /\ arg'[u] = arg[u]
      /\ \A d \in Channel \ {c} : sent'[d] = sent[d]
  BY <1>1 DEF TypeInv, TypeOK
<1>3. arg[c].kind # "chat" /\ arg'[c].kind = "chat" /\ sent[c] \in Nat
  BY <1>1, <1>2 DEF OrderInv, ChatArgInv, ChatMessage, TypeInv, TypeOK
<1>4. \A to : Told(to, c)' = Told(to, c)
  BY <1>2, <1>3 DEF Told
<1>. QED  BY <1>1, <1>2, <1>4, OrderFrame

\* A page that is upgraded has heard nothing.
LEMMA OrderHandshake ==
  ASSUME TypeInv, SafeInv, OrderInv, NEW c \in Channel, Handshake(c)
  PROVE  OrderInv'
<1>. c \in Thread
  BY DEF Thread
<1>1. CASE ~handshaker
  BY <1>1, OrderThrow DEF Handshake, registry, connection
<1>2. CASE handshaker
  <2>1. /\ pc[c] = "hsUse" /\ pc' = [pc EXCEPT ![c] = "add"]
        /\ stage' = [stage EXCEPT ![c] = "websocket"]
        /\ UNCHANGED <<client, open, sent, isAuth, todo, chatUserMap, arg>>
    BY <1>2 DEF Handshake, Goto, registry, connection
  <2>2. stage[c] = "http"
    BY <2>1 DEF SafeInv, ControlInv, EntryInv
  <2>3. /\ \A u \in Thread \ {c} : pc'[u] = pc[u]
        /\ \A d \in Channel : stage[d] = "websocket" => stage'[d] = "websocket"
    BY <2>1 DEF TypeInv, TypeOK
  <2>4. arg[c].kind # "chat"
    BY <2>1 DEF OrderInv, ChatArgInv
  <2>5. ChatArgInv'
    BY <2>1, <2>3, <2>4 DEF OrderInv, ChatArgInv
  <2>6. \A to, from \in Channel : Told(to, from)' = Told(to, from)
    BY <2>1, <2>3, <2>4 DEF Told, Thread
  <2>7. \A to, from \in Channel : client[to].heard[from] # 0 => to # c /\ pc'[to] = pc[to]
    BY <2>2, <2>3 DEF OrderInv, HeardInv, Thread
  <2>. QED  BY <2>1, <2>3, <2>5, <2>6, <2>7 DEF OrderInv, HeardInv
<1>. QED  BY <1>1, <1>2

LEMMA OrderDisconnect ==
  ASSUME TypeInv, OrderInv, NEW c \in Channel, Disconnect(c)
  PROVE  OrderInv'
<1>1. /\ open' = [open EXCEPT ![c] = FALSE] /\ client' = [client EXCEPT ![c] = NoPage]
      /\ UNCHANGED <<chatUserMap, isAuth, pc, todo, arg, stage, sent>>
  BY DEF Disconnect, registry, thread, serverVars
<1>2. /\ \A to \in Channel \ {c} : client'[to] = client[to] /\ open'[to] = open[to]
      /\ \A from \in Channel : client'[c].heard[from] = 0
  BY <1>1 DEF TypeInv, TypeOK, NoPage
<1>. QED  BY <1>1, <1>2 DEF OrderInv, ChatArgInv, HeardInv, Told

LEMMA OrderServer ==
  ASSUME TypeInv, SafeInv, OrderInv, NEW c \in Channel,
         Event(c) \/ HandlerStep(c) \/ ChannelUnregistered(c) \/ Age(c)
  PROVE  OrderInv'
<1>. USE DEF registry, connection, thread, serverVars, TakesFrame, Takes
<1>0. pc[c] \notin {"bLock", "bIter"} => arg[c].kind # "chat"
  BY DEF OrderInv, ChatArgInv, Thread
<1>1. CASE PlainRequest(c) \/ PongFrame(c) \/ Age(c)
  BY <1>1 DEF PlainRequest, PongFrame, Age, OrderInv, ChatArgInv, HeardInv, Told
<1>2. CASE Upgrade(c)
  BY <1>0, <1>2, OrderEvent DEF Upgrade
<1>3. CASE HandshakerTest(c)
  BY <1>0, <1>3, OrderEvent DEF HandshakerTest
<1>4. CASE Handshake(c)
  BY <1>4, OrderHandshake
<1>5. CASE CloseFrame(c)
  <2>1. CASE handshaker
    BY <1>0, <1>5, <2>1, OrderEvent DEF CloseFrame, CallRemove
  <2>2. CASE ~handshaker
    BY <1>5, <2>2, OrderThrow DEF CloseFrame
  <2>. QED  BY <2>1, <2>2
<1>6. CASE BadFrame(c) \/ AuthFails(c) \/ IOError(c)
  BY <1>6, OrderThrow DEF BadFrame, AuthFails, IOError
<1>7. CASE AuthAccepted(c)
  BY <1>0, <1>7, OrderEvent DEF AuthAccepted
<1>8. CASE AuthRefused(c)
  <2>1. /\ Goto(c, "bLock") /\ arg' = [arg EXCEPT ![c] = AuthResult(FALSE)] /\ pc[c] = "idle"
        /\ UNCHANGED <<client, open, sent, isAuth, todo, chatUserMap, stage>>
    BY <1>8 DEF AuthRefused, CallBroadcast
  <2>2. arg'[c].kind # "chat" /\ \A u \in Thread \ {c} : arg'[u] = arg[u]
    BY <2>1, Kinds DEF TypeInv, TypeOK, Thread
  <2>. QED  BY <2>1, <2>2, OrderEvent
<1>9. CASE Chat(c)
  BY <1>9, OrderChat
<1>10. CASE ReaderIdle(c)
  BY <1>0, <1>10, OrderEvent DEF ReaderIdle, CallRemove
<1>11. CASE ExceptionCaught(c)
  BY <1>0, <1>11, OrderEvent DEF ExceptionCaught, CallRemove
<1>12. CASE ChannelUnregistered(c)
  BY <1>0, <1>12, OrderEvent DEF ChannelUnregistered, CallRemove
<1>13. CASE Disconnect(c)
  BY <1>13, OrderDisconnect
<1>. QED
  BY <1>1, <1>2, <1>3, <1>4, <1>5, <1>6, <1>7, <1>8, <1>9, <1>10, <1>11, <1>12, <1>13 DEF Event, HandlerStep

LEMMA OrderTasks ==
  ASSUME TypeInv, OrderInv, ScanStart \/ PingStart
  PROVE  OrderInv'
<1>. USE DEF registry, connection, serverVars
<1>1. CASE ScanStart
  <2>1. Scanner \in Thread /\ pc[Scanner] = "idle"
    BY <1>1 DEF ScanStart, Thread
  <2>2. arg[Scanner].kind # "chat"
    BY <2>1 DEF OrderInv, ChatArgInv
  <2>3. pc'[Scanner] # "add" /\ \A u \in Thread \ {Scanner} : pc'[u] = pc[u] /\ todo'[u] = todo[u]
    BY <1>1, <2>1 DEF ScanStart, Goto, TypeInv, TypeOK
  <2>. QED  BY <1>1, <2>1, <2>2, <2>3, OrderQuiet DEF ScanStart
<1>2. CASE PingStart
  <2>1. Pinger \in Thread /\ pc[Pinger] = "idle"
    BY <1>2 DEF PingStart, Thread
  <2>2. pc' = [pc EXCEPT ![Pinger] = "bLock"] /\ arg' = [arg EXCEPT ![Pinger] = Ping]
        /\ UNCHANGED <<client, open, sent, isAuth, todo, chatUserMap, stage>>
    BY <1>2 DEF PingStart, CallBroadcast, Goto
  <2>3. /\ pc'[Pinger] # "add" /\ arg'[Pinger].kind # "chat"
        /\ \A u \in Thread \ {Pinger} : pc'[u] = pc[u] /\ arg'[u] = arg[u]
    BY <2>1, <2>2, Kinds DEF TypeInv, TypeOK
  <2>. QED  BY <2>1, <2>2, <2>3, OrderQuiet
<1>. QED  BY <1>1, <1>2

LEMMA OrderInit == Init => OrderInv
BY Kinds DEF Init, ManagerInit, OrderInv, ChatArgInv, HeardInv, NoPage

LEMMA OrderNext == TypeInv /\ SafeInv /\ OrderInv /\ [Next]_vars => OrderInv'
<1>. SUFFICES ASSUME TypeInv, SafeInv, OrderInv, [Next]_vars PROVE OrderInv'
  OBVIOUS
<1>1. ASSUME NEW t \in Thread, Run(t) PROVE OrderInv'
  BY <1>1, OrderManager, OrderServer DEF Run
<1>2. ASSUME NEW c \in Channel, Event(c) \/ ChannelUnregistered(c) \/ Age(c) PROVE OrderInv'
  BY <1>2, OrderServer
<1>3. CASE UNCHANGED vars
  BY <1>3 DEF vars, managerVars, registry, connection, thread, serverVars,
              OrderInv, ChatArgInv, HeardInv, Told
<1>. QED  BY <1>1, <1>2, <1>3, OrderTasks DEF Next

-----------------------------------------------------------------------------
(* The theorem.                                                            *)

LEMMA OnlyWrites ==
  ASSUME [Next]_vars
  PROVE  \/ client' = client
         \/ \E t \in Thread, ch \in Channel : Write(t, ch)
         \/ \E c \in Channel : Disconnect(c)
<1>1. ASSUME NEW t \in Thread, ManagerStep(t), \A ch \in Channel : ~Write(t, ch) PROVE client' = client
  BY <1>1 DEF ManagerStep, AddChannel, AuthGet, SetUser, SetAuth, CountUser, LockWrite, RemoveEntry,
              Uncount, LockRead, UnlockRead, GetUser, GetUserGone, GotUsers, ScanKey, ScanEnd
<1>2. ASSUME NEW c \in Channel, Event(c) \/ HandlerStep(c) \/ ChannelUnregistered(c) \/ Age(c),
             ~Disconnect(c)
      PROVE  client' = client
  BY <1>2 DEF Event, HandlerStep, PlainRequest, Upgrade, HandshakerTest, Handshake, CloseFrame,
              BadFrame, PongFrame, AuthAccepted, AuthRefused, AuthFails, Chat, ReaderIdle, IOError,
              ExceptionCaught, ChannelUnregistered, Age
<1>3. CASE ScanStart \/ PingStart \/ UNCHANGED vars
  BY <1>3 DEF ScanStart, PingStart, vars, managerVars
<1>. QED  BY <1>1, <1>2, <1>3 DEF Next, Run

\* A page that has received a message of a sender receives the next ones in the order they
\* were sent and without a gap, as long as it receives any: for any number of channels,
\* broadcasts, removals and repeated authentications (MessageHandler, broadMessage).
THEOREM ChatsAreInOrder == Spec => NoChatSkipped
<1>. DEFINE Next1 == \A to, from \in Channel :
                       LET before == client[to].heard[from]
                           after == client'[to].heard[from]
                       IN  before # 0 /\ after \notin {0, before} => after = before + 1
<1>1. TypeInv /\ SafeInv /\ OrderInv /\ [Next]_vars => [Next1]_vars
  <2>. SUFFICES ASSUME TypeInv, SafeInv, OrderInv, [Next]_vars,
                       NEW to \in Channel, NEW from \in Channel,
                       client[to].heard[from] # 0, client'[to].heard[from] # 0,
                       client'[to].heard[from] # client[to].heard[from]
                PROVE  client'[to].heard[from] = client[to].heard[from] + 1
    OBVIOUS
  <2>1. ASSUME NEW t \in Thread, NEW ch \in Channel, Write(t, ch)
        PROVE  client'[to].heard[from] = client[to].heard[from] + 1
    <3>1. /\ ch = to /\ to \in chatUserMap /\ to \in todo[t]
          /\ client'[to] = Received(client[to], arg[t])
      BY <2>1 DEF Write, TypeInv, TypeOK
    <3>2. client[to] \in Page /\ arg[t] \in Message
      BY DEF TypeInv, TypeOK
    <3>3. arg[t].kind = "chat" /\ "chat" \in Observed
      <4>1. CASE arg[t].kind \notin Observed
        BY <3>1, <4>1 DEF Received
      <4>2. CASE arg[t].kind \in Observed /\ arg[t].kind # "chat"
        <5>1. client'[to].heard = client[to].heard
          BY <3>1, <3>2, <4>2 DEF Received, Page, Message
        <5>. QED  BY <5>1
      <4>. QED  BY <4>1, <4>2
    <3>4. t \in Channel /\ arg[t] = ChatMessage(t, sent[t])
      BY <3>3 DEF OrderInv, ChatArgInv
    <3>5. client'[to] = [client[to] EXCEPT !.heard[t] = sent[t]]
      BY <3>1, <3>3, <3>4 DEF Received, ChatMessage
    <3>6. from = t /\ client'[to].heard[t] = sent[t]
      BY <3>2, <3>4, <3>5 DEF Page
    <3>7. client[to].heard[t] = Told(to, t)
      BY <3>1, <3>4, <3>6 DEF OrderInv, HeardInv
    <3>8. Told(to, t) = sent[t] - 1 /\ sent[t] \in Nat
      BY <3>1, <3>3, <3>4 DEF Told, TypeInv, TypeOK
    <3>. QED  BY <3>6, <3>7, <3>8
  <2>2. ASSUME NEW c \in Channel, Disconnect(c) PROVE FALSE
    <3>1. client'[to] = client[to] \/ client'[to] = NoPage
      BY <2>2 DEF Disconnect, TypeInv, TypeOK
    <3>. QED  BY <3>1 DEF NoPage
  <2>. QED  BY <2>1, <2>2, OnlyWrites
<1>. QED  BY <1>1, TypeInit, TypeNext, SafeInit, SafeNext, OrderInit, OrderNext, PTL DEF Spec, NoChatSkipped
=============================================================================
