--------------------------- MODULE ChannelManager ---------------------------
(***************************************************************************)
(* The registry of websocket connections of the chat server               *)
(* (chat/.../service/ChannelManager.java): the map from channels to        *)
(* ChatUser objects, the counter of authenticated users and the fair       *)
(* read-write lock, with every operation cut at the points where another   *)
(* thread can run in between.                                              *)
(*                                                                         *)
(* A thread is the executor of one channel (Netty runs all the events of a *)
(* channel on one thread, so the executor is named by the channel), the    *)
(* scheduled scan (Scanner) or the scheduled heartbeat (Pinger).  Channels *)
(* that share an executor only have fewer interleavings.                   *)
(*                                                                         *)
(* What is not modelled of the data: addresses, logging, the text of the   *)
(* messages.  User has no equals(), and each authentication parses a new   *)
(* User object out of the cached session, so a user object is told from    *)
(* another by the channel that holds it: it is named by that channel.      *)
(***************************************************************************)
EXTENDS Integers, FiniteSets, Sequences

CONSTANTS Channel,   \* the websocket connections
          Scanner,   \* the thread of the periodic scan
          Pinger,    \* the thread of the periodic ping
          Task,      \* which of the two are scheduled
          NoThread,  \* "nobody holds the write lock"
          NoUser,    \* the null user of a channel that has not authenticated
          Observed   \* the kinds of messages a page remembers

ASSUME ChannelAssumption ==
  /\ IsFiniteSet(Channel)
  /\ {Scanner, Pinger, NoThread, NoUser} \cap Channel = {}
  /\ Scanner # Pinger
  /\ NoThread \notin {Scanner, Pinger}
  /\ Task \subseteq {Scanner, Pinger}
  /\ Observed \subseteq {"auth", "users", "chat"}

Thread == Channel \cup Task

VARIABLES
  chatUserMap,  \* the keys of the map: the channels that have a ChatUser
  hasUser,      \* ChatUser.user is set
  isAuth,       \* ChatUser.isAuth
  fresh,        \* ChatUser.time lies within the last 10 seconds
  userCount,    \* the AtomicInteger
  readers,      \* the threads that hold the read lock
  writer,       \* the thread that holds the write lock, or NoThread
  queue,        \* the threads that wait for the lock, in the order they came
  open,         \* channel.isOpen() and isActive()
  closing,      \* channel.close() has been called
  pc,           \* where each thread is
  ret,          \* where it goes on after the manager call it is in
  todo,         \* the keys the iteration it is in has still to visit
  arg,          \* the message it builds or broadcasts, or the exception thrown
  scanned,      \* the channel the scan is looking at
  catching,     \* the channels whose executor is inside exceptionCaught
  client        \* what the page at the other end has received

registry == <<chatUserMap, hasUser, isAuth, fresh, userCount>>
rwLock == <<readers, writer, queue>>
connection == <<open, closing>>
thread == <<pc, ret, todo, arg, scanned, catching>>
managerVars == <<registry, rwLock, connection, thread, client>>

-----------------------------------------------------------------------------
(* The protocol messages, and the exceptions the handlers can meet. *)

Cause == {"io", "frame", "service", "null"}

Nothing == [kind |-> "none"]
AuthResult(ok) == [kind |-> "auth", ok |-> ok]
SysUserInfo(users) == [kind |-> "users", users |-> users]
ChatMessage(from, n) == [kind |-> "chat", from |-> from, n |-> n]
Ping == [kind |-> "ping"]
Thrown(cause) == [kind |-> "thrown", cause |-> cause]

Message == [kind : {"none", "ping"}]
             \cup [kind : {"auth"}, ok : BOOLEAN]
             \cup [kind : {"users"}, users : SUBSET (Channel \cup {NoUser})]
             \cup [kind : {"chat"}, from : Channel, n : Nat]
             \cup [kind : {"thrown"}, cause : Cause]

\* The page: the last answer to an authentication it saw, the last list of
\* users, and the number of the last chat message it saw of each sender.
Page == [answer : {"none", "accepted", "refused"},
         users  : SUBSET (Channel \cup {NoUser}),
         heard  : [Channel -> Nat]]

NoPage == [answer |-> "none", users |-> {}, heard |-> [c \in Channel |-> 0]]

Received(page, m) ==
  IF m.kind \notin Observed
  THEN page
  ELSE CASE m.kind = "auth"  -> [page EXCEPT !.answer = IF m.ok THEN "accepted"
                                                                ELSE "refused"]
         [] m.kind = "users" -> [page EXCEPT !.users = m.users]
         [] m.kind = "chat"  -> [page EXCEPT !.heard[m.from] = m.n]
         [] OTHER            -> page

Location == {"idle", "hsTest", "hsUse", "add", "authGet", "setUser",
             "setAuth", "count", "users", "bLock", "bIter", "rLock",
             "rRemove", "rCount", "except", "scan"}

ManagerInit ==
  /\ chatUserMap = {}
  /\ hasUser = [c \in Channel |-> FALSE]
  /\ isAuth = [c \in Channel |-> FALSE]
  /\ fresh = [c \in Channel |-> FALSE]
  /\ userCount = 0
  /\ readers = {} /\ writer = NoThread /\ queue = <<>>
  /\ open = [c \in Channel |-> TRUE]
  /\ closing = [c \in Channel |-> FALSE]
  /\ pc = [t \in Thread |-> "idle"]
  /\ ret = [t \in Thread |-> "idle"]
  /\ todo = [t \in Thread |-> {}]
  /\ arg = [t \in Thread |-> Nothing]
  /\ scanned = NoThread
  /\ catching = {}
  /\ client = [c \in Channel |-> NoPage]

-----------------------------------------------------------------------------
(* Calls: what a caller does to enter an operation of the manager.  Both    *)
(* operations begin with the lock, which is fair: whoever asks for it waits *)
(* behind all that asked before, readers behind writers included.           *)

Goto(t, l) == pc' = [pc EXCEPT ![t] = l]

\* Mutant: the removal returns to the place it was called from.
CallRemoveAgain(t, after) ==
  /\ Goto(t, "rLock")
  /\ queue' = Append(queue, t)
  /\ ret' = [ret EXCEPT ![t] = pc[t]]

CallRemove(t, after) ==
  /\ Goto(t, "rLock")
  /\ queue' = Append(queue, t)
  /\ ret' = [ret EXCEPT ![t] = after]

CallBroadcast(t, m, after) ==
  /\ Goto(t, "bLock")
  /\ queue' = Append(queue, t)
  /\ ret' = [ret EXCEPT ![t] = after]
  /\ arg' = [arg EXCEPT ![t] = m]

Granted(t) == queue # <<>> /\ Head(queue) = t

\* An exception leaves the handler and Netty passes it to exceptionCaught; one
\* thrown by exceptionCaught itself is only logged.
Throw(c, cause) ==
  IF c \in catching
  THEN /\ Goto(c, "idle")
       /\ arg' = [arg EXCEPT ![c] = Nothing]
       /\ catching' = catching \ {c}
  ELSE /\ Goto(c, "except")
       /\ arg' = [arg EXCEPT ![c] = Thrown(cause)]
       /\ UNCHANGED catching

-----------------------------------------------------------------------------
(* addChannel.  The iterators of ConcurrentHashMap are weakly consistent:   *)
(* an iteration under way may or may not come across the new key.          *)

Iterating == {t \in Thread : \/ pc[t] \in {"users", "bIter", "scan"}
                               \/ ret[t] = "scan"}

AddChannel(c) ==
  /\ pc[c] = "add"
  /\ chatUserMap' = chatUserMap \cup {c}
  /\ hasUser' = [hasUser EXCEPT ![c] = FALSE]
  /\ isAuth' = [isAuth EXCEPT ![c] = FALSE]
  /\ fresh' = [fresh EXCEPT ![c] = FALSE]
  /\ \E late \in SUBSET Iterating :
       todo' = [t \in Thread |-> IF t \in late THEN todo[t] \cup {c} ELSE todo[t]]
  /\ Goto(c, "idle")
  /\ UNCHANGED <<userCount, rwLock, connection, ret, arg, scanned, catching, client>>

-----------------------------------------------------------------------------
(* authUser, from the lookup in the map on.  The token and the account have *)
(* been checked (AuthRequest in ChatServer).  None of it is locked.         *)

AuthGet(c) ==
  /\ pc[c] = "authGet"
  /\ \/ /\ c \in chatUserMap
        /\ Goto(c, "setUser")
        /\ UNCHANGED <<arg, catching>>
     \/ /\ c \notin chatUserMap
        /\ Throw(c, "null")
  /\ UNCHANGED <<registry, rwLock, connection, ret, todo, scanned, client>>

SetUser(c) ==
  /\ pc[c] = "setUser"
  /\ hasUser' = [hasUser EXCEPT ![c] = TRUE]
  /\ Goto(c, "setAuth")
  /\ UNCHANGED <<chatUserMap, isAuth, fresh, userCount, rwLock, connection, ret,
                 todo, arg, scanned, catching, client>>

\* setAuth and setTime in one step: time is only read where isAuth is false.
SetAuth(c) ==
  /\ pc[c] = "setAuth"
  /\ isAuth' = [isAuth EXCEPT ![c] = TRUE]
  /\ fresh' = [fresh EXCEPT ![c] = TRUE]
  /\ Goto(c, "count")
  /\ UNCHANGED <<chatUserMap, hasUser, userCount, rwLock, connection, ret, todo,
                 arg, scanned, catching, client>>

\* incrementAndGet, and the handler broadcasts the success.
CountUser(c) ==
  /\ pc[c] = "count"
  /\ userCount' = userCount + 1
  /\ CallBroadcast(c, AuthResult(TRUE), "users")
  /\ UNCHANGED <<chatUserMap, hasUser, isAuth, fresh, readers, writer, connection, todo,
                 scanned, catching, client>>

-----------------------------------------------------------------------------
(* removeChannel, by the executor of the channel or by the scan. *)

Victim(t) == IF t = Scanner THEN scanned ELSE t

\* Mutant: removals do not wait for broadcasts.
LockWriteOverReaders(t) ==
  /\ pc[t] = "rLock"
  /\ Granted(t)
  /\ writer = NoThread
  /\ writer' = t
  /\ queue' = Tail(queue)
  /\ Goto(t, "rRemove")
  /\ UNCHANGED <<registry, readers, connection, ret, todo, arg, scanned,
                 catching, client>>

LockWrite(t) ==
  /\ pc[t] = "rLock"
  /\ Granted(t)
  /\ readers = {} /\ writer = NoThread
  /\ writer' = t
  /\ queue' = Tail(queue)
  /\ Goto(t, "rRemove")
  /\ UNCHANGED <<registry, readers, connection, ret, todo, arg, scanned,
                 catching, client>>

\* The end of removeChannel: the lock is released and the caller goes on, the
\* handlers with getUsers (a new iteration), the scan with its next key.
UnlockWrite(t) ==
  /\ writer' = NoThread
  /\ Goto(t, ret[t])
  /\ ret' = [ret EXCEPT ![t] = "idle"]
  /\ IF ret[t] = "users"
     THEN /\ todo' = [todo EXCEPT ![t] = chatUserMap']
          /\ arg' = [arg EXCEPT ![t] = SysUserInfo({})]
     ELSE UNCHANGED <<todo, arg>>

\* Mutant: the channel is not told to close.
RemoveEntryOnly(t) ==
  /\ pc[t] = "rRemove"
  /\ chatUserMap' = chatUserMap \ {Victim(t)}
  /\ IF Victim(t) \in chatUserMap
     THEN /\ Goto(t, "rCount")
          /\ UNCHANGED <<writer, ret, todo, arg>>
     ELSE UnlockWrite(t)
  /\ UNCHANGED <<hasUser, isAuth, fresh, userCount, readers, queue, connection,
                 scanned, catching, client>>

\* Mutant: nothing is removed of a channel that is already down.
RemoveEntryIfOpen(t) ==
  /\ pc[t] = "rRemove"
  /\ closing' = [closing EXCEPT ![Victim(t)] = TRUE]
  /\ IF Victim(t) \in chatUserMap /\ open[Victim(t)]
     THEN /\ chatUserMap' = chatUserMap \ {Victim(t)}
          /\ Goto(t, "rCount")
          /\ UNCHANGED <<writer, ret, todo, arg>>
     ELSE chatUserMap' = chatUserMap /\ UnlockWrite(t)
  /\ UNCHANGED <<hasUser, isAuth, fresh, userCount, readers, queue, open, scanned,
                 catching, client>>

RemoveEntry(t) ==
  /\ pc[t] = "rRemove"
  /\ closing' = [closing EXCEPT ![Victim(t)] = TRUE]
  /\ chatUserMap' = chatUserMap \ {Victim(t)}
  /\ IF Victim(t) \in chatUserMap
     THEN /\ Goto(t, "rCount")
          /\ UNCHANGED <<writer, ret, todo, arg>>
     ELSE UnlockWrite(t)
  /\ UNCHANGED <<hasUser, isAuth, fresh, userCount, readers, queue, open, scanned,
                 catching, client>>

\* Mutant: unauthenticated channels are discounted too.
UncountAll(t) ==
  /\ pc[t] = "rCount"
  /\ userCount' = userCount - 1
  /\ chatUserMap' = chatUserMap
  /\ UnlockWrite(t)
  /\ UNCHANGED <<hasUser, isAuth, fresh, readers, queue, connection, scanned,
                 catching, client>>

Uncount(t) ==
  /\ pc[t] = "rCount"
  /\ userCount' = IF isAuth[Victim(t)] THEN userCount - 1 ELSE userCount
  /\ chatUserMap' = chatUserMap
  /\ UnlockWrite(t)
  /\ UNCHANGED <<hasUser, isAuth, fresh, readers, queue, connection, scanned, catching,
                 client>>

-----------------------------------------------------------------------------
(* broadMessage and broadPing. *)

\* Mutant: the lock is not fair.
LockReadUnfair(t) ==
  /\ pc[t] = "bLock"
  /\ writer = NoThread
  /\ readers' = readers \cup {t}
  /\ queue' = SelectSeq(queue, LAMBDA u : u # t)
  /\ todo' = [todo EXCEPT ![t] = chatUserMap]
  /\ Goto(t, "bIter")
  /\ UNCHANGED <<registry, writer, connection, ret, arg, scanned, catching, client>>

\* Mutant: a broadcast that does not get the lock at once reaches nobody.
TryLockRead(t) ==
  /\ pc[t] = "bLock"
  /\ readers' = readers \cup {t}
  /\ queue' = SelectSeq(queue, LAMBDA u : u # t)
  /\ todo' = [todo EXCEPT ![t] = IF writer = NoThread THEN chatUserMap ELSE {}]
  /\ Goto(t, "bIter")
  /\ UNCHANGED <<registry, writer, connection, ret, arg, scanned, catching, client>>

LockRead(t) ==
  /\ pc[t] = "bLock"
  /\ Granted(t)
  /\ writer = NoThread
  /\ readers' = readers \cup {t}
  /\ queue' = Tail(queue)
  /\ todo' = [todo EXCEPT ![t] = chatUserMap]
  /\ Goto(t, "bIter")
  /\ UNCHANGED <<registry, writer, connection, ret, arg, scanned, catching, client>>

\* One key: writeAndFlush to it if it still has a ChatUser, authenticated; a
\* write to a connection that is down fails unnoticed.
Write(t, ch) ==
  /\ pc[t] = "bIter"
  /\ ch \in todo[t]
  /\ todo' = [todo EXCEPT ![t] = @ \ {ch}]
  /\ client' = IF ch \in chatUserMap /\ isAuth[ch] /\ open[ch]
               THEN [client EXCEPT ![ch] = Received(@, arg[t])]
               ELSE client
  /\ UNCHANGED <<registry, rwLock, connection, pc, ret, arg, scanned, catching>>

\* The lock is released; after the answer to an authentication the handler
\* goes on with getUsers, otherwise it is done.
UnlockRead(t) ==
  /\ pc[t] = "bIter"
  /\ todo[t] = {}
  /\ readers' = readers \ {t}
  /\ Goto(t, ret[t])
  /\ ret' = [ret EXCEPT ![t] = "idle"]
  /\ todo' = [todo EXCEPT ![t] = IF ret[t] = "users" THEN chatUserMap ELSE {}]
  /\ arg' = [arg EXCEPT ![t] = IF ret[t] = "users" THEN SysUserInfo({}) ELSE Nothing]
  /\ catching' = catching \ {t}
  /\ UNCHANGED <<registry, writer, queue, connection, scanned, client>>

-----------------------------------------------------------------------------
(* getUsers, without the lock.  A key that was removed after the iterator   *)
(* fetched it is dereferenced all the same.                                 *)

GetUser(c, ch) ==
  /\ pc[c] = "users"
  /\ ch \in todo[c]
  /\ ch \in chatUserMap
  /\ todo' = [todo EXCEPT ![c] = @ \ {ch}]
  /\ arg' = [arg EXCEPT ![c].users = @ \cup {IF hasUser[ch] THEN ch ELSE NoUser}]
  /\ UNCHANGED <<registry, rwLock, connection, pc, ret, scanned, catching, client>>

GetUserGone(c, ch) ==
  /\ pc[c] = "users"
  /\ ch \in todo[c]
  /\ ch \notin chatUserMap
  /\ \/ /\ todo' = [todo EXCEPT ![c] = @ \ {ch}]  \* the iterator never saw it
        /\ UNCHANGED <<pc, arg, catching>>
     \/ /\ todo' = [todo EXCEPT ![c] = {}]        \* it did: get() gives null
        /\ Throw(c, "null")
  /\ UNCHANGED <<registry, rwLock, connection, ret, scanned, client>>

\* The list is complete, and every caller broadcasts it.
GotUsers(c) ==
  /\ pc[c] = "users"
  /\ todo[c] = {}
  /\ CallBroadcast(c, arg[c], "idle")
  /\ UNCHANGED <<registry, readers, writer, connection, todo, scanned, catching, client>>

-----------------------------------------------------------------------------
(* scanNotActiveChannel, without the lock until removeChannel takes it. *)

\* Mutant: the test of isAuth is the wrong way round.
ExpiredMembers(ch) == ~open[ch] \/ (isAuth[ch] /\ ~fresh[ch])

Expired(ch) == ~open[ch] \/ (~isAuth[ch] /\ ~fresh[ch])

ScanKey(ch) ==
  /\ pc[Scanner] = "scan"
  /\ ch \in todo[Scanner]
  /\ todo' = [todo EXCEPT ![Scanner] = @ \ {ch}]
  /\ IF ch \in chatUserMap /\ Expired(ch)
     THEN scanned' = ch /\ CallRemove(Scanner, "scan")
     ELSE UNCHANGED <<scanned, pc, ret, queue>>
  /\ UNCHANGED <<registry, readers, writer, connection, arg, catching, client>>

ScanEnd ==
  /\ pc[Scanner] = "scan"
  /\ todo[Scanner] = {}
  /\ Goto(Scanner, "idle")
  /\ scanned' = NoThread
  /\ UNCHANGED <<registry, rwLock, connection, ret, todo, arg, catching, client>>

-----------------------------------------------------------------------------
(* The steps of a thread inside the manager. *)

ManagerStep(t) ==
  \/ t \in Channel /\ AddChannel(t)
  \/ t \in Channel /\ AuthGet(t)
  \/ t \in Channel /\ SetUser(t)
  \/ t \in Channel /\ SetAuth(t)
  \/ t \in Channel /\ CountUser(t)
  \/ LockWrite(t)
  \/ RemoveEntry(t)
  \/ Uncount(t)
  \/ LockRead(t)
  \/ \E ch \in Channel : Write(t, ch)
  \/ UnlockRead(t)
  \/ t \in Channel /\ \E ch \in Channel : GetUser(t, ch)
  \/ t \in Channel /\ \E ch \in Channel : GetUserGone(t, ch)
  \/ t \in Channel /\ GotUsers(t)
  \/ t = Scanner /\ \E ch \in Channel : ScanKey(ch)
  \/ t = Scanner /\ ScanEnd
=============================================================================
