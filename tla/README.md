# JavaQuarkBBS: a verification development

TLA+ models of the JavaQuarkBBS forum (package `com.quark`), the TLC
configurations that check them and TLAPS proofs about them.  Paths below are
relative to `src/`; `CM`, `UA`, `MH`, `QS` stand for `ChannelManager.java`,
`UserAuthHandler.java`, `MessageHandler.java` and `QuarkChatServer.java` under
`chat/src/main/java/com/quark/chat/`.

## 1. Inventory

Five Maven modules, three servers and one library, over one MySQL database and
one Redis:

| part | state | operations | interacts with |
|---|---|---|---|
| **chat** registry (`CM`) | `chatUserMap` (ConcurrentHashMap Channel -> ChatUser), `userCount` (AtomicInteger), fair `ReentrantReadWriteLock` | addChannel, authUser, removeChannel, broadMessage, broadPing, scanNotActiveChannel, updateUserTime, getUsers | called by every channel's executor and by two scheduled tasks |
| **chat** handlers (`UA`, `MH`) | the `handshaker` field (shared by all channels), the codecs of each pipeline | HTTP upgrade, text frames by type, close/ping/pong frames, idle event, exceptionCaught, channelUnregistered | CM; Redis and the database through ChatServiceImpl |
| **chat** server (`QS`) | thread pools, schedules | init, start, shutdown; scan every 60 s, ping every 50 s, reader idle 60 s | CM |
| **chat** page (`portal/.../chat/home.html`) | what it shows, `isAuth` | onmessage, send, onclose | the websocket |
| **rest** sessions and accounts (`UserServiceImpl`, `RedisService`, `UserController`) | Redis string per token (the user, 24 h), Redis set of logged-in ids, the user rows | register, login, get by token (refreshes the life), logout, update profile / icon / password | all other rest controllers, portal, chat |
| **rest** posts and replies (`PostsServiceImpl`, `ReplyServiceImpl`) | rows of posts, replies, labels with their counters | savePosts, saveReply (transactions), queries | notifications, push |
| **rest** notifications (`NotificationServiceImpl`, `WebSocketService`) | notification rows (`isRead`) | count, list and mark read, delete, push the count | STOMP broker, header page |
| **rest** rank cache (`RankController`) | two Redis keys with a life of one hour | cache-aside reads | database |
| **rest** uploads, labels | files | upload, list | session (icon) |
| **admin** moderation (`PostsServiceImpl`, `UserServiceImpl`, ...) | rows shared with rest | toggle top / good / enable, delete | database |
| **admin** roles (`role/roles.html`, `RoleServiceImpl`, `PermissionServiceImpl`) | tables of roles, permissions, who holds which; in the page `roleId`, the tree, the dialog | show a role's permissions, save them, add, delete | the tree control, database |
| **admin** tree control (`jquery.ztree.core.js`, `jquery.ztree.excheck.js`) | nodes with their flags, three copies of the shape (lists, parents, cache), what is drawn | init, add, remove, expand, select, check, disable, refresh | the page of roles |
| **admin** permission filters (`ShiroService`, `PermissionDao`) | Shiro filter chain, Spring cache of the permission table | load, updatePermission | every admin request |
| **portal** server (`LoginInterceptor`, `UserServiceImpl`) | none | check the session through rest before a page | rest |
| **portal** pages (`header.html`, `login.html`, `quark_api.js`, `jquery.cookie.js`) | the cookie with the token, shared by all tabs; the number of notifications shown | load the header, subscribe to the pushes, sign in, sign out | rest, its STOMP broker |
| **common** | entities, repositories, base service and controller | CRUD | all |

Left aside as not core: build files, Spring Boot classes and configuration,
swagger, layui/jquery and other vendored scripts, the scripts of the two themes
(`mods/*.js`, `matrix*.js`), styles, 125 JSP pages of an earlier portal that no controller
renders.  The tree control is vendored too, but it is the editor of the
administrator's roles, and what is saved is what its check boxes hold.

### What is hard, and what must hold

* **Registry.** Every channel has its own executor (`QS:115` gives the handlers an
  executor group of their own), and the scan and the ping run on two more threads.
  `authUser`, `addChannel`, `getUsers` and the scan's test take no lock,
  `removeChannel` takes the write lock, broadcasts the read lock.  What must hold:
  no channel is discounted twice or without having been counted; a broadcast never
  meets a key without its value; what leaves the map is closed, and what is
  closed leaves the map; the fair lock starves nobody; a page gets the chat of a
  sender in order and without a gap; the count and the list of users agree with
  the map when nothing happens (they do not: findings).
* **Handlers.** The shared `handshaker`; an exception at any point of a handler
  ends in `exceptionCaught`, which itself calls code that can throw; frames
  already read are handled after the connection has gone down.
* **Sessions.** Read-then-write on Redis and on whole rows, with no transaction:
  a session stays with the user of its login and does not come back after its end, a ban
  lasts until it is lifted (the last two fail: findings).
* **Forum.** Counters and flags in one row, read and written back whole by concurrent
  transactions of two servers; locks taken shared by an insert and exclusively by an
  update; a push from inside a transaction; notifications marked read after they were listed.
  What must hold: a counter is wrong only by what such overlaps lose, a flag is
  the last word of who turned it, what is marked read was shown, every reply ends.
* **Portal.** One cookie for several tabs, requests whose answers come when the page
  has gone, a header that counts first and subscribes later.  What must hold: a page
  without a number misses nothing but what came in that gap; signing out ends
  the session it was meant for before its cookie goes (unless another request brings
  that session back).
* **Tree control and roles.** Lists drawn late, in part and again; lines, folders and boxes
  repaired piece by piece; recursions up and down past hidden and disabled
  boxes.  The page is made of a list of permissions that is cached for two minutes and
  shared by all requests, with the flags that say what is checked.  What must hold: the copies of
  the shape agree, the drawing is that of the data, what the dialog shows is the role's set or, from the
  cache, none of it, and a role never holds a permission without its parent, whatever other
  administrators do and however old the list is.
* **Permission filters.** A filter chain rebuilt under a lock its readers do not take,
  from the same list.

`PROJECT.json` lists each hazard at its line with the properties that would
catch it, or why none does.

## 2. Modules

| module | what it is |
|---|---|
| `ChannelManager` | the registry: state and the steps of every operation of `CM` |
| `ChatServer` | EXTENDS it: the handlers' events, the scheduled tasks, the life of the connections; `Init`, `Next`, `Spec`, `FairSpec`, all properties |
| `MCChatServer` | the instances for TLC (symmetry of the channels) |
| `ChatServerProof` | the theorems about the chat and their TLAPS proofs |
| `SessionLife` | what a session promises: a token is unissued, alive, in limbo or dead, its session its owner's or nobody's |
| `Session` | accounts and sessions: the requests of rest and the administrator's switch, cut at each command; implements `SessionLife` |
| `MCSession` | its instances for TLC |
| `SessionProof` | the theorems about accounts and sessions, the refinement among them |
| `Forum` | replies, new posts, notifications, the administrator's toggles: transactions on shared rows |
| `Portal` | EXTENDS it: the tabs of a browser, cookie, header, signing in and out; `Init`, `Next`, `Spec`, `FairSpec` of both |
| `MCPortal` | its instance for TLC: the casts |
| `PortalProof` | the theorems about the forum's tables and, on them, those about the tabs |
| `ZTree` | the tree control: a tree as a record, one operator per function of the two scripts |
| `Recursion` | lemmas on induction and recursion along a rank, for the next one |
| `ZTreeProof` | the lemmas and theorems about the operators of `ZTree` |
| `TreePage` | EXTENDS it: a page whose user clicks and whose script calls |
| `MCTreePage` | the pages for TLC |
| `TreePageProof` | EXTENDS `TreePage` and `ZTreeProof`: the lemmas about nodes that join and leave a tree, the theorems about what stays true of a page |
| `PermissionSets` | what the page of roles promises: drafts of sets, some old or torn; no trees, no cache |
| `RolesPage` | EXTENDS `ZTree`: the page of roles of several administrators, with the tables and the cached list; implements `PermissionSets` |
| `MCRolesPage` | its instance for TLC, with the bound of its run |
| `PermissionSetsProof` | the theorems about `PermissionSets` |
| `RolesPageProof` | EXTENDS `RolesPage` and `ZTreeProof`: that the page implements `PermissionSets`, and what follows |

### How state and actions correspond to the code: the chat

A *thread* is the executor of a channel (named by the channel, as Netty runs all
events of a channel on one thread), `Scanner` or `Pinger`.  `pc[t]` is where it
is, `ret[t]` where the handler goes on after the manager call it is in.  The cuts
are the points where another thread can see or change something: each read or
write of the map, of `ChatUser`, of the counter, of the lock.

| code | model |
|---|---|
| `chatUserMap`, `ChatUser.user / isAuth / time`, `userCount` (CM:34-38) | `chatUserMap` (its keys), `hasUser`, `isAuth`, `fresh` (time within the last 10 s), `userCount` |
| `rwLock`, fair (CM:34) | `readers`, `writer`, `queue` (FIFO) |
| `channel.isOpen()/isActive()`, `channel.close()` called | `open`, `closing` |
| the iterator of a `for` over `keySet()` | `todo[t]`; weakly consistent: a key added meanwhile may or may not be visited (`AddChannel`), a key removed meanwhile may or may not be (`GetUserGone`) |
| addChannel CM:44 | `AddChannel` |
| authUser CM:58 | `AuthAccepted` / `AuthRefused` / `AuthFails` (session and account checks), then `AuthGet`, `SetUser`, `SetAuth`, `CountUser` |
| removeChannel CM:78 | `CallRemove`, `LockWrite`, `RemoveEntry`, `Uncount` (+ `UnlockWrite`) |
| broadMessage, broadPing CM:101, 120 | `CallBroadcast`, `LockRead`, `Write` per key, `UnlockRead` |
| scanNotActiveChannel CM:138 | `ScanStart`, `ScanKey` (test, then removal), `ScanEnd` |
| getUsers CM:162 | `GetUser`, `GetUserGone`, `GotUsers` |
| handleHttpRequest UA:85 | `PlainRequest`, `Upgrade` (assigns the shared field), `HandshakerTest`, `Handshake` |
| handleWebSocket UA:110, channelRead0 MH:36 | `CloseFrame`, `BadFrame`, `PongFrame`, `Auth...`, `Chat` |
| userEventTriggered UA:67, channelUnregistered MH:51, exceptionCaught MH:64 | `ReaderIdle`, `ChannelUnregistered`, `ExceptionCaught`, each removeChannel, then getUsers, then broadMessage |

Abstractions, and why they are sound for the properties:

* A user is named by the channel that holds it: `User` defines no `equals` and each
  authentication parses a new object, so the set of users has one member per
  channel.  A channel in the map that has not authenticated contributes null,
  `NoUser`.
* A write is delivered at once to a page that is up and fails to one that is not.  Netty keeps
  the writes to one channel in the order they were made; messages of different
  threads are ordered by the interleaving of the `Write` steps.
* `SetAuth` also sets the time: the time is read only where `isAuth` is false.
* Two channels that share an executor (the group has 8 threads) have fewer
  interleavings than the model.
* Control pings, a wrong magic and unknown types change no state and have no action.
* `fresh` stands for `currentTimeMillis() - time <= 10000`; a new `ChatUser` has
  `time = 0` and is not fresh.  There is no clock: `Age` may happen at any time.
* `Disconnect` can happen at any time, `CloseCompletes` is the same step when a
  `close()` was asked for.  Events that were queued before it are still handled,
  until `ChannelUnregistered`.

### How state and actions correspond to the code: sessions

`US`, `RS`, `UC` stand for `UserServiceImpl.java`, `RedisService.java` and
`UserController.java` under `rest/src/main/java/com/quark/rest/`, `AUS` for the
administrator's `UserServiceImpl.java`.  A worker serves one request at a time; `req[w]`
holds its place and what it has read.  None of these methods is transactional, so each
repository call is a transaction of its own and each Redis command is atomic.

| code | model |
|---|---|
| table `quark_user` (`User.java`), its unique name | `row`, `Unique` |
| Redis `REDIS_USER_KEY + token`, `REDIS_USERID_KEY` | `session` (the id of the cached user), `uids` |
| register UC:46, createUser US:61 | `CheckName`, `CheckEmail`, `Insert` |
| login UC:69, LoginUser US:71 | `FindByEmail`, `CacheLogin`, `ListLogin` |
| getUserByToken US:80, getStringAndUpDate RS:36 | `Get`, `Refresh` |
| LogoutUser US:86 | `Logout`, `Refresh`, `Delete`, `Unlist` |
| updateUser UC:125, US:94 | `CheckNewName`, `GetSession`, `FindOne`, `Save`, `Cache` |
| updataUserIcon US:106 | `StartUpdate`, `FindOne`, `Save`, `Cache` |
| updateUserPassword US:118 | `StartUpdate`, `FindOne`, `Save`, `Delete` |
| saveUserEnable AUS:54 | `FindAll`, `Save` |
| the 24 hours of a key | `Expire`, at any time |

* `owner`, `handed`, `ended` and `banned` are history: the user a token was issued to, the
  tokens a login has returned, those whose logout or change of password has been answered,
  the users an administrator switched off last.  No guard of the code's steps depends on
  them but through the bounds and the fact that clients use tokens they were given.
* A request's `draft` is its persistence context: the rows it changed.  Hibernate updates
  whole rows, and only dirty ones; password, icon and signature are not in the row, but
  the updates they cause are (`FindOne` saves the row it read, unchanged in the model).
  The flush of several rows updates them one by one, and the unique index
  may refuse it in the middle (`Save`).
* A request that changes nothing (a name that is taken, an unknown token) is no step.

### How state and actions correspond to the code: forum and portal

`RPS`, `PS`, `NS`, `WS` stand for `ReplyServiceImpl.java`, `PostsServiceImpl.java`,
`NotificationServiceImpl.java` and `WebSocketService.java` of rest, `APS` for the
administrator's `PostsServiceImpl.java`.

| code | model |
|---|---|
| saveReply RPS:63, savePosts PS:41 | `FindParent`, `InsertChild`, `InsertNotification`, `CheckLogin`, `Flush`, `Push` (in `SendToOne`), `Commit`, or `Fail` |
| `replyCount`, `top` of a post; `postsCount` of a label | `row[p].count`, `row[p].top` |
| the locks of InnoDB | `Shared`, `Exclusive`, `CanInsert`, `CanWrite`; `DeadlockVictim` |
| changeTop, changeGood APS:60 | `FindAll`, `Save` |
| list and mark read, delete NS:27 | `FindByUser`, then `UpdateByIsRead` or `DeleteInBatch` |
| header.html:32, UC:102, getStringAndUpDate RS:36 | `Load`, `HeaderGet`, `HeaderSet`, `Count` |
| header.html:33-54, 72 | `Draw`, `Subscribe`, `Receive` |
| cookie_get / cookie_delete, `jquery.cookie.js` | `cookie`, `Write`, `Undefined`, `Null` |
| login.html, LoginUser US:71 | `SignIn`, `SetCookie` |
| sign-out header.html:57, LogoutUser US:86 | `SignOut`; `LogoutGet`, `LogoutSet`, `LogoutDelete`, `LogoutUnlist`; `DeleteCookie`, `SignOutEnds`, `Navigate` |

* The ids are IDENTITY columns, so an insert is sent at once and its foreign key locks the
  parent's row shared; the changed parent stays in the persistence context until something
  flushes it: the native query for the count, or the commit.  Hibernate writes the whole row.
  The first plain read fixes the snapshot (REPEATABLE READ, MySQL's default and not
  changed by the configuration), so the count that is pushed (`Notice`) is that of the
  snapshot with the transaction's own notification.
* `Fail` is any exception on the way, at any place; it also covers what other locks of
  the database (gaps, indices) may refuse.  Changing the top and the good flag are the
  same code on two columns; one flag of one post at a time stands for both.
* A new post is a reply to a label, whose author is nobody: nobody is told.
* The update that marks notifications read works on what is committed and waits for rows
  another transaction holds.  The deletion takes the rows that were read, by id.
* What rest does for a tab is cut at each of its commands to Redis, as in `Session`, and goes on
  when the page is gone: `call[t]` is the header's request, `out[t]` the sign-out.  A session is
  got (`Got`) and, if there was one, set again (`Sets`), even if it was ended in between.  Any request
  that reads a session does the same two commands; those of the header and of the sign-out
  stand for all.  A sign-in is one step, as nobody knows the token before it is answered.
* A tab asks again only when its former request has been served: a bound.
* A cookie that is not there is sent as the text of undefined; one that was deleted has been
  stored as the text of null, for so `jquery.cookie.js` writes it.  Neither is a token.
* `knows`, `blind`, `left`, `revived`, `stale`, `shown`, `raced`, `silent`, `done`, `before` are history;
  no guard depends on them.

### How state and actions correspond to the code: tree control and roles

A browser runs the scripts of a page one at a time, so each click or call is one step,
an operator from a tree to a tree.  The operators keep the functions' names
(`SetSonNodeCheckBox` for `setSonNodeCheckBox`, ...; `RepairLines` is the part of `removeNode` that
redraws the brothers); `PROJECT.json` has their lines.

| code | model |
|---|---|
| `setting.treeObj`, root and nodes with their flags | a record `Tree`: `kids`, `parent`, and one set of nodes per Boolean flag |
| `data.cache` | `cached` |
| elements in the document | `li`, `ul` (what of the tree is there), `box`, `line`, `lined` (what it looks like) |
| recursions over sons or parents | `Below`, `Above`: the nodes in the order of the recursion, and `Each` along it |
| the user on a page | `ClickName`, `ClickSwitch`, `ClickBox` on what is visible |
| the page's script | `Call...`, one per method of the tree object; which ones, and how, is the page's `script` |

* Titles, names, URLs, levels, ids, the order of elements in the document and all
  animation are left out; switch and folder icon always change together and are one.
* On a page of `TreePage` the script may call anything of its list at any moment.  Some
  calls are allowed only to pages that say so (`insertSilent`, `disableInner`, ...),
  because the control does not keep a property under them: a silent insertion
  in front of sons that were drawn makes the test on the first son fail; disabling a node
  with sons and removing all children at once leave boxes of others as they were.
  `OpenShowsAll` and `BoxesCurrent` name their exceptions.  `BoxesCurrent` claims nothing of boxes
  with inner nodes at or below them that are disabled or have no box, nor of data given half checked
  (`Plain`): the recursions pass such nodes by, and their states go stale.
* The data of a page are any forest (`WellFormed`, an assumption on `Pages`): node objects
  nested in node objects, with any flags.  What depends on the data
  being consistent says so: `Given` is the tree the page began with, and `ParentsChecked`,
  `InnerFollowsSons` and `OneRadio` claim of every later tree what holds of that one.
* `RolesPage`: the page waits for its answers (`async: false`), so a save is one step.  The
  request for a role's permissions is cut where it meets the cache of `PermissionDao.findAll`:
  `AllotPermission` asks and looks (`FindAll`); after a miss the queried list is put into the cache
  (`CachePut`); the answer makes the tree (`AnswerList`).  `CacheExpires` at any time stands for
  the two minutes; nothing else takes the list out.  `updatePermission`, which follows each
  change of the permissions, fills the cache as well (`UpdatePermission`).
* What is checked is found by identity (`permissions.contains(p)`, no `equals`), so a list from
  the cache has every flag false.  The cached list is one object with one flag per
  permission: `maker` is the request that has queried it and still sets or reads flags;
  a second one that hits the cache then shares them, and either may answer with some of
  the maker's marks (`torn`; `mixed` is history: the roles saved from such a dialog).
  Whether two requests share the objects depends on the store of Ehcache (memory or
  disk); the model has both, as an answer may also have none of the maker's marks.
* An error on the server is an answer without data, whose status the page does not look at:
  the dialog opens empty (`AnswerError`).  Without any answer it stays away (`AnswerLost`).
* A save with no permission checked sends no list and is refused (400): the dialog
  stays.  Ids of deleted permissions become null on the server and are dropped.
  A deletion is refused as a whole when a role holds one of the permissions.  Ids grow, a parent is
  older than its child.  Who has which role is left out: the model lets any role be deleted.

## 3. Runs

The chat runs use `MCChatServer` with two channels (symmetric, except under fairness), the
session runs `MCSession`, `forum` `MCPortal`, `ztree` `MCTreePage`, `roles` `MCRolesPage`.

| run | bounds | shows |
|---|---|---|
| `chat_registry` | scan; upgrade, auth, chat; 1 authentication and 3 chat messages per channel | `TypeOK`, `CountCoversAuthenticated`, `BroadcastSeesLiveEntries`, `NoChatSkipped` |
| `chat_handlers` | ping task; every other kind of event, errors included | `CountCoversAuthenticated`, `NoOrphanSocket` |
| `chat_liveness` | both tasks; upgrade and pong; `FairSpec` | `ClosedIsForgotten`, `SilentStrangerSwept`, `HandlersFinish` |
| `chat_count` | violated: `CountIsExact` | a channel removed by the scan between `get` and `setAuth` stays counted |
| `chat_list` | violated: `ListIsCurrent` | an older list of users overtakes a newer one |
| `chat_eviction` | violated: `EvictedForOwnFault` | `getUsers` dereferences a removed key; an innocent channel is closed |
| `session` | 2 ids, names, e-mails and tokens, 2 workers, every request; 580,556 states | `TypeOK`, `SessionsFollowLife` |
| `session_logout` | violated: `LogoutIsFinal` | a read that refreshes the life of a session undoes a logout |
| `session_ban` | violated: `BanIsKept` | an update of a profile undoes a ban |
| `forum` | 11 casts of 1 to 4 requests and tabs, see below; 404,136 states; `FairSpec` | `TypeOK`, `RowsCounted`, `TogglesKept`, `ReadWasShown`, `BadgeShown`, `DeletesOnlyEnded`, `RepliesEnd` |
| `ztree` | 11 pages of up to 4 nodes; 53,879 states | `TypeOK`, `OneTree`, `EndsMarked`, `OpenShowsAll`, `LinesCurrent`, `DrawnIsLive`, `BoxesCurrent`, `ParentsChecked`, `InnerFollowsSons`, `OneRadio`, `FixedKept` |
| `roles` | 2 administrators, 2 roles, 3 permissions, 1 deletion, `Bound`; 137,739 states | `TypeOK`, `RolesClosed`, `ImplementsSets` |

Two channels are enough for what the runs ask: every hazard is between one channel
and itself (its executor and the scan) or between one channel that leaves and one
that lists or broadcasts; the theorems cover any number of channels.  Three chat
messages are the least with one to lose in the middle.  The events are split over the runs to
keep each exhaustive: `chat_registry` has the scan and the chat, `chat_handlers` all
other events and the heartbeat.  `MaxLogin` and `MaxChat` bound how often a channel
authenticates and speaks; nothing else is bounded.

Two workers are a request and another one that overlaps it; two accounts can contend for a name.
Two tokens, each of which may be given to either user, because with one there would be no
session of another user to fall into (the theorems cover any number).  A run registers no more
users than it has ids and logs in no more often than it has tokens (`Registering`, `LoggingIn`):
these are the only bounds.  `session_logout` allows deadlock, because with the tokens used up
and no session left there may be nothing to do.

The behaviours of `forum` are split into casts: who acts together.  Without a tab: replies to
one post with the administrator's toggles of it, and with a reply of its author; two new posts
under one label; a reply with every kind of request for the author's notifications, two replies
with one.  With tabs: two with two sessions, or with one and a cookie that expires; a reply
under two tabs of one session; one tab with two replies, with a reply and a visit while sessions
expire, or with a reply, two sessions and a cookie that expires.  `leave` names the tabs of a
cast that go to another page at any moment; the others do so only by signing in or out, and of
two tabs at most one leaves.  Each property relates at most two writers and a reader, or two
tabs and the sessions they fight over, and each pair meets in a cast.  The casts and the one
request of a kind that a tab has under way are the only bounds, and the run allows deadlock
because its requests come to an end.  Every exception that `BadgeShown` and `DeletesOnlyEnded`
name occurs: without it TLC refutes the property.

The pages of `ztree` are one for editing, one that inserts silently, one for selecting, six with
boxes (with settings that go up, down or both ways, with nodes added checked, with hidden and
disabled ones) and two with radio buttons.  Four nodes are a root with two sons, one of which
has a son: the least where a brother, a grandparent and an undrawn grandchild differ.  The runs
with trees allow deadlock because a page may have nothing left to click.  In `roles` (`Bound`)
one administrator at a time has three permissions, a chain or brothers, and two roles, as long
as no role was saved from a torn list; what two
do at once, to each other, to the cached list and its flags, needs a parent, its child and a
role.  One deletion (`MaxDeleted`) makes a tree and a cached list stale.

**Fairness** of the chat (`ChatServer`'s `FairSpec`): every thread runs (weak fairness of `Run(t)`;
the JVM schedules its threads), a `close()` completes, time passes, the two tasks are
rescheduled (`scheduleAtFixedRate`, QS:135, 146).  `ChannelUnregistered` has strong
fairness: a closed channel is deregistered once the frames read before have been
handled, and those are finitely many, but each of them disables the deregistration
while it is handled.  Nothing is assumed of the clients, the disconnections or the
outcomes.  The lock is granted in the order of the requests
(`new ReentrantReadWriteLock(true)`, CM:34): with an unfair lock `HandlersFinish`
fails, as its mutant shows: overlapping broadcasts keep a removal out for ever.

**Fairness** of the forum (`Portal`'s `FairSpec`): one weak fairness of all
steps of replies that have begun, the database's detection of deadlocks among them: as long as some
transaction can go on, some does.  It is enough because each takes finitely many steps.  Nothing is
assumed of users, tabs, toggles and visits.  `RepliesEnd` says that two replies to one post, each
holding the row shared and wanting it exclusively, do not wait for ever; its mutant, a victim that
tries its statement again, does.

**Findings.**  `CountIsExact`, `ListIsCurrent`, `EvictedForOwnFault`, `LogoutIsFinal` and
`BanIsKept` are what comments and the protocol table say and the code does not do;
`PROJECT.json` quotes them.  `CountCoversAuthenticated` is the half of the count that does hold:
the counter may be too high, never too low by more than the increments on their way.
`SessionsFollowLife` is in the same way the half of `LogoutIsFinal` that holds: a session comes
back through an overlapping request only, and to its own user.  The properties of `forum` state
what holds together with its exceptions: the replies a counter may lose are those another
request overwrote with an older row (`stale`), the notifications a page may miss are those of
the gap before its subscription (`blind`) and those not sent because another session of the user
was signed out (`silent`, `left`); a sign-out spares the cookies of live sessions but for one
that another tab has stored meanwhile and one that was written back after its end (`revived`).

One divergence has no run of its own; two dialogs in a row show it.  `findPermissionsAndSelected` is
to return a role's permissions checked (`admin/.../PermissionService.java:30`), and after a hit of the
cache it returns none checked, so that a role is shown as if it held nothing and a save leaves it
only what was checked anew; with two requests at once it may return those of the other one's role.
`PermissionSets` says so (`AskOld`, `AskTorn`), and `ImplementsSets` that there is nothing worse.

## 4. Proofs

`ChatServerProof` proves, for every finite set of channels, either or both or none of
the scheduled tasks, every set of requests and every bound:

* `TypeCorrect`: `Spec => []TypeOK`
* `BroadcastsSeeLiveEntries`: `Spec => []BroadcastSeesLiveEntries`
* `NoOrphans`: `Spec => []NoOrphanSocket`
* `CountCovers`: `Spec => []CountCoversAuthenticated`

Assumptions: `ChannelAssumption` and `ServerAssumption` (the channels are finitely many,
the names of the threads differ).

The argument: no property is inductive alone.  `TypeInv` adds to the types that a thread
in getUsers holds a list (`ArgInv`).  `SafeInv` adds `LockInv` (who is at a location
inside a lock is its holder, readers and a writer exclude each other, whoever waits
is in the queue), `EntryInv` (a channel whose executor is before `add` has no entry),
`TaskInv` (the scan's return address and its victim) and `RemovedInv` (a channel under
removal is closing): from the exclusion follows that no key leaves under a broadcast,
and from `RemovedInv` that what left is closing.  `CountInv` is `CountCoversAuthenticated`
with the channels under discount added to the authenticated ones; each step that
changes one side of the inequality is matched by the cardinality lemmas at the start
of the module.

Its second part adds, under the same assumptions:

* `ChatsAreInOrder`: `Spec => []NoChatSkipped`

A page that authenticated before a chat was sent, and stays, has heard the chats of a sender
without a gap.  What a page is told is written by a broadcast one channel at a time, so the
invariant says of a broadcast on its way to whom it still owes the chat: a page in the map
that has not heard the latest chat of a sender is on the list (`todo`) of that sender's thread, which is
writing it (`OrderInv`), and has heard the one before.  `HeardInv` keeps the numbers within what was sent, and
`ChatArgInv` ties the number that is written to the sender's last.  `RemovedInv` and `EntryInv`
exclude that a channel leaves the map and comes back between two chats.

`SessionProof` proves, for all sets of users, names, e-mails, tokens and workers (finite or
not, `SessionAssumption` only keeps the null values apart) and every set of operations:

* `TypeCorrect`: `Spec => []TypeOK`
* `SessionsRefine`: `Spec => SessionsFollowLife`, that is `Session` implements `SessionLife`

Here `Inv` adds to the types what a request knows at each of its
places (`ReqInv`: a request that will write a session has a token and the user it was
issued to) and what a session holds (`OwnInv`: nobody, or the user of its token, who has
an account).  `Keeps` shows once that no request disturbs what another one knows, because
accounts are not removed and tokens not reissued, so each action needs a proof for its own
worker only.  For the refinement, the requests that may write a session are its holders
(`Holds`), and `Phase` says which phase of `SessionLife` a token is in; `owner` and `session` are
mapped to themselves, so that no step may turn a session into another user's: steps that write no
session stutter (`ReadsStutter`), a failing save may let the last holder go, writes and ends move one token.

`PermissionSetsProof` proves, for all sets of permissions, roles and administrators (finite or
not; the null values differ) and every tree of permissions:

* `SetsTypeCorrect`: `Spec => []TypeOK`
* `RolesStayClosed`: `Spec => []RolesClosed`

`RolesClosed` excepts the roles that were once committed from a torn draft, one that was asked for
while another one was on its way.  The invariant says of every draft that its permissions were there
once and that what it knows is closed under parents, apart from those deleted since (`Once`: true of
a list of any age); and of a draft that is neither torn nor of a role that a torn one has spoilt
that its set is closed within what it knows.  `Up` and `Down` are the least closed set around a
permission and the permissions that need it, so that granting and revoking keep a draft closed
without any induction along the tree; a commit intersects with the live permissions, and a
permission can be deleted only when no role holds it.

`RolesPageProof` proves that `RolesPage`, with its trees, boxes and recursions, implements
`PermissionSets`, for every finite set of permissions, in trees of any shape and depth, and any
roles and administrators:

* `RolesPageTypeCorrect`: `Spec => []TypeOK`
* `PageImplementsSets`: `Spec => ImplementsSets`
* `RolesAreClosed`: `Spec => []RolesClosed`, from `PageImplementsSets` and `RolesStayClosed`

Assumptions: `TreeAssumption` (finitely many nodes, `Root` is none) and `RolesPageAssumption` (ids are
numbers, 0 is the root, `NoRole` is neither a role nor a draft, `NoAdmin` no administrator).

The argument: a dialog that is shown holds a sound tree, whose lists, parents and cache agree
(`Sound`, below; `Shows`), nothing of which is hidden or disabled, of permissions that have been
born, each under the parent that the table gives it if that was in the list; the parents are older
than their sons (`Older`), so that they are a forest.  The invariant is inductive because an id,
once given, keeps its parent (`PagesStay`): what the server does meanwhile disturbs no tree.  Every
list of a request and the one in the cache is `Past`: of permissions that were born, with those of
their parents that are left, which no later change of the tables undoes; and a list that has a maker
is that of the maker's request (`Kept`), so that a hit is one of the editor's three ways to ask: of
what there is, of what there was, torn.  Each action is one step of the editor of sets or hidden
from it: opening by `OpenedShows`, a click by `ClickedShows`, which identify `Up` and `Down` (least
closed sets) with the nodes above and below in the tree (`UpAndDown`), saving by the nodes under the
root being all there are.  A request that has no answer drops its draft.

The step from clicks to sets rests on `ZTreeProof`, about the operators of `ZTree` for
trees of any finite size:

* `FlagOfSons`: the flag that the loop of `makeChkFlag` computes is a verdict on the set of the sons' flags
* `BelowOnce`: the walk over what is below a node meets every node once
* `SonsFollow`, `ParentWalk`: which nodes the two recursions of the boxes mark; unchecking
  upwards stops exactly below a parent that another son keeps
* `ClickSpreads`, `CheckNodeSpreads`, `AllFollow`: what a click, `checkNode` and `checkAllNodes`
  do to the boxes, under every setting of where checking and unchecking go
* `RadioChooses`: what a radio button excludes

They say what the boxes hold and that nothing but marks has changed (`Differ`: the other fields
are equal), so that the copies of the shape agree as before.  `Below` and `Above` are the lists along which the
control's recursions go; their lemmas (`Lists` and those before it) show that they terminate and whom they
meet, by induction on a rank.  The library's induction theorems take operators, which the
provers cannot instantiate; `Recursion` derives what is needed from the well-foundedness of the
numbers alone, about functions and sets, and `ZTreeProof` instantiates it for each operator
that is folded along a list.

`TreePageProof` proves, for any finite set of nodes and any pages (any settings, scripts and
sizes, any forests as data), under `TreeAssumption` and `PagesAssumption`:

* `TypesHold`, `TreeIsOne`, `EndsStayMarked`, `OpenIsWhole`, `DrawnStaysLive`, `LinesStayCurrent`:
  `Spec => []TypeOK`, and so for `OneTree`, `EndsMarked`, `OpenShowsAll`, `DrawnIsLive`, `LinesCurrent`
* `FixedStays`: `Spec => FixedKept`
* `ParentsStayChecked`, `InnerFollows`, `OneRadioStays`: `Spec => []ParentsChecked`, and so for
  `InnerFollowsSons` and `OneRadio`
* `BoxesStayCurrent`: `Spec => []BoxesCurrent`

The argument: `Sound` is what every function of the control keeps of a tree.  It joins the
agreement of the three copies of the shape (`Agree`), that who has sons is a folder and only folders are
open (`Inner`), the marks of the ends (`Ended`), and what is drawn (`Pictured`).  None of the
properties is inductive without the others: a line is redrawn from the marks of the ends,
these are repaired from the lists, and what a removal forgets is found by walking the
lists.  `Whole` is what `OpenShowsAll` needs: of the sons of a node all or none
are drawn, for only then does the test on the first son tell.  A silent insertion breaks it, and only that.
For each function a lemma says that a sound tree becomes a sound tree and what has changed (`RefreshIs`,
`AddNodesIs`, `RemoveNodeIs`, `ExpandRedraws`, ...); `InitTreeIs` begins with a forest.
`NextChanges` sums them up: whatever is clicked or called, the tree undergoes one of nine
changes (`Changed`).  The invariant `IInv` and the properties of the marks are proved by these nine cases.
`InnerFollowsSons` is inductive on its own for trees whose boxes can all change
(`SumsUp`) thanks to where `ParentWalk` stops; `OneRadio` needs that the list from which the buttons
are taken that go off misses none of those that are checked (`OneOf`).

`BoxesCurrent` relates a box that is drawn to all that is below it, and is not inductive: a
box that is not drawn now will be drawn from the state its node has then, and a state is computed from
those of the sons.  `Settled` says it of the states.  A node is `Simple` if neither it nor anything
below it is one of the exceptions, and `Right` if setting its state anew would change neither what it tells its
parent nor its image, its box, if drawn, has that image, and a leaf has the state of a leaf; all simple
nodes are right.  Between the steps of an operation they are all right but those of a set (`SettledBut`):
a change disturbs a node and its parent (`Touched`, `Disturbed`), the recursion upwards takes one node
after the other out of the set (`PathSettles`), the one downwards settles what it marks
(`SonsSettle`), and both meet in a click (`ClickSettles`); `RadioSettles` is the same for the
buttons that go off, `FreshSettles` for a tree that is built from its leaves.  Nodes that join or leave
disturb only what is above the place (`StillSettled`, `Route`).  This is proved action by action
(`ClicksSettle`, `ViewsSettle`, `ChecksSettle`, `NodesSettle`), as the nine cases do not say enough about
the states.  The attempt to prove it showed that an earlier statement of `BoxesCurrent` was too
strong: with half checked data, or inner nodes that cannot change, states go stale
that no call sets anew.  `Plain` names these exceptions.

`PortalProof` proves about every run of `Portal`, for any number of posts, users, requests and tabs,
finite or not:

* `ForumIsInvariant`: `Spec => []ForumInv`
* `CountersAreRight`: `Spec => []RowsCounted`
* `FlagsAreKept`: `Spec => []TogglesKept`
* `ReadIsShown`: `Spec => []ReadWasShown`

and of the tabs

* `TypeCorrect`: `Spec => []TypeOK`
* `BadgesAreShown`: `Spec => []BadgeShown`
* `SignOutsDeleteTheirOwn`: `Spec => DeletesOnlyEnded`

Assumptions: `ForumAssumption` and `PortalAssumption` (the null values differ from the rest, a cast is a
record of what acts).

The argument of the forum: `CountInv` says, of each counter, that it is at least the committed replies
without the stale ones, and of each draft of a row that what it will write is at least the
counter its request read, which in turn misses no reply but those committed since (the set that the
request will make stale).  The locks come in where a row is written: an exclusive lock excludes the
shared locks that other replies hold (`FlagInv` uses the same for the flags).  Sets of
replies are compared, never counted, before the last step, and `done` is finite in every state,
so nothing else has to be finite.  `ShownInv` keeps what a visit will mark read within what it was
shown, with what was committed meanwhile in `raced`.  The steps of `Portal` are split once by what they
move of the forum (`PortalSteps`).

`PortalInv` adds what a tab and its requests know at each of their places: the session of a sign-out
that has deleted it is over or was written back (`SignOutInv`), who has found a session has a
token that was given out (`SessionInv`, `RequestOK`), the message it has been sent
(`MessageInv`), and, for the number in the header, that every notification of a user is
counted, on its way, in the gap of the tab (`blind`) or lost to a session that ended
(`BadgeInv`).

Only model-checked: the liveness properties (liveness under fairness is outside the
prover's reach) and the violations.  Every invariant and every other action or refinement property
that a passing run checks is a theorem.

## 5. Not modelled

* Rank cache: a cache-aside with no invalidation; two misses store the same query twice.
* Permission filter chain (`ShiroService`): a chain rebuilt under a lock that requests do not
  take.  Who reads the cached list to build it is in `RolesPage`; the chain, and the requests that
  match URLs against it, are not.
* The clock of the heartbeat (ping every 50 s, idle after 60 s): idleness is an event here.
* The chat and the sessions composed: the chat looks at a session once, when a
  page authenticates, and `ChatServer` takes the outcome as an input.
* Of the tree control: loading on demand, moving and renaming, focus and blur, `updateNode`,
  `checkedOld`, the settings `data.keep`, callbacks, animations, the order of elements in the document.
* Of the portal: forms that post and show lists, `applyHeader`, which nothing calls, the
  server, which keeps nothing between requests.
* Of the administrator's side: single-statement deletions, the roles of an administrator.
* Uploads, swagger, configuration, boot classes, rendering, entities and repositories, queries
  that change nothing, the themes' scripts, old JSP pages.

## 6. Plan

What would come next, in this order:

1. The chat composed with the sessions: an account that is disabled or logged out while its page
   is in the chat.  Two Java processes that share Redis; the outcome of a look-up becomes a read of
   `Session`'s tables, with the theorems of both kept.
2. The filter chain of the administrator's side, built from the cached list of `RolesPage`: which
   requests meet an empty or an outdated chain.
3. The clock of the heartbeat, to say how long a page that is gone stays in the registry.
4. Loading on demand and moving nodes in the tree control, which the administrator's pages do not use.
