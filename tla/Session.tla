------------------------------- MODULE Session -------------------------------
(***************************************************************************)
(* Accounts and sessions of the rest server                                *)
(* (rest/.../service/impl/UserServiceImpl.java, RedisService.java, the     *)
(* controllers that call them) and the administrator's switch of accounts  *)
(* (admin/.../service/impl/UserServiceImpl.java).                          *)
(*                                                                         *)
(* The accounts are rows of MySQL, the sessions strings of Redis, the      *)
(* users that are logged in a set of Redis.  No request holds a            *)
(* transaction over more than one command, so a request is cut at each of  *)
(* its commands to the database and to Redis.  A parameter is chosen where *)
(* it is first used.                                                       *)
(*                                                                         *)
(* A row is read into the persistence context, changed there and saved as  *)
(* a whole: Hibernate updates all columns if one is dirty, and none        *)
(* otherwise.  Of the cached user only the id is used, so the session is   *)
(* the id.  Password, icon, signature and sex are left out of the row, the *)
(* updates they are the reason of are not.                                 *)
(***************************************************************************)
EXTENDS Integers, FiniteSets

CONSTANTS User,      \* the ids of accounts, used or still free
          Name,
          Email,
          Token,     \* the UUIDs
          Worker,    \* the threads of requests, of both servers
          Operation, \* the requests of a run
          NoUser, NoRow, NoToken, NoName, NoEmail

Row == [name : Name, email : Email, enable : BOOLEAN]

ASSUME SessionAssumption ==
  /\ NoUser \notin User
  /\ NoRow \notin Row
  /\ NoToken \notin Token
  /\ Operation \subseteq {"register", "login", "get", "logout", "profile",
                          "icon", "password", "enable", "expire"}

VARIABLES
  row,      \* the table of users
  session,  \* quark:user:<token>, or NoUser
  uids,     \* quark:uid, the users taken for logged in
  owner,    \* the user a token was issued to, or NoUser
  handed,   \* the tokens that a login has returned
  ended,    \* the tokens whose logout or change of password has been answered
  banned,   \* the users an administrator switched off last
  req       \* the request each thread is serving

vars == <<row, session, uids, owner, handed, ended, banned, req>>

Location == {"idle", "email", "insert", "cacheLogin", "listLogin", "refresh",
             "delete", "unlist", "session", "find", "save", "cache"}

\* draft: the changed copies of rows in the request's persistence context.
NoDraft == [u \in User |-> NoRow]
Request == [pc : Location, op : Operation \cup {"none"},
            token : Token \cup {NoToken}, user : User \cup {NoUser},
            name : Name \cup {NoName}, email : Email \cup {NoEmail},
            draft : [User -> Row \cup {NoRow}]]
NoRequest == [pc |-> "idle", op |-> "none", token |-> NoToken, user |-> NoUser,
              name |-> NoName, email |-> NoEmail, draft |-> NoDraft]

Init ==
  /\ row = [u \in User |-> NoRow]
  /\ session = [t \in Token |-> NoUser]
  /\ uids = {}
  /\ owner = [t \in Token |-> NoUser]
  /\ handed = {}
  /\ ended = {}
  /\ banned = {}
  /\ req = [w \in Worker |-> NoRequest]

Registered == {u \in User : row[u] # NoRow}
NameTaken(n) == \E u \in Registered : row[u].name = n
WithEmail(e) == {u \in Registered : row[u].email = e}

\* The unique index on the user name.
Unique(rows) == \A u, v \in User :
  rows[u] # NoRow /\ rows[v] # NoRow /\ rows[u].name = rows[v].name => u = v

\* A free thread takes a request; a request goes on, or is answered.
Takes(w, op) == op \in Operation /\ req[w].pc = "idle"
At(w, l) == req[w].pc = l
Answer(w) == req' = [req EXCEPT ![w] = NoRequest]

accounts == <<row, banned>>
sessions == <<session, owner, handed, ended, uids>>

-----------------------------------------------------------------------------
(* Registration: the name, then the e-mail are looked up, then the row is   *)
(* inserted.                                                                *)

\* A run registers no more users than it has ids.
Registering == {w \in Worker : At(w, "email") \/ At(w, "insert")}

CheckName(w) ==
  /\ Takes(w, "register")
  /\ Cardinality(Registered) + Cardinality(Registering) < Cardinality(User)
  /\ \E n \in Name :
       /\ ~NameTaken(n)
       /\ req' = [req EXCEPT ![w].pc = "email", ![w].op = "register", ![w].name = n]
  /\ UNCHANGED <<accounts, sessions>>

CheckEmail(w) ==
  /\ At(w, "email")
  /\ \E e \in Email :
       IF WithEmail(e) # {}
       THEN Answer(w)
       ELSE req' = [req EXCEPT ![w].pc = "insert", ![w].email = e]
  /\ UNCHANGED <<accounts, sessions>>

\* Mutant: the form's name is not copied to the row.
InsertNameless(w) ==
  /\ At(w, "insert")
  /\ IF NameTaken(req[w].name)
     THEN UNCHANGED row
     ELSE \E u \in User \ Registered :
            row' = [row EXCEPT ![u] = [name |-> NoName, email |-> req[w].email, enable |-> TRUE]]
  /\ Answer(w)
  /\ UNCHANGED <<banned, sessions>>

Insert(w) ==
  /\ At(w, "insert")
  /\ IF NameTaken(req[w].name)
     THEN UNCHANGED row
     ELSE \E u \in User \ Registered :
            row' = [row EXCEPT ![u] = [name |-> req[w].name, email |-> req[w].email, enable |-> TRUE]]
  /\ Answer(w)
  /\ UNCHANGED <<banned, sessions>>

-----------------------------------------------------------------------------
(* Login, and what every controller does with a token: getUserByToken reads *)
(* the session and writes it back to make it live another 24 hours.         *)

\* A run logs in no more often than it has tokens.
Issued == {t \in Token : owner[t] # NoUser}
LoggingIn == {w \in Worker : At(w, "cacheLogin")}

\* findByEmail fails when two rows share the e-mail.
FindByEmail(w) ==
  /\ Takes(w, "login")
  /\ Cardinality(Issued) + Cardinality(LoggingIn) < Cardinality(Token)
  /\ \E u \in Registered :
       /\ WithEmail(row[u].email) = {u}
       /\ req' = [req EXCEPT ![w].pc = "cacheLogin", ![w].op = "login", ![w].user = u]
  /\ UNCHANGED <<accounts, sessions>>

CacheLogin(w) ==
  /\ At(w, "cacheLogin")
  /\ \E t \in Token :
       /\ t \notin Issued
       /\ owner' = [owner EXCEPT ![t] = req[w].user]
       /\ session' = [session EXCEPT ![t] = req[w].user]
       /\ req' = [req EXCEPT ![w].pc = "listLogin", ![w].token = t]
  /\ UNCHANGED <<accounts, handed, ended, uids>>

ListLogin(w) ==
  /\ At(w, "listLogin")
  /\ uids' = uids \cup {req[w].user}
  /\ handed' = handed \cup {req[w].token}
  /\ Answer(w)
  /\ UNCHANGED <<accounts, session, owner, ended>>

Get(w) ==
  /\ Takes(w, "get")
  /\ \E t \in handed :
       /\ session[t] # NoUser
       /\ req' = [req EXCEPT ![w].pc = "refresh", ![w].op = "get", ![w].token = t,
                             ![w].user = session[t]]
  /\ UNCHANGED <<accounts, sessions>>

Refresh(w) ==
  /\ At(w, "refresh")
  /\ session' = [session EXCEPT ![req[w].token] = req[w].user]
  /\ IF req[w].op = "logout"
     THEN req' = [req EXCEPT ![w].pc = "delete"]
     ELSE Answer(w)
  /\ UNCHANGED <<accounts, owner, handed, ended, uids>>

-----------------------------------------------------------------------------
(* Logout: getUserByToken, the session is deleted, then the user is taken   *)
(* out of the set, which fails if there was no session.                     *)

Logout(w) ==
  /\ Takes(w, "logout")
  /\ \E t \in handed :
       req' = [req EXCEPT ![w].pc = IF session[t] = NoUser THEN "delete" ELSE "refresh",
                          ![w].op = "logout", ![w].token = t, ![w].user = session[t]]
  /\ UNCHANGED <<accounts, sessions>>

\* deleteString, the last command of a change of password too.
Delete(w) ==
  /\ At(w, "delete")
  /\ session' = [session EXCEPT ![req[w].token] = NoUser]
  /\ IF req[w].op = "logout" /\ req[w].user # NoUser
     THEN /\ req' = [req EXCEPT ![w].pc = "unlist"]
          /\ UNCHANGED ended
     ELSE /\ Answer(w)
          /\ ended' = IF req[w].op = "password" THEN ended \cup {req[w].token} ELSE ended
  /\ UNCHANGED <<accounts, owner, handed, uids>>

Unlist(w) ==
  /\ At(w, "unlist")
  /\ uids' = uids \ {req[w].user}
  /\ ended' = ended \cup {req[w].token}
  /\ Answer(w)
  /\ UNCHANGED <<accounts, session, owner, handed>>

Expire(t) ==
  /\ "expire" \in Operation
  /\ session[t] # NoUser
  /\ session' = [session EXCEPT ![t] = NoUser]
  /\ UNCHANGED <<accounts, owner, handed, ended, uids, req>>

-----------------------------------------------------------------------------
(* Changes of an account: updateUser, updataUserIcon, updateUserPassword.   *)

CheckNewName(w) ==
  /\ Takes(w, "profile")
  /\ \E t \in handed, n \in Name :
       /\ ~NameTaken(n)
       /\ req' = [req EXCEPT ![w].pc = "session", ![w].op = "profile", ![w].token = t,
                             ![w].name = n]
  /\ UNCHANGED <<accounts, sessions>>

\* updataUserIcon and updateUserPassword begin with the session.
StartUpdate(w, op) ==
  /\ Takes(w, op)
  /\ \E t \in handed :
       /\ session[t] # NoUser
       /\ req' = [req EXCEPT ![w].pc = "find", ![w].op = op, ![w].token = t,
                             ![w].user = session[t]]
  /\ UNCHANGED <<accounts, sessions>>

GetSession(w) ==
  /\ At(w, "session")
  /\ IF session[req[w].token] = NoUser
     THEN Answer(w)
     ELSE req' = [req EXCEPT ![w].pc = "find", ![w].user = session[req[w].token]]
  /\ UNCHANGED <<accounts, sessions>>

\* The request's copy of the row.
Changed(w, r) == IF req[w].op = "profile" THEN [r EXCEPT !.name = req[w].name] ELSE r

After(op) == IF op = "password" THEN "delete" ELSE "cache"

\* The row is dirty if a column has changed, modelled or not: an icon always, a
\* signature or a password maybe.  A wrong old password is an error.
FindOne(w) ==
  /\ At(w, "find")
  /\ LET u == req[w].user
         r == Changed(w, row[u])
     IN \/ /\ r = row[u] /\ req[w].op # "icon"
           /\ req' = [req EXCEPT ![w].pc = After(req[w].op)]
        \/ req' = [req EXCEPT ![w].pc = "save", ![w].draft[u] = r]
        \/ req[w].op = "password" /\ Answer(w)
  /\ UNCHANGED <<accounts, sessions>>

\* The table when the rows of done have been updated from their copies.
Updated(w, done) ==
  [u \in User |-> IF u \in done /\ req[w].draft[u] # NoRow THEN req[w].draft[u] ELSE row[u]]
Saved(w) == Updated(w, User)

\* The order in which a flush updates the rows is the one they were read in.
Order == {f \in [User -> 1 .. Cardinality(User)] : \A u, v \in User : f[u] = f[v] => u = v}

\* The index refuses an update as soon as one row gets the name of another, and the
\* transaction and the request fail.
Save(w) ==
  /\ At(w, "save")
  /\ \E f \in Order :
       IF /\ Unique(Saved(w))
          /\ \A u \in User : Unique(Updated(w, {v \in User : f[v] < f[u]}))
       THEN /\ row' = Saved(w)
            /\ IF req[w].op = "enable"
               THEN /\ banned' = {u \in User : IF req[w].draft[u] = NoRow
                                               THEN u \in banned
                                               ELSE ~req[w].draft[u].enable}
                    /\ Answer(w)
               ELSE /\ req' = [req EXCEPT ![w].pc = After(req[w].op), ![w].draft = NoDraft]
                    /\ UNCHANGED banned
       ELSE Answer(w) /\ UNCHANGED accounts
  /\ UNCHANGED sessions

\* Mutant: the user is kept in a field of the service, which all threads share.
CacheShared(w) ==
  /\ At(w, "cache")
  /\ \E v \in Worker :
       /\ req[v].user # NoUser
       /\ session' = [session EXCEPT ![req[w].token] = req[v].user]
  /\ Answer(w)
  /\ UNCHANGED <<accounts, owner, handed, ended, uids>>

Cache(w) ==
  /\ At(w, "cache")
  /\ session' = [session EXCEPT ![req[w].token] = req[w].user]
  /\ Answer(w)
  /\ UNCHANGED <<accounts, owner, handed, ended, uids>>

\* saveUserEnable reads the rows of the chosen users and switches each.
FindAll(w) ==
  /\ Takes(w, "enable")
  /\ \E ids \in SUBSET Registered \ {{}} :
       req' = [req EXCEPT ![w].pc = "save", ![w].op = "enable",
                          ![w].draft = [u \in User |->
                             IF u \in ids THEN [row[u] EXCEPT !.enable = ~@] ELSE NoRow]]
  /\ UNCHANGED <<accounts, sessions>>

-----------------------------------------------------------------------------
Start(w) ==
  \/ CheckName(w) \/ FindByEmail(w) \/ Get(w) \/ Logout(w) \/ CheckNewName(w)
  \/ StartUpdate(w, "icon") \/ StartUpdate(w, "password") \/ FindAll(w)

Continue(w) ==
  \/ CheckEmail(w) \/ Insert(w) \/ CacheLogin(w) \/ ListLogin(w) \/ Refresh(w)
  \/ Delete(w) \/ Unlist(w) \/ GetSession(w) \/ FindOne(w) \/ Save(w) \/ Cache(w)

Next ==
  \/ \E w \in Worker : Start(w) \/ Continue(w)
  \/ \E t \in Token : Expire(t)

Spec == Init /\ [][Next]_vars

-----------------------------------------------------------------------------
(* Properties. *)

\* Every variable has the values the code can give it.
TypeOK ==
  /\ row \in [User -> Row \cup {NoRow}]
  /\ session \in [Token -> User \cup {NoUser}]
  /\ uids \subseteq User
  /\ owner \in [Token -> User \cup {NoUser}]
  /\ handed \subseteq Token
  /\ ended \subseteq Token
  /\ banned \subseteq User
  /\ req \in [Worker -> Request]

\* The requests that have found a token alive and are going to write its session.
Holds(w, t) ==
  /\ req[w].token = t
  /\ \/ At(w, "refresh")
     \/ req[w].op \in {"profile", "icon"} /\ req[w].pc \in {"find", "save", "cache"}

Phase == [t \in Token |->
  IF owner[t] = NoUser THEN "unissued"
  ELSE IF session[t] # NoUser THEN "alive"
  ELSE IF \E w \in Worker : Holds(w, t) THEN "limbo" ELSE "dead"]

\* The sessions do what SessionLife promises.  A session is its owner's or nobody's
\* over the whole life of its token, and never goes from one user to another; one
\* that has ended can come back only through a request that overlaps its end.
Life == INSTANCE SessionLife WITH phase <- Phase
SessionsFollowLife == Life!Spec

\* "Log the user out by the token" (UserService.java:65): a session whose logout
\* has been answered does not come back.
LogoutIsFinal == \A t \in ended : session[t] = NoUser

\* "Restore or ban a user" (admin UserService.java:23): a user that was banned is
\* banned until an administrator restores it.
BanIsKept == \A u \in banned : ~row[u].enable
=============================================================================
