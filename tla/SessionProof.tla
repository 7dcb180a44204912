----------------------------- MODULE SessionProof ----------------------------
(***************************************************************************)
(* The safety of accounts and sessions for any sets of users, tokens,      *)
(* names and threads, and that Session implements SessionLife.             *)
(***************************************************************************)
EXTENDS Session, TLAPS

\* The request acts on a session of its own: on a token and the user it was
\* issued to.
OwnsToken(r) == r.token \in Token /\ r.user \in User /\ r.user = owner[r.token]

\* What a request knows at each of its locations.
Ready(r) ==
  /\ r.pc = "email" => r.name \in Name
  /\ r.pc = "insert" => r.name \in Name /\ r.email \in Email
  /\ r.pc = "cacheLogin" => r.user \in Registered
  /\ r.pc = "listLogin" => r.token \in Token /\ r.user \in User /\ owner[r.token] # NoUser
  /\ r.pc = "refresh" => OwnsToken(r) /\ r.op \in {"get", "logout"}
  /\ r.pc = "delete" => r.token \in Token /\ r.op \in {"logout", "password"}
  /\ r.pc = "unlist" => r.token \in Token /\ r.op = "logout"
  /\ r.pc = "session" => /\ r.token \in Token /\ owner[r.token] # NoUser
                         /\ r.op = "profile" /\ r.name \in Name
  /\ r.pc = "find" => /\ OwnsToken(r) /\ r.op \in {"profile", "icon", "password"}
                      /\ r.op = "profile" => r.name \in Name
  /\ r.pc = "save" => \/ r.op = "enable"
                      \/ OwnsToken(r) /\ r.op \in {"profile", "icon", "password"}
  /\ r.pc = "cache" => OwnsToken(r) /\ r.op \in {"profile", "icon"}

ReqInv == \A w \in Worker : Ready(req[w])

\* A session belongs to the user its token was issued to, who has an account.
OwnInv ==
  \A t \in Token : /\ session[t] \in {NoUser, owner[t]}
                   /\ owner[t] # NoUser => owner[t] \in Registered
                   /\ t \in handed => owner[t] # NoUser

Inv == TypeOK /\ ReqInv /\ OwnInv

-----------------------------------------------------------------------------
(* What a thread knows is not disturbed by the others: accounts are never   *)
(* removed and tokens never reissued.                                       *)

Monotone == /\ \A u \in Registered : row'[u] # NoRow
            /\ \A t \in Token : owner[t] # NoUser => owner'[t] = owner[t]

LEMMA Keeps ==
  ASSUME Inv, Monotone, NEW w \in Worker, NEW r \in Request,
         req' = [req EXCEPT ![w] = r], Ready(r)'
  PROVE  req' \in [Worker -> Request] /\ ReqInv'
<1>1. /\ req' \in [Worker -> Request]
      /\ req'[w] = r
      /\ \A v \in Worker \ {w} : req'[v] = req[v]
  BY DEF Inv, TypeOK
<1>2. ASSUME NEW v \in Worker \ {w}
      PROVE  Ready(req[v])'
  <2>1. Ready(req[v]) /\ req'[v] = req[v] /\ req[v] \in Request
    BY <1>1 DEF Inv, ReqInv, TypeOK
  <2> QED BY <2>1, SessionAssumption DEF Monotone, Ready, OwnsToken, Registered
<1> QED BY <1>1, <1>2 DEF ReqInv

LEMMA NoRequestReady == NoRequest \in Request /\ Ready(NoRequest)'
BY DEF NoRequest, Request, Location, NoDraft, Ready

LEMMA Answers ==
  ASSUME Inv, Monotone, NEW w \in Worker, Answer(w)
  PROVE  req' \in [Worker -> Request] /\ ReqInv'
BY Keeps, NoRequestReady DEF Answer

\* A step that only moves a request on.
LEMMA Quiet ==
  ASSUME Inv, NEW w \in Worker, NEW r \in Request,
         req' = [req EXCEPT ![w] = r], Ready(r), UNCHANGED <<accounts, sessions>>
  PROVE  Inv'
<1>1. Monotone
  BY DEF Monotone, accounts, sessions, Registered
<1>2. Ready(r)'
  BY DEF Ready, OwnsToken, Registered, accounts, sessions
<1>3. req' \in [Worker -> Request] /\ ReqInv'
  BY <1>1, <1>2, Keeps
<1> QED
  BY <1>3 DEF Inv, TypeOK, OwnInv, Registered, accounts, sessions

LEMMA QuietAnswer ==
  ASSUME Inv, NEW w \in Worker, Answer(w), UNCHANGED <<accounts, sessions>>
  PROVE  Inv'
<1>1. NoRequest \in Request /\ Ready(NoRequest)
  BY DEF NoRequest, Request, Location, NoDraft, Ready
<1> QED BY <1>1, Quiet DEF Answer

LEMMA InvCheckName ==
  ASSUME Inv, NEW w \in Worker, CheckName(w)
  PROVE  Inv'
<1> PICK n \in Name : req' = [req EXCEPT ![w].pc = "email", ![w].op = "register", ![w].name = n]
  BY DEF CheckName
<1> DEFINE r == [req[w] EXCEPT !.pc = "email", !.op = "register", !.name = n]
<1>0. req \in [Worker -> Request] /\ req[w] \in Request
  BY DEF Inv, TypeOK
<1>1. req' = [req EXCEPT ![w] = r]
  BY <1>0
<1>2. r \in Request
  BY <1>0 DEF Request, CheckName, Takes, Location
<1>3. Ready(r)
  BY <1>0 DEF Ready, Request
<1>4. UNCHANGED <<accounts, sessions>>
  BY DEF CheckName
<1> HIDE DEF r
<1> QED BY <1>1, <1>2, <1>3, <1>4, Quiet

LEMMA InvCheckEmail ==
  ASSUME Inv, NEW w \in Worker, CheckEmail(w)
  PROVE  Inv'
<1>0. req \in [Worker -> Request] /\ req[w] \in Request /\ Ready(req[w]) /\ req[w].pc = "email"
  BY DEF Inv, TypeOK, ReqInv, CheckEmail, At
<1>1. UNCHANGED <<accounts, sessions>>
  BY DEF CheckEmail
<1>2. CASE Answer(w)
  BY <1>1, <1>2, QuietAnswer
<1>3. ASSUME NEW e \in Email, req' = [req EXCEPT ![w].pc = "insert", ![w].email = e]
      PROVE  Inv'
  <2> DEFINE r == [req[w] EXCEPT !.pc = "insert", !.email = e]
  <2>1. req' = [req EXCEPT ![w] = r]
    BY <1>0, <1>3
  <2>2. r \in Request /\ Ready(r)
    BY <1>0 DEF Request, Location, Ready
  <2> HIDE DEF r
  <2> QED BY <1>1, <2>1, <2>2, Quiet
<1> QED BY <1>2, <1>3 DEF CheckEmail

LEMMA InvFindByEmail ==
  ASSUME Inv, NEW w \in Worker, FindByEmail(w)
  PROVE  Inv'
<1> PICK u \in Registered :
      req' = [req EXCEPT ![w].pc = "cacheLogin", ![w].op = "login", ![w].user = u]
  BY DEF FindByEmail
<1> DEFINE r == [req[w] EXCEPT !.pc = "cacheLogin", !.op = "login", !.user = u]
<1>0. req \in [Worker -> Request] /\ req[w] \in Request /\ u \in User
  BY DEF Inv, TypeOK, Registered
<1>1. req' = [req EXCEPT ![w] = r]
  BY <1>0
<1>2. r \in Request
  BY <1>0 DEF Request, FindByEmail, Takes, Location
<1>3. Ready(r)
  BY <1>0 DEF Ready, Request
<1>4. UNCHANGED <<accounts, sessions>>
  BY DEF FindByEmail
<1> HIDE DEF r
<1> QED BY <1>1, <1>2, <1>3, <1>4, Quiet

\* A session that is found belongs to the user of its token.
LEMMA Found ==
  ASSUME Inv, NEW t \in Token, session[t] # NoUser
  PROVE  session[t] \in User /\ session[t] = owner[t] /\ owner[t] # NoUser
BY DEF Inv, TypeOK, OwnInv

LEMMA InvGet ==
  ASSUME Inv, NEW w \in Worker, Get(w)
  PROVE  Inv'
<1> PICK t \in handed :
      /\ session[t] # NoUser
      /\ req' = [req EXCEPT ![w].pc = "refresh", ![w].op = "get", ![w].token = t,
                            ![w].user = session[t]]
  BY DEF Get
<1> DEFINE r == [req[w] EXCEPT !.pc = "refresh", !.op = "get", !.token = t,
                               !.user = session[t]]
<1>0. req \in [Worker -> Request] /\ req[w] \in Request /\ t \in Token
  BY DEF Inv, TypeOK
<1>1. req' = [req EXCEPT ![w] = r]
  BY <1>0
<1>2. session[t] \in User /\ session[t] = owner[t]
  BY <1>0, Found
<1>3. r \in Request
  BY <1>0, <1>2 DEF Request, Get, Takes, Location
<1>4. Ready(r)
  BY <1>0, <1>2 DEF Ready, Request, OwnsToken
<1>5. UNCHANGED <<accounts, sessions>>
  BY DEF Get
<1> HIDE DEF r
<1> QED BY <1>1, <1>3, <1>4, <1>5, Quiet

LEMMA InvLogout ==
  ASSUME Inv, NEW w \in Worker, Logout(w)
  PROVE  Inv'
<1> PICK t \in handed :
      req' = [req EXCEPT ![w].pc = IF session[t] = NoUser THEN "delete" ELSE "refresh",
                         ![w].op = "logout", ![w].token = t, ![w].user = session[t]]
  BY DEF Logout
<1> DEFINE l == IF session[t] = NoUser THEN "delete" ELSE "refresh"
           r == [req[w] EXCEPT !.pc = l, !.op = "logout", !.token = t, !.user = session[t]]
<1>0. /\ req \in [Worker -> Request] /\ req[w] \in Request /\ t \in Token
      /\ session[t] \in User \cup {NoUser}
  BY DEF Inv, TypeOK
<1>1. req' = [req EXCEPT ![w] = r]
  BY <1>0
<1>2. r \in Request
  BY <1>0 DEF Request, Logout, Takes, Location
<1>3. Ready(r)
  BY <1>0, Found DEF Ready, Request, OwnsToken
<1>4. UNCHANGED <<accounts, sessions>>
  BY DEF Logout
<1> HIDE DEF r
<1> QED BY <1>1, <1>2, <1>3, <1>4, Quiet

LEMMA InvCheckNewName ==
  ASSUME Inv, NEW w \in Worker, CheckNewName(w)
  PROVE  Inv'
<1> PICK t \in handed, n \in Name :
      req' = [req EXCEPT ![w].pc = "session", ![w].op = "profile", ![w].token = t,
                         ![w].name = n]
  BY DEF CheckNewName
<1> DEFINE r == [req[w] EXCEPT !.pc = "session", !.op = "profile", !.token = t, !.name = n]
<1>0. /\ req \in [Worker -> Request] /\ req[w] \in Request /\ t \in Token
      /\ owner[t] # NoUser
  BY DEF Inv, TypeOK, OwnInv
<1>1. req' = [req EXCEPT ![w] = r]
  BY <1>0
<1>2. r \in Request
  BY <1>0 DEF Request, CheckNewName, Takes, Location
<1>3. Ready(r)
  BY <1>0 DEF Ready, Request
<1>4. UNCHANGED <<accounts, sessions>>
  BY DEF CheckNewName
<1> HIDE DEF r
<1> QED BY <1>1, <1>2, <1>3, <1>4, Quiet

LEMMA InvStartUpdate ==
  ASSUME Inv, NEW w \in Worker, NEW op \in {"icon", "password"}, StartUpdate(w, op)
  PROVE  Inv'
<1> PICK t \in handed :
      /\ session[t] # NoUser
      /\ req' = [req EXCEPT ![w].pc = "find", ![w].op = op, ![w].token = t,
                            ![w].user = session[t]]
  BY DEF StartUpdate
<1> DEFINE r == [req[w] EXCEPT !.pc = "find", !.op = op, !.token = t, !.user = session[t]]
<1>0. req \in [Worker -> Request] /\ req[w] \in Request /\ t \in Token
  BY DEF Inv, TypeOK
<1>1. req' = [req EXCEPT ![w] = r]
  BY <1>0
<1>2. session[t] \in User /\ session[t] = owner[t]
  BY <1>0, Found
<1>3. r \in Request
  BY <1>0, <1>2 DEF Request, StartUpdate, Takes, Location
<1>4. Ready(r)
  BY <1>0, <1>2 DEF Ready, Request, OwnsToken
<1>5. UNCHANGED <<accounts, sessions>>
  BY DEF StartUpdate
<1> HIDE DEF r
<1> QED BY <1>1, <1>3, <1>4, <1>5, Quiet

LEMMA InvGetSession ==
  ASSUME Inv, NEW w \in Worker, GetSession(w)
  PROVE  Inv'
<1>0. req \in [Worker -> Request] /\ req[w] \in Request /\ Ready(req[w]) /\ req[w].pc = "session"
  BY DEF Inv, TypeOK, ReqInv, GetSession, At
<1>1. UNCHANGED <<accounts, sessions>>
  BY DEF GetSession
<1> DEFINE t == req[w].token
<1>2. CASE session[t] = NoUser
  BY <1>1, <1>2, QuietAnswer DEF GetSession
<1>3. CASE session[t] # NoUser
  <2> DEFINE r == [req[w] EXCEPT !.pc = "find", !.user = session[t]]
  <2>1. req' = [req EXCEPT ![w] = r]
    BY <1>0, <1>3 DEF GetSession
  <2>2. t \in Token /\ req[w].op = "profile" /\ req[w].name \in Name
    BY <1>0 DEF Ready
  <2>3. session[t] \in User /\ session[t] = owner[t]
    BY <1>3, <2>2, Found
  <2>4. r \in Request /\ Ready(r)
    BY <1>0, <2>2, <2>3 DEF Request, Location, Ready, OwnsToken
  <2> HIDE DEF r
  <2> QED BY <1>1, <2>1, <2>4, Quiet
<1> QED BY <1>2, <1>3

\* A copy of a row is a row.
LEMMA ChangedType ==
  ASSUME Inv, NEW w \in Worker, At(w, "find")
  PROVE  req[w].user \in User /\ Changed(w, row[req[w].user]) \in Row
<1>1. OwnsToken(req[w])
  BY DEF Inv, ReqInv, Ready, At
<1>2. req[w].op = "profile" => req[w].name \in Name
  BY DEF Inv, ReqInv, Ready, At
<1>3. req[w].user \in Registered
  BY <1>1, SessionAssumption DEF Inv, OwnInv, OwnsToken
<1>4. req[w].user \in User /\ row[req[w].user] \in Row
  BY <1>3 DEF Registered, Inv, TypeOK
<1> QED BY <1>2, <1>4 DEF Changed, Row

LEMMA InvFindOne ==
  ASSUME Inv, NEW w \in Worker, FindOne(w)
  PROVE  Inv'
<1>0. req \in [Worker -> Request] /\ req[w] \in Request /\ Ready(req[w]) /\ req[w].pc = "find"
  BY DEF Inv, TypeOK, ReqInv, FindOne, At
<1>1. UNCHANGED <<accounts, sessions>>
  BY DEF FindOne
<1>2. OwnsToken(req[w]) /\ req[w].op \in {"profile", "icon", "password"}
  BY <1>0 DEF Ready
<1>3. CASE Answer(w)
  BY <1>1, <1>3, QuietAnswer
<1>4. CASE req' = [req EXCEPT ![w].pc = After(req[w].op)]
  <2> DEFINE r == [req[w] EXCEPT !.pc = After(req[w].op)]
  <2>1. req' = [req EXCEPT ![w] = r]
    BY <1>0, <1>4
  <2>2. r \in Request /\ Ready(r)
    BY <1>0, <1>2 DEF Request, Location, Ready, OwnsToken, After
  <2> HIDE DEF r
  <2> QED BY <1>1, <2>1, <2>2, Quiet
<1> DEFINE c == Changed(w, row[req[w].user])
<1>5. CASE req' = [req EXCEPT ![w].pc = "save", ![w].draft[req[w].user] = c]
  <2> DEFINE r == [req[w] EXCEPT !.pc = "save", !.draft = [@ EXCEPT ![req[w].user] = c]]
  <2>1. req' = [req EXCEPT ![w] = r]
    BY <1>0, <1>5
  <2>2. req[w].user \in User /\ c \in Row
    BY <1>0, ChangedType DEF At
  <2>3. r \in Request /\ Ready(r)
    BY <1>0, <1>2, <2>2 DEF Request, Location, Ready, OwnsToken
  <2> HIDE DEF r
  <2> QED BY <1>1, <2>1, <2>3, Quiet
<1> QED BY <1>3, <1>4, <1>5 DEF FindOne

LEMMA InvFindAll ==
  ASSUME Inv, NEW w \in Worker, FindAll(w)
  PROVE  Inv'
<1> PICK ids \in SUBSET Registered :
      req' = [req EXCEPT ![w].pc = "save", ![w].op = "enable",
                         ![w].draft = [u \in User |->
                            IF u \in ids THEN [row[u] EXCEPT !.enable = ~@] ELSE NoRow]]
  BY DEF FindAll
<1> DEFINE d == [u \in User |->
                   IF u \in ids THEN [row[u] EXCEPT !.enable = ~@] ELSE NoRow]
           r == [req[w] EXCEPT !.pc = "save", !.op = "enable", !.draft = d]
<1>0. req \in [Worker -> Request] /\ req[w] \in Request /\ \A u \in ids : row[u] \in Row
  BY DEF Inv, TypeOK, Registered
<1>1. req' = [req EXCEPT ![w] = r]
  BY <1>0
<1>2. d \in [User -> Row \cup {NoRow}]
  <2>1. ASSUME NEW u \in ids
        PROVE  [row[u] EXCEPT !.enable = ~@] \in Row
    BY <1>0 DEF Row
  <2> QED BY <2>1
<1>3. "enable" \in Operation
  BY DEF FindAll, Takes
<1> HIDE DEF d
<1>4. r \in Request
  BY <1>0, <1>2, <1>3 DEF Request, Location
<1>5. Ready(r)
  BY <1>0 DEF Ready, Request
<1>6. UNCHANGED <<accounts, sessions>>
  BY DEF FindAll
<1> HIDE DEF r
<1> QED BY <1>1, <1>4, <1>5, <1>6, Quiet

-----------------------------------------------------------------------------
(* The steps that change accounts or sessions.                              *)

LEMMA InvInsert ==
  ASSUME Inv, NEW w \in Worker, Insert(w)
  PROVE  Inv'
<1>0. req[w].name \in Name /\ req[w].email \in Email
  BY DEF Inv, ReqInv, Ready, Insert, At
<1>1. UNCHANGED <<banned, sessions>> /\ Answer(w)
  BY DEF Insert
<1>2. CASE UNCHANGED row
  BY <1>1, <1>2, QuietAnswer DEF accounts
<1>3. ASSUME NEW u \in User \ Registered,
             ~NameTaken(req[w].name),
             row' = [row EXCEPT ![u] = [name |-> req[w].name, email |-> req[w].email, enable |-> TRUE]]
      PROVE  Inv'
  <2> DEFINE new == [name |-> req[w].name, email |-> req[w].email, enable |-> TRUE]
  <2>1. new \in Row /\ new.name = req[w].name
    BY <1>0 DEF Row
  <2>2. row' = [row EXCEPT ![u] = new]
    BY <1>3
  <2> HIDE DEF new
  <2>3. row' \in [User -> Row \cup {NoRow}]
    BY <2>1, <2>2 DEF Inv, TypeOK
  <2>5. \A v \in Registered : row'[v] # NoRow
    BY <2>1, <2>2, SessionAssumption DEF Inv, TypeOK, Registered
  <2>6. Monotone
    BY <1>1, <2>5 DEF Monotone, sessions
  <2>7. req' \in [Worker -> Request] /\ ReqInv'
    BY <1>1, <2>6, Answers
  <2>8. OwnInv'
    BY <1>1, <2>5 DEF Inv, OwnInv, Registered, sessions, TypeOK
  <2> QED BY <1>1, <2>3, <2>7, <2>8 DEF Inv, TypeOK, sessions
<1> QED BY <1>2, <1>3 DEF Insert

LEMMA InvSave ==
  ASSUME Inv, NEW w \in Worker, Save(w)
  PROVE  Inv'
<1>0. req \in [Worker -> Request] /\ req[w] \in Request /\ Ready(req[w]) /\ req[w].pc = "save"
  BY DEF Inv, TypeOK, ReqInv, Save, At
<1>1. UNCHANGED sessions
  BY DEF Save
<1>2. CASE Answer(w) /\ UNCHANGED accounts
  BY <1>1, <1>2, QuietAnswer
<1>3. CASE /\ row' = Saved(w)
           /\ IF req[w].op = "enable"
              THEN /\ banned' = {u \in User : IF req[w].draft[u] = NoRow
                                              THEN u \in banned
                                              ELSE ~req[w].draft[u].enable}
                   /\ Answer(w)
              ELSE /\ req' = [req EXCEPT ![w].pc = After(req[w].op), ![w].draft = NoDraft]
                   /\ UNCHANGED banned
  <2>1. row' = Saved(w)
    BY <1>3
  <2>2. row' \in [User -> Row \cup {NoRow}]
    BY <1>0, <1>3, <2>1 DEF Saved, Updated, Request, Inv, TypeOK
  <2>3. \A v \in Registered : row'[v] # NoRow
    BY <2>1 DEF Saved, Updated, Registered
  <2>4. Monotone
    BY <1>1, <2>3 DEF Monotone, sessions
  <2>5. OwnInv'
    BY <1>1, <2>3 DEF Inv, OwnInv, Registered, sessions, TypeOK
  <2>6. banned' \subseteq User
    BY <1>3 DEF Inv, TypeOK
  <2>7. req' \in [Worker -> Request] /\ ReqInv'
    <3>1. CASE req[w].op = "enable"
      BY <1>3, <2>4, <3>1, Answers
    <3>2. CASE req[w].op # "enable"
      <4> DEFINE r == [req[w] EXCEPT !.pc = After(req[w].op), !.draft = NoDraft]
      <4>1. req' = [req EXCEPT ![w] = r]
        BY <1>0, <1>3, <3>2
      <4>2. OwnsToken(req[w]) /\ req[w].op \in {"profile", "icon", "password"}
        BY <1>0, <3>2 DEF Ready
      <4>3. r \in Request /\ r.token = req[w].token /\ r.user = req[w].user
              /\ r.op = req[w].op /\ r.pc = After(req[w].op)
        BY <1>0, <4>2 DEF Request, Location, After, NoDraft
      <4> HIDE DEF r
      <4>4. PICK q \in Request : q = r
        BY <4>3
      <4>5. Ready(q)'
        BY <1>1, <4>2, <4>3, <4>4 DEF Ready, OwnsToken, After, sessions
      <4> QED BY <2>4, <4>1, <4>4, <4>5, Keeps
    <3> QED BY <3>1, <3>2
  <2> QED BY <1>1, <2>2, <2>5, <2>6, <2>7 DEF Inv, TypeOK, sessions
<1> QED BY <1>2, <1>3 DEF Save

LEMMA InvCacheLogin ==
  ASSUME Inv, NEW w \in Worker, CacheLogin(w)
  PROVE  Inv'
<1>0. req \in [Worker -> Request] /\ req[w] \in Request /\ req[w].user \in Registered
  BY DEF Inv, TypeOK, ReqInv, Ready, CacheLogin, At
<1>1. UNCHANGED <<accounts, handed, ended, uids>>
  BY DEF CacheLogin
<1>2. PICK t \in Token :
        /\ owner[t] = NoUser
        /\ owner' = [owner EXCEPT ![t] = req[w].user]
        /\ session' = [session EXCEPT ![t] = req[w].user]
        /\ req' = [req EXCEPT ![w].pc = "listLogin", ![w].token = t]
  BY DEF CacheLogin, Issued
<1>3. req[w].user \in User /\ req[w].user # NoUser
  BY <1>0, SessionAssumption DEF Registered
<1>4. /\ owner' \in [Token -> User \cup {NoUser}]
      /\ session' \in [Token -> User \cup {NoUser}]
      /\ owner'[t] = req[w].user
  BY <1>2, <1>3 DEF Inv, TypeOK
<1>5. Monotone
  BY <1>1, <1>2 DEF Monotone, accounts, Registered, Inv, TypeOK
<1>6. OwnInv'
  BY <1>0, <1>1, <1>2, <1>3 DEF Inv, OwnInv, TypeOK, accounts, Registered
<1>7. req' \in [Worker -> Request] /\ ReqInv'
  <2> DEFINE r == [req[w] EXCEPT !.pc = "listLogin", !.token = t]
  <2>1. req' = [req EXCEPT ![w] = r]
    BY <1>0, <1>2
  <2>2. r \in Request /\ r.pc = "listLogin" /\ r.token = t /\ r.user = req[w].user
    BY <1>0 DEF Request, Location
  <2> HIDE DEF r
  <2>3. PICK q \in Request : q = r
    BY <2>2
  <2>4. Ready(q)'
    BY <1>3, <1>4, <2>2, <2>3 DEF Ready
  <2> QED BY <1>5, <2>1, <2>3, <2>4, Keeps
<1> QED BY <1>1, <1>4, <1>6, <1>7 DEF Inv, TypeOK, accounts

LEMMA InvListLogin ==
  ASSUME Inv, NEW w \in Worker, ListLogin(w)
  PROVE  Inv'
<1>1. req[w].token \in Token /\ req[w].user \in User /\ owner[req[w].token] # NoUser
  BY DEF Inv, ReqInv, Ready, ListLogin, At
<1>2. /\ UNCHANGED <<accounts, session, owner, ended>> /\ Answer(w)
      /\ uids' = uids \cup {req[w].user} /\ handed' = handed \cup {req[w].token}
  BY DEF ListLogin
<1>3. Monotone
  BY <1>2 DEF Monotone, accounts, Registered
<1>4. req' \in [Worker -> Request] /\ ReqInv'
  BY <1>2, <1>3, Answers
<1>5. OwnInv'
  BY <1>1, <1>2 DEF Inv, OwnInv, accounts, Registered
<1> QED BY <1>1, <1>2, <1>4, <1>5 DEF Inv, TypeOK, accounts

\* A session is written only by a request that holds the user of its token.
LEMMA WritesOwner ==
  ASSUME Inv, NEW w \in Worker, OwnsToken(req[w]),
         session' = [session EXCEPT ![req[w].token] = req[w].user],
         UNCHANGED <<accounts, owner, handed>>
  PROVE  session' \in [Token -> User \cup {NoUser}] /\ OwnInv' /\ Monotone
BY DEF Inv, TypeOK, OwnInv, OwnsToken, Monotone, accounts, Registered

\* An end of a session writes no user to it.
LEMMA EndsSession ==
  ASSUME Inv, NEW t \in Token, session' = [session EXCEPT ![t] = NoUser],
         UNCHANGED <<accounts, owner, handed>>
  PROVE  session' \in [Token -> User \cup {NoUser}] /\ OwnInv' /\ Monotone
BY DEF Inv, TypeOK, OwnInv, Monotone, accounts, Registered

LEMMA InvCache ==
  ASSUME Inv, NEW w \in Worker, Cache(w)
  PROVE  Inv'
<1>1. OwnsToken(req[w])
  BY DEF Inv, ReqInv, Ready, Cache, At
<1>2. /\ UNCHANGED <<accounts, owner, handed, ended, uids>> /\ Answer(w)
      /\ session' = [session EXCEPT ![req[w].token] = req[w].user]
  BY DEF Cache
<1>3. session' \in [Token -> User \cup {NoUser}] /\ OwnInv' /\ Monotone
  BY <1>1, <1>2, WritesOwner
<1>4. req' \in [Worker -> Request] /\ ReqInv'
  BY <1>2, <1>3, Answers
<1> QED BY <1>2, <1>3, <1>4 DEF Inv, TypeOK, accounts

LEMMA InvRefresh ==
  ASSUME Inv, NEW w \in Worker, Refresh(w)
  PROVE  Inv'
<1>0. /\ req \in [Worker -> Request] /\ req[w] \in Request
      /\ OwnsToken(req[w]) /\ req[w].op \in {"get", "logout"}
  BY DEF Inv, TypeOK, ReqInv, Ready, Refresh, At
<1>1. /\ UNCHANGED <<accounts, owner, handed, ended, uids>>
      /\ session' = [session EXCEPT ![req[w].token] = req[w].user]
  BY DEF Refresh
<1>2. session' \in [Token -> User \cup {NoUser}] /\ OwnInv' /\ Monotone
  BY <1>0, <1>1, WritesOwner
<1>3. req' \in [Worker -> Request] /\ ReqInv'
  <2>1. CASE Answer(w)
    BY <1>2, <2>1, Answers
  <2>2. CASE req[w].op = "logout" /\ req' = [req EXCEPT ![w].pc = "delete"]
    <3> DEFINE r == [req[w] EXCEPT !.pc = "delete"]
    <3>1. req' = [req EXCEPT ![w] = r]
      BY <1>0, <2>2
    <3>2. r \in Request /\ r.pc = "delete" /\ r.token \in Token /\ r.op = "logout"
      BY <1>0, <2>2 DEF Request, Location, OwnsToken
    <3> HIDE DEF r
    <3>3. PICK q \in Request : q = r
      BY <3>2
    <3>4. Ready(q)'
      BY <3>2, <3>3 DEF Ready
    <3> QED BY <1>2, <3>1, <3>3, <3>4, Keeps
  <2> QED BY <2>1, <2>2 DEF Refresh
<1> QED BY <1>1, <1>2, <1>3 DEF Inv, TypeOK, accounts

LEMMA InvDelete ==
  ASSUME Inv, NEW w \in Worker, Delete(w)
  PROVE  Inv'
<1>0. /\ req \in [Worker -> Request] /\ req[w] \in Request /\ req[w].token \in Token
  BY DEF Inv, TypeOK, ReqInv, Ready, Delete, At
<1>1. /\ UNCHANGED <<accounts, owner, handed, uids>>
      /\ session' = [session EXCEPT ![req[w].token] = NoUser]
  BY DEF Delete
<1>2. session' \in [Token -> User \cup {NoUser}] /\ OwnInv' /\ Monotone
  BY <1>0, <1>1, EndsSession
<1>3. ended' \subseteq Token
  BY <1>0 DEF Delete, Inv, TypeOK
<1>4. req' \in [Worker -> Request] /\ ReqInv'
  <2>1. CASE Answer(w)
    BY <1>2, <2>1, Answers
  <2>2. CASE req[w].op = "logout" /\ req' = [req EXCEPT ![w].pc = "unlist"]
    <3> DEFINE r == [req[w] EXCEPT !.pc = "unlist"]
    <3>1. req' = [req EXCEPT ![w] = r]
      BY <1>0, <2>2
    <3>2. r \in Request /\ r.pc = "unlist" /\ r.token \in Token /\ r.op = "logout"
      BY <1>0, <2>2 DEF Request, Location
    <3> HIDE DEF r
    <3>3. PICK q \in Request : q = r
      BY <3>2
    <3>4. Ready(q)'
      BY <3>2, <3>3 DEF Ready
    <3> QED BY <1>2, <3>1, <3>3, <3>4, Keeps
  <2> QED BY <2>1, <2>2 DEF Delete
<1> QED BY <1>1, <1>2, <1>3, <1>4 DEF Inv, TypeOK, accounts

LEMMA InvUnlist ==
  ASSUME Inv, NEW w \in Worker, Unlist(w)
  PROVE  Inv'
<1>1. req[w].token \in Token
  BY DEF Inv, ReqInv, Ready, Unlist, At
<1>2. /\ UNCHANGED <<accounts, session, owner, handed>> /\ Answer(w)
      /\ uids' = uids \ {req[w].user} /\ ended' = ended \cup {req[w].token}
  BY DEF Unlist
<1>3. Monotone
  BY <1>2 DEF Monotone, accounts, Registered
<1>4. req' \in [Worker -> Request] /\ ReqInv'
  BY <1>2, <1>3, Answers
<1> QED BY <1>1, <1>2, <1>4 DEF Inv, TypeOK, OwnInv, Registered, accounts

LEMMA InvExpire ==
  ASSUME Inv, NEW t \in Token, Expire(t)
  PROVE  Inv'
<1>1. /\ UNCHANGED <<accounts, owner, handed, ended, uids, req>>
      /\ session' = [session EXCEPT ![t] = NoUser]
  BY DEF Expire
<1>2. session' \in [Token -> User \cup {NoUser}] /\ OwnInv'
  BY <1>1, EndsSession
<1>3. ReqInv'
  BY <1>1 DEF Inv, ReqInv, Ready, OwnsToken, accounts, Registered
<1> QED BY <1>1, <1>2, <1>3 DEF Inv, TypeOK, accounts

-----------------------------------------------------------------------------
(* The theorems.                                                            *)

LEMMA InvInit == Init => Inv
BY SessionAssumption DEF Init, Inv, TypeOK, ReqInv, Ready, OwnInv,
   Registered, NoRequest, Request, Location, NoDraft

LEMMA InvNext == Inv /\ [Next]_vars => Inv'
<1> SUFFICES ASSUME Inv, [Next]_vars
             PROVE  Inv'
  OBVIOUS
<1>1. ASSUME NEW w \in Worker, Start(w)
      PROVE  Inv'
  BY <1>1, InvCheckName, InvFindByEmail, InvGet, InvLogout, InvCheckNewName,
     InvStartUpdate, InvFindAll DEF Start
<1>2. ASSUME NEW w \in Worker, Continue(w)
      PROVE  Inv'
  BY <1>2, InvCheckEmail, InvInsert, InvCacheLogin, InvListLogin, InvRefresh, InvDelete,
     InvUnlist, InvGetSession, InvFindOne, InvSave, InvCache DEF Continue
<1>3. ASSUME NEW t \in Token, Expire(t)
      PROVE  Inv'
  BY <1>3, InvExpire
<1>4. CASE UNCHANGED vars
  BY <1>4 DEF vars, Inv, TypeOK, ReqInv, Ready, OwnsToken, OwnInv, Registered
<1> QED BY <1>1, <1>2, <1>3, <1>4 DEF Next

\* The invariant that the requests' knowledge and the owners of tokens add to.
THEOREM InvHolds == Spec => []Inv
BY InvInit, InvNext, PTL DEF Spec

\* Every variable keeps its type: in particular no request goes on with a token,
\* a user or a row it has not got.
THEOREM TypeCorrect == Spec => []TypeOK
<1>1. Inv => TypeOK
  BY DEF Inv
<1> QED BY <1>1, InvHolds, PTL

-----------------------------------------------------------------------------
(* Session implements SessionLife.                                          *)

LEMMA SamePhase ==
  ASSUME NEW s \in Token, session'[s] = session[s], owner'[s] = owner[s],
         \/ session[s] # NoUser
         \/ \A v \in Worker : Holds(v, s)' <=> Holds(v, s)
  PROVE  Phase'[s] = Phase[s]
BY DEF Phase

\* A step that looks at sessions but writes none.  A request may become a holder
\* of a session it finds alive.
LEMMA Looks ==
  ASSUME NEW w \in Worker, UNCHANGED <<session, owner>>,
         \A v \in Worker \ {w} : req'[v] = req[v],
         \A s \in Token : session[s] # NoUser \/ (Holds(w, s)' <=> Holds(w, s))
  PROVE  UNCHANGED <<Phase, owner, session>>
<1>1. ASSUME NEW s \in Token
      PROVE  Phase'[s] = Phase[s]
  <2>1. \A v \in Worker \ {w} : Holds(v, s)' <=> Holds(v, s)
    BY DEF Holds, At
  <2> QED BY <2>1, SamePhase
<1> QED BY <1>1 DEF Phase

\* A step that changes the phase or the session of one issued token.
LEMMA Moves ==
  ASSUME Inv, NEW t \in Token, UNCHANGED owner, session' \in [Token -> User \cup {NoUser}],
         \A s \in Token \ {t} : Phase'[s] = Phase[s] /\ session'[s] = session[s],
         \/ Phase'[t] = Phase[t] /\ session'[t] = session[t]
         \/ Phase[t] = "alive" /\ Phase'[t] \in {"limbo", "dead"} /\ session'[t] = NoUser
         \/ Phase[t] = "limbo" /\ Phase'[t] = "alive" /\ session'[t] = owner[t]
         \/ Phase[t] = "limbo" /\ Phase'[t] = "dead" /\ session'[t] = session[t]
  PROVE  [Life!Next]_<<Phase, owner, session>>
<1>1. /\ Phase' = [Phase EXCEPT ![t] = Phase'[t]]
      /\ session' = [session EXCEPT ![t] = session'[t]]
  BY DEF Phase, Inv, TypeOK
<1>2. CASE Phase'[t] = Phase[t] /\ session'[t] = session[t]
  <2>1. Phase' = Phase /\ session' = session
    BY <1>2 DEF Phase, Inv, TypeOK
  <2> QED BY <2>1
<1>3. CASE Phase[t] = "alive" /\ Phase'[t] \in {"limbo", "dead"} /\ session'[t] = NoUser
  <2>1. Life!End(t)
    BY <1>1, <1>3 DEF Life!End
  <2> QED BY <2>1 DEF Life!Next
<1>4. CASE Phase[t] = "limbo" /\ Phase'[t] = "alive" /\ session'[t] = owner[t]
  <2>1. Life!Return(t)
    BY <1>1, <1>4 DEF Life!Return
  <2> QED BY <2>1 DEF Life!Next
<1>5. CASE Phase[t] = "limbo" /\ Phase'[t] = "dead" /\ session'[t] = session[t]
  <2>1. session' = session
    BY <1>1, <1>5 DEF Inv, TypeOK
  <2>2. Life!Die(t)
    BY <1>1, <1>5, <2>1 DEF Life!Die
  <2> QED BY <2>2 DEF Life!Next
<1> QED BY <1>2, <1>3, <1>4, <1>5

Reads(w) ==
  \/ CheckName(w) \/ CheckEmail(w) \/ Insert(w) \/ FindByEmail(w) \/ ListLogin(w)
  \/ Get(w) \/ Logout(w) \/ Unlist(w) \/ CheckNewName(w) \/ StartUpdate(w, "icon")
  \/ StartUpdate(w, "password") \/ GetSession(w) \/ FindOne(w) \/ FindAll(w)

LEMMA ReadsStutter ==
  ASSUME Inv, NEW w \in Worker, Reads(w)
  PROVE  UNCHANGED <<Phase, owner, session>>
<1>0. req \in [Worker -> Request] /\ req[w] \in Request /\ Ready(req[w])
  BY DEF Inv, TypeOK, ReqInv
<1>1. UNCHANGED <<session, owner>>
  BY DEF Reads, CheckName, CheckEmail, Insert, FindByEmail, ListLogin, Get, Logout, Unlist,
     CheckNewName, StartUpdate, GetSession, FindOne, FindAll, sessions
<1>2. CASE /\ req[w].pc \notin {"refresh", "save", "cache"}
           /\ At(w, "find") => req[w].op = "password"
           /\ Answer(w)
  <2>1. \A s \in Token : ~Holds(w, s)
    BY <1>2 DEF Holds, At
  <2>2. req'[w].pc = "idle"
    BY <1>0, <1>2 DEF Answer, NoRequest
  <2>3. \A s \in Token : ~Holds(w, s)'
    BY <2>2 DEF Holds, At
  <2> QED BY <1>0, <1>1, <1>2, <2>1, <2>3, Looks DEF Answer
<1>3. CASE CheckName(w)
  <2>1. \A s \in Token : ~Holds(w, s) /\ ~Holds(w, s)'
    BY <1>0, <1>3 DEF Holds, At, CheckName, Takes, Request
  <2> QED BY <1>0, <1>1, <1>3, <2>1, Looks DEF CheckName
<1>4. CASE CheckEmail(w)
  <2>1. ASSUME NEW e \in Email, req' = [req EXCEPT ![w].pc = "insert", ![w].email = e]
        PROVE  UNCHANGED <<Phase, owner, session>>
    <3>1. \A s \in Token : ~Holds(w, s) /\ ~Holds(w, s)'
      BY <1>0, <1>4, <2>1 DEF Holds, At, CheckEmail, Request
    <3> QED BY <1>0, <1>1, <2>1, <3>1, Looks
  <2> QED BY <1>2, <1>4, <2>1 DEF CheckEmail, At
<1>5. CASE FindByEmail(w)
  <2>1. \A s \in Token : ~Holds(w, s) /\ ~Holds(w, s)'
    BY <1>0, <1>5 DEF Holds, At, FindByEmail, Takes, Request
  <2> QED BY <1>0, <1>1, <1>5, <2>1, Looks DEF FindByEmail
<1>6. CASE Insert(w) \/ ListLogin(w) \/ Unlist(w)
  BY <1>2, <1>6 DEF Insert, ListLogin, Unlist, At
<1>7. CASE CheckNewName(w)
  <2>1. \A s \in Token : ~Holds(w, s) /\ ~Holds(w, s)'
    BY <1>0, <1>7 DEF Holds, At, CheckNewName, Takes, Request
  <2> QED BY <1>0, <1>1, <1>7, <2>1, Looks DEF CheckNewName
<1>8. CASE FindAll(w)
  <2>1. \A s \in Token : ~Holds(w, s) /\ ~Holds(w, s)'
    BY <1>0, <1>8 DEF Holds, At, FindAll, Takes, Request
  <2> QED BY <1>0, <1>1, <1>8, <2>1, Looks DEF FindAll
<1>9. CASE Get(w)
  <2>1. \A s \in Token : session[s] # NoUser \/ (~Holds(w, s) /\ ~Holds(w, s)')
    BY <1>0, <1>9 DEF Holds, At, Get, Takes, Request
  <2> QED BY <1>0, <1>1, <1>9, <2>1, Looks DEF Get
<1>10. CASE Logout(w)
  <2>1. \A s \in Token : session[s] # NoUser \/ (~Holds(w, s) /\ ~Holds(w, s)')
    BY <1>0, <1>10 DEF Holds, At, Logout, Takes, Request
  <2> QED BY <1>0, <1>1, <1>10, <2>1, Looks DEF Logout
<1>11. ASSUME NEW op, StartUpdate(w, op)
       PROVE  UNCHANGED <<Phase, owner, session>>
  <2>1. \A s \in Token : session[s] # NoUser \/ (~Holds(w, s) /\ ~Holds(w, s)')
    BY <1>0, <1>11 DEF Holds, At, StartUpdate, Takes, Request
  <2> QED BY <1>0, <1>1, <1>11, <2>1, Looks DEF StartUpdate
<1>12. CASE GetSession(w)
  <2>1. CASE Answer(w)
    BY <1>2, <1>12, <2>1 DEF GetSession, At
  <2>2. CASE ~Answer(w)
    <3>1. \A s \in Token : session[s] # NoUser \/ (~Holds(w, s) /\ ~Holds(w, s)')
      BY <1>0, <1>12, <2>2 DEF Holds, At, GetSession, Request
    <3> QED BY <1>0, <1>1, <1>12, <2>2, <3>1, Looks DEF GetSession
  <2> QED BY <2>1, <2>2
<1>13. CASE FindOne(w)
  <2>1. CASE req[w].op = "password" /\ Answer(w)
    BY <1>2, <1>13, <2>1 DEF FindOne, At
  <2>2. CASE req' = [req EXCEPT ![w].pc = After(req[w].op)]
    <3>1. \A s \in Token : Holds(w, s)' <=> Holds(w, s)
      BY <1>0, <1>13, <2>2 DEF Holds, At, FindOne, Request, After, Ready
    <3> QED BY <1>0, <1>1, <2>2, <3>1, Looks
  <2> DEFINE c == Changed(w, row[req[w].user])
  <2>3. CASE req' = [req EXCEPT ![w].pc = "save", ![w].draft[req[w].user] = c]
    <3>1. \A s \in Token : Holds(w, s)' <=> Holds(w, s)
      BY <1>0, <1>13, <2>3 DEF Holds, At, FindOne, Request, Ready
    <3> QED BY <1>0, <1>1, <2>3, <3>1, Looks
  <2> QED BY <1>13, <2>1, <2>2, <2>3 DEF FindOne
<1> QED BY <1>3, <1>4, <1>5, <1>6, <1>7, <1>8, <1>9, <1>10, <1>11, <1>12, <1>13 DEF Reads

\* The holders of a session have found its token alive.
LEMMA HeldPhase ==
  ASSUME Inv, NEW w \in Worker, NEW t \in Token, Holds(w, t)
  PROVE  OwnsToken(req[w]) /\ Phase[t] \in {"alive", "limbo"}
<1>1. OwnsToken(req[w])
  BY DEF Inv, ReqInv, Ready, Holds, At
<1>2. owner[t] # NoUser
  BY <1>1, SessionAssumption DEF OwnsToken, Holds
<1> QED BY <1>1, <1>2 DEF Phase

\* A request that gives up, or goes on, after its session.
LEMMA SaveRefines ==
  ASSUME Inv, NEW w \in Worker, Save(w)
  PROVE  [Life!Next]_<<Phase, owner, session>>
<1>0. /\ req \in [Worker -> Request] /\ req[w] \in Request /\ Ready(req[w])
      /\ req[w].pc = "save" /\ UNCHANGED <<session, owner>>
  BY DEF Inv, TypeOK, ReqInv, Save, At, sessions
<1>1. CASE Answer(w)
  <2>1. \A s \in Token : ~Holds(w, s)'
    BY <1>0, <1>1 DEF Holds, At, Answer, NoRequest
  <2>2. \A v \in Worker \ {w} : req'[v] = req[v]
    BY <1>0, <1>1 DEF Answer
  <2>3. CASE \A s \in Token : ~Holds(w, s)
    BY <1>0, <2>1, <2>2, <2>3, Looks
  <2>4. ASSUME NEW t \in Token, Holds(w, t)
        PROVE  [Life!Next]_<<Phase, owner, session>>
    <3>1. \A s \in Token \ {t} : ~Holds(w, s)
      BY <2>4 DEF Holds
    <3>2. \A s \in Token \ {t}, v \in Worker : Holds(v, s)' <=> Holds(v, s)
      BY <2>1, <2>2, <3>1 DEF Holds, At
    <3>3. \A s \in Token \ {t} : Phase'[s] = Phase[s]
      BY <1>0, <3>2, SamePhase
    <3>4. Phase[t] \in {"alive", "limbo"}
      BY <2>4, HeldPhase
    <3>5. \/ Phase'[t] = Phase[t]
          \/ Phase[t] = "limbo" /\ Phase'[t] = "dead"
      BY <1>0, <3>4 DEF Phase
    <3>6. session' = session /\ session' \in [Token -> User \cup {NoUser}]
      BY <1>0 DEF Inv, TypeOK
    <3> QED BY <1>0, <3>3, <3>4, <3>5, <3>6, Moves
  <2> QED BY <2>3, <2>4
<1>2. CASE req' = [req EXCEPT ![w].pc = After(req[w].op), ![w].draft = NoDraft]
           /\ req[w].op # "enable"
  <2>1. \A s \in Token : Holds(w, s)' <=> Holds(w, s)
    BY <1>0, <1>2 DEF Holds, At, Request, After, Ready
  <2> QED BY <1>0, <1>2, <2>1, Looks
<1> QED BY <1>1, <1>2 DEF Save

\* A session is written by a request that holds it and lets it go.
LEMMA WritesRefine ==
  ASSUME Inv, NEW w \in Worker, Refresh(w) \/ Cache(w)
  PROVE  [Life!Next]_<<Phase, owner, session>>
<1> DEFINE t == req[w].token
<1>0. /\ req \in [Worker -> Request] /\ req[w] \in Request /\ UNCHANGED owner
      /\ session' = [session EXCEPT ![t] = req[w].user]
  BY DEF Inv, TypeOK, Refresh, Cache
<1>1. t \in Token /\ Holds(w, t)
  BY DEF Inv, ReqInv, Ready, OwnsToken, Refresh, Cache, Holds, At
<1>2. OwnsToken(req[w]) /\ Phase[t] \in {"alive", "limbo"}
  BY <1>1, HeldPhase
<1>3. /\ req'[w].pc \in {"idle", "delete"}
      /\ \A v \in Worker \ {w} : req'[v] = req[v]
  BY <1>0 DEF Refresh, Cache, Answer, NoRequest, Request
<1>4. \A s \in Token : ~Holds(w, s)'
  BY <1>3 DEF Holds, At
<1>5. \A s \in Token \ {t} : ~Holds(w, s)
  BY DEF Holds
<1>6. \A s \in Token \ {t}, v \in Worker : Holds(v, s)' <=> Holds(v, s)
  BY <1>3, <1>4, <1>5 DEF Holds, At
<1>7. \A s \in Token \ {t} : session'[s] = session[s]
  BY <1>0, <1>1 DEF Inv, TypeOK
<1>8. \A s \in Token \ {t} : Phase'[s] = Phase[s]
  BY <1>0, <1>6, <1>7, SamePhase
<1>9. session'[t] = req[w].user
  BY <1>0, <1>1 DEF Inv, TypeOK
<1>10. Phase'[t] = "alive"
  BY <1>0, <1>2, <1>9, SessionAssumption DEF Phase, OwnsToken
<1>11. session'[t] = owner[t] /\ session' \in [Token -> User \cup {NoUser}]
  BY <1>0, <1>1, <1>2, <1>9 DEF OwnsToken, Inv, TypeOK
<1>12. Phase[t] = "alive" => session'[t] = session[t]
  BY <1>1, <1>11 DEF Phase, Inv, OwnInv
<1> QED BY <1>0, <1>1, <1>2, <1>7, <1>8, <1>10, <1>11, <1>12, Moves

\* The end of a session, whatever ends it.
LEMMA EndRefines ==
  ASSUME Inv, NEW t \in Token, UNCHANGED owner, session' = [session EXCEPT ![t] = NoUser],
         \A v \in Worker, s \in Token : Holds(v, s)' <=> Holds(v, s)
  PROVE  [Life!Next]_<<Phase, owner, session>>
<1>1. session'[t] = NoUser /\ \A s \in Token \ {t} : session'[s] = session[s]
  BY DEF Inv, TypeOK
<1>2. \A s \in Token \ {t} : Phase'[s] = Phase[s]
  BY <1>1, SamePhase
<1>3. session' \in [Token -> User \cup {NoUser}]
  BY DEF Inv, TypeOK
<1>4. CASE owner[t] = NoUser
  <2>1. Phase'[t] = Phase[t]
    BY <1>4 DEF Phase
  <2>2. session[t] = NoUser
    BY <1>4 DEF Inv, OwnInv
  <2> QED BY <1>1, <1>2, <1>3, <2>1, <2>2, Moves
<1>5. CASE owner[t] # NoUser /\ session[t] # NoUser
  <2>1. Phase[t] = "alive" /\ Phase'[t] \in {"limbo", "dead"}
    BY <1>1, <1>5 DEF Phase
  <2> QED BY <1>1, <1>2, <1>3, <2>1, Moves
<1>6. CASE owner[t] # NoUser /\ session[t] = NoUser
  <2>1. Phase'[t] = Phase[t]
    BY <1>1, <1>6, SamePhase
  <2> QED BY <1>1, <1>2, <1>3, <1>6, <2>1, Moves
<1> QED BY <1>4, <1>5, <1>6

LEMMA DeleteRefines ==
  ASSUME Inv, NEW w \in Worker, Delete(w)
  PROVE  [Life!Next]_<<Phase, owner, session>>
<1>0. /\ req \in [Worker -> Request] /\ req[w] \in Request /\ UNCHANGED owner
      /\ session' = [session EXCEPT ![req[w].token] = NoUser]
      /\ req[w].pc = "delete" /\ req[w].token \in Token
  BY DEF Inv, TypeOK, ReqInv, Ready, Delete, At
<1>1. /\ req'[w].pc \in {"idle", "unlist"}
      /\ \A v \in Worker \ {w} : req'[v] = req[v]
  BY <1>0 DEF Delete, Answer, NoRequest, Request
<1>2. \A s \in Token : ~Holds(w, s) /\ ~Holds(w, s)'
  BY <1>0, <1>1 DEF Holds, At
<1>3. \A v \in Worker, s \in Token : Holds(v, s)' <=> Holds(v, s)
  BY <1>1, <1>2 DEF Holds, At
<1> QED BY <1>0, <1>3, EndRefines

LEMMA ExpireRefines ==
  ASSUME Inv, NEW t \in Token, Expire(t)
  PROVE  [Life!Next]_<<Phase, owner, session>>
<1>1. UNCHANGED <<owner, req>> /\ session' = [session EXCEPT ![t] = NoUser]
  BY DEF Expire
<1>2. \A v \in Worker, s \in Token : Holds(v, s)' <=> Holds(v, s)
  BY <1>1 DEF Holds, At
<1> QED BY <1>1, <1>2, EndRefines

LEMMA LoginRefines ==
  ASSUME Inv, NEW w \in Worker, CacheLogin(w)
  PROVE  [Life!Next]_<<Phase, owner, session>>
<1>0. /\ req \in [Worker -> Request] /\ req[w] \in Request
      /\ req[w].pc = "cacheLogin" /\ req[w].user \in User
  BY DEF Inv, TypeOK, ReqInv, Ready, CacheLogin, At, Registered
<1>1. PICK t \in Token :
        /\ owner[t] = NoUser
        /\ owner' = [owner EXCEPT ![t] = req[w].user]
        /\ session' = [session EXCEPT ![t] = req[w].user]
        /\ req' = [req EXCEPT ![w].pc = "listLogin", ![w].token = t]
  BY DEF CacheLogin, Issued
<1>2. req'[w].pc = "listLogin" /\ \A v \in Worker \ {w} : req'[v] = req[v]
  BY <1>0, <1>1 DEF Request
<1>3. \A s \in Token : ~Holds(w, s) /\ ~Holds(w, s)'
  BY <1>0, <1>2 DEF Holds, At
<1>4. \A v \in Worker, s \in Token : Holds(v, s)' <=> Holds(v, s)
  BY <1>2, <1>3 DEF Holds, At
<1>5. \A s \in Token \ {t} : session'[s] = session[s] /\ owner'[s] = owner[s]
  BY <1>1 DEF Inv, TypeOK
<1>6. \A s \in Token \ {t} : Phase'[s] = Phase[s]
  BY <1>4, <1>5, SamePhase
<1>7. owner'[t] = req[w].user /\ session'[t] = req[w].user
  BY <1>1 DEF Inv, TypeOK
<1>8. Phase[t] = "unissued" /\ Phase'[t] = "alive"
  BY <1>0, <1>1, <1>7, SessionAssumption DEF Phase
<1>9. Phase' = [Phase EXCEPT ![t] = "alive"]
  BY <1>6, <1>8 DEF Phase
<1> QED BY <1>0, <1>1, <1>8, <1>9 DEF Life!Next, Life!Issue

\* Sessions live and end as SessionLife says, for any number of concurrent requests:
\* each is its owner's or nobody's, and one that has ended comes back only through a
\* request that overlaps its end.
THEOREM SessionsRefine == Spec => SessionsFollowLife
<1>1. Init => Life!Init
  BY DEF Init, Life!Init, Phase
<1>2. Inv /\ [Next]_vars => [Life!Next]_<<Phase, owner, session>>
  <2> SUFFICES ASSUME Inv, [Next]_vars
               PROVE  [Life!Next]_<<Phase, owner, session>>
    OBVIOUS
  <2>1. ASSUME NEW w \in Worker, Start(w) \/ Continue(w)
        PROVE  [Life!Next]_<<Phase, owner, session>>
    <3>1. Reads(w) \/ Save(w) \/ Refresh(w) \/ Cache(w) \/ Delete(w) \/ CacheLogin(w)
      BY <2>1 DEF Start, Continue, Reads
    <3> QED
      BY <3>1, ReadsStutter, SaveRefines, WritesRefine, DeleteRefines, LoginRefines
  <2>2. ASSUME NEW t \in Token, Expire(t)
        PROVE  [Life!Next]_<<Phase, owner, session>>
    BY <2>2, ExpireRefines
  <2>3. CASE UNCHANGED vars
    BY <2>3 DEF vars, Phase, Holds, At
  <2> QED BY <2>1, <2>2, <2>3 DEF Next
<1> QED BY <1>1, <1>2, InvHolds, PTL DEF Spec, SessionsFollowLife, Life!Spec, Life!vars
=============================================================================
