------------------------------- MODULE Portal -------------------------------
(***************************************************************************)
(* The tabs of a browser on the portal, with the forum behind them: the     *)
(* cookie they share, signing in and out, the header that asks for the      *)
(* count of notifications and then subscribes to the pushes.  Rest reads a  *)
(* session with one command to Redis and writes it back with another, so    *)
(* what it does for a page is cut at each of its commands, and goes on when  *)
(* the page is gone.  Bounds: Casts, the requests, tabs and tokens that act *)
(* together in a behaviour, the tabs that leave a page at any time in it    *)
(* and what may expire; a tab asks again only when its former request has   *)
(* been served.                                                             *)
(***************************************************************************)
EXTENDS Forum

CONSTANTS Tab, Token, Casts

\* What is sent for a cookie that is not there, and for one that was deleted: deleting it
\* stores the text of null.
Undefined == "undefined"
Null == "null"
Text == Token \cup {Undefined, Null}

\* A token is a UUID, no such text.
ASSUME PortalAssumption ==
  /\ Token \cap {Undefined, Null} = {}
  /\ Casts \subseteq [requests : SUBSET Request, tabs : SUBSET Tab, tokens : SUBSET Token,
                      users : SUBSET User, leave : SUBSET Tab, expires : SUBSET {"session", "cookie"}]

VARIABLES
  cast,      \* who acts in this behaviour
  cookie,    \* the value of QUARK_TOKEN
  session, issued,   \* Redis: the user of a token; the tokens given out
  revived,   \* history: those alive that were written back after they had ended
  tab,       \* the tabs
  call,      \* the header's request that a tab has sent
  out,       \* the sign-out a tab has sent
  inbox,     \* the pushes on their way to a tab
  left       \* history: the users one of whose sessions was signed out
sessions == <<session, issued, revived>>
portalVars == <<cast, cookie, sessions, tab, call, out, inbox, left>>
vars == <<portalVars, forumVars>>

\* A tab's page: new, waiting for the answer, answered, drawn for a user, subscribed,
\* drawn for a guest, signed in but not yet told.  knows and blind are history: the
\* replies committed when the count was taken; the others pushed, or not, before it subscribed.
NewPage == [at |-> "new", text |-> Undefined, user |-> Nobody, badge |-> 0,
            knows |-> {}, blind |-> {}]

\* A request that was sent, has found a session, has written it back or found none; a
\* sign-out has deleted it then, and is answered.  here: the page is still there.
NoCall == [state |-> "none", text |-> Undefined, user |-> Nobody]
NoSignOut == [state |-> "none", text |-> Undefined, user |-> Nobody, here |-> FALSE]

Init == /\ cast \in Casts
        /\ ForumInit
        /\ cookie = Undefined
        /\ session = [k \in Token |-> Nobody] /\ issued = {} /\ revived = {}
        /\ tab = [t \in Tab |-> NewPage]
        /\ call = [t \in Tab |-> NoCall]
        /\ out = [t \in Tab |-> NoSignOut]
        /\ inbox = [t \in Tab |-> {}]
        /\ left = {}

\* One cookie for all tabs.
Write(text) == cookie' = text

UserOf(text) == IF text \in Token THEN session[text] ELSE Nobody

\* getStringAndUpDate: a request gets the session; then it sets it to what it got.
Got(q) == LET u == UserOf(q.text) IN
          [q EXCEPT !.user = u, !.state = IF u = Nobody THEN "fresh" ELSE "found"]
Sets(q) == /\ q.state = "found"
           /\ session' = [session EXCEPT ![q.text] = q.user]
           /\ revived' = IF session[q.text] = Nobody THEN revived \cup {q.text} ELSE revived
           /\ UNCHANGED issued

\* A session ends.
Ends(text) == /\ session' = [k \in Token |-> IF k = text THEN Nobody ELSE session[k]]
              /\ revived' = revived \ {text}
              /\ UNCHANGED issued

\* An answer to a page that is gone is dropped, and so are its pushes.
Opens(t) == /\ tab' = [tab EXCEPT ![t] = NewPage]
            /\ inbox' = [inbox EXCEPT ![t] = {}]

-----------------------------------------------------------------------------
(* The header.                                                             *)
Load(t) == /\ tab[t].at = "new" /\ call[t] = NoCall
           /\ tab' = [tab EXCEPT ![t].at = "asked"]
           /\ call' = [call EXCEPT ![t] = [state |-> "sent", text |-> cookie, user |-> Nobody]]
           /\ UNCHANGED <<cookie, sessions, out, inbox, left, cast, forumVars>>

HeaderGet(t) == /\ call[t].state = "sent"
                /\ call' = [call EXCEPT ![t] = Got(@)]
                /\ UNCHANGED <<cookie, sessions, tab, out, inbox, left, cast, forumVars>>

HeaderSet(t) == /\ Sets(call[t])
                /\ call' = [call EXCEPT ![t].state = "fresh"]
                /\ UNCHANGED <<cookie, tab, out, inbox, left, cast, forumVars>>

\* The answer, to the page if that is still there: the user and the count.
Count(t) ==
  LET u == call[t].user IN
  /\ call[t].state = "fresh" /\ call' = [call EXCEPT ![t] = NoCall]
  /\ IF tab[t].at = "asked"
     THEN tab' = [tab EXCEPT ![t].at = "answered", ![t].user = u,
                             ![t].badge = Cardinality(Unread(u)), ![t].knows = done \cap Reply]
     ELSE UNCHANGED tab
  /\ UNCHANGED <<cookie, sessions, out, inbox, left, cast, forumVars>>

Draw(t) == /\ tab[t].at = "answered"
           /\ tab' = [tab EXCEPT ![t].at = IF tab[t].user = Nobody THEN "guest" ELSE "drawn"]
           /\ UNCHANGED <<cookie, sessions, call, out, inbox, left, cast, forumVars>>

Subscribe(t) ==
  /\ tab[t].at = "drawn"
  /\ tab' = [tab EXCEPT ![t].at = "subscribed",
                        ![t].blind = ({r \in Reply : at[r] \in {"pushed", "done"}} \cup silent)
                                     \ tab[t].knows]
  /\ UNCHANGED <<cookie, sessions, call, out, inbox, left, cast, forumVars>>

\* To every page that has subscribed for the author.
SendToOne(r) ==
  /\ Push(r)
  /\ inbox' = [t \in Tab |-> IF tab[t].at = "subscribed" /\ tab[t].user = To(r)
                             THEN inbox[t] \cup {[of |-> r, notice |-> Notice(r)]}
                             ELSE inbox[t]]
  /\ UNCHANGED <<cast, cookie, sessions, tab, call, out, left>>

\* In any order: the messages go out on the threads of a pool.
Receive(t) == \E m \in inbox[t] :
  /\ tab' = [tab EXCEPT ![t].badge = m.notice]
  /\ inbox' = [inbox EXCEPT ![t] = @ \ {m}]
  /\ UNCHANGED <<cookie, sessions, call, out, left, cast, forumVars>>

\* The user may open another page at any time; the link to sign out does so itself.
Navigate(t) == /\ tab[t].at # "new" /\ t \in cast.leave
               /\ Opens(t)
               /\ out' = [out EXCEPT ![t].here = FALSE]
               /\ UNCHANGED <<cookie, sessions, call, left, cast, forumVars>>

-----------------------------------------------------------------------------
(* Signing in.                                                             *)
\* A step: nobody knows the token before it is answered.
SignIn(t, u, k) ==
  /\ tab[t].at = "guest" /\ k \in cast.tokens \ issued
  /\ session' = [session EXCEPT ![k] = u] /\ issued' = issued \cup {k}
  /\ uids' = uids \cup {u}
  /\ tab' = [tab EXCEPT ![t].at = "signed", ![t].text = k]
  /\ UNCHANGED <<cast, cookie, revived, call, out, inbox, left,
                 row, note, at, draft, snap, done, before, stale, shown, raced, silent>>

SetCookie(t) == /\ tab[t].at = "signed"
                /\ Write(tab[t].text)
                /\ Opens(t)
                /\ UNCHANGED <<sessions, call, out, left, cast, forumVars>>

-----------------------------------------------------------------------------
(* Signing out.                                                            *)
\* One at a time for a tab.
SignOut(t) ==
  /\ tab[t].at \in {"drawn", "subscribed"} /\ out[t] = NoSignOut
  /\ out' = [out EXCEPT ![t] = [state |-> "sent", text |-> cookie, user |-> Nobody, here |-> TRUE]]
  /\ UNCHANGED <<cookie, sessions, call, tab, inbox, left, cast, forumVars>>

LogoutGet(t) == /\ out[t].state = "sent"
                /\ out' = [out EXCEPT ![t] = Got(@)]
                /\ UNCHANGED <<cookie, sessions, tab, call, inbox, left, cast, forumVars>>

LogoutSet(t) == /\ Sets(out[t])
                /\ out' = [out EXCEPT ![t].state = "fresh"]
                /\ UNCHANGED <<cookie, tab, call, inbox, left, cast, forumVars>>

\* With no session it fails after that, for there is no user.
LogoutDelete(t) ==
  /\ out[t].state = "fresh"
  /\ Ends(out[t].text)
  /\ out' = [out EXCEPT ![t].state = IF out[t].user = Nobody THEN "error" ELSE "deleted"]
  /\ UNCHANGED <<cookie, tab, call, inbox, left, cast, forumVars>>

LogoutUnlist(t) ==
  /\ out[t].state = "deleted"
  /\ uids' = uids \ {out[t].user} /\ left' = left \cup {out[t].user}
  /\ out' = [out EXCEPT ![t].state = "ok"]
  /\ UNCHANGED <<cast, cookie, sessions, tab, call, inbox,
                 row, note, at, draft, snap, done, before, stale, shown, raced, silent>>

\* Mutant: at once, without waiting for the answer.
SignedOutAtOnce(t) == out[t].state # "none" /\ out[t].here

\* The page is still there and the server has ended the session.
SignedOut(t) == out[t].state = "ok" /\ out[t].here

DeleteCookie(t) == /\ SignedOut(t)
                   /\ Write(Null)
                   /\ Opens(t)
                   /\ out' = [out EXCEPT ![t] = NoSignOut]
                   /\ UNCHANGED <<sessions, call, left, cast, forumVars>>

SignOutEnds(t) == /\ out[t].state \in {"ok", "error"} /\ ~SignedOut(t)
                  /\ out' = [out EXCEPT ![t] = NoSignOut]
                  /\ UNCHANGED <<cookie, sessions, call, tab, inbox, left, cast, forumVars>>

-----------------------------------------------------------------------------
(* A session ends after a day without a request, the cookie after a day.   *)
Expire(k) == /\ "session" \in cast.expires /\ session[k] # Nobody
             /\ Ends(k)
             /\ UNCHANGED <<cookie, tab, call, out, inbox, left, cast, forumVars>>

CookieExpires == /\ "cookie" \in cast.expires /\ cookie \in Token
                 /\ cookie' = Undefined
                 /\ UNCHANGED <<sessions, tab, call, out, inbox, left, cast, forumVars>>

-----------------------------------------------------------------------------
TabStep(t) == \/ Load(t) \/ HeaderGet(t) \/ HeaderSet(t) \/ Count(t)
              \/ Draw(t) \/ Subscribe(t) \/ Receive(t) \/ Navigate(t)
              \/ \E u \in cast.users, k \in Token : SignIn(t, u, k)
              \/ SetCookie(t) \/ SignOut(t)
              \/ LogoutGet(t) \/ LogoutSet(t) \/ LogoutDelete(t) \/ LogoutUnlist(t)
              \/ DeleteCookie(t) \/ SignOutEnds(t)

ReplyGoesOn(r) == /\ at[r] \notin Ended
                  /\ \/ ReplyStep(r) /\ UNCHANGED portalVars
                     \/ DeadlockVictim(r) /\ UNCHANGED portalVars
                     \/ SendToOne(r)

Next == \/ \E w \in cast.requests : StartRequest(w) /\ UNCHANGED portalVars
        \/ \E r \in Reply : ReplyGoesOn(r)
        \/ OtherStep /\ UNCHANGED portalVars
        \/ \E t \in cast.tabs : TabStep(t)
        \/ \E k \in Token : Expire(k)
        \/ CookieExpires

\* Transactions that have begun go on, and the database resolves their deadlocks.
Fairness == WF_vars(\E r \in Reply : ReplyGoesOn(r))

Spec == Init /\ [][Next]_vars
FairSpec == Spec /\ Fairness

-----------------------------------------------------------------------------
\* The types of every variable.
TypeOK ==
  /\ ForumTypeOK
  /\ cast \in Casts
  /\ cookie \in Text /\ issued \subseteq Token
  /\ session \in [Token -> User \cup {Nobody}] /\ revived \subseteq Token
  /\ tab \in [Tab -> [at : {"new", "asked", "answered", "drawn", "subscribed", "guest", "signed"},
                      text : Text, user : User \cup {Nobody}, badge : Nat,
                      knows : SUBSET Reply, blind : SUBSET Reply]]
  /\ call \in [Tab -> [state : {"none", "sent", "found", "fresh"}, text : Text,
                       user : User \cup {Nobody}]]
  /\ out \in [Tab -> [state : {"none", "sent", "found", "fresh", "deleted", "ok", "error"},
                      text : Text, user : User \cup {Nobody}, here : BOOLEAN]]
  /\ inbox \in [Tab -> SUBSET [of : Reply, notice : Nat]]
  /\ left \subseteq User

\* A subscribed page without a number, and with no push on its way, has no unread
\* notification to show, but for a reply pushed between its count and its subscription, and
\* one whose author was no longer listed because another session of the user was signed out
\* (header.html 32-54 and 72-91, WebSocketService 43-51).
BadgeShown ==
  \A t \in Tab : tab[t].at = "subscribed" /\ tab[t].badge = 0 /\ inbox[t] = {} =>
    \A r \in Unread(tab[t].user) :
      r \in tab[t].blind \/ (r \in silent /\ tab[t].user \in left)

\* Signing out throws the cookie of a live session away only if that session is another one,
\* stored by another tab while the sign-out was under way (header.html 57-69), or if it was
\* ended and a request that had found it before has written it back (RedisService 38-39).
DeletesOnlyEnded ==
  [][cookie' = Null /\ UserOf(cookie) # Nobody =>
       \E t \in Tab : /\ out[t].here /\ out'[t] = NoSignOut
                      /\ out[t].text # cookie \/ cookie \in revived]_cookie
=============================================================================
