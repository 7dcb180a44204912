------------------------------- MODULE Forum -------------------------------
(***************************************************************************)
(* Replies, new posts and notifications of rest, and the administrator's    *)
(* toggles, on the tables they share.  A reply is a child of a post, a new  *)
(* post a child of a label: both read the parent's row, insert a child and  *)
(* write the row back with one more in its counter (rest's ReplyServiceImpl *)
(* and PostsServiceImpl).  The transactions are cut where another one can    *)
(* see or block them.  MySQL runs them at REPEATABLE READ: plain reads see   *)
(* the snapshot of the first one, an insert locks the parent's row shared    *)
(* (foreign key), an update locks its row exclusively, both up to the end.   *)
(***************************************************************************)
EXTENDS Integers, FiniteSets

CONSTANTS Parent,       \* posts and labels
          User, Nobody,
          Author,       \* who wrote a post; Nobody for a label
          Reply,        \* requests that insert a child, each at most one
          Toggle,       \* the administrator's changeTop or changeGood of a post
          Visit, Purge, \* requests for a user's notifications: show, delete
          On, By        \* a request's parent, its user

Writer == Reply \cup Toggle
Request == Writer \cup Visit \cup Purge
ASSUME ForumAssumption ==
  /\ Nobody \notin User
  /\ Author \in [Parent -> User \cup {Nobody}]
  /\ On \in [Writer -> Parent]
  /\ By \in [Reply \cup Visit \cup Purge -> User]
  /\ Reply \cap (Toggle \cup Visit \cup Purge) = {}
  /\ Toggle \cap (Visit \cup Purge) = {} /\ Visit \cap Purge = {}

VARIABLES
  row,      \* the parents' rows: counter and flag, as committed
  note,     \* the notification of a reply: "none", "unread", "read", "deleted"
  uids,     \* Redis: the ids of the users that logged in
  at,       \* where a request is
  draft,    \* the row a writer will write
  snap,     \* the replies whose notifications a request has read
  done, before,   \* history: the requests that ended well; those a request knows of
  stale,    \* history: writers another one overwrote with an older row
  shown, raced, silent   \* history: notifications a visit has shown; those committed in
                         \* the middle of one; those of users that were not logged in
forumVars == <<row, note, uids, at, draft, snap, done, before, stale, shown, raced, silent>>

Row == [count : Nat, top : BOOLEAN]
Place == {"idle", "read", "inserted", "told", "asked", "offline", "flushed", "pushed",
          "done", "failed"}

ForumInit == /\ row = [p \in Parent |-> [count |-> 0, top |-> FALSE]]
             /\ note = [r \in Reply |-> "none"]
             /\ uids = {}
             /\ at = [w \in Request |-> "idle"]
             /\ draft = [w \in Writer |-> [count |-> 0, top |-> FALSE]]
             /\ snap = [w \in Request |-> {}]
             /\ done = {} /\ before = [w \in Request |-> {}] /\ stale = {}
             /\ shown = {} /\ raced = {} /\ silent = {}

Ended == {"idle", "done", "failed"}
To(w) == Author[On[w]]
Siblings(w) == {v \in Writer \ {w} : On[v] = On[w]}
Notes(u) == {r \in Reply : To(r) = u /\ note[r] \in {"unread", "read"}}
Unread(u) == {r \in Notes(u) : note[r] = "unread"}

\* Nobody is told of a new post, nor an author of its own reply.
Notifies(r) == To(r) \notin {Nobody, By[r]}

-----------------------------------------------------------------------------
(* Locks on the parents' rows.                                             *)
Shared(r) == r \in Reply /\ at[r] \in {"inserted", "told", "asked", "offline", "flushed", "pushed"}
Exclusive(r) == r \in Reply /\ at[r] \in {"flushed", "pushed"}
CanInsert(r) == \A v \in Siblings(r) : ~Exclusive(v)
CanWrite(w) == \A v \in Siblings(w) : ~Shared(v)

\* About to write a row: when it asks for the count of notifications, or
\* commits.
Writes(r) == at[r] \in {"asked", "offline"} \/ (at[r] = "inserted" /\ ~Notifies(r))

-----------------------------------------------------------------------------
(* saveReply, savePosts.                                                   *)

\* Mutants: the counter is incremented after its value has been taken; it is counted down.
CountedPost(p) == row[p]
CountedDown(p) == [row[p] EXCEPT !.count = @ - 1]

Counted(p) == [row[p] EXCEPT !.count = @ + 1]

\* Mutant: only upwards.
FlippedUp(p) == [row[p] EXCEPT !.top = TRUE]

Flipped(p) == [row[p] EXCEPT !.top = ~@]

Reads(w, notes) == /\ at' = [at EXCEPT ![w] = "read"]
                   /\ snap' = [snap EXCEPT ![w] = notes]
                   /\ before' = [before EXCEPT ![w] = done]

\* The parent is read, and with it the snapshot is taken.
FindParent(r) ==
  /\ at[r] = "idle"
  /\ Reads(r, Unread(To(r)))
  /\ draft' = [draft EXCEPT ![r] = Counted(On[r])]
  /\ UNCHANGED <<row, note, uids, done, stale, shown, raced, silent>>

Goes(w, from, to) ==
  /\ at[w] = from
  /\ at' = [at EXCEPT ![w] = to]
  /\ UNCHANGED <<row, note, uids, draft, snap, done, before, stale, shown, raced>>

InsertChild(r) == Goes(r, "read", "inserted") /\ CanInsert(r) /\ UNCHANGED silent

InsertNotification(r) == Goes(r, "inserted", "told") /\ Notifies(r) /\ UNCHANGED silent

CheckLogin(r) == \/ To(r) \in uids /\ Goes(r, "told", "asked") /\ UNCHANGED silent
                 \/ To(r) \notin uids /\ Goes(r, "told", "offline") /\ silent' = silent \cup {r}

\* The query for the count flushes the row first.
Flush(r) == Goes(r, "asked", "flushed") /\ CanWrite(r) /\ UNCHANGED silent

\* Mutant: the count is the one from before the notification.
NoticeBefore(r) == Cardinality(snap[r])

\* The count it sends: the unread notifications of its snapshot, and its own.
Notice(r) == Cardinality(snap[r] \cup {r})
Push(r) == Goes(r, "flushed", "pushed") /\ UNCHANGED silent

\* A row written back undoes what was committed since it was read.
WriteBack(w) == /\ row' = [row EXCEPT ![On[w]] = draft[w]]
                /\ done' = done \cup {w}
                /\ stale' = stale \cup ((done \cap Siblings(w)) \ before[w])
                /\ at' = [at EXCEPT ![w] = "done"]

Commit(r) ==
  /\ at[r] = "pushed" \/ (Writes(r) /\ at[r] # "asked" /\ CanWrite(r))
  /\ WriteBack(r)
  /\ note' = [note EXCEPT ![r] = IF Notifies(r) THEN "unread" ELSE "none"]
  /\ raced' = raced \cup (IF \E v \in Visit : at[v] = "read" THEN {r} ELSE {})
  /\ UNCHANGED <<uids, draft, snap, before, shown, silent>>

\* Any exception on the way rolls the transaction back.
Fail(w) == at[w] \notin Ended /\ Goes(w, at[w], "failed") /\ UNCHANGED silent

\* Mutant: the statement that was refused is tried again.
VictimRetries(r) ==
  /\ Writes(r) /\ \E v \in Siblings(r) \cap Reply : Writes(v)
  /\ Goes(r, at[r], at[r]) /\ UNCHANGED silent

\* Two that hold the row shared and want to write it: the database rolls one back.
DeadlockVictim(r) ==
  /\ Writes(r) /\ \E v \in Siblings(r) \cap Reply : Writes(v)
  /\ Goes(r, at[r], "failed") /\ UNCHANGED silent

-----------------------------------------------------------------------------
(* The administrator's changeTop and changeGood: a read, then a write of    *)
(* the whole row in a transaction of its own.                              *)
FindAll(t) ==
  /\ at[t] = "idle"
  /\ Reads(t, {})
  /\ draft' = [draft EXCEPT ![t] = Flipped(On[t])]
  /\ UNCHANGED <<row, note, uids, done, stale, shown, raced, silent>>

Save(t) == /\ at[t] = "read" /\ CanWrite(t)
           /\ WriteBack(t)
           /\ UNCHANGED <<note, uids, draft, snap, before, shown, raced, silent>>

-----------------------------------------------------------------------------
(* NotificationServiceImpl.                                                *)
FindByUser(v) == /\ at[v] = "idle"
                 /\ Reads(v, Notes(By[v]))
                 /\ UNCHANGED <<row, note, uids, draft, done, stale, shown, raced, silent>>

Finishes(v) == /\ at[v] = "read"
               /\ at' = [at EXCEPT ![v] = "done"] /\ done' = done \cup {v}
               /\ UNCHANGED <<row, uids, draft, snap, before, stale, raced, silent>>

\* Mutant: without the condition on the user.
MarkedEverybody(v) == {r \in Reply : note[r] = "unread"}

\* What the update finds: the notifications of the user, as committed by now.
Marked(v) == Unread(By[v])

\* It waits for the notifications of the user that are not committed yet.
UpdateByIsRead(v) ==
  /\ \A r \in Reply : ~(To(r) = By[v] /\ at[r] \in {"told", "asked", "offline", "flushed", "pushed"})
  /\ Finishes(v)
  /\ note' = [r \in Reply |-> IF r \in Marked(v) THEN "read" ELSE note[r]]
  /\ shown' = shown \cup snap[v]

\* Only the notifications that were read, by their ids.
DeleteInBatch(v) ==
  /\ Finishes(v)
  /\ note' = [r \in Reply |-> IF r \in snap[v] THEN "deleted" ELSE note[r]]
  /\ UNCHANGED shown

-----------------------------------------------------------------------------
StartRequest(w) == \/ w \in Reply /\ FindParent(w)
                   \/ w \in Toggle /\ FindAll(w)
                   \/ w \in Visit \cup Purge /\ FindByUser(w)

\* A step of a reply by itself, but for its push.
ReplyStep(r) == \/ InsertChild(r) \/ InsertNotification(r) \/ CheckLogin(r)
                \/ Flush(r) \/ Commit(r)

\* The steps of the others, and failures.
OtherStep == \/ \E w \in Request : Fail(w)
             \/ \E t \in Toggle : Save(t)
             \/ \E v \in Visit : UpdateByIsRead(v)
             \/ \E v \in Purge : DeleteInBatch(v)

-----------------------------------------------------------------------------
ForumTypeOK == /\ row \in [Parent -> Row]
               /\ note \in [Reply -> {"none", "unread", "read", "deleted"}]
               /\ uids \subseteq User
               /\ at \in [Request -> Place]
               /\ draft \in [Writer -> Row]
               /\ snap \in [Request -> SUBSET Reply]
               /\ done \subseteq Request /\ before \in [Request -> SUBSET Request]
               /\ stale \subseteq Writer
               /\ shown \subseteq Reply /\ raced \subseteq Reply /\ silent \subseteq Reply

\* The counter of a post or label is never above its rows in the table, and below
\* them only by rows that were committed while another request, a reply, a new post
\* or a toggle, still had the parent as it was before (ReplyServiceImpl 70-72).
RowsCounted ==
  \A p \in Parent :
    LET kept == {r \in done \cap Reply : On[r] = p}
    IN row[p].count \in Cardinality(kept \ stale) .. Cardinality(kept)

\* The flag of a post is the administrator's last word, every toggle having turned
\* it over, unless a request that held an older row wrote it back.
TogglesKept ==
  \A p \in Parent :
    LET turned == {t \in done \cap Toggle : On[t] = p}
    IN {w \in stale : On[w] = p} = {} => (row[p].top <=> Cardinality(turned) % 2 = 1)

\* A notification that is marked read has been shown, but for those committed in the
\* middle of a visit (NotificationServiceImpl 27-31).
ReadWasShown == \A r \in Reply : note[r] = "read" => r \in shown \cup raced

\* Every reply that begins ends, whatever it waits for: two that block each other on the
\* row of a post do not wait for ever.
RepliesEnd == \A r \in Reply : at[r] = "read" ~> at[r] \in Ended
=============================================================================
