---------------------------- MODULE PortalProof ----------------------------
(***************************************************************************)
(* The theorems about the forum's tables, for any set of posts, labels,    *)
(* users and requests, finite or not, and any tabs of the portal: the      *)
(* counters, the flags, the notifications that are marked read.  On them,  *)
(* those about the tabs: the types of every variable, the number in the    *)
(* header, and what a sign-out throws away; for any tabs and tokens.       *)
(***************************************************************************)
EXTENDS Portal, FiniteSetTheorems, TLAPS

-----------------------------------------------------------------------------
(* The tables of the forum.                                                *)

Active(w) == at[w] \notin Ended

\* The children and the toggles of a parent in a set of requests.
Replies(S, p) == {r \in S \cap Reply : On[r] = p}
Toggles(S, p) == {t \in S \cap Toggle : On[t] = p}
Odd(S) == Cardinality(S) % 2 = 1

\* What a request knows are requests that are done, and done they stay.
DoneInv == /\ IsFiniteSet(done)
           /\ \A w \in done : at[w] = "done"
           /\ \A w \in Request : before[w] \subseteq done /\ snap[w] \subseteq done
           /\ \A r \in Reply : note[r] # "none" => r \in done

\* The row a writer will write counts the children it knows of, and the one it
\* inserts, but for those that were overwritten.
DraftCounted(w) ==
  LET known == Replies(before[w], On[w])
      own == IF w \in Reply THEN 1 ELSE 0
  IN  draft[w].count \in (Cardinality(known \ stale) + own) .. (Cardinality(known) + own)
CountInv == RowsCounted /\ \A w \in Writer : Active(w) => DraftCounted(w)

\* It has the flag that the toggles it knows of made, turned over by a toggle,
\* unless one was overwritten.
DraftTurned(w) ==
  {v \in stale : On[v] = On[w]} = {} =>
    (draft[w].top <=> (Odd(Toggles(before[w], On[w])) <=> w \in Reply))
FlagInv == TogglesKept /\ \A w \in Writer : Active(w) => DraftTurned(w)

\* A visit that is about to mark the notifications read has them in its list, but
\* for those committed in the middle of it.
ShownInv == /\ ReadWasShown
            /\ \A v \in Visit : at[v] = "read" => Unread(By[v]) \subseteq snap[v] \cup raced

ForumInv == ForumTypeOK /\ DoneInv /\ CountInv /\ FlagInv /\ ShownInv

-----------------------------------------------------------------------------
(* What a step does to the tables: a request begins, goes on, ends; or     *)
(* nothing but the set of logged-in ids changes.                           *)

Places == {"inserted", "told", "asked", "offline", "flushed", "failed"}
MovesTo(w, place) ==
  /\ Active(w)
  /\ at' = [at EXCEPT ![w] = place]
  /\ IF place = "offline" THEN w \in Reply /\ To(w) \notin uids /\ silent' = silent \cup {w}
                          ELSE UNCHANGED silent
  /\ UNCHANGED <<row, note, uids, draft, snap, done, before, stale, shown, raced>>
Moves(w) == \E place \in Places \cup {"pushed"} : MovesTo(w, place)

Rests == /\ UNCHANGED <<row, note, at, draft, snap, done, before, stale, shown, raced, silent>>
         /\ uids' \subseteq User

\* A step of the forum by itself, pushing left out.
ForumStep == \/ \E w \in Request, place \in Places : MovesTo(w, place)
             \/ \E r \in Reply : FindParent(r) \/ Commit(r)
             \/ \E t \in Toggle : FindAll(t) \/ Save(t)
             \/ \E v \in Visit \cup Purge : FindByUser(v)
             \/ \E v \in Visit : UpdateByIsRead(v)
             \/ \E v \in Purge : DeleteInBatch(v)

LEMMA Subsets == Reply \subseteq Writer /\ Toggle \subseteq Writer /\ Writer \subseteq Request
                 /\ Visit \subseteq Request /\ Purge \subseteq Request
BY DEF Writer, Request

LEMMA ReplyMoves ==
  ASSUME NEW r \in Reply,
         \/ InsertChild(r) \/ InsertNotification(r) \/ CheckLogin(r) \/ Flush(r)
         \/ Active(r) /\ DeadlockVictim(r)
  PROVE  \E place \in Places : MovesTo(r, place)
<1>. USE DEF MovesTo, Active, Ended, Goes, Places
<1>1. CASE InsertChild(r)
  <2>1. MovesTo(r, "inserted")
    BY <1>1 DEF InsertChild
  <2>. QED  BY <2>1
<1>2. CASE InsertNotification(r)
  <2>1. MovesTo(r, "told")
    BY <1>2 DEF InsertNotification
  <2>. QED  BY <2>1
<1>3. CASE CheckLogin(r)
  <2>1. MovesTo(r, "asked") \/ MovesTo(r, "offline")
    BY <1>3 DEF CheckLogin
  <2>. QED  BY <2>1
<1>4. CASE Flush(r)
  <2>1. MovesTo(r, "flushed")
    BY <1>4 DEF Flush
  <2>. QED  BY <2>1
<1>5. CASE Active(r) /\ DeadlockVictim(r)
  <2>1. MovesTo(r, "failed")
    BY <1>5 DEF DeadlockVictim
  <2>. QED  BY <2>1
<1>. QED  BY <1>1, <1>2, <1>3, <1>4, <1>5

\* Every step is one of the forum, one of a tab, or the push, which is both.
LEMMA PortalSteps ==
  ASSUME cast \in Casts, [Next]_vars
  PROVE  \/ ForumStep /\ UNCHANGED portalVars
         \/ \E r \in Reply : SendToOne(r)
         \/ \E t \in Tab : TabStep(t)
         \/ \E k \in Token : Expire(k)
         \/ CookieExpires
         \/ UNCHANGED vars
<1>1. cast.requests \subseteq Request /\ cast.tabs \subseteq Tab
  BY PortalAssumption
<1>2. ASSUME NEW w \in cast.requests, StartRequest(w) PROVE ForumStep
  BY <1>2 DEF StartRequest, ForumStep
<1>3. ASSUME NEW r \in Reply, ReplyGoesOn(r), ~SendToOne(r) PROVE ForumStep /\ UNCHANGED portalVars
  <2>1. r \in Request /\ Active(r)
    BY <1>3, Subsets DEF ReplyGoesOn, Active
  <2>2. UNCHANGED portalVars /\ (ReplyStep(r) \/ DeadlockVictim(r))
    BY <1>3 DEF ReplyGoesOn
  <2>3. Commit(r) \/ \E place \in Places : MovesTo(r, place)
    BY <2>1, <2>2, ReplyMoves DEF ReplyStep
  <2>. QED  BY <2>1, <2>2, <2>3 DEF ForumStep
<1>4. ASSUME OtherStep PROVE ForumStep
  <2>1. ASSUME NEW w \in Request, Fail(w) PROVE MovesTo(w, "failed")
    BY <2>1 DEF Fail, Goes, MovesTo, Active
  <2>. QED  BY <1>4, <2>1 DEF OtherStep, ForumStep, Places
<1>. QED  BY <1>1, <1>2, <1>3, <1>4 DEF Next

LEMMA TabsRest ==
  ASSUME uids \subseteq User, cast \in Casts, NEW t \in Tab, TabStep(t) PROVE Rests
<1>. cast.users \subseteq User
  BY PortalAssumption
<1>1. ASSUME NEW u \in cast.users, NEW k \in Token, SignIn(t, u, k) PROVE Rests
  BY <1>1 DEF SignIn, Rests
<1>2. CASE LogoutUnlist(t)
  BY <1>2 DEF LogoutUnlist, Rests
<1>3. CASE \/ Load(t) \/ HeaderGet(t) \/ HeaderSet(t) \/ Count(t) \/ Draw(t) \/ Subscribe(t)
           \/ Receive(t) \/ Navigate(t) \/ SetCookie(t)
  BY <1>3 DEF Load, HeaderGet, HeaderSet, Count, Draw, Subscribe, Receive, Navigate, SetCookie,
              Rests, forumVars
<1>4. CASE \/ SignOut(t) \/ LogoutGet(t) \/ LogoutSet(t) \/ LogoutDelete(t)
           \/ DeleteCookie(t) \/ SignOutEnds(t)
  BY <1>4 DEF SignOut, LogoutGet, LogoutSet, LogoutDelete, DeleteCookie, SignOutEnds, Rests, forumVars
<1>. QED  BY <1>1, <1>2, <1>3, <1>4 DEF TabStep

\* The same steps, by what they do to the tables.
LEMMA ForumSteps ==
  ASSUME uids \subseteq User, cast \in Casts, [Next]_vars
  PROVE  \/ \E w \in Request : Moves(w)
         \/ \E r \in Reply : FindParent(r) \/ Commit(r)
         \/ \E t \in Toggle : FindAll(t) \/ Save(t)
         \/ \E v \in Visit \cup Purge : FindByUser(v)
         \/ \E v \in Visit : UpdateByIsRead(v)
         \/ \E v \in Purge : DeleteInBatch(v)
         \/ Rests
<1>1. ASSUME NEW w \in Request, NEW place \in Places, MovesTo(w, place) PROVE Moves(w)
  BY <1>1 DEF Moves
<1>2. ASSUME NEW r \in Reply, SendToOne(r) PROVE r \in Request /\ Moves(r)
  <2>1. MovesTo(r, "pushed")
    BY <1>2 DEF SendToOne, Push, Goes, MovesTo, Active, Ended
  <2>. QED  BY <2>1, Subsets DEF Moves
<1>3. ASSUME NEW t \in Tab, TabStep(t) PROVE Rests
  BY <1>3, TabsRest
<1>4. ASSUME NEW k \in Token, Expire(k) PROVE Rests
  BY <1>4 DEF Expire, Rests, forumVars
<1>5. CASE CookieExpires \/ UNCHANGED vars
  BY <1>5 DEF CookieExpires, Rests, forumVars, vars
<1>. QED  BY <1>1, <1>2, <1>3, <1>4, <1>5, PortalSteps DEF ForumStep

-----------------------------------------------------------------------------
(* Types, and what is done.                                                *)

LEMMA OnTypes ==
  /\ \A w \in Writer : On[w] \in Parent
  /\ \A r \in Reply : To(r) \in User \cup {Nobody}
BY ForumAssumption DEF Writer, To

LEMMA RowTypes ==
  ASSUME ForumTypeOK, NEW w \in Writer
  PROVE  /\ draft[w] \in Row /\ row[On[w]] \in Row
         /\ Counted(On[w]) \in Row /\ Flipped(On[w]) \in Row
<1>1. draft[w] \in Row /\ row[On[w]] \in Row
  BY OnTypes DEF ForumTypeOK
<1>2. Counted(On[w]) \in Row
  BY <1>1 DEF Row, Counted
<1>3. Flipped(On[w]) \in Row
  BY <1>1 DEF Row, Flipped
<1>. QED  BY <1>1, <1>2, <1>3

LEMMA NotesTypes == \A u : Unread(u) \subseteq Notes(u) /\ Notes(u) \subseteq Reply
BY DEF Unread, Notes

LEMMA TypesInit == ForumInit => ForumTypeOK
BY DEF ForumInit, ForumTypeOK, Row, Place

LEMMA TypesStep ==
  ASSUME ForumTypeOK, cast \in Casts, [Next]_vars PROVE ForumTypeOK'
<1>. USE Subsets
<1>1. ASSUME NEW w \in Request, Moves(w) PROVE ForumTypeOK'
  BY <1>1 DEF Moves, MovesTo, Places, ForumTypeOK, Place
<1>2. ASSUME NEW w \in Request, NEW notes \in SUBSET Reply, Reads(w, notes)
      PROVE  /\ at' \in [Request -> Place] /\ snap' \in [Request -> SUBSET Reply]
             /\ before' \in [Request -> SUBSET Request]
  BY <1>2 DEF Reads, ForumTypeOK, Place
<1>3. ASSUME NEW r \in Reply, FindParent(r) PROVE ForumTypeOK'
  BY <1>2, <1>3, RowTypes, NotesTypes DEF FindParent, ForumTypeOK
<1>4. ASSUME NEW t \in Toggle, FindAll(t) PROVE ForumTypeOK'
  BY <1>2, <1>4, RowTypes DEF FindAll, ForumTypeOK
<1>5. ASSUME NEW v \in Visit \cup Purge, FindByUser(v) PROVE ForumTypeOK'
  BY <1>2, <1>5, NotesTypes DEF FindByUser, ForumTypeOK
<1>6. ASSUME NEW w \in Writer, WriteBack(w)
      PROVE  /\ row' \in [Parent -> Row] /\ at' \in [Request -> Place]
             /\ done' \subseteq Request /\ stale' \subseteq Writer
  BY <1>6, RowTypes, OnTypes DEF WriteBack, ForumTypeOK, Place, Siblings
<1>7. ASSUME NEW r \in Reply, Commit(r) PROVE ForumTypeOK'
  BY <1>6, <1>7 DEF Commit, ForumTypeOK
<1>8. ASSUME NEW t \in Toggle, Save(t) PROVE ForumTypeOK'
  BY <1>6, <1>8 DEF Save, ForumTypeOK
<1>9. ASSUME NEW v \in Visit, UpdateByIsRead(v) PROVE ForumTypeOK'
  BY <1>9 DEF UpdateByIsRead, Finishes, ForumTypeOK, Place
<1>10. ASSUME NEW v \in Purge, DeleteInBatch(v) PROVE ForumTypeOK'
  BY <1>10 DEF DeleteInBatch, Finishes, ForumTypeOK, Place
<1>11. CASE Rests
  BY <1>11 DEF Rests, ForumTypeOK
<1>. QED
  BY <1>1, <1>3, <1>4, <1>5, <1>7, <1>8, <1>9, <1>10, <1>11, ForumSteps DEF ForumTypeOK

LEMMA DoneInit == ForumInit => DoneInv
BY FS_EmptySet DEF ForumInit, DoneInv

LEMMA DoneStep ==
  ASSUME ForumTypeOK, DoneInv, cast \in Casts, [Next]_vars PROVE DoneInv'
<1>. USE Subsets DEF ForumTypeOK
<1>1. ASSUME NEW w \in Request, Moves(w) PROVE DoneInv'
  BY <1>1 DEF Moves, MovesTo, Places, Active, Ended, DoneInv
<1>2. ASSUME NEW w \in Request, NEW notes \in SUBSET done, at[w] = "idle", Reads(w, notes),
             UNCHANGED <<done, note>>
      PROVE  DoneInv'
  BY <1>2 DEF Reads, DoneInv
<1>3. \A u : Notes(u) \subseteq done /\ Unread(u) \subseteq done
  BY DEF Notes, Unread, DoneInv
<1>4. ASSUME NEW r \in Reply, FindParent(r) PROVE DoneInv'
  BY <1>2, <1>3, <1>4 DEF FindParent
<1>5. ASSUME NEW t \in Toggle, FindAll(t) PROVE DoneInv'
  BY <1>2, <1>5 DEF FindAll
<1>6. ASSUME NEW v \in Visit \cup Purge, FindByUser(v) PROVE DoneInv'
  BY <1>2, <1>3, <1>6 DEF FindByUser
<1>7. ASSUME NEW w \in Request, done' = done \cup {w}, at' = [at EXCEPT ![w] = "done"],
             UNCHANGED <<snap, before>>,
             \A r \in Reply : note'[r] # "none" => r \in done'
      PROVE  DoneInv'
  BY <1>7, FS_AddElement DEF DoneInv
<1>8. ASSUME NEW r \in Reply, Commit(r) PROVE DoneInv'
  <2>1. \A q \in Reply : note'[q] # "none" => q \in done'
    BY <1>8 DEF Commit, WriteBack, DoneInv
  <2>. QED  BY <1>7, <1>8, <2>1 DEF Commit, WriteBack
<1>9. ASSUME NEW t \in Toggle, Save(t) PROVE DoneInv'
  BY <1>7, <1>9 DEF Save, WriteBack, DoneInv
<1>10. ASSUME NEW v \in Visit, UpdateByIsRead(v) PROVE DoneInv'
  BY <1>7, <1>10 DEF UpdateByIsRead, Finishes, DoneInv, Marked, Unread
<1>11. ASSUME NEW v \in Purge, DeleteInBatch(v) PROVE DoneInv'
  <2>1. snap[v] \subseteq done
    BY DEF DoneInv
  <2>. QED  BY <1>7, <1>11, <2>1 DEF DeleteInBatch, Finishes, DoneInv
<1>12. CASE Rests
  BY <1>12 DEF Rests, DoneInv
<1>. QED
  BY <1>1, <1>4, <1>5, <1>6, <1>8, <1>9, <1>10, <1>11, <1>12, ForumSteps

-----------------------------------------------------------------------------
(* The counters.                                                           *)

LEMMA Smaller ==
  ASSUME NEW S, NEW T, IsFiniteSet(S), T \subseteq S
  PROVE  /\ IsFiniteSet(T) /\ Cardinality(T) \in Nat /\ Cardinality(S) \in Nat
         /\ Cardinality(T) <= Cardinality(S)
BY FS_Subset, FS_CardinalityType

LEMMA OneMore ==
  ASSUME NEW S, NEW x, IsFiniteSet(S)
  PROVE  /\ IsFiniteSet(S \cup {x}) /\ Cardinality(S) \in Nat
         /\ Cardinality(S \cup {x}) <= Cardinality(S) + 1
         /\ x \notin S => Cardinality(S \cup {x}) = Cardinality(S) + 1
BY FS_AddElement, FS_CardinalityType

LEMMA CountInit == ForumInit => CountInv
<1>. SUFFICES ASSUME ForumInit PROVE CountInv
  OBVIOUS
<1>1. \A w \in Writer : ~Active(w)
  BY Subsets DEF ForumInit, Active, Ended
<1>2. ASSUME NEW p \in Parent
      PROVE row[p].count \in Cardinality({r \in done \cap Reply : On[r] = p} \ stale)
                             .. Cardinality({r \in done \cap Reply : On[r] = p})
  <2>1. {r \in done \cap Reply : On[r] = p} = {} /\ {r \in done \cap Reply : On[r] = p} \ stale = {}
    BY DEF ForumInit
  <2>2. row[p].count = 0
    BY DEF ForumInit
  <2>. QED  BY <2>1, <2>2, FS_EmptySet
<1>. QED  BY <1>1, <1>2 DEF CountInv, RowsCounted

\* What the rows say and what is committed, in the terms of the counter of one parent.
LEMMA RowIs ==
  ASSUME ForumTypeOK, DoneInv, RowsCounted, NEW p \in Parent
  PROVE  /\ row[p].count \in Cardinality(Replies(done, p) \ stale) .. Cardinality(Replies(done, p))
         /\ Cardinality(Replies(done, p) \ stale) \in Nat /\ Cardinality(Replies(done, p)) \in Nat
         /\ row[p].count \in Nat
<1>1. IsFiniteSet(Replies(done, p))
  BY FS_Subset DEF Replies, DoneInv
<1>2. Cardinality(Replies(done, p) \ stale) \in Nat /\ Cardinality(Replies(done, p)) \in Nat
  BY <1>1, Smaller
<1>. QED  BY <1>2 DEF RowsCounted, Replies, ForumTypeOK, Row

\* A row that is read counts what is committed by then.
LEMMA CountRead ==
  ASSUME ForumTypeOK, DoneInv, CountInv, NEW w \in Writer,
         before' = [before EXCEPT ![w] = done],
         draft' = [draft EXCEPT ![w] = IF w \in Reply THEN Counted(On[w]) ELSE Flipped(On[w])]
  PROVE  LET known == Replies(before'[w], On[w])
             own == IF w \in Reply THEN 1 ELSE 0
         IN  draft'[w].count \in (Cardinality(known \ stale) + own) .. (Cardinality(known) + own)
<1>1. before'[w] = done
  BY Subsets DEF ForumTypeOK
<1>2. draft'[w].count = row[On[w]].count + (IF w \in Reply THEN 1 ELSE 0)
  BY OnTypes DEF ForumTypeOK, Row, Counted, Flipped
<1>3. On[w] \in Parent
  BY OnTypes
<1>. QED  BY <1>1, <1>2, <1>3, RowIs DEF CountInv

\* A row that is written back counts what its writer knew of.
LEMMA CountWrite ==
  ASSUME ForumTypeOK, DoneInv, CountInv, NEW w \in Writer, Active(w), WriteBack(w),
         UNCHANGED <<draft, before>>
  PROVE  CountInv'
<1>. DEFINE p == On[w]
            known == Replies(before[w], p)
            kept == Replies(done', p)
            own == IF w \in Reply THEN {w} ELSE {}
            n == IF w \in Reply THEN 1 ELSE 0
<1>. USE Subsets
<1>1. w \notin done /\ before[w] \subseteq done /\ IsFiniteSet(done)
  BY DEF DoneInv, Active, Ended
<1>2. IsFiniteSet(known)
  BY <1>1, FS_Subset DEF Replies
<1>3. IsFiniteSet(kept)
  <2>1. IsFiniteSet(done')
    BY <1>1, FS_AddElement DEF WriteBack
  <2>. QED  BY <2>1, FS_Subset DEF Replies
<1>4. row'[p] = draft[w] /\ p \in Parent
  BY OnTypes DEF WriteBack, ForumTypeOK
<1>5. draft[w].count \in (Cardinality(known \ stale) + n) .. (Cardinality(known) + n)
      /\ draft[w].count \in Nat
  BY RowTypes DEF CountInv, DraftCounted, Row
<1>6. Cardinality(known) + n <= Cardinality(kept) /\ Cardinality(kept) \in Nat /\ Cardinality(known) \in Nat
  <2>1. known \cup own \subseteq kept /\ w \notin known
    BY <1>1 DEF WriteBack, Replies
  <2>2. Cardinality(known \cup own) = Cardinality(known) + n /\ Cardinality(known) \in Nat
    <3>1. CASE w \in Reply
      BY <1>2, <2>1, <3>1, OneMore
    <3>2. CASE w \notin Reply
      <4>1. known \cup own = known
        BY <3>2
      <4>. QED  BY <1>2, <3>2, <4>1, FS_CardinalityType
    <3>. QED  BY <3>1, <3>2
  <2>. QED  BY <1>3, <2>1, <2>2, Smaller
<1>7. Cardinality(kept \ stale') <= Cardinality(known \ stale) + n
      /\ Cardinality(kept \ stale') \in Nat /\ Cardinality(known \ stale) \in Nat
  <2>1. kept \ stale' \subseteq (known \ stale) \cup own
    BY DEF WriteBack, Replies, Siblings
  <2>2. IsFiniteSet(known \ stale)
    BY <1>2, FS_Subset
  <2>3. IsFiniteSet((known \ stale) \cup own) /\ Cardinality(known \ stale) \in Nat
        /\ Cardinality((known \ stale) \cup own) <= Cardinality(known \ stale) + n
    <3>1. CASE w \in Reply
      BY <2>2, <3>1, OneMore
    <3>2. CASE w \notin Reply
      <4>1. (known \ stale) \cup own = known \ stale
        BY <3>2
      <4>. QED  BY <2>2, <3>2, <4>1, FS_CardinalityType
    <3>. QED  BY <3>1, <3>2
  <2>4. Cardinality(kept \ stale') <= Cardinality((known \ stale) \cup own)
        /\ Cardinality(kept \ stale') \in Nat /\ Cardinality((known \ stale) \cup own) \in Nat
    BY <2>1, <2>3, Smaller
  <2>. QED  BY <2>3, <2>4
<1>8. row'[p].count \in Cardinality(kept \ stale') .. Cardinality(kept)
  <2>. HIDE DEF p, known, kept, n
  <2>0. n \in Nat
    BY DEF n
  <2>1. draft[w].count <= Cardinality(known) + n /\ Cardinality(known \ stale) + n <= draft[w].count
    BY <1>5
  <2>. QED  BY <1>4, <1>5, <1>6, <1>7, <2>0, <2>1
<1>9. RowsCounted'
  <2>1. ASSUME NEW q \in Parent
        PROVE  row'[q].count \in Cardinality(Replies(done', q) \ stale') .. Cardinality(Replies(done', q))
    <3>1. CASE q = p
      BY <1>8, <3>1
    <3>2. CASE q # p
      <4>1. Replies(done', q) = Replies(done, q)
        BY <3>2 DEF Replies, WriteBack
      <4>2. Replies(done, q) \ stale' = Replies(done, q) \ stale
        BY <3>2 DEF Replies, WriteBack, Siblings
      <4>3. row'[q] = row[q]
        BY <3>2 DEF WriteBack, ForumTypeOK
      <4>. QED  BY <4>1, <4>2, <4>3, RowIs DEF CountInv
    <3>. QED  BY <3>1, <3>2
  <2>. QED  BY <2>1 DEF RowsCounted, Replies
<1>10. ASSUME NEW v \in Writer, Active(v)' PROVE DraftCounted(v)'
  <2>1. v # w /\ Active(v)
    BY <1>10 DEF WriteBack, Active, Ended, ForumTypeOK
  <2>2. Replies(before[v], On[v]) \ stale' \subseteq Replies(before[v], On[v]) \ stale
    BY DEF WriteBack
  <2>3. IsFiniteSet(Replies(before[v], On[v]))
    BY FS_Subset DEF Replies, DoneInv
  <2>4. Cardinality(Replies(before[v], On[v]) \ stale') <= Cardinality(Replies(before[v], On[v]) \ stale)
        /\ Cardinality(Replies(before[v], On[v]) \ stale') \in Nat
        /\ Cardinality(Replies(before[v], On[v]) \ stale) \in Nat
        /\ Cardinality(Replies(before[v], On[v])) \in Nat
    <3>1. IsFiniteSet(Replies(before[v], On[v]) \ stale)
      BY <2>3, FS_Subset
    <3>. QED  BY <2>2, <2>3, <3>1, Smaller
  <2>5. DraftCounted(v)
    BY <2>1 DEF CountInv
  <2>6. draft[v].count \in Nat
    BY RowTypes DEF Row
  <2>. QED  BY <2>4, <2>5, <2>6 DEF DraftCounted
<1>. QED  BY <1>9, <1>10 DEF CountInv

\* The other steps leave the rows alone, and the drafts of who is active.
LEMMA CountStep ==
  ASSUME ForumTypeOK, DoneInv, CountInv, cast \in Casts, [Next]_vars PROVE CountInv'
<1>. USE Subsets
<1>1. ASSUME UNCHANGED <<row, stale>>, \A p \in Parent : Replies(done', p) = Replies(done, p)
      PROVE  RowsCounted'
  BY <1>1 DEF CountInv, RowsCounted, Replies
<1>2. ASSUME NEW w \in Request, Moves(w) PROVE CountInv'
  <2>1. \A v \in Writer : Active(v)' => Active(v)
    BY <1>2 DEF Moves, MovesTo, Places, Active, Ended, ForumTypeOK
  <2>. QED  BY <1>1, <1>2, <2>1 DEF Moves, MovesTo, CountInv, DraftCounted
<1>3. ASSUME NEW w \in Writer,
             UNCHANGED <<row, stale, done>>,
             at' = [at EXCEPT ![w] = "read"], before' = [before EXCEPT ![w] = done],
             draft' = [draft EXCEPT ![w] = IF w \in Reply THEN Counted(On[w]) ELSE Flipped(On[w])]
      PROVE  CountInv'
  <2>1. DraftCounted(w)'
    BY <1>3, CountRead DEF DraftCounted
  <2>2. ASSUME NEW v \in Writer \ {w}, Active(v)' PROVE DraftCounted(v)'
    <3>1. Active(v) /\ before'[v] = before[v] /\ draft'[v] = draft[v]
      BY <1>3, <2>2 DEF Active, ForumTypeOK
    <3>. QED  BY <1>3, <3>1 DEF CountInv, DraftCounted
  <2>. QED  BY <1>1, <1>3, <2>1, <2>2 DEF CountInv
<1>4. ASSUME NEW r \in Reply, FindParent(r) PROVE CountInv'
  BY <1>3, <1>4 DEF FindParent, Reads
<1>5. ASSUME NEW t \in Toggle, FindAll(t) PROVE CountInv'
  BY <1>3, <1>5, ForumAssumption DEF FindAll, Reads
<1>6. ASSUME NEW v \in Visit \cup Purge,
             UNCHANGED <<row, stale, draft>>, \A w \in Writer : Active(w)' => Active(w),
             \A w \in Writer : before'[w] = before[w],
             done' \subseteq done \cup {v}, done \subseteq done'
      PROVE  CountInv'
  <2>1. \A p \in Parent : Replies(done', p) = Replies(done, p)
    BY <1>6, ForumAssumption DEF Replies
  <2>. QED  BY <1>1, <1>6, <2>1 DEF CountInv, DraftCounted
<1>7. \A v \in Visit \cup Purge : v \notin Writer
  BY ForumAssumption DEF Writer
<1>8. ASSUME NEW v \in Visit \cup Purge, FindByUser(v) PROVE CountInv'
  BY <1>6, <1>7, <1>8 DEF FindByUser, Reads, Active, ForumTypeOK
<1>9. ASSUME NEW v \in Visit \cup Purge, Finishes(v) PROVE CountInv'
  BY <1>6, <1>7, <1>9 DEF Finishes, Active, ForumTypeOK
<1>10. ASSUME NEW r \in Reply, Commit(r) PROVE CountInv'
  BY <1>10, CountWrite DEF Commit, Writes, Active, Ended
<1>11. ASSUME NEW t \in Toggle, Save(t) PROVE CountInv'
  BY <1>11, CountWrite DEF Save, Active, Ended
<1>12. CASE Rests
  BY <1>1, <1>12 DEF Rests, CountInv, DraftCounted, Active
<1>. QED
  <2>1. ASSUME NEW v \in Visit, UpdateByIsRead(v) PROVE CountInv'
    BY <1>9, <2>1 DEF UpdateByIsRead
  <2>2. ASSUME NEW v \in Purge, DeleteInBatch(v) PROVE CountInv'
    BY <1>9, <2>2 DEF DeleteInBatch
  <2>3. uids \subseteq User
    BY DEF ForumTypeOK
  <2>. QED  BY <1>2, <1>4, <1>5, <1>8, <1>10, <1>11, <1>12, <2>1, <2>2, <2>3, ForumSteps

-----------------------------------------------------------------------------
(* The flags.                                                              *)

Overwritten(p) == {v \in stale : On[v] = p}

LEMMA OddTurns ==
  ASSUME NEW S, NEW x, IsFiniteSet(S), x \notin S
  PROVE  Odd(S \cup {x}) <=> ~Odd(S)
<1>1. Cardinality(S \cup {x}) = Cardinality(S) + 1 /\ Cardinality(S) \in Nat
  BY OneMore
<1>. QED  BY <1>1 DEF Odd

LEMMA FlagInit == ForumInit => FlagInv
<1>. SUFFICES ASSUME ForumInit PROVE FlagInv
  OBVIOUS
<1>1. \A w \in Writer : ~Active(w)
  BY Subsets DEF ForumInit, Active, Ended
<1>2. ASSUME NEW p \in Parent PROVE row[p].top <=> Cardinality({t \in done \cap Toggle : On[t] = p}) % 2 = 1
  <2>1. {t \in done \cap Toggle : On[t] = p} = {} /\ row[p].top = FALSE
    BY DEF ForumInit
  <2>. QED  BY <2>1, FS_EmptySet
<1>. QED  BY <1>1, <1>2 DEF FlagInv, TogglesKept

\* The flag of a row that is read is the one its toggles made.
LEMMA FlagRead ==
  ASSUME ForumTypeOK, FlagInv, NEW w \in Writer,
         before' = [before EXCEPT ![w] = done],
         draft' = [draft EXCEPT ![w] = IF w \in Reply THEN Counted(On[w]) ELSE Flipped(On[w])],
         Overwritten(On[w]) = {}
  PROVE  draft'[w].top <=> (Odd(Toggles(before'[w], On[w])) <=> w \in Reply)
<1>1. before'[w] = done
  BY Subsets DEF ForumTypeOK
<1>2. On[w] \in Parent /\ row[On[w]] \in Row
  BY OnTypes DEF ForumTypeOK
<1>3. row[On[w]].top <=> Odd(Toggles(done, On[w]))
  BY <1>2 DEF FlagInv, TogglesKept, Overwritten, Odd, Toggles
<1>4. CASE w \in Reply
  <2>1. draft'[w].top = row[On[w]].top
    BY <1>2, <1>4 DEF ForumTypeOK, Counted, Row
  <2>. QED  BY <1>1, <1>3, <1>4, <2>1
<1>5. CASE w \notin Reply
  <2>1. draft'[w].top = ~row[On[w]].top
    BY <1>2, <1>5 DEF ForumTypeOK, Flipped, Row
  <2>. QED  BY <1>1, <1>3, <1>5, <2>1
<1>. QED  BY <1>4, <1>5

\* A row that is written back, and overwrites nobody, has the flag its toggles made.
LEMMA FlagWrite ==
  ASSUME ForumTypeOK, DoneInv, FlagInv, NEW w \in Writer, Active(w), WriteBack(w),
         UNCHANGED <<draft, before>>
  PROVE  FlagInv'
<1>. DEFINE p == On[w]
<1>. USE Subsets
<1>1. w \notin done /\ before[w] \subseteq done /\ IsFiniteSet(done)
  BY DEF DoneInv, Active, Ended
<1>2. row'[p] = draft[w] /\ p \in Parent
  BY OnTypes DEF WriteBack, ForumTypeOK
<1>3. ASSUME Overwritten(p)' = {}
      PROVE  row'[p].top <=> Odd(Toggles(done', p))
  <2>1. Overwritten(p) = {} /\ done \cap Siblings(w) \subseteq before[w]
    BY <1>3 DEF Overwritten, WriteBack, Siblings
  <2>2. Toggles(done, p) = Toggles(before[w], p)
    BY <1>1, <2>1 DEF Toggles, Siblings
  <2>3. draft[w].top <=> (Odd(Toggles(done, p)) <=> w \in Reply)
    BY <2>1, <2>2 DEF FlagInv, DraftTurned, Overwritten
  <2>4. CASE w \in Reply
    <3>1. Toggles(done', p) = Toggles(done, p)
      BY <2>4, ForumAssumption DEF Toggles, WriteBack
    <3>. QED  BY <1>2, <2>3, <2>4, <3>1
  <2>5. CASE w \notin Reply
    <3>1. Toggles(done', p) = Toggles(done, p) \cup {w}
      BY <2>5 DEF Toggles, WriteBack, Writer
    <3>2. w \notin Toggles(done, p) /\ IsFiniteSet(Toggles(done, p))
      BY <1>1, FS_Subset DEF Toggles
    <3>3. Odd(Toggles(done', p)) <=> ~Odd(Toggles(done, p))
      BY <3>1, <3>2, OddTurns
    <3>. QED  BY <1>2, <2>3, <2>5, <3>3
  <2>. QED  BY <2>4, <2>5
<1>4. ASSUME NEW q \in Parent, q # p, Overwritten(q)' = {}
      PROVE  row'[q].top <=> Odd(Toggles(done', q))
  <2>1. Overwritten(q) = {}
    BY <1>4 DEF Overwritten, WriteBack
  <2>2. Toggles(done', q) = Toggles(done, q)
    BY <1>4 DEF Toggles, WriteBack
  <2>3. row'[q] = row[q]
    BY <1>4 DEF WriteBack, ForumTypeOK
  <2>4. row[q].top <=> Odd(Toggles(done, q))
    BY <2>1 DEF FlagInv, TogglesKept, Overwritten, Odd, Toggles
  <2>. QED  BY <2>2, <2>3, <2>4
<1>5. TogglesKept'
  <2>1. \A q \in Parent : Overwritten(q)' = {} => (row'[q].top <=> Odd(Toggles(done', q)))
    BY <1>3, <1>4
  <2>. QED  BY <2>1 DEF TogglesKept, Overwritten, Odd, Toggles
<1>6. ASSUME NEW v \in Writer, Active(v)' PROVE DraftTurned(v)'
  <2>1. Active(v) /\ stale \subseteq stale'
    BY <1>6 DEF WriteBack, Active, Ended, ForumTypeOK
  <2>2. DraftTurned(v)
    BY <2>1 DEF FlagInv
  <2>. QED  BY <2>1, <2>2 DEF DraftTurned
<1>. QED  BY <1>5, <1>6 DEF FlagInv

LEMMA FlagStep ==
  ASSUME ForumTypeOK, DoneInv, FlagInv, cast \in Casts, [Next]_vars PROVE FlagInv'
<1>. USE Subsets
<1>1. ASSUME UNCHANGED <<row, stale>>, \A p \in Parent : Toggles(done', p) = Toggles(done, p)
      PROVE  TogglesKept'
  BY <1>1 DEF FlagInv, TogglesKept, Toggles
<1>2. ASSUME NEW w \in Request, Moves(w) PROVE FlagInv'
  <2>1. \A v \in Writer : Active(v)' => Active(v)
    BY <1>2 DEF Moves, MovesTo, Places, Active, Ended, ForumTypeOK
  <2>. QED  BY <1>1, <1>2, <2>1 DEF Moves, MovesTo, FlagInv, DraftTurned
<1>3. ASSUME NEW w \in Writer,
             UNCHANGED <<row, stale, done>>,
             at' = [at EXCEPT ![w] = "read"], before' = [before EXCEPT ![w] = done],
             draft' = [draft EXCEPT ![w] = IF w \in Reply THEN Counted(On[w]) ELSE Flipped(On[w])]
      PROVE  FlagInv'
  <2>1. DraftTurned(w)'
    BY <1>3, FlagRead DEF DraftTurned, Overwritten
  <2>2. ASSUME NEW v \in Writer \ {w}, Active(v)' PROVE DraftTurned(v)'
    <3>1. Active(v) /\ before'[v] = before[v] /\ draft'[v] = draft[v]
      BY <1>3, <2>2 DEF Active, ForumTypeOK
    <3>. QED  BY <1>3, <3>1 DEF FlagInv, DraftTurned
  <2>. QED  BY <1>1, <1>3, <2>1, <2>2 DEF FlagInv
<1>4. ASSUME NEW r \in Reply, FindParent(r) PROVE FlagInv'
  BY <1>3, <1>4 DEF FindParent, Reads
<1>5. ASSUME NEW t \in Toggle, FindAll(t) PROVE FlagInv'
  BY <1>3, <1>5, ForumAssumption DEF FindAll, Reads
<1>6. ASSUME NEW v \in Visit \cup Purge,
             UNCHANGED <<row, stale, draft>>, \A w \in Writer : Active(w)' => Active(w),
             \A w \in Writer : before'[w] = before[w],
             done' \subseteq done \cup {v}, done \subseteq done'
      PROVE  FlagInv'
  <2>1. \A p \in Parent : Toggles(done', p) = Toggles(done, p)
    BY <1>6, ForumAssumption DEF Toggles
  <2>. QED  BY <1>1, <1>6, <2>1 DEF FlagInv, DraftTurned
<1>7. \A v \in Visit \cup Purge : v \notin Writer
  BY ForumAssumption DEF Writer
<1>8. ASSUME NEW v \in Visit \cup Purge, FindByUser(v) PROVE FlagInv'
  BY <1>6, <1>7, <1>8 DEF FindByUser, Reads, Active, ForumTypeOK
<1>9. ASSUME NEW v \in Visit \cup Purge, Finishes(v) PROVE FlagInv'
  BY <1>6, <1>7, <1>9 DEF Finishes, Active, ForumTypeOK
<1>10. ASSUME NEW r \in Reply, Commit(r) PROVE FlagInv'
  BY <1>10, FlagWrite DEF Commit, Writes, Active, Ended
<1>11. ASSUME NEW t \in Toggle, Save(t) PROVE FlagInv'
  BY <1>11, FlagWrite DEF Save, Active, Ended
<1>12. CASE Rests
  BY <1>1, <1>12 DEF Rests, FlagInv, DraftTurned, Active
<1>. QED
  <2>1. ASSUME NEW v \in Visit, UpdateByIsRead(v) PROVE FlagInv'
    BY <1>9, <2>1 DEF UpdateByIsRead
  <2>2. ASSUME NEW v \in Purge, DeleteInBatch(v) PROVE FlagInv'
    BY <1>9, <2>2 DEF DeleteInBatch
  <2>3. uids \subseteq User
    BY DEF ForumTypeOK
  <2>. QED  BY <1>2, <1>4, <1>5, <1>8, <1>10, <1>11, <1>12, <2>1, <2>2, <2>3, ForumSteps

-----------------------------------------------------------------------------
(* The notifications that are marked read.                                 *)

LEMMA ShownInit == ForumInit => ShownInv
BY Subsets DEF ForumInit, ShownInv, ReadWasShown

LEMMA ShownStep ==
  ASSUME ForumTypeOK, DoneInv, ShownInv, cast \in Casts, [Next]_vars PROVE ShownInv'
<1>. USE Subsets
<1>. DEFINE Listed(v) == at[v] = "read" => Unread(By[v]) \subseteq snap[v] \cup raced
<1>1. ASSUME NEW w \in Request, Moves(w) PROVE ShownInv'
  BY <1>1 DEF Moves, MovesTo, Places, ShownInv, ReadWasShown, Unread, Notes, ForumTypeOK
<1>2. ASSUME NEW w \in Request, at[w] = "idle", UNCHANGED <<note, shown, raced>>,
             at' = [at EXCEPT ![w] = "read"], \A v \in Request \ {w} : snap'[v] = snap[v],
             w \in Visit => snap'[w] = Notes(By[w])
      PROVE  ShownInv'
  <2>1. ReadWasShown'
    BY <1>2 DEF ShownInv, ReadWasShown
  <2>2. ASSUME NEW v \in Visit, at'[v] = "read" PROVE Unread(By[v])' \subseteq snap'[v] \cup raced'
    <3>1. Unread(By[v])' = Unread(By[v])
      BY <1>2 DEF Unread, Notes
    <3>2. CASE v = w
      BY <1>2, <3>1, <3>2, NotesTypes
    <3>3. CASE v # w
      BY <1>2, <2>2, <3>1, <3>3 DEF ShownInv, ForumTypeOK
    <3>. QED  BY <3>2, <3>3
  <2>. QED  BY <2>1, <2>2 DEF ShownInv
<1>3. ASSUME NEW r \in Reply, FindParent(r) PROVE ShownInv'
  BY <1>2, <1>3, ForumAssumption DEF FindParent, Reads, ForumTypeOK
<1>4. ASSUME NEW t \in Toggle, FindAll(t) PROVE ShownInv'
  BY <1>2, <1>4, ForumAssumption DEF FindAll, Reads, ForumTypeOK
<1>5. ASSUME NEW v \in Visit \cup Purge, FindByUser(v) PROVE ShownInv'
  BY <1>2, <1>5 DEF FindByUser, Reads, ForumTypeOK
<1>6. ASSUME NEW r \in Reply, Commit(r) PROVE ShownInv'
  <2>1. ReadWasShown'
    BY <1>6 DEF Commit, ShownInv, ReadWasShown, ForumTypeOK
  <2>2. ASSUME NEW v \in Visit, at'[v] = "read" PROVE Unread(By[v])' \subseteq snap'[v] \cup raced'
    <3>1. at[v] = "read" /\ raced' = raced \cup {r} /\ snap' = snap
      BY <1>6, <2>2, ForumAssumption DEF Commit, WriteBack, ForumTypeOK
    <3>2. Unread(By[v])' \subseteq Unread(By[v]) \cup {r}
      BY <1>6 DEF Commit, Unread, Notes, ForumTypeOK
    <3>. QED  BY <3>1, <3>2 DEF ShownInv
  <2>. QED  BY <2>1, <2>2 DEF ShownInv
<1>7. ASSUME NEW t \in Toggle, Save(t) PROVE ShownInv'
  BY <1>7 DEF Save, WriteBack, ShownInv, ReadWasShown, Unread, Notes, ForumTypeOK
<1>8. ASSUME NEW v \in Visit, UpdateByIsRead(v) PROVE ShownInv'
  <2>1. at[v] = "read" /\ Marked(v) \subseteq snap[v] \cup raced
    BY <1>8 DEF UpdateByIsRead, Finishes, Marked, ShownInv
  <2>2. ReadWasShown'
    BY <1>8, <2>1 DEF UpdateByIsRead, Finishes, ShownInv, ReadWasShown
  <2>3. \A u : Unread(u)' \subseteq Unread(u)
    BY <1>8 DEF UpdateByIsRead, Unread, Notes
  <2>4. \A x \in Visit : at'[x] = "read" => at[x] = "read"
    BY <1>8 DEF UpdateByIsRead, Finishes, ForumTypeOK
  <2>. QED  BY <1>8, <2>2, <2>3, <2>4 DEF UpdateByIsRead, Finishes, ShownInv
<1>9. ASSUME NEW v \in Purge, DeleteInBatch(v) PROVE ShownInv'
  <2>1. ReadWasShown'
    BY <1>9 DEF DeleteInBatch, Finishes, ShownInv, ReadWasShown
  <2>2. \A u : Unread(u)' \subseteq Unread(u)
    BY <1>9 DEF DeleteInBatch, Unread, Notes
  <2>3. \A x \in Visit : at'[x] = "read" => at[x] = "read"
    BY <1>9 DEF DeleteInBatch, Finishes, ForumTypeOK
  <2>. QED  BY <1>9, <2>1, <2>2, <2>3 DEF DeleteInBatch, Finishes, ShownInv
<1>10. CASE Rests
  BY <1>10 DEF Rests, ShownInv, ReadWasShown, Unread, Notes
<1>. QED
  <2>1. uids \subseteq User
    BY DEF ForumTypeOK
  <2>. QED  BY <1>1, <1>3, <1>4, <1>5, <1>6, <1>7, <1>8, <1>9, <1>10, <2>1, ForumSteps

-----------------------------------------------------------------------------
(* The theorems.                                                           *)

LEMMA CastStep == ASSUME cast \in Casts, [Next]_vars PROVE cast' \in Casts
<1>1. UNCHANGED cast
  <2>1. ASSUME NEW t, TabStep(t) PROVE UNCHANGED cast
    BY <2>1 DEF TabStep, Load, HeaderGet, HeaderSet, Count, Draw, Subscribe, Receive, Navigate,
                SignIn, SetCookie, SignOut, LogoutGet, LogoutSet, LogoutDelete, LogoutUnlist,
                DeleteCookie, SignOutEnds
  <2>. QED
    BY <2>1 DEF Next, vars, portalVars, ReplyGoesOn, SendToOne, Expire, CookieExpires
<1>. QED  BY <1>1

\* The forum's invariant holds in every state of the portal.
THEOREM ForumIsInvariant == Spec => [](ForumInv /\ cast \in Casts)
<1>1. Init => ForumInv /\ cast \in Casts
  BY TypesInit, DoneInit, CountInit, FlagInit, ShownInit DEF Init, ForumInv
<1>2. ForumInv /\ cast \in Casts /\ [Next]_vars => (ForumInv /\ cast \in Casts)'
  BY TypesStep, DoneStep, CountStep, FlagStep, ShownStep, CastStep DEF ForumInv
<1>. QED  BY <1>1, <1>2, PTL DEF Spec

\* The counter of a post or label is never above its rows, and below them only by
\* those that another request, which had read the parent before, overwrote.
THEOREM CountersAreRight == Spec => []RowsCounted
<1>1. ForumInv => RowsCounted
  BY DEF ForumInv, CountInv
<1>. QED  BY <1>1, ForumIsInvariant, PTL

\* The flag of a post is what the administrator's toggles made it, unless a request
\* that had read the row before wrote it back.
THEOREM FlagsAreKept == Spec => []TogglesKept
<1>1. ForumInv => TogglesKept
  BY DEF ForumInv, FlagInv
<1>. QED  BY <1>1, ForumIsInvariant, PTL

\* A notification that is marked read has been shown, or was committed in the middle
\* of a visit.
THEOREM ReadIsShown == Spec => []ReadWasShown
<1>1. ForumInv => ReadWasShown
  BY DEF ForumInv, ShownInv
<1>. QED  BY <1>1, ForumIsInvariant, PTL

-----------------------------------------------------------------------------
(* The tabs of the portal.                                                 *)

\* The forum, of a reply: its author was not logged in, or it has been committed.
ReplyInv == \A r \in Reply : /\ at[r] = "offline" => r \in silent
                             /\ note[r] = "unread" => at[r] = "done"

\* A push counts at least the notification it is about.
MessageInv == \A t \in Tab : \A m \in inbox[t] : m.notice >= 1

\* The user of a session is logged in, unless one of its sessions was signed out; so is the
\* user a page is drawn for, and the one a request has found.
PageOK(page) ==
  /\ page.user \in uids \cup left \cup {Nobody}
  /\ page.at \in {"drawn", "subscribed"} => page.user # Nobody
  /\ page.at = "signed" => page.text \in issued
  /\ page.knows \subseteq done
RequestOK(q) ==
  /\ q.user # Nobody => q.text \in issued /\ q.user \in uids \cup left
  /\ q.state \in {"found", "deleted", "ok"} => q.user # Nobody
SessionInv ==
  /\ \A k \in Token : session[k] # Nobody => k \in issued /\ session[k] \in uids \cup left
  /\ \A t \in Tab : PageOK(tab[t]) /\ RequestOK(call[t]) /\ RequestOK(out[t])

\* The session of a sign-out that has deleted it is over, or was written back after it.
SignOutInv ==
  \A t \in Tab : out[t].state \in {"deleted", "ok"} =>
    session[out[t].text] = Nobody \/ out[t].text \in revived

\* What a page without a number has to account for: the replies that were pushed, or
\* were not for want of a login.  It has counted them, or they are the exceptions.
Reached(r) == at[r] = "pushed" \/ r \in silent \/ note[r] = "unread"
Accounted(t, r) == \/ r \in tab[t].knows /\ note[r] # "unread"
                   \/ r \in tab[t].blind
                   \/ r \in silent /\ tab[t].user \in left
CountedAll(t) == \A r \in tab[t].knows : To(r) = tab[t].user => note[r] # "unread"
BadgeOK(t) ==
  tab[t].badge = 0 =>
    /\ tab[t].at \in {"answered", "drawn", "subscribed"} => CountedAll(t)
    /\ tab[t].at = "subscribed" /\ inbox[t] = {} =>
         \A r \in Reply : To(r) = tab[t].user /\ Reached(r) => Accounted(t, r)
BadgeInv == \A t \in Tab : BadgeOK(t)

PortalInv == /\ TypeOK /\ ForumInv
             /\ ReplyInv /\ MessageInv /\ SessionInv /\ SignOutInv /\ BadgeInv

-----------------------------------------------------------------------------
(* Types.                                                                  *)

TabType == [at : {"new", "asked", "answered", "drawn", "subscribed", "guest", "signed"},
            text : Text, user : User \cup {Nobody}, badge : Nat,
            knows : SUBSET Reply, blind : SUBSET Reply]
CallType == [state : {"none", "sent", "found", "fresh"}, text : Text, user : User \cup {Nobody}]
OutType == [state : {"none", "sent", "found", "fresh", "deleted", "ok", "error"}, text : Text,
            user : User \cup {Nobody}, here : BOOLEAN]
InboxType == SUBSET [of : Reply, notice : Nat]

LEMMA NewTypes == NewPage \in TabType /\ NoCall \in CallType /\ NoSignOut \in OutType
BY DEF NewPage, NoCall, NoSignOut, TabType, CallType, OutType, Text

LEMMA UserType == ASSUME TypeOK, NEW text PROVE UserOf(text) \in User \cup {Nobody}
BY DEF UserOf, TypeOK

\* What a request is when it has read the session.
LEMMA GotIs ==
  ASSUME TypeOK, NEW q
  PROVE  /\ q \in CallType => Got(q) \in CallType
         /\ q \in OutType => Got(q) \in OutType
         /\ q \in CallType \cup OutType =>
              /\ Got(q).text = q.text /\ Got(q).user = UserOf(q.text)
              /\ Got(q).state = IF UserOf(q.text) = Nobody THEN "fresh" ELSE "found"
<1>1. UserOf(q.text) \in User \cup {Nobody}
  BY UserType
<1>2. q \in CallType => Got(q) \in CallType
  BY <1>1 DEF Got, CallType
<1>3. q \in OutType => Got(q) \in OutType
  BY <1>1 DEF Got, OutType
<1>4. ASSUME q \in CallType \cup OutType
      PROVE  /\ Got(q).text = q.text /\ Got(q).user = UserOf(q.text)
             /\ Got(q).state = IF UserOf(q.text) = Nobody THEN "fresh" ELSE "found"
  BY <1>4 DEF Got, CallType, OutType
<1>. QED  BY <1>2, <1>3, <1>4

\* The numbers that are sent and shown.
LEMMA Numbers ==
  ASSUME ForumTypeOK, DoneInv
  PROVE  /\ \A u : Cardinality(Unread(u)) \in Nat
         /\ \A u : Cardinality(Unread(u)) = 0 => Unread(u) = {}
         /\ \A r \in Reply : Notice(r) \in Nat /\ Notice(r) >= 1
<1>1. ASSUME NEW u PROVE IsFiniteSet(Unread(u))
  <2>1. Unread(u) \subseteq done /\ IsFiniteSet(done)
    BY DEF Unread, Notes, DoneInv
  <2>. QED  BY <2>1, FS_Subset
<1>2. ASSUME NEW r \in Reply PROVE Notice(r) \in Nat /\ Notice(r) >= 1
  <2>1. IsFiniteSet(snap[r])
    BY Subsets, FS_Subset DEF DoneInv
  <2>2. IsFiniteSet(snap[r] \cup {r}) /\ snap[r] \cup {r} # {}
    BY <2>1, FS_AddElement
  <2>3. Cardinality(snap[r] \cup {r}) \in Nat /\ Cardinality(snap[r] \cup {r}) # 0
    BY <2>2, FS_EmptySet, FS_CardinalityType
  <2>. QED  BY <2>3 DEF Notice
<1>. QED  BY <1>1, <1>2, FS_EmptySet, FS_CardinalityType

LEMMA TypeInit == ASSUME Init PROVE TypeOK
<1>1. ForumTypeOK
  BY TypesInit DEF Init
<1>. QED  BY <1>1, NewTypes DEF Init, TypeOK, TabType, CallType, OutType, Text

LEMMA TypeStep ==
  ASSUME TypeOK, DoneInv, SessionInv, [Next]_vars PROVE TypeOK'
<1>. DEFINE Types == /\ cookie \in Text /\ issued \subseteq Token
                     /\ session \in [Token -> User \cup {Nobody}] /\ revived \subseteq Token
                     /\ tab \in [Tab -> TabType] /\ call \in [Tab -> CallType]
                     /\ out \in [Tab -> OutType]
                     /\ inbox \in [Tab -> InboxType]
                     /\ left \subseteq User
<1>0. Types
  BY DEF TypeOK, TabType, CallType, OutType, InboxType
<1>1. ForumTypeOK' /\ cast' \in Casts
  BY TypesStep, CastStep DEF TypeOK
<1>2. Types'
  <2>1. CASE UNCHANGED portalVars
    BY <1>0, <2>1 DEF portalVars, sessions
  <2>2. ASSUME NEW r \in Reply, SendToOne(r) PROVE Types'
    <3>1. [of |-> r, notice |-> Notice(r)] \in [of : Reply, notice : Nat]
      BY Numbers DEF TypeOK
    <3>2. inbox' \in [Tab -> InboxType]
      BY <1>0, <2>2, <3>1 DEF SendToOne, InboxType
    <3>. QED  BY <1>0, <2>2, <3>2 DEF SendToOne, sessions
  <2>3. ASSUME NEW t \in Tab, TabStep(t) PROVE Types'
    <3>1. tab[t] \in TabType /\ call[t] \in CallType /\ out[t] \in OutType
      BY <1>0
    <3>2. CASE Load(t)
      <4>1. [state |-> "sent", text |-> cookie, user |-> Nobody] \in CallType
        BY <1>0 DEF CallType
      <4>. QED  BY <1>0, <3>1, <3>2, <4>1 DEF Load, TabType, sessions
    <3>3. CASE Count(t)
      <4>1. Cardinality(Unread(call[t].user)) \in Nat
        BY Numbers DEF TypeOK
      <4>2. call' \in [Tab -> CallType]
        BY <1>0, <3>3, NewTypes DEF Count
      <4>3. tab' \in [Tab -> TabType]
        <5>1. CASE tab[t].at = "asked"
          <6>1. call[t].user \in User \cup {Nobody}
            BY <3>1 DEF CallType
          <6>2. tab' = [tab EXCEPT ![t].at = "answered", ![t].user = call[t].user,
                                   ![t].badge = Cardinality(Unread(call[t].user)),
                                   ![t].knows = done \cap Reply]
            BY <3>3, <5>1 DEF Count
          <6>. QED  BY <1>0, <3>1, <4>1, <6>1, <6>2 DEF TabType
        <5>2. CASE tab[t].at # "asked"
          BY <1>0, <3>3, <5>2 DEF Count
        <5>. QED  BY <5>1, <5>2
      <4>. QED  BY <1>0, <3>3, <4>2, <4>3 DEF Count, sessions
    <3>4. CASE Draw(t)
      BY <1>0, <3>1, <3>4 DEF Draw, TabType, sessions
    <3>5. CASE Subscribe(t)
      BY <1>0, <3>1, <3>5 DEF Subscribe, TabType, TypeOK, ForumTypeOK, sessions
    <3>6. CASE Receive(t)
      BY <1>0, <3>1, <3>6 DEF Receive, TabType, InboxType, sessions
    <3>7. CASE Navigate(t)
      BY <1>0, <3>1, <3>7, NewTypes DEF Navigate, Opens, OutType, InboxType, sessions
    <3>8. ASSUME NEW u \in cast.users, NEW k \in Token, SignIn(t, u, k) PROVE Types'
      <4>1. u \in User
        BY <3>8, PortalAssumption DEF TypeOK
      <4>. QED  BY <1>0, <3>1, <3>8, <4>1 DEF SignIn, TabType, Text
    <3>9. CASE SetCookie(t)
      BY <1>0, <3>1, <3>9, NewTypes DEF SetCookie, Write, Opens, TabType, InboxType, sessions
    <3>10. CASE SignOut(t)
      <4>1. [state |-> "sent", text |-> cookie, user |-> Nobody, here |-> TRUE] \in OutType
        BY <1>0 DEF OutType
      <4>. QED  BY <1>0, <3>10, <4>1 DEF SignOut, sessions
    <3>11. CASE HeaderGet(t)
      <4>1. Got(call[t]) \in CallType
        BY <3>1, GotIs
      <4>. QED  BY <1>0, <3>11, <4>1 DEF HeaderGet, sessions
    <3>12. CASE LogoutGet(t)
      <4>1. Got(out[t]) \in OutType
        BY <3>1, GotIs
      <4>. QED  BY <1>0, <3>12, <4>1 DEF LogoutGet, sessions
    <3>13. CASE HeaderSet(t)
      <4>1. call' \in [Tab -> CallType] /\ call[t].user \in User
        BY <1>0, <3>1, <3>13 DEF HeaderSet, Sets, CallType, SessionInv, RequestOK
      <4>2. call[t].text \in Token
        BY <1>0, <3>13 DEF HeaderSet, Sets, SessionInv, RequestOK
      <4>. QED  BY <1>0, <3>13, <4>1, <4>2 DEF HeaderSet, Sets
    <3>14. CASE LogoutSet(t)
      <4>1. out' \in [Tab -> OutType] /\ out[t].user \in User
        BY <1>0, <3>1, <3>14 DEF LogoutSet, Sets, OutType, SessionInv, RequestOK
      <4>2. out[t].text \in Token
        BY <1>0, <3>14 DEF LogoutSet, Sets, SessionInv, RequestOK
      <4>. QED  BY <1>0, <3>14, <4>1, <4>2 DEF LogoutSet, Sets
    <3>15. CASE LogoutDelete(t)
      <4>1. out' \in [Tab -> OutType]
        BY <1>0, <3>1, <3>15 DEF LogoutDelete, OutType
      <4>. QED  BY <1>0, <3>15, <4>1 DEF LogoutDelete, Ends
    <3>16. CASE LogoutUnlist(t)
      <4>1. out' \in [Tab -> OutType] /\ out[t].user \in User
        BY <1>0, <3>1, <3>16 DEF LogoutUnlist, OutType, SessionInv, RequestOK
      <4>. QED  BY <1>0, <3>16, <4>1 DEF LogoutUnlist, sessions
    <3>17. CASE DeleteCookie(t)
      BY <1>0, <3>1, <3>17, NewTypes DEF DeleteCookie, Write, Opens, InboxType, Text, sessions
    <3>18. CASE SignOutEnds(t)
      BY <1>0, <3>1, <3>18, NewTypes DEF SignOutEnds, sessions
    <3>. QED  BY <2>3, <3>2, <3>3, <3>4, <3>5, <3>6, <3>7, <3>8, <3>9, <3>10, <3>11, <3>12, <3>13,
                 <3>14, <3>15, <3>16, <3>17, <3>18
              DEF TabStep
  <2>4. ASSUME NEW k \in Token, Expire(k) PROVE Types'
    BY <1>0, <2>4 DEF Expire, Ends
  <2>5. CASE CookieExpires
    BY <1>0, <2>5 DEF CookieExpires, Text, sessions
  <2>6. CASE UNCHANGED vars
    BY <2>1, <2>6 DEF vars
  <2>. QED  BY <2>1, <2>2, <2>3, <2>4, <2>5, <2>6, PortalSteps DEF TypeOK
<1>. QED  BY <1>1, <1>2 DEF TypeOK, TabType, CallType, OutType, InboxType

-----------------------------------------------------------------------------
(* What the pages have to account for, as the forum goes on.               *)

\* A step of the forum brings a notification only of a reply that was reached and not yet
\* committed, pushes nothing, and leaves a reply silent only if its author is not logged in.
LEMMA ForumBrings ==
  ASSUME ForumTypeOK, DoneInv, ReplyInv, ForumStep
  PROVE  /\ ReplyInv' /\ uids' = uids /\ done \subseteq done' /\ silent \subseteq silent'
         /\ \A r \in Reply :
              /\ note'[r] = "unread" => note[r] = "unread" \/ (Reached(r) /\ r \notin done)
              /\ at'[r] = "pushed" => at[r] = "pushed"
              /\ r \in silent' => r \in silent \/ To(r) \notin uids
<1>. DEFINE Brings == /\ ReplyInv' /\ uids' = uids /\ done \subseteq done' /\ silent \subseteq silent'
                      /\ \A r \in Reply :
                           /\ note'[r] = "unread" => note[r] = "unread" \/ (Reached(r) /\ r \notin done)
                           /\ at'[r] = "pushed" => at[r] = "pushed"
                           /\ r \in silent' => r \in silent \/ To(r) \notin uids
<1>. USE Subsets
<1>1. ASSUME NEW w \in Request, NEW place \in Places, MovesTo(w, place) PROVE Brings
  <2>1. \A r \in Reply : r # w => at'[r] = at[r]
    BY <1>1 DEF MovesTo, ForumTypeOK
  <2>2. w \in Reply => at'[w] = place /\ note[w] # "unread"
    BY <1>1 DEF MovesTo, Active, Ended, ForumTypeOK, ReplyInv
  <2>3. CASE place = "offline"
    BY <1>1, <2>1, <2>2, <2>3 DEF MovesTo, ReplyInv
  <2>4. CASE place # "offline"
    BY <1>1, <2>1, <2>2, <2>4 DEF MovesTo, ReplyInv, Places
  <2>. QED  BY <2>3, <2>4
<1>2. ASSUME NEW w \in Request, at[w] = "idle", UNCHANGED <<note, uids, done, silent>>,
             at' = [at EXCEPT ![w] = "read"]
      PROVE  Brings
  BY <1>2 DEF ReplyInv, ForumTypeOK
<1>3. ASSUME NEW r \in Reply, Commit(r) PROVE Brings
  <2>1. r \notin done /\ at[r] \in {"pushed", "offline", "inserted"}
    BY <1>3 DEF Commit, Writes, DoneInv
  <2>2. note'[r] = "unread" => Reached(r)
    BY <1>3 DEF Commit, Writes, Reached, ReplyInv, ForumTypeOK
  <2>3. at'[r] = "done" /\ \A q \in Reply : q # r => at'[q] = at[q] /\ note'[q] = note[q]
    BY <1>3 DEF Commit, WriteBack, ForumTypeOK
  <2>. QED  BY <1>3, <2>1, <2>2, <2>3 DEF Commit, WriteBack, ReplyInv
<1>4. ASSUME NEW w \in Request \ Reply, at' = [at EXCEPT ![w] = "done"],
             UNCHANGED <<uids, silent>>, done \subseteq done',
             \A r \in Reply : note'[r] = "unread" => note[r] = "unread"
      PROVE  Brings
  BY <1>4 DEF ReplyInv, ForumTypeOK
<1>5. ASSUME NEW r \in Reply, FindParent(r) PROVE Brings
  BY <1>2, <1>5 DEF FindParent, Reads
<1>6. ASSUME NEW t \in Toggle, FindAll(t) PROVE Brings
  BY <1>2, <1>6 DEF FindAll, Reads
<1>7. ASSUME NEW v \in Visit \cup Purge, FindByUser(v) PROVE Brings
  BY <1>2, <1>7 DEF FindByUser, Reads
<1>8. ASSUME NEW t \in Toggle, Save(t) PROVE Brings
  BY <1>4, <1>8, ForumAssumption DEF Save, WriteBack
<1>9. ASSUME NEW v \in Visit, UpdateByIsRead(v) PROVE Brings
  BY <1>4, <1>9, ForumAssumption DEF UpdateByIsRead, Finishes
<1>10. ASSUME NEW v \in Purge, DeleteInBatch(v) PROVE Brings
  BY <1>4, <1>10, ForumAssumption DEF DeleteInBatch, Finishes
<1>. QED
  BY <1>1, <1>3, <1>5, <1>6, <1>7, <1>8, <1>9, <1>10 DEF ForumStep

LEMMA ReplyStepInv ==
  ASSUME TypeOK, DoneInv, ReplyInv, [Next]_vars PROVE ReplyInv'
<1>1. CASE ForumStep
  BY <1>1, ForumBrings DEF TypeOK
<1>2. ASSUME NEW r \in Reply, SendToOne(r) PROVE ReplyInv'
  <2>1. note[r] # "unread" /\ at'[r] = "pushed"
    BY <1>2, Subsets DEF SendToOne, Push, Goes, ReplyInv, TypeOK, ForumTypeOK
  <2>2. \A q \in Reply : q # r => at'[q] = at[q]
    BY <1>2, Subsets DEF SendToOne, Push, Goes, TypeOK, ForumTypeOK
  <2>. QED  BY <1>2, <2>1, <2>2 DEF SendToOne, Push, Goes, ReplyInv
<1>3. CASE UNCHANGED <<at, note, silent>>
  BY <1>3 DEF ReplyInv
<1>4. cast \in Casts /\ uids \subseteq User
  BY DEF TypeOK, ForumTypeOK
<1>5. ASSUME NEW t \in Tab, TabStep(t) PROVE UNCHANGED <<at, note, silent>>
  BY <1>4, <1>5, TabsRest DEF Rests
<1>6. ASSUME NEW k \in Token, Expire(k) PROVE UNCHANGED <<at, note, silent>>
  BY <1>6 DEF Expire, forumVars
<1>7. CASE CookieExpires \/ UNCHANGED vars
  BY <1>3, <1>7 DEF CookieExpires, forumVars, vars
<1>. QED  BY <1>1, <1>2, <1>3, <1>4, <1>5, <1>6, <1>7, PortalSteps

LEMMA MessageStep ==
  ASSUME TypeOK, DoneInv, MessageInv, [Next]_vars PROVE MessageInv'
<1>1. ASSUME NEW r \in Reply, SendToOne(r) PROVE MessageInv'
  <2>1. Notice(r) >= 1
    BY Numbers DEF TypeOK
  <2>. QED  BY <1>1, <2>1 DEF SendToOne, MessageInv
<1>2. ASSUME NEW t \in Tab, \A s \in Tab : inbox'[s] \subseteq inbox[s] PROVE MessageInv'
  BY <1>2 DEF MessageInv
<1>3. CASE UNCHANGED inbox
  BY <1>3 DEF MessageInv
<1>4. ASSUME NEW t \in Tab, TabStep(t) PROVE \A s \in Tab : inbox'[s] \subseteq inbox[s]
  <2>1. inbox \in [Tab -> SUBSET [of : Reply, notice : Nat]]
    BY DEF TypeOK
  <2>2. CASE Receive(t)
    BY <2>1, <2>2 DEF Receive
  <2>3. CASE Navigate(t) \/ SetCookie(t) \/ DeleteCookie(t)
    BY <2>1, <2>3 DEF Navigate, SetCookie, DeleteCookie, Opens
  <2>4. CASE \/ Load(t) \/ HeaderGet(t) \/ HeaderSet(t) \/ Count(t) \/ Draw(t) \/ Subscribe(t)
             \/ SignOut(t) \/ LogoutGet(t) \/ LogoutSet(t) \/ LogoutDelete(t) \/ LogoutUnlist(t)
             \/ SignOutEnds(t) \/ \E u \in cast.users, k \in Token : SignIn(t, u, k)
    BY <2>4 DEF Load, HeaderGet, HeaderSet, Count, Draw, Subscribe, SignOut, LogoutGet, LogoutSet,
                LogoutDelete, LogoutUnlist, SignOutEnds, SignIn
  <2>. QED  BY <1>4, <2>2, <2>3, <2>4 DEF TabStep
<1>5. ASSUME NEW k \in Token, Expire(k) PROVE UNCHANGED inbox
  BY <1>5 DEF Expire
<1>6. CASE UNCHANGED portalVars \/ CookieExpires \/ UNCHANGED vars
  BY <1>3, <1>6 DEF portalVars, vars, CookieExpires
<1>. QED  BY <1>1, <1>2, <1>3, <1>4, <1>5, <1>6, PortalSteps DEF TypeOK

-----------------------------------------------------------------------------
(* Sessions and sign-outs.                                                 *)

LEMMA SessionStep ==
  ASSUME TypeOK, DoneInv, ReplyInv, SessionInv, [Next]_vars PROVE SessionInv'
<1>. USE DEF SessionInv
<1>. DEFINE Grows == issued \subseteq issued' /\ uids \cup left \subseteq uids' \cup left'
                     /\ done \subseteq done'
            Keeps == \A k \in Token : session'[k] # Nobody =>
                       session'[k] = session[k] \/ (k \in issued' /\ session'[k] \in uids' \cup left')
            PagesOK == \A s \in Tab : tab'[s] = tab[s] \/ PageOK(tab[s])'
            CallsOK == \A s \in Tab : call'[s] = call[s] \/ RequestOK(call[s])'
            OutsOK == \A s \in Tab : out'[s] = out[s] \/ RequestOK(out[s])'
<1>1. ASSUME Grows, Keeps, PagesOK, CallsOK, OutsOK PROVE SessionInv'
  BY <1>1 DEF PageOK, RequestOK
<1>2. CASE ForumStep /\ UNCHANGED portalVars
  <2>1. uids' = uids /\ done \subseteq done'
    BY <1>2, ForumBrings DEF TypeOK
  <2>. QED  BY <1>1, <1>2, <2>1 DEF portalVars, sessions
<1>3. ASSUME NEW r \in Reply, SendToOne(r) PROVE SessionInv'
  BY <1>1, <1>3 DEF SendToOne, Push, Goes, sessions
<1>4. ASSUME NEW t \in Tab, TabStep(t) PROVE SessionInv'
  <2>0. /\ tab[t] \in TabType /\ call[t] \in CallType /\ out[t] \in OutType
        /\ tab \in [Tab -> TabType] /\ call \in [Tab -> CallType] /\ out \in [Tab -> OutType]
        /\ PageOK(tab[t]) /\ RequestOK(call[t]) /\ RequestOK(out[t])
    BY DEF TypeOK, TabType, CallType, OutType
  <2>1. ASSUME UNCHANGED <<issued, uids, left, done, session, out>>, PagesOK, CallsOK PROVE SessionInv'
    BY <1>1, <2>1
  <2>3. CASE Load(t)
    <3>1. PagesOK
      BY <2>0, <2>3 DEF Load, PageOK, TabType, forumVars, sessions
    <3>2. CallsOK
      BY <2>0, <2>3 DEF Load, RequestOK, NoCall
    <3>. QED  BY <2>1, <2>3, <3>1, <3>2 DEF Load, forumVars, sessions
  <2>4. CASE HeaderGet(t)
    <3>1. Got(call[t]).text = call[t].text /\ Got(call[t]).user = UserOf(call[t].text)
          /\ Got(call[t]).state = IF UserOf(call[t].text) = Nobody THEN "fresh" ELSE "found"
      BY <2>0, GotIs
    <3>2. CallsOK
      BY <2>0, <2>4, <3>1 DEF HeaderGet, RequestOK, UserOf, forumVars, sessions
    <3>. QED  BY <2>1, <2>4, <3>2 DEF HeaderGet, forumVars, sessions
  <2>5. CASE HeaderSet(t)
    <3>1. CallsOK
      BY <2>0, <2>5 DEF HeaderSet, Sets, RequestOK, CallType, forumVars
    <3>2. Keeps
      BY <2>0, <2>5 DEF HeaderSet, Sets, RequestOK, TypeOK, forumVars
    <3>. QED  BY <1>1, <2>5, <3>1, <3>2 DEF HeaderSet, Sets, forumVars
  <2>6. CASE Count(t)
    <3>1. CallsOK
      BY <2>0, <2>6 DEF Count, RequestOK, NoCall
    <3>2. PagesOK
      BY <2>0, <2>6 DEF Count, PageOK, RequestOK, TabType, forumVars, sessions
    <3>. QED  BY <2>1, <2>6, <3>1, <3>2 DEF Count, forumVars, sessions
  <2>7. CASE Draw(t)
    <3>1. PagesOK
      BY <2>0, <2>7 DEF Draw, PageOK, TabType, forumVars, sessions
    <3>. QED  BY <2>1, <2>7, <3>1 DEF Draw, forumVars, sessions
  <2>8. CASE Subscribe(t)
    <3>1. PagesOK
      BY <2>0, <2>8 DEF Subscribe, PageOK, TabType, forumVars, sessions
    <3>. QED  BY <2>1, <2>8, <3>1 DEF Subscribe, forumVars, sessions
  <2>9. CASE Receive(t)
    <3>1. PagesOK
      BY <2>0, <2>9 DEF Receive, PageOK, TabType, forumVars, sessions
    <3>. QED  BY <2>1, <2>9, <3>1 DEF Receive, forumVars, sessions
  <2>10. CASE Navigate(t) \/ SetCookie(t) \/ DeleteCookie(t)
    <3>1. PagesOK
      BY <2>0, <2>10 DEF Navigate, SetCookie, DeleteCookie, Opens, PageOK, NewPage
    <3>2. OutsOK
      BY <2>0, <2>10 DEF Navigate, SetCookie, DeleteCookie, RequestOK, NoSignOut, OutType, forumVars,
                         sessions
    <3>. QED  BY <1>1, <2>10, <3>1, <3>2 DEF Navigate, SetCookie, DeleteCookie, forumVars, sessions
  <2>11. ASSUME NEW u \in cast.users, NEW k \in Token, SignIn(t, u, k) PROVE SessionInv'
    <3>1. PagesOK
      BY <2>0, <2>11 DEF SignIn, PageOK, TabType
    <3>2. Keeps
      BY <2>11 DEF SignIn, TypeOK
    <3>. QED  BY <1>1, <2>11, <3>1, <3>2 DEF SignIn
  <2>12. CASE SignOut(t) \/ SignOutEnds(t)
    <3>1. out'[t].user = Nobody /\ out'[t].state \in {"none", "sent"}
      <4>1. CASE SignOut(t)
        BY <2>0, <4>1 DEF SignOut
      <4>2. CASE SignOutEnds(t)
        BY <2>0, <4>2 DEF SignOutEnds, NoSignOut
      <4>. QED  BY <2>12, <4>1, <4>2
    <3>2. \A s \in Tab \ {t} : out'[s] = out[s]
      BY <2>0, <2>12 DEF SignOut, SignOutEnds
    <3>3. OutsOK
      BY <3>1, <3>2 DEF RequestOK
    <3>. QED  BY <1>1, <2>12, <3>3 DEF SignOut, SignOutEnds, forumVars, sessions
  <2>13. CASE LogoutGet(t)
    <3>1. Got(out[t]).text = out[t].text /\ Got(out[t]).user = UserOf(out[t].text)
          /\ Got(out[t]).state = IF UserOf(out[t].text) = Nobody THEN "fresh" ELSE "found"
      BY <2>0, GotIs
    <3>2. OutsOK
      BY <2>0, <2>13, <3>1 DEF LogoutGet, RequestOK, UserOf, forumVars, sessions
    <3>. QED  BY <1>1, <2>13, <3>2 DEF LogoutGet, forumVars, sessions
  <2>14. CASE LogoutSet(t)
    <3>1. OutsOK
      BY <2>0, <2>14 DEF LogoutSet, Sets, RequestOK, OutType, forumVars
    <3>2. Keeps
      BY <2>0, <2>14 DEF LogoutSet, Sets, RequestOK, TypeOK, forumVars
    <3>. QED  BY <1>1, <2>14, <3>1, <3>2 DEF LogoutSet, Sets, forumVars
  <2>15. CASE LogoutDelete(t)
    <3>1. OutsOK
      BY <2>0, <2>15 DEF LogoutDelete, Ends, RequestOK, OutType, forumVars
    <3>2. Keeps
      BY <2>15 DEF LogoutDelete, Ends
    <3>. QED  BY <1>1, <2>15, <3>1, <3>2 DEF LogoutDelete, Ends, forumVars
  <2>16. CASE LogoutUnlist(t)
    <3>1. uids \cup left \subseteq uids' \cup left'
      BY <2>16 DEF LogoutUnlist
    <3>2. OutsOK
      BY <2>0, <2>16, <3>1 DEF LogoutUnlist, RequestOK, OutType, sessions
    <3>. QED  BY <1>1, <2>16, <3>1, <3>2 DEF LogoutUnlist, sessions
  <2>. QED
    BY <1>4, <2>3, <2>4, <2>5, <2>6, <2>7, <2>8, <2>9, <2>10, <2>11, <2>12, <2>13, <2>14, <2>15, <2>16
       DEF TabStep
<1>5. ASSUME NEW k \in Token, Expire(k) PROVE SessionInv'
  BY <1>1, <1>5 DEF Expire, Ends, forumVars
<1>6. CASE CookieExpires \/ UNCHANGED vars
  BY <1>1, <1>6 DEF CookieExpires, forumVars, portalVars, vars, sessions
<1>. QED  BY <1>2, <1>3, <1>4, <1>5, <1>6, PortalSteps DEF TypeOK

\* A session that is over and does not come back, or has come back, is one of these.
Gone(text) == session[text] = Nobody \/ text \in revived

LEMMA SignOutStep ==
  ASSUME TypeOK, SessionInv, SignOutInv, [Next]_vars PROVE SignOutInv'
<1>. USE DEF SignOutInv
<1>. DEFINE Deleted(q) == q.state \in {"deleted", "ok"}
            StaysGone == \A k \in issued : Gone(k) => Gone(k)'
            OutsGone == \A s \in Tab : Deleted(out'[s]) =>
                          \/ Deleted(out[s]) /\ out'[s].text = out[s].text
                          \/ Gone(out[s].text)'
<1>1. ASSUME StaysGone, OutsGone PROVE SignOutInv'
  <2>1. \A s \in Tab : Deleted(out[s]) => out[s].text \in issued /\ Gone(out[s].text)
    BY DEF SessionInv, RequestOK, Gone
  <2>. QED  BY <1>1, <2>1 DEF Gone
<1>2. CASE UNCHANGED <<out, sessions>>
  BY <1>2 DEF sessions
<1>3. issued \subseteq Token /\ session \in [Token -> User \cup {Nobody}]
  BY DEF TypeOK
<1>4. ASSUME NEW t \in Tab, TabStep(t) PROVE SignOutInv'
  <2>0. out[t] \in OutType /\ out \in [Tab -> OutType]
    BY DEF TypeOK, OutType
  <2>1. CASE \/ Load(t) \/ HeaderGet(t) \/ Count(t) \/ Draw(t) \/ Subscribe(t) \/ Receive(t)
             \/ SetCookie(t)
    BY <1>2, <2>1 DEF Load, HeaderGet, Count, Draw, Subscribe, Receive, SetCookie
  <2>2. CASE HeaderSet(t)
    <3>1. StaysGone
      BY <1>3, <2>2 DEF HeaderSet, Sets, Gone
    <3>. QED  BY <1>1, <2>2, <3>1 DEF HeaderSet
  <2>3. CASE Navigate(t)
    <3>1. OutsGone
      BY <2>0, <2>3 DEF Navigate, OutType
    <3>. QED  BY <1>1, <2>3, <3>1 DEF Navigate, sessions, Gone
  <2>4. ASSUME NEW u \in cast.users, NEW k \in Token, SignIn(t, u, k) PROVE SignOutInv'
    <3>1. StaysGone
      BY <1>3, <2>4 DEF SignIn, Gone
    <3>. QED  BY <1>1, <2>4, <3>1 DEF SignIn
  <2>5. CASE SignOut(t) \/ LogoutGet(t) \/ DeleteCookie(t) \/ SignOutEnds(t)
    <3>1. Got(out[t]).state \in {"fresh", "found"}
      BY <2>0, GotIs
    <3>2. ~Deleted(out'[t])
      BY <2>0, <2>5, <3>1 DEF SignOut, LogoutGet, DeleteCookie, SignOutEnds, NoSignOut
    <3>3. \A s \in Tab \ {t} : out'[s] = out[s]
      BY <2>0, <2>5 DEF SignOut, LogoutGet, DeleteCookie, SignOutEnds
    <3>4. OutsGone
      BY <3>2, <3>3
    <3>. QED  BY <1>1, <2>5, <3>4 DEF SignOut, LogoutGet, DeleteCookie, SignOutEnds, sessions, Gone
  <2>6. CASE LogoutSet(t)
    <3>1. StaysGone
      BY <1>3, <2>6 DEF LogoutSet, Sets, Gone
    <3>2. OutsGone
      BY <2>0, <2>6 DEF LogoutSet, OutType
    <3>. QED  BY <1>1, <3>1, <3>2
  <2>7. CASE LogoutDelete(t)
    <3>1. StaysGone
      BY <1>3, <2>7 DEF LogoutDelete, Ends, Gone
    <3>2. out'[t].state = "deleted" => out[t].user # Nobody
      BY <2>0, <2>7 DEF LogoutDelete, OutType
    <3>3. out[t].user # Nobody => Gone(out[t].text)'
      BY <1>3, <2>7 DEF LogoutDelete, Ends, Gone, SessionInv, RequestOK
    <3>4. OutsGone
      BY <2>0, <2>7, <3>2, <3>3 DEF LogoutDelete, OutType, Gone
    <3>. QED  BY <1>1, <3>1, <3>4
  <2>8. CASE LogoutUnlist(t)
    <3>1. OutsGone
      BY <2>0, <2>8 DEF LogoutUnlist, OutType
    <3>. QED  BY <1>1, <2>8, <3>1 DEF LogoutUnlist, sessions, Gone
  <2>. QED  BY <1>4, <2>1, <2>2, <2>3, <2>4, <2>5, <2>6, <2>7, <2>8 DEF TabStep
<1>5. ASSUME NEW k \in Token, Expire(k) PROVE SignOutInv'
  <2>1. StaysGone
    BY <1>3, <1>5 DEF Expire, Ends, Gone
  <2>. QED  BY <1>1, <1>5, <2>1 DEF Expire
<1>6. ASSUME NEW r \in Reply, SendToOne(r) PROVE UNCHANGED <<out, sessions>>
  BY <1>6 DEF SendToOne
<1>7. CASE UNCHANGED portalVars \/ CookieExpires \/ UNCHANGED vars
  BY <1>2, <1>7 DEF portalVars, vars, CookieExpires
<1>. QED  BY <1>2, <1>4, <1>5, <1>6, <1>7, PortalSteps DEF TypeOK

-----------------------------------------------------------------------------
(* The number in the header.                                               *)

LEMMA BadgeStep ==
  ASSUME TypeOK, DoneInv, ReplyInv, MessageInv, SessionInv, BadgeInv, [Next]_vars PROVE BadgeInv'
<1>1. ASSUME NEW t \in Tab, tab'[t] = tab[t], inbox'[t] = inbox[t], left \subseteq left',
             UNCHANGED <<at, note, silent>>
      PROVE  BadgeOK(t)'
  <2>1. BadgeOK(t)
    BY DEF BadgeInv
  <2>. QED  BY <1>1, <2>1 DEF BadgeOK, CountedAll, Reached, Accounted
<1>2. CASE UNCHANGED <<tab, inbox, left, at, note, silent>>
  BY <1>1, <1>2 DEF BadgeInv
<1>3. CASE ForumStep /\ UNCHANGED portalVars
  <2>1. /\ uids' = uids /\ silent \subseteq silent'
        /\ \A r \in Reply :
             /\ note'[r] = "unread" => note[r] = "unread" \/ (Reached(r) /\ r \notin done)
             /\ at'[r] = "pushed" => at[r] = "pushed"
             /\ r \in silent' => r \in silent \/ To(r) \notin uids
    BY <1>3, ForumBrings DEF TypeOK
  <2>2. UNCHANGED <<tab, inbox, left>>
    BY <1>3 DEF portalVars
  <2>3. ASSUME NEW t \in Tab, tab[t].badge = 0 PROVE BadgeOK(t)'
    <3>1. BadgeOK(t) /\ tab[t].knows \subseteq done /\ tab[t].knows \subseteq Reply
      BY DEF BadgeInv, SessionInv, PageOK, TypeOK
    <3>2. ASSUME NEW r \in tab[t].knows, note[r] # "unread" PROVE note'[r] # "unread"
      BY <2>1, <3>1, <3>2
    <3>3. ASSUME CountedAll(t) PROVE CountedAll(t)'
      BY <2>2, <3>2, <3>3 DEF CountedAll
    <3>4. ASSUME NEW r \in Reply, tab[t].at = "subscribed", To(r) = tab[t].user, Reached(r)',
                 Reached(r) => Accounted(t, r)
          PROVE  Accounted(t, r)'
      <4>1. CASE Reached(r)
        BY <2>1, <2>2, <3>2, <3>4, <4>1 DEF Accounted
      <4>2. CASE ~Reached(r)
        <5>1. r \in silent' /\ To(r) \notin uids
          BY <2>1, <3>4, <4>2 DEF Reached
        <5>2. tab[t].user \in left
          BY <3>4, <5>1 DEF SessionInv, PageOK
        <5>. QED  BY <2>2, <5>1, <5>2 DEF Accounted
      <4>. QED  BY <4>1, <4>2
    <3>5. (tab[t].at \in {"answered", "drawn", "subscribed"} => CountedAll(t))'
      BY <2>2, <2>3, <3>1, <3>3 DEF BadgeOK
    <3>6. ASSUME tab[t].at = "subscribed", inbox[t] = {}, NEW r \in Reply, To(r) = tab[t].user, Reached(r)'
          PROVE  Accounted(t, r)'
      BY <2>3, <3>1, <3>4, <3>6 DEF BadgeOK
    <3>. QED  BY <2>2, <3>5, <3>6 DEF BadgeOK, To
  <2>4. ASSUME NEW t \in Tab, tab[t].badge # 0 PROVE BadgeOK(t)'
    BY <2>2, <2>4 DEF BadgeOK
  <2>. QED  BY <2>3, <2>4 DEF BadgeInv
<1>4. ASSUME NEW r \in Reply, SendToOne(r) PROVE BadgeInv'
  <2>1. UNCHANGED <<tab, left, note, silent>> /\ \A q \in Reply : q # r => at'[q] = at[q]
    BY <1>4, Subsets DEF SendToOne, Push, Goes, TypeOK, ForumTypeOK
  <2>2. ASSUME NEW t \in Tab PROVE BadgeOK(t)'
    <3>1. BadgeOK(t) /\ (CountedAll(t) => CountedAll(t)')
      BY <2>1 DEF BadgeInv, CountedAll
    <3>2. CASE tab[t].at = "subscribed" /\ tab[t].user = To(r)
      <4>1. inbox'[t] # {}
        BY <1>4, <3>2 DEF SendToOne
      <4>. QED  BY <2>1, <3>1, <4>1 DEF BadgeOK
    <3>3. CASE ~(tab[t].at = "subscribed" /\ tab[t].user = To(r))
      <4>1. inbox'[t] = inbox[t]
        BY <1>4, <3>3 DEF SendToOne
      <4>2. \A q \in Reply : q # r => (Reached(q)' <=> Reached(q)) /\ (Accounted(t, q)' <=> Accounted(t, q))
        BY <2>1 DEF Reached, Accounted
      <4>. QED  BY <2>1, <3>1, <3>3, <4>1, <4>2 DEF BadgeOK, To
    <3>. QED  BY <3>2, <3>3
  <2>. QED  BY <2>2 DEF BadgeInv
<1>5. ASSUME NEW t \in Tab, TabStep(t) PROVE BadgeInv'
  <2>0. UNCHANGED <<at, note, silent, done>>
    BY <1>5, TabsRest DEF TypeOK, ForumTypeOK, Rests
  <2>1. ASSUME \A s \in Tab \ {t} : tab'[s] = tab[s] /\ inbox'[s] = inbox[s], left' = left,
               BadgeOK(t)'
        PROVE  BadgeInv'
    BY <1>1, <2>0, <2>1 DEF BadgeInv
  <2>2. BadgeOK(t) /\ tab[t] \in TabType
    BY DEF BadgeInv, TypeOK, TabType
  <2>3. CASE Load(t)
    <3>1. tab'[t].at = "asked" /\ \A s \in Tab \ {t} : tab'[s] = tab[s]
      BY <2>2, <2>3 DEF Load, TypeOK, TabType
    <3>. QED  BY <2>1, <2>3, <3>1 DEF Load, BadgeOK
  <2>4. CASE Count(t)
    <3>. DEFINE u == call[t].user
    <3>1. \A s \in Tab \ {t} : tab'[s] = tab[s]
      BY <2>2, <2>4 DEF Count, TypeOK, TabType
    <3>2. CASE tab[t].at = "asked"
      <4>1. /\ tab'[t].at = "answered" /\ tab'[t].user = u /\ tab'[t].badge = Cardinality(Unread(u))
            /\ tab'[t].knows \subseteq Reply
        BY <2>2, <2>4, <3>2 DEF Count, TypeOK, TabType
      <4>2. ASSUME tab'[t].badge = 0 PROVE CountedAll(t)'
        <5>1. Unread(u) = {}
          BY <4>1, <4>2, Numbers DEF TypeOK
        <5>2. \A r \in Reply : To(r) = u => note[r] # "unread"
          BY <5>1 DEF Unread, Notes
        <5>. QED  BY <2>0, <4>1, <5>2 DEF CountedAll, To
      <4>. QED  BY <2>1, <2>4, <3>1, <4>1, <4>2 DEF Count, BadgeOK
    <3>3. CASE tab[t].at # "asked"
      BY <1>2, <2>0, <2>4, <3>3 DEF Count
    <3>. QED  BY <3>2, <3>3
  <2>5. CASE Draw(t)
    <3>1. /\ tab[t].at = "answered" /\ tab'[t].at \in {"guest", "drawn"} /\ tab'[t].badge = tab[t].badge
          /\ tab'[t].user = tab[t].user /\ tab'[t].knows = tab[t].knows
          /\ \A s \in Tab \ {t} : tab'[s] = tab[s]
      BY <2>2, <2>5 DEF Draw, TypeOK, TabType
    <3>2. BadgeOK(t)'
      BY <2>0, <2>2, <3>1 DEF BadgeOK, CountedAll, To
    <3>. QED  BY <2>1, <2>5, <3>1, <3>2 DEF Draw
  <2>6. CASE Subscribe(t)
    <3>1. /\ tab[t].at = "drawn" /\ tab'[t].at = "subscribed" /\ tab'[t].badge = tab[t].badge
          /\ tab'[t].user = tab[t].user /\ tab'[t].knows = tab[t].knows
          /\ tab'[t].blind = ({r \in Reply : at[r] \in {"pushed", "done"}} \cup silent) \ tab[t].knows
          /\ \A s \in Tab \ {t} : tab'[s] = tab[s]
      BY <2>2, <2>6 DEF Subscribe, TypeOK, TabType
    <3>2. ASSUME tab[t].badge = 0 PROVE CountedAll(t) /\ CountedAll(t)'
      BY <2>0, <2>2, <3>1, <3>2 DEF BadgeOK, CountedAll, To
    <3>3. ASSUME tab[t].badge = 0, NEW r \in Reply, To(r) = tab[t].user, Reached(r)
          PROVE  Accounted(t, r)'
      <4>1. at[r] \in {"pushed", "done"} \/ r \in silent
        BY <3>3 DEF Reached, ReplyInv
      <4>2. r \in tab[t].knows => note[r] # "unread"
        BY <3>2, <3>3 DEF CountedAll
      <4>. QED  BY <2>0, <3>1, <4>1, <4>2 DEF Accounted
    <3>4. BadgeOK(t)'
      BY <2>0, <3>1, <3>2, <3>3 DEF BadgeOK, Reached, To
    <3>. QED  BY <2>1, <2>6, <3>1, <3>4 DEF Subscribe
  <2>7. CASE Receive(t)
    <3>1. PICK m \in inbox[t] : tab' = [tab EXCEPT ![t].badge = m.notice]
                                /\ inbox' = [inbox EXCEPT ![t] = @ \ {m}] /\ left' = left
      BY <2>7 DEF Receive
    <3>2. m.notice >= 1 /\ m.notice \in Nat
      BY DEF MessageInv, TypeOK
    <3>3. tab'[t].badge = m.notice /\ \A s \in Tab \ {t} : tab'[s] = tab[s] /\ inbox'[s] = inbox[s]
      BY <2>2, <3>1 DEF TypeOK, TabType
    <3>. QED  BY <2>1, <3>1, <3>2, <3>3 DEF BadgeOK
  <2>8. CASE Navigate(t) \/ SetCookie(t) \/ DeleteCookie(t)
    <3>1. tab'[t].at = "new" /\ left' = left /\ \A s \in Tab \ {t} : tab'[s] = tab[s] /\ inbox'[s] = inbox[s]
      BY <2>8 DEF Navigate, SetCookie, DeleteCookie, Opens, NewPage, TypeOK
    <3>. QED  BY <2>1, <3>1 DEF BadgeOK
  <2>9. ASSUME NEW u \in cast.users, NEW k \in Token, SignIn(t, u, k) PROVE BadgeInv'
    <3>1. tab'[t].at = "signed" /\ \A s \in Tab \ {t} : tab'[s] = tab[s]
      BY <2>2, <2>9 DEF SignIn, TypeOK, TabType
    <3>. QED  BY <2>1, <2>9, <3>1 DEF SignIn, BadgeOK
  <2>10. CASE \/ HeaderGet(t) \/ HeaderSet(t) \/ SignOut(t) \/ LogoutGet(t) \/ LogoutSet(t)
              \/ LogoutDelete(t) \/ SignOutEnds(t)
    BY <1>2, <2>0, <2>10 DEF HeaderGet, HeaderSet, SignOut, LogoutGet, LogoutSet, LogoutDelete, SignOutEnds
  <2>11. CASE LogoutUnlist(t)
    <3>1. tab' = tab /\ inbox' = inbox /\ left \subseteq left'
      BY <2>11 DEF LogoutUnlist
    <3>. QED  BY <1>1, <2>0, <3>1 DEF BadgeInv
  <2>. QED  BY <1>5, <2>3, <2>4, <2>5, <2>6, <2>7, <2>8, <2>9, <2>10, <2>11 DEF TabStep
<1>6. ASSUME NEW k \in Token, Expire(k) PROVE UNCHANGED <<tab, inbox, left, at, note, silent>>
  BY <1>6 DEF Expire, forumVars
<1>7. CASE CookieExpires \/ UNCHANGED vars
  BY <1>2, <1>7 DEF CookieExpires, forumVars, portalVars, vars
<1>. QED  BY <1>2, <1>3, <1>4, <1>5, <1>6, <1>7, PortalSteps DEF TypeOK

-----------------------------------------------------------------------------
(* The theorems.                                                           *)

LEMMA PortalInit == Init => PortalInv
<1>. SUFFICES ASSUME Init PROVE PortalInv
  OBVIOUS
<1>1. TypeOK
  BY TypeInit
<1>2. ForumInv
  BY TypesInit, DoneInit, CountInit, FlagInit, ShownInit DEF Init, ForumInv
<1>3. ReplyInv
  BY Subsets DEF Init, ForumInit, ReplyInv
<1>4. MessageInv /\ SessionInv /\ SignOutInv /\ BadgeInv
  BY DEF Init, MessageInv, SessionInv, PageOK, RequestOK, SignOutInv, BadgeInv, BadgeOK,
         NewPage, NoCall, NoSignOut
<1>. QED  BY <1>1, <1>2, <1>3, <1>4 DEF PortalInv

\* The portal's invariant holds in every state, whatever the tabs, the tokens, the users
\* and the requests for them.
THEOREM PortalIsInvariant == Spec => []PortalInv
<1>1. PortalInv /\ [Next]_vars => PortalInv'
  <2>. SUFFICES ASSUME PortalInv, [Next]_vars PROVE PortalInv'
    OBVIOUS
  <2>1. ForumInv'
    BY TypesStep, DoneStep, CountStep, FlagStep, ShownStep DEF PortalInv, ForumInv, TypeOK
  <2>. QED
    BY <2>1, TypeStep, ReplyStepInv, MessageStep, SessionStep, SignOutStep, BadgeStep
       DEF PortalInv, ForumInv
<1>. QED  BY <1>1, PortalInit, PTL DEF Spec

\* Every variable of the portal and of the forum behind it has its type: a number in the
\* header is a natural number, a session belongs to a user or to nobody.
THEOREM TypeCorrect == Spec => []TypeOK
<1>1. PortalInv => TypeOK
  BY DEF PortalInv
<1>. QED  BY <1>1, PortalIsInvariant, PTL

\* A subscribed page without a number, and with no push on its way, has no unread
\* notification of its user to show, but for those pushed, or not, between its count and its
\* subscription, and those of an author taken off the list by another sign-out.
THEOREM BadgesAreShown == Spec => []BadgeShown
<1>1. PortalInv => BadgeShown
  BY DEF PortalInv, BadgeInv, BadgeOK, BadgeShown, Unread, Notes, Reached, Accounted
<1>. QED  BY <1>1, PortalIsInvariant, PTL

\* A sign-out throws away the cookie of a session that is alive only if that is not the
\* session it ended, or if a request that had found the session before has written it back
\* after its end; whatever the tabs, their requests and what expires.
THEOREM SignOutsDeleteTheirOwn == Spec => DeletesOnlyEnded
<1>. DEFINE Own(t) == /\ out[t].here /\ out'[t] = NoSignOut
                      /\ out[t].text # cookie \/ cookie \in revived
<1>1. PortalInv /\ [Next]_vars =>
        [cookie' = Null /\ UserOf(cookie) # Nobody => \E t \in Tab : Own(t)]_cookie
  <2>. SUFFICES ASSUME PortalInv, [Next]_vars, cookie' = Null, cookie' # cookie, UserOf(cookie) # Nobody
                PROVE  \E t \in Tab : Own(t)
    OBVIOUS
  <2>1. cast \in Casts /\ session[cookie] # Nobody /\ cookie \in Token
    BY DEF PortalInv, TypeOK, UserOf
  <2>2. ASSUME NEW t \in Tab, TabStep(t) PROVE Own(t)
    <3>1. ~SetCookie(t)
      BY PortalAssumption DEF SetCookie, Write, PortalInv, SessionInv, PageOK, TypeOK
    <3>2. DeleteCookie(t)
      BY <2>2, <3>1 DEF TabStep, Load, HeaderGet, HeaderSet, Count, Draw, Subscribe, Receive, Navigate,
                        SignIn, SignOut, LogoutGet, LogoutSet, LogoutDelete, LogoutUnlist, SignOutEnds
    <3>3. out[t].here /\ out[t].state = "ok" /\ out'[t] = NoSignOut
      BY <3>2 DEF DeleteCookie, SignedOut, PortalInv, TypeOK
    <3>. QED  BY <2>1, <3>3 DEF PortalInv, SignOutInv
  <2>3. ~UNCHANGED portalVars /\ ~UNCHANGED vars
    BY DEF portalVars, vars
  <2>4. ~CookieExpires
    BY DEF CookieExpires, Null, Undefined
  <2>5. \A r \in Reply : ~SendToOne(r)
    BY DEF SendToOne
  <2>6. \A k \in Token : ~Expire(k)
    BY DEF Expire
  <2>. QED  BY <2>1, <2>2, <2>3, <2>4, <2>5, <2>6, PortalSteps
<1>. QED  BY <1>1, PortalIsInvariant, PTL DEF Spec, DeletesOnlyEnded
=============================================================================
