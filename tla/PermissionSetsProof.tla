------------------------ MODULE PermissionSetsProof ------------------------
(***************************************************************************)
(* The proof that the sets of permissions stay closed, for any sets of     *)
(* permissions, roles and administrators, finite or not.                   *)
(***************************************************************************)
EXTENDS PermissionSets, TLAPS

\* What the closure of the committed sets needs: a draft knows the parents, as
\* far as they exist, of what it knows, because a parent is older than its
\* child; and it is closed among what it knows, if it is not torn and not of a
\* role whose own set a torn one has spoilt.
Good(d) == d # NoDraft => /\ d.set \subseteq d.known
                          /\ d.known \cap Unborn = {}
                          /\ Closed(d.known, Live)

Whole(a, d) == d # NoDraft => a \in torn \/ d.role \in mixed \/ Closed(d.set, d.known)

DraftInv == \A a \in Admin : Good(draft[a]) /\ Whole(a, draft[a])

\* The parent of what was born was born.
BornInv == \A p \in Perm \ Unborn : parentid[p] \notin Unborn

HeldInv == \A r \in Role : held[r] \subseteq Live

Inv == TypeOK /\ BornInv /\ HeldInv /\ RolesClosed /\ DraftInv

-----------------------------------------------------------------------------
(* The closures.                                                           *)

\* What a click grants is closed, and all known.
LEMMA UpIsClosed ==
  ASSUME NEW K \in SUBSET Perm, NEW p \in K
  PROVE  Up(p, K) \subseteq K /\ Closed(Up(p, K), K)
<1>1. SUFFICES ASSUME NEW q \in Up(p, K), parentid[q] \in K
               PROVE  parentid[q] \in Up(p, K)
  BY DEF Up, Closed
<1>2. SUFFICES ASSUME NEW S \in SUBSET K, p \in S, Closed(S, K)
               PROVE  parentid[q] \in S
  BY <1>1 DEF Up
<1>3. q \in S
  BY <1>2 DEF Up
<1>. QED  BY <1>1, <1>2, <1>3 DEF Closed

\* A union of closed sets is closed.
LEMMA UnionIsClosed ==
  ASSUME NEW K, NEW S, NEW T, Closed(S, K), Closed(T, K)
  PROVE  Closed(S \cup T, K)
BY DEF Closed

\* What is left of a closed set after a permission is revoked, with all below
\* it, is closed: the parent of what is left is not below it either.
LEMMA WithoutDownIsClosed ==
  ASSUME NEW K \in SUBSET Perm, NEW S \in SUBSET K, NEW p \in K, Closed(S, K)
  PROVE  Closed(S \ Down(p, K), K)
<1>1. SUFFICES ASSUME NEW q \in S \ Down(p, K), parentid[q] \in K
               PROVE  parentid[q] \notin Down(p, K)
  BY DEF Closed
<1>2. PICK T \in SUBSET K : q \in T /\ Closed(T, K) /\ p \notin T
  BY <1>1 DEF Down, Up
<1>3. parentid[q] \in T
  BY <1>1, <1>2 DEF Closed
<1>. QED  BY <1>2, <1>3 DEF Down, Up

-----------------------------------------------------------------------------
(* The invariant.                                                          *)

LEMMA InitInv == Init => Inv
<1>. SUFFICES ASSUME Init PROVE Inv
  OBVIOUS
<1>1. TypeOK
  BY DEF Init, TypeOK, Live
<1>2. BornInv /\ HeldInv /\ RolesClosed /\ DraftInv
  BY DEF Init, BornInv, HeldInv, RolesClosed, DraftInv, Good, Whole
<1>. QED  BY <1>1, <1>2 DEF Inv

\* Steps that change drafts only, and one of them.
LEMMA DraftStep ==
  ASSUME Inv, NEW a \in Admin, NEW d \in Draft \cup {NoDraft},
         draft' = [draft EXCEPT ![a] = d], UNCHANGED <<perm, role, parentid, held, mixed>>,
         torn' \subseteq Admin, torn \subseteq torn' \cup {a},
         Good(d), d # NoDraft => a \in torn' \/ d.role \in mixed \/ Closed(d.set, d.known)
  PROVE  Inv'
<1>1. TypeOK'
  BY DEF Inv, TypeOK
<1>2. BornInv' /\ HeldInv' /\ RolesClosed'
  BY DEF Inv, BornInv, HeldInv, RolesClosed, Live, Unborn, Closed
<1>3. \A b \in Admin : draft'[b] = IF b = a THEN d ELSE draft[b]
  BY DEF Inv, TypeOK
<1>4. DraftInv'
  <2>. SUFFICES ASSUME NEW b \in Admin PROVE (Good(draft[b]) /\ Whole(b, draft[b]))'
    BY DEF DraftInv
  <2>1. CASE b = a
    BY <1>3, <2>1 DEF Good, Whole, Closed, Live, Unborn
  <2>2. CASE b # a
    <3>1. Good(draft[b]) /\ Whole(b, draft[b]) /\ (b \in torn => b \in torn') /\ draft'[b] = draft[b]
      BY <1>3, <2>2 DEF Inv, DraftInv
    <3>. QED  BY <3>1 DEF Good, Whole, Closed, Live, Unborn
  <2>. QED  BY <2>1, <2>2
<1>. QED  BY <1>1, <1>2, <1>4 DEF Inv

LEMMA AskKeeps ==
  ASSUME Inv, NEW a \in Admin, NEW r \in Role, Ask(a, r) PROVE Inv'
<1>. DEFINE d == [role |-> r, known |-> Live, set |-> held[r], shown |-> FALSE]
<1>1. d \in Draft
  BY DEF Inv, TypeOK, Draft, Live
<1>2. d.set \subseteq d.known /\ d.known \cap Unborn = {} /\ Closed(d.known, Live)
  BY DEF Inv, HeldInv, Live, Unborn, Closed
<1>3. d.role \in mixed \/ Closed(d.set, d.known)
  BY DEF Inv, RolesClosed
<1>4. draft' = [draft EXCEPT ![a] = d] /\ UNCHANGED <<perm, role, parentid, held, torn, mixed>>
  BY DEF Ask, tables
<1>. HIDE DEF d
<1>. QED  BY <1>1, <1>2, <1>3, <1>4, DraftStep DEF Good, Inv, TypeOK

LEMMA AskOldKeeps ==
  ASSUME Inv, NEW a \in Admin, NEW r \in Role, NEW K \in SUBSET Perm, AskOld(a, r, K) PROVE Inv'
<1>. DEFINE d == [role |-> r, known |-> K, set |-> {}, shown |-> FALSE]
<1>1. d \in Draft
  BY DEF Draft
<1>2. Good(d) /\ Closed(d.set, d.known)
  BY DEF Good, AskOld, Once, Closed
<1>3. draft' = [draft EXCEPT ![a] = d] /\ UNCHANGED <<perm, role, parentid, held, torn, mixed>>
  BY DEF AskOld, tables
<1>. HIDE DEF d
<1>. QED  BY <1>1, <1>2, <1>3, DraftStep DEF Inv, TypeOK

LEMMA AskTornKeeps ==
  ASSUME Inv, NEW a \in Admin, NEW r \in Role, NEW b \in Admin, AskTorn(a, r, b) PROVE Inv'
<1>. DEFINE d == [draft[b] EXCEPT !.role = r]
<1>1. draft[b] \in Draft /\ draft[b] # NoDraft /\ Good(draft[b])
  BY DEF AskTorn, Inv, TypeOK, DraftInv
<1>2. d \in Draft /\ d.known = draft[b].known /\ d.set = draft[b].set
  BY <1>1 DEF Draft
<1>3. draft' = [draft EXCEPT ![a] = d] /\ torn' = torn \cup {a, b}
      /\ UNCHANGED <<perm, role, parentid, held, mixed>>
  BY DEF AskTorn, tables
<1>. HIDE DEF d
<1>4. Good(d)
  BY <1>1, <1>2 DEF Good
<1>. QED  BY <1>2, <1>3, <1>4, DraftStep DEF Inv, TypeOK

LEMMA ShowKeeps ==
  ASSUME Inv, NEW a \in Admin, Show(a) PROVE Inv'
<1>1. PICK set \in SUBSET draft[a].set :
        /\ a \in torn \/ set = draft[a].set
        /\ draft' = [draft EXCEPT ![a].set = set, ![a].shown = TRUE]
  BY DEF Show
<1>. DEFINE d == [draft[a] EXCEPT !.set = set, !.shown = TRUE]
<1>2. draft[a] \in Draft /\ draft[a] # NoDraft /\ Good(draft[a]) /\ Whole(a, draft[a])
  BY DEF Show, Inv, TypeOK, DraftInv
<1>3. d \in Draft /\ d.known = draft[a].known /\ d.set = set /\ d.role = draft[a].role
  BY <1>2 DEF Draft
<1>4. draft' = [draft EXCEPT ![a] = d] /\ UNCHANGED <<perm, role, parentid, held, torn, mixed>>
  BY <1>1, <1>2 DEF Show, tables, Inv, TypeOK, Draft
<1>. HIDE DEF d
<1>5. Good(d) /\ (a \in torn \/ d.role \in mixed \/ Closed(d.set, d.known))
  BY <1>1, <1>2, <1>3 DEF Good, Whole
<1>. QED  BY <1>3, <1>4, <1>5, DraftStep DEF Inv, TypeOK

LEMMA ShowNothingKeeps ==
  ASSUME Inv, NEW a \in Admin, ShowNothing(a) PROVE Inv'
<1>. DEFINE d == [draft[a] EXCEPT !.known = {}, !.set = {}, !.shown = TRUE]
<1>1. draft[a] \in Draft
  BY DEF ShowNothing, Inv, TypeOK
<1>2. d \in Draft /\ d.known = {} /\ d.set = {}
  BY <1>1 DEF Draft
<1>3. draft' = [draft EXCEPT ![a] = d] /\ UNCHANGED <<perm, role, parentid, held, torn, mixed>>
  BY <1>1 DEF ShowNothing, tables, Inv, TypeOK, Draft
<1>. HIDE DEF d
<1>4. Good(d) /\ Closed(d.set, d.known)
  BY <1>2 DEF Good, Closed
<1>. QED  BY <1>2, <1>3, <1>4, DraftStep DEF Inv, TypeOK

LEMMA GrantKeeps ==
  ASSUME Inv, NEW a \in Admin, NEW p \in Perm, Grant(a, p) PROVE Inv'
<1>. DEFINE K == draft[a].known
            d == [draft[a] EXCEPT !.set = @ \cup Up(p, K)]
<1>1. /\ draft[a] \in Draft /\ draft[a] # NoDraft /\ p \in K
      /\ Good(draft[a]) /\ Whole(a, draft[a])
  BY DEF Inv, TypeOK, DraftInv, Grant, Shown
<1>2. Up(p, K) \subseteq K /\ Closed(Up(p, K), K)
  BY <1>1, UpIsClosed DEF Draft
<1>3. Closed(draft[a].set, K) => Closed(draft[a].set \cup Up(p, K), K)
  BY <1>2, UnionIsClosed
<1>4. d \in Draft /\ d.known = K /\ d.set = draft[a].set \cup Up(p, K) /\ d.role = draft[a].role
  BY <1>1, <1>2 DEF Draft
<1>5. draft' = [draft EXCEPT ![a] = d] /\ UNCHANGED <<perm, role, parentid, held, torn, mixed>>
  BY DEF Grant, tables, Inv, TypeOK
<1>. HIDE DEF d
<1>6. Good(d) /\ (a \in torn \/ d.role \in mixed \/ Closed(d.set, d.known))
  BY <1>1, <1>2, <1>3, <1>4 DEF Good, Whole
<1>. QED  BY <1>4, <1>5, <1>6, DraftStep DEF Inv, TypeOK

LEMMA RevokeKeeps ==
  ASSUME Inv, NEW a \in Admin, NEW p \in Perm, Revoke(a, p) PROVE Inv'
<1>. DEFINE K == draft[a].known
            d == [draft[a] EXCEPT !.set = @ \ Down(p, K)]
<1>1. /\ draft[a] \in Draft /\ draft[a] # NoDraft /\ p \in K /\ draft[a].set \subseteq K
      /\ Good(draft[a]) /\ Whole(a, draft[a])
  BY DEF Inv, TypeOK, DraftInv, Good, Revoke, Shown
<1>2. Closed(draft[a].set, K) => Closed(draft[a].set \ Down(p, K), K)
  BY <1>1, WithoutDownIsClosed DEF Draft
<1>3. d \in Draft /\ d.known = K /\ d.set = draft[a].set \ Down(p, K) /\ d.role = draft[a].role
  BY <1>1 DEF Draft
<1>4. draft' = [draft EXCEPT ![a] = d] /\ UNCHANGED <<perm, role, parentid, held, torn, mixed>>
  BY DEF Revoke, tables, Inv, TypeOK
<1>. HIDE DEF d
<1>5. Good(d) /\ (a \in torn \/ d.role \in mixed \/ Closed(d.set, d.known))
  BY <1>1, <1>2, <1>3 DEF Good, Whole
<1>. QED  BY <1>3, <1>4, <1>5, DraftStep DEF Inv, TypeOK

LEMMA DropKeeps ==
  ASSUME Inv, NEW a \in Admin, Drop(a) PROVE Inv'
<1>1. torn' \subseteq Admin /\ torn \subseteq torn' \cup {a}
  BY DEF Drop, Inv, TypeOK
<1>. QED  BY <1>1, DraftStep DEF Drop, Good, tables

\* What is committed is closed, or of a role marked as mixed: the parent of a
\* permission of the draft, if it still exists, is known to the draft, therefore
\* in it.
LEMMA CommitKeeps ==
  ASSUME Inv, NEW a \in Admin, Commit(a) PROVE Inv'
<1>. DEFINE r == draft[a].role
            S == draft[a].set \cap Live
<1>1. draft[a] \in Draft /\ draft[a] # NoDraft /\ r \in Role
  BY DEF Inv, TypeOK, Commit, Shown, Draft
<1>2. r \in mixed' \/ Closed(S, Live)
  BY <1>1 DEF Inv, DraftInv, Good, Whole, Commit, Closed
<1>3. mixed \subseteq mixed' /\ mixed' \subseteq Role /\ torn' = torn \ {a}
  BY <1>1 DEF Commit, Inv, TypeOK
<1>4. held' = [held EXCEPT ![r] = S] /\ draft' = [draft EXCEPT ![a] = NoDraft]
      /\ UNCHANGED <<perm, role, parentid>>
  BY DEF Commit
<1>5. TypeOK'
  BY <1>1, <1>3, <1>4 DEF Inv, TypeOK, Draft
<1>6. BornInv'
  BY <1>4 DEF Inv, BornInv, Unborn
<1>7. HeldInv'
  BY <1>1, <1>4 DEF Inv, TypeOK, HeldInv, Live
<1>8. RolesClosed'
  <2>. SUFFICES ASSUME NEW o \in Role, o \notin mixed' PROVE Closed(held[o], Live)'
    BY DEF RolesClosed
  <2>1. CASE o = r
    BY <1>1, <1>2, <1>4, <2>1 DEF Inv, TypeOK, Closed, Live
  <2>2. CASE o # r
    BY <1>1, <1>3, <1>4, <2>2 DEF Inv, TypeOK, RolesClosed, Closed, Live
  <2>. QED  BY <2>1, <2>2
<1>9. DraftInv'
  <2>. SUFFICES ASSUME NEW b \in Admin PROVE (Good(draft[b]) /\ Whole(b, draft[b]))'
    BY DEF DraftInv
  <2>1. CASE b = a
    BY <1>4, <2>1 DEF Inv, TypeOK, Good, Whole
  <2>2. CASE b # a
    <3>1. Good(draft[b]) /\ Whole(b, draft[b]) /\ draft'[b] = draft[b] /\ (b \in torn => b \in torn')
      BY <1>3, <1>4, <2>2 DEF Inv, TypeOK, DraftInv
    <3>. QED  BY <1>3, <1>4, <3>1 DEF Good, Whole, Closed, Live, Unborn
  <2>. QED  BY <2>1, <2>2
<1>. QED  BY <1>5, <1>6, <1>7, <1>8, <1>9 DEF Inv

\* Nobody knows the new permission yet, and nobody's parent it is.
LEMMA AddPermissionKeeps ==
  ASSUME Inv, NEW p \in Perm, NEW q \in Perm \cup {Top}, AddPermission(p, q) PROVE Inv'
<1>1. TypeOK'
  BY DEF Inv, TypeOK, AddPermission, Status
<1>2. Unborn' = Unborn \ {p} /\ Live' = Live \cup {p}
  BY DEF Inv, TypeOK, AddPermission, Unborn, Live
<1>3. \A s \in Perm \ {p} : parentid'[s] = parentid[s]
  BY DEF Inv, TypeOK, AddPermission
<1>4. parentid'[p] = q /\ p \in Unborn /\ q \notin Unborn
  BY DEF Inv, TypeOK, AddPermission
<1>5. BornInv'
  BY <1>2, <1>3, <1>4 DEF Inv, BornInv
<1>6. \A s \in Perm \ Unborn : s # p /\ parentid'[s] = parentid[s] /\ parentid[s] # p
  BY <1>3, <1>4 DEF Inv, BornInv
<1>7. \A r \in Role : held'[r] = held[r] /\ held[r] \subseteq Perm \ Unborn
  BY DEF Inv, HeldInv, AddPermission, Live, Unborn
<1>8. HeldInv' /\ RolesClosed'
  BY <1>2, <1>6, <1>7 DEF Inv, HeldInv, RolesClosed, Closed, AddPermission
<1>9. DraftInv'
  <2>. SUFFICES ASSUME NEW a \in Admin PROVE (Good(draft[a]) /\ Whole(a, draft[a]))'
    BY DEF DraftInv
  <2>1. /\ draft' = draft /\ draft[a] \in Draft \cup {NoDraft} /\ Good(draft[a])
        /\ Whole(a, draft[a]) /\ torn' = torn /\ mixed' = mixed
    BY DEF Inv, TypeOK, DraftInv, AddPermission
  <2>2. CASE draft[a] = NoDraft
    BY <2>1, <2>2 DEF Good, Whole
  <2>3. CASE draft[a] # NoDraft
    <3>1. draft[a].known \subseteq Perm \ Unborn /\ draft[a].set \subseteq Perm \ Unborn
      BY <2>1, <2>3 DEF Good, Draft
    <3>2. /\ Closed(draft[a].known, Live)'
          /\ Closed(draft[a].set, draft[a].known) => Closed(draft[a].set, draft[a].known)'
      BY <1>2, <1>6, <2>1, <2>3, <3>1 DEF Good, Closed
    <3>. QED  BY <1>2, <2>1, <2>3, <3>1, <3>2 DEF Good, Whole
  <2>. QED  BY <2>2, <2>3
<1>. QED  BY <1>1, <1>5, <1>8, <1>9 DEF Inv

\* Fewer permissions exist: there is less that a set must hold.
LEMMA DeletePermissionsKeeps ==
  ASSUME Inv, NEW S \in SUBSET Live, DeletePermissions(S) PROVE Inv'
<1>1. TypeOK'
  BY DEF Inv, TypeOK, DeletePermissions, Status, Live
<1>2. Live' = Live \ S /\ Unborn' = Unborn
  BY DEF Inv, TypeOK, DeletePermissions, Live, Unborn
<1>3. BornInv'
  BY <1>2 DEF Inv, BornInv, DeletePermissions
<1>4. HeldInv' /\ RolesClosed'
  BY <1>2 DEF Inv, HeldInv, RolesClosed, DeletePermissions, Closed
<1>5. DraftInv'
  BY <1>2 DEF Inv, DraftInv, Good, Whole, DeletePermissions, Closed
<1>. QED  BY <1>1, <1>3, <1>4, <1>5 DEF Inv

LEMMA RolesKeep ==
  ASSUME Inv, \/ \E r \in Role : AddRole(r)
              \/ \E S \in SUBSET {r \in Role : role[r] = "live"} : DeleteRoles(S)
  PROVE  Inv'
<1>1. UNCHANGED <<perm, parentid, draft, torn, mixed>>
  BY DEF AddRole, DeleteRoles
<1>2. \A r \in Role : held'[r] = held[r] \/ held'[r] = {}
  BY DEF AddRole, DeleteRoles
<1>3. TypeOK'
  BY DEF Inv, TypeOK, AddRole, DeleteRoles, Status
<1>4. HeldInv' /\ RolesClosed'
  BY <1>1, <1>2 DEF Inv, HeldInv, RolesClosed, Live, Closed
<1>5. BornInv' /\ DraftInv'
  BY <1>1 DEF Inv, BornInv, DraftInv, Good, Whole, Live, Unborn, Closed
<1>. QED  BY <1>3, <1>4, <1>5 DEF Inv

LEMMA NextInv == Inv /\ [Next]_vars => Inv'
<1>. SUFFICES ASSUME Inv, [Next]_vars PROVE Inv'
  OBVIOUS
<1>1. ASSUME NEW a \in Admin, NEW r \in Role,
             \/ Ask(a, r) \/ \E K \in SUBSET Perm : AskOld(a, r, K)
             \/ \E b \in Admin : AskTorn(a, r, b)
      PROVE  Inv'
  BY <1>1, AskKeeps, AskOldKeeps, AskTornKeeps
<1>2. ASSUME NEW a \in Admin, NEW p \in Perm, Grant(a, p) PROVE Inv'
  BY <1>2, GrantKeeps
<1>3. ASSUME NEW a \in Admin, NEW p \in Perm, Revoke(a, p) PROVE Inv'
  BY <1>3, RevokeKeeps
<1>4. ASSUME NEW a \in Admin, Commit(a) PROVE Inv'
  BY <1>4, CommitKeeps
<1>5. ASSUME NEW a \in Admin, Drop(a) PROVE Inv'
  BY <1>5, DropKeeps
<1>6. ASSUME NEW p \in Perm, NEW q \in Perm \cup {Top}, AddPermission(p, q) PROVE Inv'
  BY <1>6, AddPermissionKeeps
<1>7. ASSUME NEW S \in SUBSET Live, DeletePermissions(S) PROVE Inv'
  BY <1>7, DeletePermissionsKeeps
<1>8. CASE UNCHANGED vars
  BY <1>8 DEF vars, tables, Inv, TypeOK, BornInv, HeldInv, RolesClosed, DraftInv, Good, Whole,
              Live, Unborn, Closed
<1>9. ASSUME NEW a \in Admin, Show(a) \/ ShowNothing(a) PROVE Inv'
  BY <1>9, ShowKeeps, ShowNothingKeeps
<1>. QED
  BY <1>1, <1>2, <1>3, <1>4, <1>5, <1>6, <1>7, <1>8, <1>9, RolesKeep DEF Next

-----------------------------------------------------------------------------
\* The table of roles and the page's drafts have their types.
THEOREM SetsTypeCorrect == Spec => []TypeOK
<1>1. Inv => TypeOK
  BY DEF Inv
<1>. QED  BY <1>1, InitInv, NextInv, PTL DEF Spec

\* Whoever holds a permission holds its parent, but for the roles that were
\* committed from a torn draft.
THEOREM RolesStayClosed == Spec => []RolesClosed
<1>1. Inv => RolesClosed
  BY DEF Inv
<1>. QED  BY <1>1, InitInv, NextInv, PTL DEF Spec
=============================================================================
