--------------------------- MODULE PermissionSets ---------------------------
(***************************************************************************)
(* What the administrator's page of roles promises: a role holds a set of  *)
(* permissions.  An administrator asks for a draft of that set and is shown *)
(* it; a click on a permission grants it with all above it, or revokes it  *)
(* with all below it, among the permissions the draft knows; a commit      *)
(* replaces the role's set by the draft.                                   *)
(*                                                                         *)
(* The draft is the role's set among the permissions there are, or an      *)
(* empty set among those there once were, or it is torn: asked for while   *)
(* another one was on its way, it may show part of that one.  No trees,    *)
(* lists, boxes, flags or caches: RolesPage implements this with those.    *)
(***************************************************************************)
CONSTANTS Perm, Role, Admin,
          Top,      \* the parent of a permission that has none
          NoDraft

VARIABLES perm, role, \* of each of them: none yet, live or deleted
          parentid,   \* of a permission
          held,       \* by a role
          draft,      \* of an administrator
          torn,       \* the administrators whose drafts are
          mixed       \* history: the roles whose set was once committed from a torn draft
tables == <<perm, role, parentid, held>>
vars == <<tables, draft, torn, mixed>>

Status == {"none", "live", "deleted"}
Live == {p \in Perm : perm[p] = "live"}
Unborn == {p \in Perm : perm[p] = "none"}

Draft == [role : Role, known : SUBSET Perm, set : SUBSET Perm, shown : BOOLEAN]

TypeOK == /\ perm \in [Perm -> Status] /\ role \in [Role -> Status]
          /\ parentid \in [Perm -> Perm \cup {Top}]
          /\ held \in [Role -> SUBSET Perm]
          /\ draft \in [Admin -> Draft \cup {NoDraft}]
          /\ torn \subseteq Admin /\ mixed \subseteq Role

\* S holds the parent, if K has it, of each of its permissions.
Closed(S, K) == \A p \in S : parentid[p] \in K => parentid[p] \in S

\* p and all above it, and p and all below it, as far as K knows.
Up(p, K) == {q \in K : \A S \in SUBSET K : p \in S /\ Closed(S, K) => q \in S}
Down(p, K) == {q \in K : p \in Up(q, K)}

\* What there was at some time: of what was born, the parents that are left.
Once(K) == K \cap Unborn = {} /\ Closed(K, Live)

Init == /\ perm \in [Perm -> Status] /\ role \in [Role -> Status]
        /\ parentid \in [Perm -> Perm \cup {Top}]
        /\ \A p \in Perm \ Unborn : parentid[p] \notin Unborn
        /\ held \in [Role -> SUBSET Live]
        /\ \A r \in Role : Closed(held[r], Live)
        /\ draft = [a \in Admin |-> NoDraft]
        /\ torn = {} /\ mixed = {}

\* A draft of what there is.
Ask(a, r) ==
  /\ draft[a] = NoDraft /\ role[r] = "live"
  /\ draft' = [draft EXCEPT ![a] = [role |-> r, known |-> Live, set |-> held[r], shown |-> FALSE]]
  /\ UNCHANGED <<tables, torn, mixed>>

\* An empty one among what there was; of a role that is gone, for one.
AskOld(a, r, K) ==
  /\ draft[a] = NoDraft /\ Once(K)
  /\ draft' = [draft EXCEPT ![a] = [role |-> r, known |-> K, set |-> {}, shown |-> FALSE]]
  /\ UNCHANGED <<tables, torn, mixed>>

\* While another administrator has asked: whose set will be shown is open.
AskTorn(a, r, b) ==
  /\ draft[a] = NoDraft /\ draft[b] # NoDraft /\ ~draft[b].shown
  /\ draft' = [draft EXCEPT ![a] = [draft[b] EXCEPT !.role = r]]
  /\ torn' = torn \cup {a, b}
  /\ UNCHANGED <<tables, mixed>>

\* All of the set; of a torn one some of it.
Show(a) ==
  /\ draft[a] # NoDraft /\ ~draft[a].shown
  /\ \E set \in SUBSET draft[a].set :
       /\ a \in torn \/ set = draft[a].set
       /\ draft' = [draft EXCEPT ![a].set = set, ![a].shown = TRUE]
  /\ UNCHANGED <<tables, torn, mixed>>

\* By an error nothing, as if there were no permissions.
ShowNothing(a) ==
  /\ draft[a] # NoDraft /\ ~draft[a].shown
  /\ draft' = [draft EXCEPT ![a].known = {}, ![a].set = {}, ![a].shown = TRUE]
  /\ UNCHANGED <<tables, torn, mixed>>

Shown(a) == draft[a] # NoDraft /\ draft[a].shown

Grant(a, p) == /\ Shown(a) /\ p \in draft[a].known \ draft[a].set
               /\ draft' = [draft EXCEPT ![a].set = @ \cup Up(p, draft[a].known)]
               /\ UNCHANGED <<tables, torn, mixed>>

Revoke(a, p) == /\ Shown(a) /\ p \in draft[a].set
                /\ draft' = [draft EXCEPT ![a].set = @ \ Down(p, draft[a].known)]
                /\ UNCHANGED <<tables, torn, mixed>>

Commit(a) == /\ Shown(a) /\ role[draft[a].role] = "live"
             /\ held' = [held EXCEPT ![draft[a].role] = draft[a].set \cap Live]
             /\ draft' = [draft EXCEPT ![a] = NoDraft]
             /\ mixed' = IF a \in torn THEN mixed \cup {draft[a].role} ELSE mixed
             /\ torn' = torn \ {a}
             /\ UNCHANGED <<perm, role, parentid>>

Drop(a) == /\ draft' = [draft EXCEPT ![a] = NoDraft]
           /\ torn' = torn \ {a}
           /\ UNCHANGED <<tables, mixed>>

\* Its parent is one that was there, or none.
AddPermission(p, q) == /\ p \in Unborn /\ q \notin Unborn
                       /\ perm' = [perm EXCEPT ![p] = "live"]
                       /\ parentid' = [parentid EXCEPT ![p] = q]
                       /\ UNCHANGED <<role, held, draft, torn, mixed>>

\* Not while a role holds one of them.
DeletePermissions(S) == /\ \A r \in Role : S \cap held[r] = {}
                        /\ perm' = [p \in Perm |-> IF p \in S THEN "deleted" ELSE perm[p]]
                        /\ UNCHANGED <<role, parentid, held, draft, torn, mixed>>

AddRole(r) == /\ role[r] = "none"
              /\ role' = [role EXCEPT ![r] = "live"]
              /\ UNCHANGED <<perm, parentid, held, draft, torn, mixed>>

DeleteRoles(S) == /\ role' = [r \in Role |-> IF r \in S THEN "deleted" ELSE role[r]]
                  /\ held' = [r \in Role |-> IF r \in S THEN {} ELSE held[r]]
                  /\ UNCHANGED <<perm, parentid, draft, torn, mixed>>

Next == \/ \E a \in Admin :
             \/ \E r \in Role : \/ Ask(a, r)
                               \/ \E K \in SUBSET Perm : AskOld(a, r, K)
                               \/ \E b \in Admin : AskTorn(a, r, b)
             \/ Show(a) \/ ShowNothing(a)
             \/ \E p \in Perm : Grant(a, p) \/ Revoke(a, p)
             \/ Commit(a) \/ Drop(a)
        \/ \E p \in Perm, q \in Perm \cup {Top} : AddPermission(p, q)
        \/ \E S \in SUBSET Live : DeletePermissions(S)
        \/ \E r \in Role : AddRole(r)
        \/ \E S \in SUBSET {r \in Role : role[r] = "live"} : DeleteRoles(S)

Spec == Init /\ [][Next]_vars

-----------------------------------------------------------------------------
\* Whoever holds a permission holds its parent, if that still exists, whatever
\* was added and deleted while drafts were open and however old the list is that
\* they were made of; but for roles that were committed from a torn draft.
RolesClosed == \A r \in Role \ mixed : Closed(held[r], Live)
=============================================================================
