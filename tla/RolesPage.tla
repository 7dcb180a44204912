----------------------------- MODULE RolesPage -----------------------------
(***************************************************************************)
(* The administrator's page of roles (role/roles.html) and what is behind  *)
(* it: the tables of roles and of permissions, and the cache of the list   *)
(* of permissions.  Several administrators have the page open; each shows  *)
(* the permissions of one role at a time in a tree with check boxes, in a  *)
(* modal dialog, and saves the checked ones.  Permissions and roles come   *)
(* and go meanwhile.                                                       *)
(*                                                                         *)
(* The page waits for its requests (async: false).  A save is one          *)
(* transaction, and a step with its answer; a request that lists the       *)
(* permissions is cut where it meets the cache, for the list in the cache, *)
(* with the flags that say what is checked, is one object that all         *)
(* requests share.                                                         *)
(***************************************************************************)
EXTENDS ZTree

CONSTANTS Role, Admin, NoRole, NoAdmin,
          MaxDeleted  \* bound: how many permissions and roles are deleted

\* The nodes are the ids of the permissions, Root is the parentid of the first
\* level.
ASSUME RolesPageAssumption ==
  /\ Root = 0 /\ Node \subseteq Nat
  /\ NoRole \notin Role \cup [role : Role, known : SUBSET Node, set : SUBSET Node, shown : BOOLEAN]
  /\ NoAdmin \notin Admin

VARIABLES perm,      \* quark_permission: none yet, live or deleted
          role,      \* quark_role
          parentid,  \* of a permission, Root for one of the first level
          held,      \* quark_role_permission
          cache,     \* the list of permissions that Ehcache keeps
          request,   \* what the server does for an administrator
          torn,      \* the administrators whose list has shared its flags with another
                     \* request, until their dialog closes
          mixed,     \* history: the roles once saved from such a dialog
          tree,      \* of an administrator's page
          roleId,    \* its global variable
          modal      \* whether the dialog is shown
tables == <<perm, role, parentid, held>>
server == <<tables, cache, request, mixed>>
vars == <<server, torn, tree, roleId, modal>>

Status == {"none", "live", "deleted"}
LivePerms == {p \in Node : perm[p] = "live"}
LiveRoles == {r \in Role : role[r] = "live"}
Deleted == {p \in Node : perm[p] = "deleted"} \cup {r \in Role : role[r] = "deleted"}

\* The list is cached or not; its maker is the administrator whose request
\* queried it and is still going to write or read its flags.
NoList == [filled |-> FALSE, perms |-> {}, maker |-> NoAdmin]

\* A request is about to call updatePermission, has missed the cache and queried
\* the table, or has its list; marks is what it will check of the list.
\* One for updatePermission has no role.
Idle == [at |-> "idle", role |-> NoRole, perms |-> {}, marks |-> {}]

\* The page's setting: checking goes up, unchecking goes down.
PageSetting == [enable |-> TRUE, style |-> "checkbox", radioType |-> "level",
                Y |-> {"p"}, N |-> {"s"}]

\* transformTozTreeFormat: under its parent, if that is in the list.  The
\* query leaves the order of the list open; here it is some order.
Nested(perms) ==
  [p \in Node \cup {Root} |->
     SetToSeq({q \in perms : p = IF parentid[q] \in perms \ {q} THEN parentid[q] ELSE Root})]

\* init and expandAll.
Opened(perms, checked) ==
  ExpandAll(InitTree(PageSetting, [kids |-> Nested(perms), checked |-> checked]), TRUE)

Init ==
  /\ perm \in [Node -> {"none", "live"}] /\ role \in [Role -> {"none", "live"}]
  /\ parentid \in [Node -> LivePerms \cup {Root}]
  /\ \A p \in Node : /\ parentid[p] < p
                     /\ p \notin LivePerms => parentid[p] = Root /\ p > Max(LivePerms \cup {0})
  /\ held \in [Role -> SUBSET LivePerms]
  /\ \A r \in Role : /\ r \notin LiveRoles => held[r] = {}
                     /\ \A p \in held[r] : parentid[p] \in held[r] \cup {Root}
  /\ cache = NoList
  /\ request = [a \in Admin |-> Idle]
  /\ torn = {} /\ mixed = {}
  /\ tree = [a \in Admin |-> EmptyTree(PageSetting)]
  /\ roleId = [a \in Admin |-> NoRole]
  /\ modal = [a \in Admin |-> FALSE]

-----------------------------------------------------------------------------
(* The list of permissions.                                                *)

\* findAll, cached.  A miss: the list is the table's, and contains finds by
\* identity which of its objects the role has, as they are of one session of
\* Hibernate.  A hit: the objects are those of another session, none of which
\* the role has, so that every flag is to be false; but if the request that made
\* the list is still under way it may set its own at the same time, and what
\* either of them reads is some of those.
FindAll(a, r) ==
  IF ~cache.filled
  THEN /\ request' = [request EXCEPT ![a] =
                        [at |-> "query", role |-> r, perms |-> LivePerms,
                         marks |-> IF r \in Role THEN held[r] ELSE {}]]
       /\ UNCHANGED torn
  ELSE IF cache.maker = NoAdmin
  THEN /\ request' = [request EXCEPT ![a] =
                        [at |-> "list", role |-> r, perms |-> cache.perms, marks |-> {}]]
       /\ UNCHANGED torn
  ELSE /\ request' = [request EXCEPT ![a] =
                        [at |-> "list", role |-> r, perms |-> cache.perms,
                         marks |-> request[cache.maker].marks]]
       /\ torn' = torn \cup {a, cache.maker}

\* Its list is put into the cache, in place of what another request may have put
\* there since.
CachePut(a) ==
  /\ request[a].at = "query"
  /\ \/ /\ request[a].role = NoRole
        /\ cache' = [filled |-> TRUE, perms |-> request[a].perms, maker |-> NoAdmin]
        /\ request' = [request EXCEPT ![a] = Idle]
     \/ /\ request[a].role # NoRole
        /\ cache' = [filled |-> TRUE, perms |-> request[a].perms, maker |-> a]
        /\ request' = [request EXCEPT ![a].at = "list"]
  /\ UNCHANGED <<tables, torn, mixed, tree, roleId, modal>>

\* After two minutes, or two without a request; nothing evicts it.
CacheExpires ==
  /\ cache.filled /\ cache' = NoList
  /\ UNCHANGED <<tables, request, torn, mixed, tree, roleId, modal>>

\* The request is over: nobody changes the flags of its list any more.
RequestEnds(a) ==
  /\ request' = [request EXCEPT ![a] = Idle]
  /\ cache' = IF cache.maker = a THEN [cache EXCEPT !.maker = NoAdmin] ELSE cache

-----------------------------------------------------------------------------
(* The page.                                                               *)

\* Mutant: while the dialog is open, too.
AllotPermissionOpen(a, r) ==
  /\ role[r] # "none" /\ request[a].at = "idle"
  /\ roleId' = [roleId EXCEPT ![a] = r]
  /\ FindAll(a, r)
  /\ UNCHANGED <<tables, cache, mixed, tree, modal>>

\* allotPermission, with the one row of r checked.  The row may be of a role
\* that was deleted after the table was loaded: findOne gives null, and the
\* answer will be an error.
AllotPermission(a, r) ==
  /\ ~modal[a] /\ role[r] # "none" /\ request[a].at = "idle"
  /\ roleId' = [roleId EXCEPT ![a] = r]
  /\ IF role[r] = "live"
     THEN FindAll(a, r)
     ELSE request' = [request EXCEPT ![a] = [Idle EXCEPT !.at = "list", !.role = r]] /\ UNCHANGED torn
  /\ UNCHANGED <<tables, cache, mixed, tree, modal>>

\* The answer makes the tree and shows the dialog.
Answer(a, perms, checked) ==
  /\ RequestEnds(a)
  /\ tree' = [tree EXCEPT ![a] = Opened(perms, checked)]
  /\ modal' = [modal EXCEPT ![a] = TRUE]
  /\ UNCHANGED <<tables, torn, mixed, roleId>>

\* Mutant: the answer is written while the flags are still being set.
AnswerListEarly(a) ==
  /\ request[a].at = "list"
  /\ \E checked \in SUBSET request[a].marks : Answer(a, request[a].perms, checked)

\* The flags as they are when the answer is written.
AnswerList(a) ==
  /\ request[a].at = "list"
  /\ \E checked \in SUBSET request[a].marks :
       /\ a \in torn \/ checked = request[a].marks
       /\ Answer(a, request[a].perms, checked)

\* An exception on the server: the answer has no data, and the page does not look
\* at its status; init takes a null for an empty list.
AnswerError(a) ==
  /\ request[a].at \in {"query", "list"} /\ request[a].role # NoRole
  /\ Answer(a, {}, {})

\* No answer, or one that is none: the dialog stays away.
AnswerLost(a) ==
  /\ request[a].at \in {"query", "list"} /\ request[a].role # NoRole
  /\ RequestEnds(a)
  /\ torn' = torn \ {a} /\ roleId' = [roleId EXCEPT ![a] = NoRole]
  /\ UNCHANGED <<tables, mixed, tree, modal>>

ClickBox(a, n) ==
  /\ modal[a] /\ HasBox(tree[a], n)
  /\ tree' = [tree EXCEPT ![a] = ToggleCheck(@, n)]
  /\ UNCHANGED <<server, torn, roleId, modal>>

\* The tree and the role of a dialog that is hidden are out of reach until the
\* next one is asked for; the model forgets them.
Hide(a) == /\ modal' = [modal EXCEPT ![a] = FALSE]
           /\ tree' = [tree EXCEPT ![a] = EmptyTree(PageSetting)]
           /\ torn' = torn \ {a} /\ roleId' = [roleId EXCEPT ![a] = NoRole]

Mixes(a) == mixed' = IF a \in torn THEN mixed \cup {roleId[a]} ELSE mixed

\* saveRolePermission.  An empty list is not sent at all, and refused for that
\* (400): the dialog stays, so a role never loses its last permission here.
\* Ids of deleted permissions are converted to null and dropped.
SaveRolePermission(a) ==
  LET pers == GetCheckedNodes(tree[a]) IN
  /\ modal[a] /\ pers # {} /\ role[roleId[a]] = "live"
  /\ held' = [held EXCEPT ![roleId[a]] = pers \cap LivePerms]
  /\ Mixes(a) /\ Hide(a)
  /\ UNCHANGED <<perm, role, parentid, cache, request>>

\* The role is gone (findOne gives null) or the transaction is rolled back, or
\* the dialog is closed without saving.
DialogCloses(a) ==
  /\ modal[a]
  /\ Hide(a)
  /\ UNCHANGED server

-----------------------------------------------------------------------------
(* The tables.                                                             *)

\* The change is committed; the request goes on to updatePermission.
Changes(a) == /\ request[a].at = "idle"
              /\ request' = [request EXCEPT ![a].at = "update"]

\* The next id (AUTO_INCREMENT); the parent is an id the administrator has seen,
\* or 0.
AddPermission(a, p, q) ==
  /\ perm[p] = "none" /\ q < p /\ \A o \in Node : o < p => perm[o] # "none"
  /\ perm' = [perm EXCEPT ![p] = "live"]
  /\ parentid' = [parentid EXCEPT ![p] = q]
  /\ Changes(a)
  /\ UNCHANGED <<role, held, cache, torn, mixed, tree, roleId, modal>>

\* deleteInBatch, one statement, refused as a whole by the foreign key of
\* quark_role_permission.
DeletePermissions(a, S) ==
  /\ Cardinality(Deleted) + Cardinality(S) <= MaxDeleted
  /\ \A r \in Role : held[r] \cap S = {}
  /\ perm' = [p \in Node |-> IF p \in S THEN "deleted" ELSE perm[p]]
  /\ Changes(a)
  /\ UNCHANGED <<role, parentid, held, cache, torn, mixed, tree, roleId, modal>>

\* updatePermission reads the list through the cache, under a lock of its own.
UpdatePermission(a) ==
  /\ request[a].at = "update"
  /\ ~\E b \in Admin : request[b].at = "query" /\ request[b].role = NoRole
  /\ IF cache.filled THEN request' = [request EXCEPT ![a] = Idle] /\ UNCHANGED torn
                     ELSE FindAll(a, NoRole)
  /\ UNCHANGED <<tables, cache, mixed, tree, roleId, modal>>

\* It fails before its list is cached.
UpdateFails(a) ==
  /\ request[a].at \in {"update", "query"} /\ request[a].role = NoRole
  /\ request' = [request EXCEPT ![a] = Idle]
  /\ UNCHANGED <<tables, cache, torn, mixed, tree, roleId, modal>>

AddRole(r) ==
  /\ role[r] = "none"
  /\ role' = [role EXCEPT ![r] = "live"]
  /\ UNCHANGED <<perm, parentid, held, cache, request, torn, mixed, tree, roleId, modal>>

\* The rows of the join table go with the role.  A role that an administrator has
\* is refused by a foreign key; who has which role is left out, any may be refused.
DeleteRoles(S) ==
  /\ Cardinality(Deleted) + Cardinality(S) <= MaxDeleted
  /\ role' = [r \in Role |-> IF r \in S THEN "deleted" ELSE role[r]]
  /\ held' = [r \in Role |-> IF r \in S THEN {} ELSE held[r]]
  /\ UNCHANGED <<perm, parentid, cache, request, torn, mixed, tree, roleId, modal>>

Next ==
  \/ \E a \in Admin :
       \/ \E r \in Role : AllotPermission(a, r)
       \/ CachePut(a) \/ AnswerList(a) \/ AnswerError(a) \/ AnswerLost(a)
       \/ \E n \in Node : ClickBox(a, n)
       \/ SaveRolePermission(a) \/ DialogCloses(a)
       \/ \E p \in Node, q \in Node \cup {Root} : AddPermission(a, p, q)
       \/ \E S \in SUBSET LivePerms \ {{}} : DeletePermissions(a, S)
       \/ UpdatePermission(a) \/ UpdateFails(a)
  \/ CacheExpires
  \/ \E r \in Role : AddRole(r)
  \/ \E S \in SUBSET LiveRoles \ {{}} : DeleteRoles(S)

Spec == Init /\ [][Next]_vars

-----------------------------------------------------------------------------
(* Properties.                                                             *)

TypeOK == /\ perm \in [Node -> Status] /\ role \in [Role -> Status]
          /\ parentid \in [Node -> Node \cup {Root}]
          /\ held \in [Role -> SUBSET Node]
          /\ cache \in [filled : BOOLEAN, perms : SUBSET Node, maker : Admin \cup {NoAdmin}]
          /\ request \in [Admin -> [at : {"idle", "update", "query", "list"},
                                    role : Role \cup {NoRole},
                                    perms : SUBSET Node, marks : SUBSET Node]]
          /\ torn \subseteq Admin /\ mixed \subseteq Role
          /\ \A a \in Admin : tree[a] \in Tree
          /\ roleId \in [Admin -> Role \cup {NoRole}]
          /\ modal \in [Admin -> BOOLEAN]

\* The menus are built from the permissions a role holds: each needs its
\* parent.  Two administrators save trees that were loaded at different times
\* from a list that may be older still, while permissions are added and deleted,
\* and still no role holds a permission without its parent, but for roles that
\* were saved from a list two requests marked at the same time.
RolesClosed ==
  \A r \in Role \ mixed : \A p \in held[r] : parentid[p] \in LivePerms => parentid[p] \in held[r]

\* The page implements the editor of sets: the flags, the lists that are drawn
\* late and the recursions of the boxes amount to granting what is above and
\* revoking what is below; what is shown is the role's set, or none of it if the
\* list was in the cache, or part of what was asked for at the same time; and what
\* is saved is the draft of the role that is shown.
Sets == INSTANCE PermissionSets WITH
          Perm <- Node, Top <- Root, NoDraft <- NoRole,
          draft <- [a \in Admin |->
                      IF modal[a] THEN [role |-> roleId[a], known |-> tree[a].cached,
                                        set |-> tree[a].checked, shown |-> TRUE]
                      ELSE IF request[a].role # NoRole
                      THEN [role |-> request[a].role, known |-> request[a].perms,
                            set |-> request[a].marks, shown |-> FALSE]
                      ELSE NoRole]
ImplementsSets == Sets!Spec
=============================================================================
