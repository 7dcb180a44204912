--------------------------- MODULE RolesPageProof ---------------------------
(***************************************************************************)
(* The proof that the page of roles implements the editor of sets, for any *)
(* finite number of permissions, in trees of any shape and depth, and any  *)
(* roles and administrators; and that the roles stay closed.               *)
(***************************************************************************)
EXTENDS RolesPage, ZTreeProof

\* A permission is younger than its parent, so that the parents are a forest.
Older == \A p \in Node : parentid[p] < p

\* The parent of a permission was there before it.
Born == \A p \in Node : perm[p] # "none" => parentid[p] = Root \/ perm[parentid[p]] # "none"

\* A role holds permissions that exist.
Holds == \A r \in Role : held[r] \subseteq LivePerms

\* A dialog that is shown has a tree, in good order, of permissions that were
\* there when it was opened, under the parents they have.
Shows(t) ==
  /\ Sound(t)
  /\ t.setting = PageSetting /\ Fixed(t) = {}
  /\ t.checked \subseteq t.cached
  /\ \A q \in t.cached :
       /\ perm[q] # "none"
       /\ t.parent[q] = IF parentid[q] \in t.cached THEN parentid[q] ELSE Root

Dialog(t, r, m) == IF m THEN Shows(t) /\ r \in Role ELSE t = EmptyTree(PageSetting)
Page(a) == Dialog(tree[a], roleId[a], modal[a])

Tables == /\ perm \in [Node -> Status] /\ role \in [Role -> Status]
          /\ parentid \in [Node -> Node \cup {Root}]
          /\ held \in [Role -> SUBSET Node]
          /\ torn \subseteq Admin /\ mixed \subseteq Role
Pages == /\ DOMAIN tree = Admin /\ tree = [a \in Admin |-> tree[a]]
         /\ roleId \in [Admin -> Role \cup {NoRole}]
         /\ modal \in [Admin -> BOOLEAN]

\* A list of permissions that were there at some time: the parents that are
\* left were there, too.
Past(S) == \A p \in S : /\ perm[p] # "none"
                        /\ parentid[p] \in LivePerms => parentid[p] \in S

\* A request for permissions of a role is of a page that waits for it.
RequestType == [at : {"idle", "update", "query", "list"}, role : Role \cup {NoRole},
                perms : SUBSET Node, marks : SUBSET Node]
Asked(q, r, m) == /\ q \in RequestType
                  /\ Past(q.perms) /\ q.marks \subseteq q.perms
                  /\ q.role # NoRole => ~m /\ r = q.role /\ q.at \in {"query", "list"}
                  /\ q.at = "list" => q.role # NoRole
Requests == /\ request \in [Admin -> RequestType]
            /\ \A a \in Admin : Asked(request[a], roleId[a], modal[a])

\* The list in the cache is its maker's as long as that is under way.
CacheType == [filled : BOOLEAN, perms : SUBSET Node, maker : Admin \cup {NoAdmin}]
Kept(c) == /\ c \in CacheType /\ Past(c.perms)
           /\ c.maker \in Admin => /\ request[c.maker].at = "list"
                                  /\ request[c.maker].perms = c.perms
Server == Requests /\ Kept(cache)

IInv == /\ Tables /\ Older /\ Born /\ Holds
        /\ Server /\ Pages /\ \A a \in Admin : Page(a)

-----------------------------------------------------------------------------
(* The page's operators.                                                   *)

LEMMA SettingType == PageSetting \in Setting
BY DEF PageSetting, Setting

\* The parents among some permissions.
Parents(perms) == [q \in Node |-> IF q \in perms /\ parentid[q] \in perms THEN parentid[q] ELSE Root]

\* What the page makes of the list of permissions is a forest.
LEMMA NestedForest ==
  ASSUME NEW perms \in SUBSET Node, parentid \in [Node -> Node \cup {Root}], Older
  PROVE  Forest(Nested(perms), perms, Parents(perms))
<1>. DEFINE up == Parents(perms)
            sons(p) == {q \in perms : p = IF parentid[q] \in perms \ {q} THEN parentid[q] ELSE Root}
            kids == Nested(perms)
            below(n) == {x \in Node : x < n}
            depth == [n \in Node |-> Cardinality(below(n))]
            N == Cardinality(Node)
<1>1. Node \subseteq Nat /\ Root = 0 /\ Root \notin Node /\ IsFiniteSet(Node)
  BY RolesPageAssumption, TreeAssumption
<1>2. up \in [Node -> Node \cup {Root}]
  BY DEF Parents
<1>3. \A q \in perms : parentid[q] # q /\ parentid[q] < q
  BY <1>1 DEF Older
<1>4. \A p \in Node \cup {Root} : sons(p) = {q \in perms : up[q] = p}
  BY <1>3 DEF Parents
<1>5. \A p \in Node \cup {Root} : sons(p) \in SUBSET Node
  OBVIOUS
<1>6. \A p \in Node \cup {Root} : kids[p] = SetToSeq(sons(p))
  BY DEF Nested
<1>7. kids = [p \in Node \cup {Root} |-> kids[p]]
  BY DEF Nested
<1>. HIDE DEF sons, kids, up
<1>8. \A p \in Node \cup {Root} :
        kids[p] \in Seq(Node) /\ Range(kids[p]) = sons(p) /\ IsInjective(kids[p])
  BY <1>5, <1>6, Listed
<1>9. kids \in [Node \cup {Root} -> Seq(Node)]
  BY <1>7, <1>8
<1>10. N \in Nat
  BY <1>1, FS_CardinalityType
<1>11. \A n \in Node : IsFiniteSet(below(n)) /\ Cardinality(below(n)) \in 0 .. N
  <2>. SUFFICES ASSUME NEW n \in Node
                PROVE  IsFiniteSet(below(n)) /\ Cardinality(below(n)) \in 0 .. N
    OBVIOUS
  <2>. DEFINE b == below(n)
  <2>1. b \subseteq Node
    OBVIOUS
  <2>. HIDE DEF b
  <2>2. IsFiniteSet(b) /\ Cardinality(b) <= N /\ Cardinality(b) \in Nat
    BY <1>1, <2>1, FS_Subset, FS_CardinalityType
  <2>. QED  BY <1>10, <2>2 DEF b
<1>12. \A m, n \in Node : m < n => Cardinality(below(m)) < Cardinality(below(n))
  <2>. SUFFICES ASSUME NEW m \in Node, NEW n \in Node, m < n
                PROVE  Cardinality(below(m)) < Cardinality(below(n))
    OBVIOUS
  <2>. DEFINE b == below(m)
              c == below(n)
  <2>1. b \subseteq c /\ b # c
    <3>1. m \in c /\ m \notin b
      BY <1>1
    <3>2. \A x \in b : x \in c
      BY <1>1
    <3>. HIDE DEF b, c
    <3>. QED  BY <3>1, <3>2
  <2>2. IsFiniteSet(b) /\ IsFiniteSet(c) /\ Cardinality(b) \in 0 .. N /\ Cardinality(c) \in 0 .. N
    BY <1>11
  <2>. HIDE DEF b, c
  <2>3. Cardinality(b) <= Cardinality(c) /\ Cardinality(b) # Cardinality(c)
    BY <2>1, <2>2, FS_Subset
  <2>4. Cardinality(b) < Cardinality(c)
    BY <1>10, <2>2, <2>3
  <2>. QED  BY <2>4 DEF b, c
<1>. HIDE DEF below, N
<1>13. depth \in [Node -> 0 .. N]
  BY <1>11
<1>14. \A n \in Node : up[n] # Root => up[n] \in Node /\ up[n] < n
  BY <1>2, <1>3 DEF up, Parents
<1>15. \A n \in Node : up[n] # Root => depth[up[n]] < depth[n]
  BY <1>12, <1>14
<1>16. /\ \A q \in perms : up[q] \in perms \cup {Root}
       /\ \A q \in Node \ perms : up[q] = Root
  BY DEF up, Parents
<1>. HIDE DEF depth
<1>17. Forest(kids, perms, up)
  BY <1>2, <1>4, <1>8, <1>9, <1>10, <1>13, <1>15, <1>16 DEF Forest
<1>. QED  BY <1>17 DEF kids, up

\* The tree of the dialog when it is opened.
LEMMA OpenedShows ==
  ASSUME parentid \in [Node -> Node \cup {Root}], Older,
         NEW perms \in SUBSET Node, NEW checked \in SUBSET perms, Past(perms)
  PROVE  LET t == ExpandAll(InitTree(PageSetting, [kids |-> Nested(perms), checked |-> checked]), TRUE)
         IN  Shows(t) /\ t.cached = perms /\ t.checked = checked
<1>. DEFINE data == [kids |-> Nested(perms), checked |-> checked]
            i == InitTree(PageSetting, data)
            t == ExpandAll(i, TRUE)
<1>1. perms \in SUBSET Node /\ checked \in SUBSET Node /\ \A q \in perms : perm[q] # "none"
  BY DEF Past
<1>2. Data(data, perms, Parents(perms))
  <2>1. Forest(Nested(perms), perms, Parents(perms))
    BY <1>1, NestedForest
  <2>2. /\ DOMAIN data = {"kids", "checked"} /\ data["kids"] = Nested(perms)
        /\ data["checked"] = checked
    OBVIOUS
  <2>. HIDE DEF data
  <2>. QED  BY <2>1, <2>2 DEF Data, DataFlags
<1>3. /\ Said(data, "checked") = checked /\ Said(data, "nocheck") = {}
      /\ Said(data, "disabled") = {}
  BY DEF Said
<1>. HIDE DEF data
<1>4. /\ Sound(i) /\ i.cached = perms /\ i.checked = checked
      /\ i.setting = PageSetting /\ Fixed(i) = {} /\ i.parent = Parents(perms)
  <2>1. /\ Sound(i) /\ i.cached = perms /\ i.parent = Parents(perms) /\ i.setting = PageSetting
        /\ i.checked = Said(data, "checked") /\ i.nocheck = Said(data, "nocheck")
        /\ i.disabled = Said(data, "disabled")
    BY <1>2, SettingType, InitTreeIs
  <2>. HIDE DEF i
  <2>. QED  BY <1>3, <2>1 DEF Fixed
<1>. HIDE DEF i
<1>5. t \in Redrawn(i)
  <2>1. Below(i, Root) \in Seq(Node)
    BY <1>4, AgreeEnds, BelowIs DEF Sound, Agree
  <2>2. ExpandCollapseAll(i, Below(i, Root), TRUE) \in Redrawn(i)
    BY <1>4, <2>1, ExpandAllRedraws
  <2>. QED  BY <2>2 DEF ExpandAll
<1>. HIDE DEF t
<1>6. Sound(t) /\ t.cached = perms /\ t.parent = Parents(perms)
  BY <1>4, <1>5, RedrawnChain
<1>7. t.checked = i.checked /\ t.setting = i.setting /\ t.nocheck = i.nocheck /\ t.disabled = i.disabled
  BY <1>5 DEF Redrawn, Differ, View, Fields
<1>8. t.checked = checked /\ t.setting = PageSetting /\ Fixed(t) = {}
  BY <1>4, <1>7 DEF Fixed
<1>9. \A q \in perms : Parents(perms)[q] = IF parentid[q] \in perms THEN parentid[q] ELSE Root
  BY <1>1 DEF Parents
<1>10. Shows(t)
  BY <1>1, <1>6, <1>8, <1>9 DEF Shows
<1>. QED  BY <1>6, <1>8, <1>10 DEF t, i, data

\* What a click grants or revokes.
LEMMA UpAndDown ==
  ASSUME NEW t, Shows(t), NEW n \in t.cached
  PROVE  /\ Sets!Up(n, t.cached) = Upward(t, n)
         /\ Sets!Down(n, t.cached) = Downward(t, n)
         /\ n \in Node
<1>. DEFINE K == t.cached
<1>1. Agree(t) /\ t \in Tree /\ ParentsEnd(t) /\ K \subseteq Node
  BY DEF Shows, Sound, Agree, Tree
<1>2. \A q \in K : /\ t.parent[q] = IF parentid[q] \in K THEN parentid[q] ELSE Root
                   /\ parentid[q] \in K => t.parent[q] # Root
  BY <1>1, TreeAssumption DEF Shows
<1>3. \A p \in K : Sets!Up(p, K) = Upward(t, p)
  <2>. SUFFICES ASSUME NEW p \in K PROVE Sets!Up(p, K) = Upward(t, p)
    OBVIOUS
  <2>1. Upward(t, p) \subseteq K
    BY <1>1, AboveHasBelow
  <2>2. Sets!Closed(Upward(t, p), K) /\ p \in Upward(t, p)
    <3>1. ASSUME NEW q \in Upward(t, p), parentid[q] \in K PROVE parentid[q] \in Upward(t, p)
      <4>1. t.parent[q] = parentid[q] /\ t.parent[q] # Root
        BY <1>2, <2>1, <3>1
      <4>. QED  BY <1>1, <4>1, UpwardCloses
    <3>. QED  BY <3>1 DEF Sets!Closed, Upward
  <2>3. ASSUME NEW S \in SUBSET K, p \in S, Sets!Closed(S, K) PROVE Upward(t, p) \subseteq S
    <3>1. \A q \in S \cap Node : t.parent[q] # Root => t.parent[q] \in S
      BY <1>2, <2>3 DEF Sets!Closed
    <3>. QED  BY <1>1, <2>3, <3>1, UpwardLeast
  <2>. QED  BY <2>1, <2>2, <2>3 DEF Sets!Up
<1>4. Downward(t, n) = {q \in K : n \in Upward(t, q)}
  BY <1>1, BelowHasAbove, AboveHasBelow
<1>5. Sets!Down(n, K) = {q \in K : n \in Upward(t, q)}
  BY <1>3 DEF Sets!Down
<1>. QED  BY <1>1, <1>3, <1>4, <1>5

\* A click on a box grants what is above, or revokes what is below.
LEMMA ClickedShows ==
  ASSUME NEW t, Shows(t), NEW n \in Node, HasBox(t, n)
  PROVE  LET u == ToggleCheck(t, n) IN
         /\ Shows(u) /\ n \in t.cached /\ u.cached = t.cached
         /\ u.checked = IF n \in t.checked THEN t.checked \ Sets!Down(n, t.cached)
                                           ELSE t.checked \cup Sets!Up(n, t.cached)
<1>. DEFINE u == ToggleCheck(t, n)
<1>1. n \in t.cached /\ Agree(t) /\ Fixed(t) = {} /\ t \in Tree
  BY DEF HasBox, Shows, Sound, Pictured, Agree
<1>2. t.setting.style = "checkbox" /\ t.setting.Y = {"p"} /\ t.setting.N = {"s"}
  BY DEF Shows, PageSetting
<1>3. /\ u \in Differ(t, Checks)
      /\ u.checked = IF n \in t.checked THEN t.checked \ (Downward(t, n) \ Fixed(t))
                                        ELSE t.checked \cup (Upward(t, n) \ Fixed(t))
  BY <1>1, <1>2, ClickChecks
<1>. HIDE DEF u
<1>4. u.checked = IF n \in t.checked THEN t.checked \ Sets!Down(n, t.cached)
                                     ELSE t.checked \cup Sets!Up(n, t.cached)
  BY <1>1, <1>3, UpAndDown
<1>5. Sound(u) /\ u.cached = t.cached /\ u.parent = t.parent
  <2>1. Checks \subseteq BoxFields
    BY DEF Checks, BoxFields
  <2>2. u \in Differ(t, BoxFields)
    BY <1>1, <1>3, <2>1, DifferMore
  <2>3. Sound(u)
    BY <2>2, BoxesApart DEF Shows
  <2>. QED  BY <1>3, <2>3 DEF Differ, Checks, Fields
<1>6. u.setting = t.setting /\ u.nocheck = t.nocheck /\ u.disabled = t.disabled
  BY <1>3 DEF Differ, Checks, Fields
<1>7. Fixed(u) = {} /\ u.setting = PageSetting
  BY <1>1, <1>6 DEF Fixed, Shows
<1>8. u.checked \subseteq u.cached
  <2>1. Sets!Up(n, t.cached) \subseteq t.cached
    BY DEF Sets!Up
  <2>. QED  BY <1>4, <1>5, <2>1 DEF Shows
<1>9. Shows(u)
  BY <1>5, <1>7, <1>8 DEF Shows
<1>. QED  BY <1>1, <1>4, <1>5, <1>9 DEF u

-----------------------------------------------------------------------------
(* The steps.                                                              *)

\* The drafts that the requests and the dialogs are.
DraftOf(t, r, m, q) ==
  IF m THEN [role |-> r, known |-> t.cached, set |-> t.checked, shown |-> TRUE]
  ELSE IF q.role # NoRole
  THEN [role |-> q.role, known |-> q.perms, set |-> q.marks, shown |-> FALSE]
  ELSE NoRole
draft == [a \in Admin |-> DraftOf(tree[a], roleId[a], modal[a], request[a])]

LEMMA DraftIs ==
  ASSUME IInv
  PROVE  /\ draft \in [Admin -> Sets!Draft \cup {NoRole}]
         /\ \A a \in Admin : draft[a] # NoRole <=> modal[a] \/ request[a].role # NoRole
<1>. SUFFICES ASSUME NEW a \in Admin
              PROVE  /\ draft[a] \in Sets!Draft \cup {NoRole}
                     /\ draft[a] # NoRole <=> modal[a] \/ request[a].role # NoRole
  BY DEF draft
<1>1. CASE modal[a]
  <2>1. draft[a] = [role |-> roleId[a], known |-> tree[a].cached, set |-> tree[a].checked,
                    shown |-> TRUE]
    BY <1>1 DEF draft, DraftOf
  <2>2. roleId[a] \in Role /\ tree[a].cached \in SUBSET Node /\ tree[a].checked \in SUBSET Node
    BY <1>1 DEF IInv, Page, Dialog, Shows, Sound, Agree, Tree
  <2>3. draft[a] \in Sets!Draft
    BY <2>1, <2>2 DEF Sets!Draft
  <2>. QED  BY <1>1, <2>3, RolesPageAssumption DEF Sets!Draft
<1>2. CASE ~modal[a] /\ request[a].role # NoRole
  <2>. DEFINE q == request[a]
  <2>1. draft[a] = [role |-> q.role, known |-> q.perms, set |-> q.marks, shown |-> FALSE]
    BY <1>2 DEF draft, DraftOf
  <2>2. q.role \in Role /\ q.perms \in SUBSET Node /\ q.marks \in SUBSET Node
    BY <1>2 DEF IInv, Server, Requests, RequestType
  <2>3. draft[a] \in Sets!Draft
    BY <2>1, <2>2 DEF Sets!Draft
  <2>. QED  BY <1>2, <2>3, RolesPageAssumption DEF Sets!Draft
<1>3. CASE ~modal[a] /\ request[a].role = NoRole
  BY <1>3 DEF draft, DraftOf
<1>. QED  BY <1>1, <1>2, <1>3

\* A step of one administrator.  His request may put a list into the cache, or
\* be done with the one that is there.
Caches(a, q) ==
  /\ cache' \in CacheType /\ Past(cache'.perms)
  /\ cache'.maker \in Admin \ {a} => cache' = cache
  /\ cache'.maker = a => q.at = "list" /\ q.perms = cache'.perms
Moves(a, u, r, m, q) ==
  /\ r \in Role \cup {NoRole} /\ m \in BOOLEAN
  /\ tree' = [tree EXCEPT ![a] = u] /\ roleId' = [roleId EXCEPT ![a] = r]
  /\ modal' = [modal EXCEPT ![a] = m] /\ request' = [request EXCEPT ![a] = q]
  /\ UNCHANGED perm /\ UNCHANGED parentid
  /\ Dialog(u, r, m) /\ Asked(q, r, m) /\ Caches(a, q)

\* It leaves the others alone.
LEMMA OneStep ==
  ASSUME IInv, NEW a \in Admin, NEW u, NEW r, NEW m, NEW q, Moves(a, u, r, m, q)
  PROVE  /\ Server' /\ Pages' /\ \A b \in Admin : Page(b)'
         /\ draft' = [draft EXCEPT ![a] = DraftOf(u, r, m, q)]
<1>. USE DEF Moves, Caches
<1>1. /\ tree'[a] = u /\ roleId'[a] = r /\ modal'[a] = m /\ request'[a] = q
      /\ \A b \in Admin \ {a} : /\ tree'[b] = tree[b] /\ roleId'[b] = roleId[b]
                                /\ modal'[b] = modal[b] /\ request'[b] = request[b]
  BY DEF IInv, Pages, Server, Requests
<1>2. Pages'
  BY DEF IInv, Pages
<1>3. (\A t : Shows(t)' <=> Shows(t)) /\ LivePerms' = LivePerms
  BY DEF Shows, LivePerms
<1>4. ASSUME NEW b \in Admin PROVE Page(b)'
  <2>1. CASE b = a
    BY <1>1, <1>3, <2>1 DEF Page, Dialog
  <2>2. CASE b # a
    BY <1>1, <1>3, <2>2 DEF Page, IInv, Dialog
  <2>. QED  BY <2>1, <2>2
<1>5. draft' = [draft EXCEPT ![a] = DraftOf(u, r, m, q)]
  <2>. DEFINE d(b) == DraftOf(tree[b], roleId[b], modal[b], request[b])
              e == DraftOf(u, r, m, q)
  <2>1. draft = [b \in Admin |-> d(b)] /\ draft' = [b \in Admin |-> d(b)']
    BY DEF draft
  <2>2. d(a)' = e /\ \A b \in Admin \ {a} : d(b)' = d(b)
    BY <1>1
  <2>. HIDE DEF d, e, Moves
  <2>3. draft' = [draft EXCEPT ![a] = e]
    BY <2>1, <2>2
  <2>. QED  BY <2>3 DEF e
<1>6. Requests'
  <2>1. request' \in [Admin -> RequestType]
    BY DEF IInv, Server, Requests, Asked
  <2>2. ASSUME NEW b \in Admin PROVE Asked(request[b], roleId[b], modal[b])'
    <3>1. Asked(request'[b], roleId'[b], modal'[b])
      BY <1>1 DEF IInv, Server, Requests
    <3>. QED  BY <1>3, <3>1 DEF Asked, Past
  <2>. QED  BY <2>1, <2>2 DEF Requests
<1>7. Kept(cache)'
  <2>1. Past(cache.perms)'
    BY <1>3 DEF Past
  <2>2. CASE cache'.maker = a
    BY <1>1, <2>1, <2>2 DEF Kept
  <2>3. CASE cache'.maker \in Admin \ {a}
    <3>1. /\ cache' = cache /\ request'[cache.maker] = request[cache.maker]
          /\ request[cache.maker].at = "list" /\ request[cache.maker].perms = cache.perms
      BY <1>1, <2>3 DEF IInv, Server, Kept
    <3>. QED  BY <2>1, <3>1 DEF Kept
  <2>4. CASE cache'.maker \notin Admin
    BY <2>1, <2>4 DEF Kept
  <2>. QED  BY <2>2, <2>3, <2>4
<1>. QED  BY <1>2, <1>4, <1>5, <1>6, <1>7 DEF Server

\* The tables that OneStep does not mention.
LEMMA TablesToo ==
  ASSUME IInv, UNCHANGED <<perm, role, parentid, held>>, torn' \subseteq Admin, mixed' \subseteq Role,
         Server', Pages', \A b \in Admin : Page(b)'
  PROVE  IInv'
BY DEF IInv, Tables, Older, Born, Holds, LivePerms

\* A step of an administrator whose dialog is not shown and stays away.
Waits(a, r, q) ==
  /\ r \in Role \cup {NoRole} /\ ~modal[a]
  /\ UNCHANGED tree /\ UNCHANGED modal /\ UNCHANGED perm /\ UNCHANGED parentid
  /\ roleId' = [roleId EXCEPT ![a] = r] /\ request' = [request EXCEPT ![a] = q]
  /\ Asked(q, r, FALSE) /\ Caches(a, q)

LEMMA WaitingStep ==
  ASSUME IInv, NEW a \in Admin, NEW r, NEW q, Waits(a, r, q)
  PROVE  /\ Server' /\ Pages' /\ \A b \in Admin : Page(b)'
         /\ draft' = [draft EXCEPT ![a] =
              IF q.role # NoRole
              THEN [role |-> q.role, known |-> q.perms, set |-> q.marks, shown |-> FALSE]
              ELSE NoRole]
<1>. DEFINE u == tree[a]
            m == FALSE
<1>1. tree' = [tree EXCEPT ![a] = u] /\ modal' = [modal EXCEPT ![a] = m]
  BY DEF IInv, Pages, Waits
<1>2. Dialog(u, r, m) /\ m \in BOOLEAN /\ Asked(q, r, m)
  BY DEF IInv, Page, Dialog, Waits
<1>. HIDE DEF u, m
<1>3. Moves(a, u, r, m, q)
  BY <1>1, <1>2 DEF Moves, Waits
<1>4. /\ Server' /\ Pages' /\ \A b \in Admin : Page(b)'
      /\ draft' = [draft EXCEPT ![a] = DraftOf(u, r, m, q)]
  BY <1>3, OneStep
<1>. QED  BY <1>4 DEF DraftOf, m

\* One of an administrator whose dialog is shown, or will be.
Sees(a, u, r, q) ==
  /\ r \in Role /\ Shows(u)
  /\ tree' = [tree EXCEPT ![a] = u] /\ roleId' = [roleId EXCEPT ![a] = r]
  /\ modal' = [modal EXCEPT ![a] = TRUE] /\ request' = [request EXCEPT ![a] = q]
  /\ UNCHANGED perm /\ UNCHANGED parentid
  /\ Asked(q, r, TRUE)
  /\ cache' \in CacheType /\ Past(cache'.perms) /\ cache'.maker # a
  /\ cache'.maker \in Admin => cache' = cache

LEMMA SeeingStep ==
  ASSUME IInv, NEW a \in Admin, NEW u, NEW r, NEW q, Sees(a, u, r, q)
  PROVE  /\ Server' /\ Pages' /\ \A b \in Admin : Page(b)'
         /\ draft' = [draft EXCEPT ![a] =
                        [role |-> r, known |-> u.cached, set |-> u.checked, shown |-> TRUE]]
<1>. DEFINE m == TRUE
<1>1. Dialog(u, r, m) /\ m \in BOOLEAN /\ Asked(q, r, m) /\ modal' = [modal EXCEPT ![a] = m]
  BY DEF Dialog, Sees
<1>. HIDE DEF m
<1>2. Moves(a, u, r, m, q)
  BY <1>1 DEF Moves, Caches, Sees
<1>3. /\ Server' /\ Pages' /\ \A b \in Admin : Page(b)'
      /\ draft' = [draft EXCEPT ![a] = DraftOf(u, r, m, q)]
  BY <1>2, OneStep
<1>. QED  BY <1>3 DEF DraftOf, m

LEMMA LiveIs == Sets!Live = LivePerms
BY DEF Sets!Live, LivePerms

\* What was there at some time, for the editor of sets too.
LEMMA PastIs ==
  ASSUME NEW S \in SUBSET Node, Past(S)
  PROVE  Sets!Once(S)
BY LiveIs DEF Past, Sets!Once, Sets!Unborn, Sets!Closed

LEMMA LivePast == Past(LivePerms) /\ Past({})
BY DEF Past, LivePerms

\* The request of an administrator and the cache, as they are.
LEMMA RequestIs ==
  ASSUME IInv, NEW a \in Admin
  PROVE  /\ Asked(request[a], roleId[a], modal[a])
         /\ cache \in CacheType /\ Past(cache.perms)
         /\ cache.maker = a => request[a].at = "list" /\ request[a].perms = cache.perms
         /\ cache.maker \in Admin \cup {NoAdmin}
BY DEF IInv, Server, Requests, Kept, CacheType

LEMMA IdleIs == \A r, m : Asked(Idle, r, m) /\ Idle.role = NoRole
BY DEF Asked, Idle, RequestType, Past

\* The administrator asks: for what there is, or an older list.
LEMMA AllotPermissionAsks ==
  ASSUME IInv, NEW a \in Admin, NEW r \in Role, AllotPermission(a, r)
  PROVE  /\ IInv'
         /\ \/ Sets!Ask(a, r) \/ \E K \in SUBSET Node : Sets!AskOld(a, r, K)
            \/ \E b \in Admin : Sets!AskTorn(a, r, b)
<1>1. /\ ~modal[a] /\ request[a].at = "idle" /\ roleId' = [roleId EXCEPT ![a] = r]
      /\ UNCHANGED <<perm, role, parentid, held, cache, mixed, tree, modal>>
  BY DEF AllotPermission, tables
<1>2. cache.maker # a /\ request[a].role = NoRole
  BY <1>1, RequestIs DEF Asked
<1>3. draft[a] = NoRole
  BY <1>1, <1>2, DraftIs
<1>4. r # NoRole /\ r \in Role \cup {NoRole}
  BY RolesPageAssumption
<1>5. ASSUME NEW at \in {"query", "list"}, NEW perms \in SUBSET Node, NEW marks \in SUBSET perms,
             Past(perms), torn' \subseteq Admin,
             request' = [request EXCEPT ![a] =
                           [at |-> at, role |-> r, perms |-> perms, marks |-> marks]]
      PROVE  /\ IInv'
             /\ draft' = [draft EXCEPT ![a] =
                            [role |-> r, known |-> perms, set |-> marks, shown |-> FALSE]]
  <2>. DEFINE q == [at |-> at, role |-> r, perms |-> perms, marks |-> marks]
  <2>1. Asked(q, r, FALSE) /\ q.role = r /\ q.perms = perms /\ q.marks = marks
    BY <1>4, <1>5 DEF Asked, RequestType
  <2>2. request' = [request EXCEPT ![a] = q]
    BY <1>5
  <2>3. /\ cache' \in CacheType /\ Past(cache'.perms) /\ cache'.maker # a /\ cache' = cache
    BY <1>1, <1>2, RequestIs
  <2>. HIDE DEF q
  <2>4. /\ Server' /\ Pages' /\ \A b \in Admin : Page(b)'
        /\ draft' = [draft EXCEPT ![a] =
             IF q.role # NoRole
             THEN [role |-> q.role, known |-> q.perms, set |-> q.marks, shown |-> FALSE]
             ELSE NoRole]
    <3>1. Waits(a, r, q)
      BY <1>1, <1>4, <2>1, <2>2, <2>3 DEF Waits, Caches
    <3>. QED  BY <3>1, WaitingStep
  <2>5. IInv'
    <3>1. mixed' \subseteq Role
      BY <1>1 DEF IInv, Tables
    <3>. QED  BY <1>1, <1>5, <2>4, <3>1, TablesToo
  <2>. QED  BY <1>4, <2>1, <2>4, <2>5
<1>6. torn \subseteq Admin
  BY DEF IInv, Tables
<1>7. CASE role[r] # "live"
  <2>1. /\ request' = [request EXCEPT ![a] =
                         [at |-> "list", role |-> r, perms |-> {}, marks |-> {}]]
        /\ torn' = torn
    BY <1>7 DEF AllotPermission, Idle
  <2>2. IInv' /\ draft' = [draft EXCEPT ![a] =
                             [role |-> r, known |-> {}, set |-> {}, shown |-> FALSE]]
    BY <1>5, <1>6, <2>1, LivePast
  <2>3. Sets!AskOld(a, r, {})
    BY <1>1, <1>3, <2>1, <2>2, PastIs, LivePast DEF Sets!AskOld, Sets!tables, draft, DraftOf
  <2>. QED  BY <2>2, <2>3
<1>8. CASE role[r] = "live" /\ ~cache.filled
  <2>1. /\ request' = [request EXCEPT ![a] =
                         [at |-> "query", role |-> r, perms |-> LivePerms, marks |-> held[r]]]
        /\ torn' = torn
    BY <1>8 DEF AllotPermission, FindAll
  <2>2. LivePerms \in SUBSET Node /\ held[r] \in SUBSET LivePerms
    BY DEF IInv, Holds, LivePerms
  <2>3. IInv' /\ draft' = [draft EXCEPT ![a] =
                             [role |-> r, known |-> LivePerms, set |-> held[r], shown |-> FALSE]]
    BY <1>5, <1>6, <2>1, <2>2, LivePast
  <2>4. Sets!Ask(a, r)
    BY <1>1, <1>3, <1>8, <2>1, <2>3, LiveIs DEF Sets!Ask, Sets!tables, draft, DraftOf
  <2>. QED  BY <2>3, <2>4
<1>9. CASE role[r] = "live" /\ cache.filled /\ cache.maker = NoAdmin
  <2>1. PICK K \in SUBSET Node : K = cache.perms
    BY RequestIs DEF CacheType
  <2>2. /\ request' = [request EXCEPT ![a] =
                         [at |-> "list", role |-> r, perms |-> K, marks |-> {}]]
        /\ torn' = torn
    BY <1>9, <2>1 DEF AllotPermission, FindAll
  <2>3. Past(K)
    BY <2>1, RequestIs
  <2>4. IInv' /\ draft' = [draft EXCEPT ![a] =
                             [role |-> r, known |-> K, set |-> {}, shown |-> FALSE]]
    BY <1>5, <1>6, <2>2, <2>3
  <2>5. Sets!Once(K)
    BY <2>3, PastIs
  <2>6. Sets!AskOld(a, r, K)
    BY <1>1, <1>3, <2>2, <2>4, <2>5 DEF Sets!AskOld, Sets!tables, draft, DraftOf
  <2>. QED  BY <2>4, <2>6
<1>10. CASE role[r] = "live" /\ cache.filled /\ cache.maker # NoAdmin
  <2>1. PICK b \in Admin : b = cache.maker
    BY <1>10, RequestIs
  <2>. DEFINE q == request[b]
  <2>2. /\ request' = [request EXCEPT ![a] =
                         [at |-> "list", role |-> r, perms |-> cache.perms, marks |-> q.marks]]
        /\ torn' = torn \cup {a, b}
    BY <1>10, <2>1 DEF AllotPermission, FindAll
  <2>3. /\ Asked(q, roleId[b], modal[b]) /\ q.at = "list" /\ q.perms = cache.perms
    BY <2>1, RequestIs
  <2>4. /\ ~modal[b] /\ q.role # NoRole /\ q.marks \subseteq q.perms
        /\ Past(cache.perms) /\ cache.perms \in SUBSET Node
    BY <2>3 DEF Asked, RequestType
  <2>5. draft[b] = [role |-> q.role, known |-> q.perms, set |-> q.marks, shown |-> FALSE]
    BY <2>4 DEF draft, DraftOf
  <2>6. draft[b] # NoRole
    BY <2>4, DraftIs
  <2>. HIDE DEF q
  <2>7. IInv' /\ draft' = [draft EXCEPT ![a] =
                             [role |-> r, known |-> cache.perms, set |-> q.marks, shown |-> FALSE]]
    BY <1>5, <1>6, <2>2, <2>3, <2>4
  <2>8. [draft[b] EXCEPT !.role = r] =
          [role |-> r, known |-> cache.perms, set |-> q.marks, shown |-> FALSE]
    <3>. DEFINE d == draft[b]
    <3>1. d \in Sets!Draft
      BY <2>6, DraftIs
    <3>2. d.known = cache.perms /\ d.set = q.marks /\ d.shown = FALSE
      BY <2>3, <2>5
    <3>. HIDE DEF d
    <3>3. [d EXCEPT !.role = r] =
            [role |-> r, known |-> d.known, set |-> d.set, shown |-> d.shown]
      BY <3>1 DEF Sets!Draft
    <3>. QED  BY <3>2, <3>3 DEF d
  <2>9. draft' = [draft EXCEPT ![a] = [draft[b] EXCEPT !.role = r]] /\ ~draft[b].shown
    BY <2>5, <2>7, <2>8
  <2>10. Sets!AskTorn(a, r, b)
    BY <1>1, <1>3, <2>2, <2>6, <2>9 DEF Sets!AskTorn, Sets!tables, draft, DraftOf
  <2>. QED  BY <2>7, <2>10
<1>. QED  BY <1>7, <1>8, <1>9, <1>10

\* A step of a request that the editor of sets does not see.
Hides(a, q) ==
  /\ request' = [request EXCEPT ![a] = q] /\ Asked(q, roleId[a], modal[a])
  /\ q.role = request[a].role
  /\ q.role # NoRole => q.perms = request[a].perms /\ q.marks = request[a].marks
  /\ UNCHANGED <<perm, role, parentid, held, torn, mixed, tree, roleId, modal>>
  /\ Caches(a, q)

LEMMA Unseen ==
  ASSUME IInv, NEW a \in Admin, NEW q, Hides(a, q)
  PROVE  IInv' /\ UNCHANGED Sets!vars
<1>. DEFINE u == tree[a]
            r == roleId[a]
            m == modal[a]
<1>1. /\ tree' = [tree EXCEPT ![a] = u] /\ roleId' = [roleId EXCEPT ![a] = r]
      /\ modal' = [modal EXCEPT ![a] = m] /\ Dialog(u, r, m)
      /\ r \in Role \cup {NoRole} /\ m \in BOOLEAN
  BY DEF IInv, Pages, Page, Hides
<1>2. DraftOf(u, r, m, q) = draft[a] /\ draft = [b \in Admin |-> draft[b]]
  BY DEF DraftOf, draft, Hides
<1>3. Asked(q, r, m)
  BY DEF Hides
<1>. HIDE DEF u, r, m, draft
<1>4. Moves(a, u, r, m, q)
  BY <1>1, <1>3 DEF Moves, Hides
<1>5. /\ Server' /\ Pages' /\ \A b \in Admin : Page(b)'
      /\ draft' = [draft EXCEPT ![a] = DraftOf(u, r, m, q)]
  BY <1>4, OneStep
<1>6. draft' = draft
  BY <1>2, <1>5
<1>7. UNCHANGED <<perm, role, parentid, held>> /\ torn' = torn /\ mixed' = mixed
  BY DEF Hides
<1>8. IInv'
  <2>1. torn' \subseteq Admin /\ mixed' \subseteq Role
    BY <1>7 DEF IInv, Tables
  <2>. QED  BY <1>5, <1>7, <2>1, TablesToo
<1>9. UNCHANGED Sets!vars
  BY <1>6, <1>7 DEF Sets!vars, Sets!tables, draft, DraftOf
<1>. QED  BY <1>8, <1>9

LEMMA PutStutters ==
  ASSUME IInv, NEW a \in Admin, CachePut(a)
  PROVE  IInv' /\ UNCHANGED Sets!vars
<1>1. UNCHANGED <<perm, role, parentid, held, torn, mixed, tree, roleId, modal>>
  BY DEF CachePut, tables
<1>2. Asked(request[a], roleId[a], modal[a]) /\ request[a] \in RequestType
  BY RequestIs DEF Asked
<1>3. CASE request[a].role = NoRole
  <2>. DEFINE q == Idle
              e == [filled |-> TRUE, perms |-> request[a].perms, maker |-> NoAdmin]
  <2>1. cache' = e /\ request' = [request EXCEPT ![a] = q]
    BY <1>3 DEF CachePut
  <2>2. Asked(q, roleId[a], modal[a]) /\ q.role = NoRole
    BY IdleIs
  <2>3. e \in CacheType /\ Past(e.perms) /\ e.maker \notin Admin
    BY <1>2, RolesPageAssumption DEF Asked, RequestType, CacheType
  <2>. HIDE DEF q, e
  <2>4. Hides(a, q)
    BY <1>1, <1>3, <2>1, <2>2, <2>3 DEF Hides, Caches
  <2>. QED  BY <2>4, Unseen
<1>4. CASE request[a].role # NoRole
  <2>. DEFINE q == [request[a] EXCEPT !.at = "list"]
              e == [filled |-> TRUE, perms |-> request[a].perms, maker |-> a]
  <2>1. cache' = e /\ request' = [request EXCEPT ![a] = q]
    BY <1>4 DEF CachePut
  <2>2. /\ Asked(q, roleId[a], modal[a]) /\ q.role = request[a].role
        /\ q.perms = request[a].perms /\ q.marks = request[a].marks /\ q.at = "list"
    BY <1>2, <1>4 DEF Asked, RequestType
  <2>3. e \in CacheType /\ Past(e.perms) /\ e.maker = a /\ e.perms = request[a].perms
    BY <1>2 DEF Asked, RequestType, CacheType
  <2>. HIDE DEF q, e
  <2>4. Hides(a, q)
    BY <1>1, <1>4, <2>1, <2>2, <2>3 DEF Hides, Caches
  <2>. QED  BY <2>4, Unseen
<1>. QED  BY <1>3, <1>4

LEMMA CacheExpiresStutters ==
  ASSUME IInv, CacheExpires
  PROVE  IInv' /\ UNCHANGED Sets!vars
<1>1. /\ cache' = NoList
      /\ UNCHANGED <<perm, role, parentid, held, request, torn, mixed, tree, roleId, modal>>
  BY DEF CacheExpires, tables
<1>2. Server'
  <2>1. Requests'
    BY <1>1 DEF IInv, Server, Requests, Asked, Past, LivePerms
  <2>2. Kept(NoList)'
    BY RolesPageAssumption DEF Kept, NoList, CacheType, Past
  <2>. QED  BY <1>1, <2>1, <2>2 DEF Server, Kept, Past, LivePerms
<1>3. Pages' /\ \A b \in Admin : Page(b)'
  BY <1>1 DEF IInv, Pages, Page, Dialog, Shows
<1>4. IInv'
  <2>1. torn' \subseteq Admin /\ mixed' \subseteq Role
    BY <1>1 DEF IInv, Tables
  <2>. QED  BY <1>1, <1>2, <1>3, <2>1, TablesToo
<1>. QED  BY <1>1, <1>4 DEF Sets!vars, Sets!tables

\* The answer shows some of the list.
LEMMA AnswerShows ==
  ASSUME IInv, NEW a \in Admin, NEW perms \in SUBSET Node, NEW checked \in SUBSET perms,
         Past(perms), request[a].role # NoRole, Answer(a, perms, checked)
  PROVE  /\ IInv'
         /\ draft[a] = [role |-> request[a].role, known |-> request[a].perms,
                        set |-> request[a].marks, shown |-> FALSE]
         /\ draft' = [draft EXCEPT ![a] =
                        [role |-> request[a].role, known |-> perms, set |-> checked, shown |-> TRUE]]
<1>. DEFINE u == Opened(perms, checked)
            r == request[a].role
            q == Idle
<1>1. /\ tree' = [tree EXCEPT ![a] = u] /\ modal' = [modal EXCEPT ![a] = TRUE]
      /\ request' = [request EXCEPT ![a] = q]
      /\ UNCHANGED <<perm, role, parentid, held, torn, mixed, roleId>>
      /\ cache' = IF cache.maker = a THEN [cache EXCEPT !.maker = NoAdmin] ELSE cache
  BY DEF Answer, RequestEnds, tables
<1>2. Shows(u) /\ u.cached = perms /\ u.checked = checked
  <2>1. parentid \in [Node -> Node \cup {Root}] /\ Older
    BY DEF IInv, Tables
  <2>. QED  BY <2>1, OpenedShows DEF Opened
<1>3. Asked(request[a], roleId[a], modal[a])
  BY RequestIs
<1>4. r \in Role /\ roleId[a] = r /\ ~modal[a]
  BY <1>3 DEF Asked, RequestType
<1>5. roleId' = [roleId EXCEPT ![a] = r]
  BY <1>1, <1>4 DEF IInv, Pages
<1>6. /\ cache' \in CacheType /\ Past(cache'.perms) /\ cache'.maker # a
      /\ cache'.maker \in Admin => cache' = cache
  <2>1. cache \in CacheType /\ Past(cache.perms)
    BY RequestIs
  <2>2. CASE cache.maker = a
    BY <1>1, <2>1, <2>2, RolesPageAssumption DEF CacheType
  <2>3. CASE cache.maker # a
    BY <1>1, <2>1, <2>3
  <2>. QED  BY <2>2, <2>3
<1>7. Asked(q, r, TRUE)
  BY IdleIs
<1>8. draft[a] = [role |-> r, known |-> request[a].perms, set |-> request[a].marks, shown |-> FALSE]
  BY <1>4 DEF draft, DraftOf
<1>. HIDE DEF u, r, q
<1>9. /\ Server' /\ Pages' /\ \A b \in Admin : Page(b)'
      /\ draft' = [draft EXCEPT ![a] =
                     [role |-> r, known |-> u.cached, set |-> u.checked, shown |-> TRUE]]
  <2>1. Sees(a, u, r, q)
    BY <1>1, <1>2, <1>4, <1>5, <1>6, <1>7 DEF Sees
  <2>. QED  BY <2>1, SeeingStep
<1>10. IInv'
  <2>1. torn' \subseteq Admin /\ mixed' \subseteq Role
    BY <1>1 DEF IInv, Tables
  <2>. QED  BY <1>1, <1>9, <2>1, TablesToo
<1>. QED  BY <1>2, <1>8, <1>9, <1>10 DEF r

\* What a draft becomes, field by field.
LEMMA Redrafted ==
  ASSUME NEW d \in Sets!Draft, NEW K \in SUBSET Node, NEW S \in SUBSET Node, NEW b \in BOOLEAN
  PROVE  /\ [d EXCEPT !.known = K] =
              [role |-> d.role, known |-> K, set |-> d.set, shown |-> d.shown]
         /\ [d EXCEPT !.set = S] =
              [role |-> d.role, known |-> d.known, set |-> S, shown |-> d.shown]
         /\ [d EXCEPT !.shown = b] =
              [role |-> d.role, known |-> d.known, set |-> d.set, shown |-> b]
BY DEF Sets!Draft

LEMMA RedraftedShown ==
  ASSUME NEW d \in Sets!Draft, NEW S \in SUBSET Node, NEW b \in BOOLEAN
  PROVE  [[d EXCEPT !.set = S] EXCEPT !.shown = b] =
           [role |-> d.role, known |-> d.known, set |-> S, shown |-> b]
<1>. DEFINE e == [d EXCEPT !.set = S]
<1>1. e = [role |-> d.role, known |-> d.known, set |-> S, shown |-> d.shown]
  BY Redrafted
<1>. HIDE DEF e
<1>2. e \in Sets!Draft /\ e.role = d.role /\ e.known = d.known /\ e.set = S
  BY <1>1 DEF Sets!Draft
<1>3. [e EXCEPT !.shown = b] = [role |-> d.role, known |-> d.known, set |-> S, shown |-> b]
  BY <1>2, Redrafted
<1>. QED  BY <1>3 DEF e

LEMMA AnswerListShows ==
  ASSUME IInv, NEW a \in Admin, AnswerList(a)
  PROVE  IInv' /\ Sets!Show(a)
<1>1. PICK checked \in SUBSET request[a].marks :
        /\ a \in torn \/ checked = request[a].marks
        /\ Answer(a, request[a].perms, checked)
  BY DEF AnswerList
<1>. DEFINE q == request[a]
<1>2. Asked(q, roleId[a], modal[a]) /\ q.at = "list"
  BY RequestIs DEF AnswerList
<1>3. /\ q.role # NoRole /\ q.perms \in SUBSET Node /\ Past(q.perms) /\ q.marks \subseteq q.perms
  BY <1>2 DEF Asked, RequestType
<1>4. checked \in SUBSET q.perms
  BY <1>1, <1>3
<1>5. /\ IInv'
      /\ draft[a] = [role |-> q.role, known |-> q.perms, set |-> q.marks, shown |-> FALSE]
      /\ draft' = [draft EXCEPT ![a] =
                     [role |-> q.role, known |-> q.perms, set |-> checked, shown |-> TRUE]]
  BY <1>1, <1>3, <1>4, AnswerShows
<1>6. draft[a] # NoRole
  BY <1>3, DraftIs
<1>7. UNCHANGED <<perm, role, parentid, held, torn, mixed>>
  BY <1>1 DEF Answer, tables
<1>. HIDE DEF q
<1>8. draft' = [draft EXCEPT ![a].set = checked, ![a].shown = TRUE]
  <2>1. [[draft[a] EXCEPT !.set = checked] EXCEPT !.shown = TRUE] =
          [role |-> q.role, known |-> q.perms, set |-> checked, shown |-> TRUE]
    <3>. DEFINE d == draft[a]
    <3>1. d.role = q.role /\ d.known = q.perms
      BY <1>5
    <3>2. d \in Sets!Draft /\ checked \in SUBSET Node
      BY <1>3, <1>4, <1>6, DraftIs DEF q
    <3>. HIDE DEF d
    <3>3. [[d EXCEPT !.set = checked] EXCEPT !.shown = TRUE] =
            [role |-> d.role, known |-> d.known, set |-> checked, shown |-> TRUE]
      BY <3>2, RedraftedShown
    <3>. QED  BY <3>1, <3>3 DEF d
  <2>2. draft \in [Admin -> Sets!Draft \cup {NoRole}]
    BY DraftIs
  <2>. HIDE DEF draft
  <2>. QED  BY <1>5, <2>1, <2>2
<1>9. checked \in SUBSET draft[a].set /\ (a \in torn \/ checked = draft[a].set) /\ ~draft[a].shown
  BY <1>1, <1>5 DEF q
<1>10. Sets!Show(a)
  BY <1>6, <1>7, <1>8, <1>9 DEF Sets!Show, Sets!tables, draft, DraftOf
<1>. QED  BY <1>5, <1>10

LEMMA AnswerErrorShowsNothing ==
  ASSUME IInv, NEW a \in Admin, AnswerError(a)
  PROVE  IInv' /\ Sets!ShowNothing(a)
<1>. DEFINE q == request[a]
<1>1. q.role # NoRole /\ Answer(a, {}, {})
  BY DEF AnswerError
<1>2. /\ IInv'
      /\ draft[a] = [role |-> q.role, known |-> q.perms, set |-> q.marks, shown |-> FALSE]
      /\ draft' = [draft EXCEPT ![a] =
                     [role |-> q.role, known |-> {}, set |-> {}, shown |-> TRUE]]
  <2>1. {} \in SUBSET Node /\ {} \in SUBSET {} /\ Past({})
    BY LivePast
  <2>. QED  BY <1>1, <2>1, AnswerShows
<1>3. draft[a] # NoRole
  BY <1>1, DraftIs
<1>4. UNCHANGED <<perm, role, parentid, held, torn, mixed>>
  BY <1>1 DEF Answer, tables
<1>. HIDE DEF q
<1>5. draft' = [draft EXCEPT ![a].known = {}, ![a].set = {}, ![a].shown = TRUE]
  <2>1. [[[draft[a] EXCEPT !.known = {}] EXCEPT !.set = {}] EXCEPT !.shown = TRUE] =
          [role |-> q.role, known |-> {}, set |-> {}, shown |-> TRUE]
    <3>. DEFINE d == draft[a]
                e == [d EXCEPT !.known = {}]
    <3>1. d.role = q.role
      BY <1>2
    <3>2. d \in Sets!Draft
      BY <1>3, DraftIs
    <3>. HIDE DEF d
    <3>3. e = [role |-> d.role, known |-> {}, set |-> d.set, shown |-> d.shown]
      BY <3>2, Redrafted
    <3>. HIDE DEF e
    <3>4. e \in Sets!Draft /\ e.role = d.role /\ e.known = {}
      BY <3>2, <3>3 DEF Sets!Draft
    <3>5. [[e EXCEPT !.set = {}] EXCEPT !.shown = TRUE] =
            [role |-> e.role, known |-> e.known, set |-> {}, shown |-> TRUE]
      BY <3>4, RedraftedShown
    <3>. QED  BY <3>1, <3>4, <3>5 DEF d, e
  <2>2. draft \in [Admin -> Sets!Draft \cup {NoRole}]
    BY DraftIs
  <2>. HIDE DEF draft
  <2>. QED  BY <1>2, <2>1, <2>2
<1>6. ~draft[a].shown
  BY <1>2
<1>7. Sets!ShowNothing(a)
  BY <1>3, <1>4, <1>5, <1>6 DEF Sets!ShowNothing, Sets!tables, draft, DraftOf
<1>. QED  BY <1>2, <1>7

LEMMA AnswerLostDrops ==
  ASSUME IInv, NEW a \in Admin, AnswerLost(a)
  PROVE  IInv' /\ Sets!Drop(a)
<1>. DEFINE q == Idle
<1>1. /\ request' = [request EXCEPT ![a] = q] /\ roleId' = [roleId EXCEPT ![a] = NoRole]
      /\ torn' = torn \ {a} /\ UNCHANGED <<perm, role, parentid, held, mixed, tree, modal>>
      /\ cache' = IF cache.maker = a THEN [cache EXCEPT !.maker = NoAdmin] ELSE cache
      /\ request[a].role # NoRole
  BY DEF AnswerLost, RequestEnds, tables
<1>2. ~modal[a]
  BY <1>1, RequestIs DEF Asked
<1>3. /\ cache' \in CacheType /\ Past(cache'.perms) /\ cache'.maker # a
      /\ cache'.maker \in Admin => cache' = cache
  <2>1. cache \in CacheType /\ Past(cache.perms)
    BY RequestIs
  <2>2. CASE cache.maker = a
    BY <1>1, <2>1, <2>2, RolesPageAssumption DEF CacheType
  <2>3. CASE cache.maker # a
    BY <1>1, <2>1, <2>3
  <2>. QED  BY <2>2, <2>3
<1>4. Asked(q, NoRole, FALSE) /\ q.role = NoRole
  BY IdleIs
<1>. HIDE DEF q
<1>5. /\ Server' /\ Pages' /\ \A b \in Admin : Page(b)'
      /\ draft' = [draft EXCEPT ![a] =
           IF q.role # NoRole
           THEN [role |-> q.role, known |-> q.perms, set |-> q.marks, shown |-> FALSE]
           ELSE NoRole]
  <2>1. Waits(a, NoRole, q)
    BY <1>1, <1>2, <1>3, <1>4 DEF Waits, Caches
  <2>. QED  BY <2>1, WaitingStep
<1>6. draft' = [draft EXCEPT ![a] = NoRole]
  BY <1>4, <1>5
<1>7. IInv'
  <2>1. torn' \subseteq Admin /\ mixed' \subseteq Role
    BY <1>1 DEF IInv, Tables
  <2>. QED  BY <1>1, <1>5, <2>1, TablesToo
<1>8. Sets!Drop(a)
  BY <1>1, <1>6 DEF Sets!Drop, Sets!tables, draft, DraftOf
<1>. QED  BY <1>7, <1>8

\* The request of an administrator whose dialog is shown has no role, and its
\* list is not the one in the cache.
LEMMA ShownRequest ==
  ASSUME IInv, NEW a \in Admin, modal[a]
  PROVE  /\ request[a].role = NoRole /\ cache.maker # a
         /\ \A r, m : Asked(request[a], r, m)
BY RequestIs DEF Asked

LEMMA ClickBoxEdits ==
  ASSUME IInv, NEW a \in Admin, NEW n \in Node, ClickBox(a, n)
  PROVE  IInv' /\ (Sets!Grant(a, n) \/ Sets!Revoke(a, n))
<1>. DEFINE t == tree[a]
            u == ToggleCheck(t, n)
            d == draft[a]
            q == request[a]
            r == roleId[a]
<1>1. /\ modal[a] /\ HasBox(t, n)
      /\ UNCHANGED <<perm, role, parentid, held, cache, request, torn, mixed, roleId, modal>>
      /\ tree' = [tree EXCEPT ![a] = u]
  BY DEF ClickBox, server, tables
<1>2. Shows(t) /\ r \in Role
  BY <1>1 DEF IInv, Page, Dialog
<1>. HIDE DEF t
<1>3. /\ Shows(u) /\ n \in t.cached /\ u.cached = t.cached
      /\ u.checked = IF n \in t.checked THEN t.checked \ Sets!Down(n, t.cached)
                                        ELSE t.checked \cup Sets!Up(n, t.cached)
  BY <1>1, <1>2, ClickedShows
<1>. HIDE DEF u
<1>4. /\ roleId' = [roleId EXCEPT ![a] = r] /\ modal' = [modal EXCEPT ![a] = TRUE]
      /\ request' = [request EXCEPT ![a] = q]
  BY <1>1 DEF IInv, Pages, Server, Requests
<1>5. /\ Server' /\ Pages' /\ \A b \in Admin : Page(b)'
      /\ draft' = [draft EXCEPT ![a] =
                     [role |-> r, known |-> u.cached, set |-> u.checked, shown |-> TRUE]]
  <2>1. /\ Asked(q, r, TRUE) /\ cache' \in CacheType /\ Past(cache'.perms) /\ cache'.maker # a
        /\ cache' = cache
    BY <1>1, ShownRequest, RequestIs
  <2>. HIDE DEF r, q
  <2>2. Sees(a, u, r, q)
    BY <1>1, <1>2, <1>3, <1>4, <2>1 DEF Sees
  <2>. QED  BY <2>2, SeeingStep
<1>6. IInv'
  <2>1. torn' \subseteq Admin /\ mixed' \subseteq Role
    BY <1>1 DEF IInv, Tables
  <2>. QED  BY <1>1, <1>5, <2>1, TablesToo
<1>7. d = [role |-> r, known |-> t.cached, set |-> t.checked, shown |-> TRUE]
  BY <1>1 DEF draft, DraftOf, t
<1>8. d # NoRole /\ draft \in [Admin -> Sets!Draft \cup {NoRole}]
  BY <1>1, DraftIs
<1>. HIDE DEF d, r
<1>9. d.known = t.cached /\ d.set = t.checked /\ d.role = r /\ d.shown
  BY <1>7
<1>10. [d EXCEPT !.set = u.checked] =
         [role |-> r, known |-> t.cached, set |-> u.checked, shown |-> TRUE]
  <2>1. d \in Sets!Draft
    BY <1>8 DEF d
  <2>2. u.checked \in SUBSET Node
    BY <1>3 DEF Shows, Sound, Agree, Tree
  <2>. QED  BY <1>9, <2>1, <2>2, Redrafted
<1>11. draft' = [draft EXCEPT ![a] = [d EXCEPT !.set = u.checked]]
  BY <1>3, <1>5, <1>10
<1>12. CASE n \in t.checked
  <2>1. draft' = [draft EXCEPT ![a] = [d EXCEPT !.set = d.set \ Sets!Down(n, d.known)]]
    BY <1>3, <1>9, <1>11, <1>12
  <2>2. draft' = [draft EXCEPT ![a].set = @ \ Sets!Down(n, draft[a].known)]
    BY <2>1 DEF d
  <2>. QED
    BY <1>1, <1>6, <1>8, <1>9, <1>12, <2>2
    DEF Sets!Revoke, Sets!Shown, Sets!tables, draft, DraftOf, d
<1>13. CASE n \notin t.checked
  <2>1. draft' = [draft EXCEPT ![a] = [d EXCEPT !.set = d.set \cup Sets!Up(n, d.known)]]
    BY <1>3, <1>9, <1>11, <1>13
  <2>2. draft' = [draft EXCEPT ![a].set = @ \cup Sets!Up(n, draft[a].known)]
    BY <2>1 DEF d
  <2>. QED
    BY <1>1, <1>3, <1>6, <1>8, <1>9, <1>13, <2>2
    DEF Sets!Grant, Sets!Shown, Sets!tables, draft, DraftOf, d
<1>. QED  BY <1>12, <1>13

\* The dialog is hidden, whatever happens to the tables of what is held.
LEMMA HiddenPage ==
  ASSUME IInv, NEW a \in Admin, modal[a], Hide(a), UNCHANGED <<perm, parentid, cache, request>>
  PROVE  /\ Server' /\ Pages' /\ \A b \in Admin : Page(b)'
         /\ draft' = [draft EXCEPT ![a] = NoRole]
<1>. DEFINE q == request[a]
            u == EmptyTree(PageSetting)
            m == FALSE
<1>1. /\ roleId' = [roleId EXCEPT ![a] = NoRole] /\ request' = [request EXCEPT ![a] = q]
      /\ tree' = [tree EXCEPT ![a] = u] /\ modal' = [modal EXCEPT ![a] = m]
  BY DEF Hide, IInv, Server, Requests
<1>2. /\ Asked(q, NoRole, m) /\ cache' \in CacheType /\ Past(cache'.perms) /\ cache'.maker # a
      /\ cache' = cache /\ q.role = NoRole
  BY ShownRequest, RequestIs
<1>3. Dialog(u, NoRole, m) /\ m \in BOOLEAN /\ NoRole \in Role \cup {NoRole}
  BY DEF Dialog
<1>4. DraftOf(u, NoRole, m, q) = NoRole
  BY <1>2 DEF DraftOf
<1>. HIDE DEF q, u, m
<1>5. Moves(a, u, NoRole, m, q)
  BY <1>1, <1>2, <1>3 DEF Moves, Caches
<1>. QED  BY <1>4, <1>5, OneStep

LEMMA SaveCommits ==
  ASSUME IInv, NEW a \in Admin, SaveRolePermission(a)
  PROVE  IInv' /\ Sets!Commit(a)
<1>. DEFINE t == tree[a]
            r == roleId[a]
<1>1. /\ modal[a] /\ role[r] = "live" /\ Hide(a) /\ Mixes(a)
      /\ UNCHANGED <<perm, role, parentid, cache, request>>
      /\ held' = [held EXCEPT ![r] = GetCheckedNodes(t) \cap LivePerms]
  BY DEF SaveRolePermission
<1>2. Shows(t) /\ r \in Role
  BY <1>1 DEF IInv, Page, Dialog
<1>3. GetCheckedNodes(t) = t.checked
  <2>1. Under(t, Root) = t.cached
    BY <1>2, AllUnderRoot DEF Shows, Sound
  <2>. QED  BY <1>2, <2>1 DEF GetCheckedNodes, InTree, Shows
<1>4. /\ Server' /\ Pages' /\ \A b \in Admin : Page(b)'
      /\ draft' = [draft EXCEPT ![a] = NoRole]
  BY <1>1, HiddenPage
<1>5. held' = [held EXCEPT ![r] = t.checked \cap LivePerms]
  BY <1>1, <1>3
<1>6. torn' = torn \ {a} /\ mixed' = IF a \in torn THEN mixed \cup {r} ELSE mixed
  BY <1>1 DEF Hide, Mixes
<1>. HIDE DEF t
<1>7. Tables' /\ Holds' /\ Older' /\ Born'
  BY <1>1, <1>2, <1>5, <1>6 DEF IInv, Tables, Holds, Older, Born, LivePerms
<1>8. draft[a] = [role |-> r, known |-> t.cached, set |-> t.checked, shown |-> TRUE]
  BY <1>1 DEF draft, DraftOf, t
<1>9. draft[a] # NoRole /\ draft[a].role = r /\ draft[a].set = t.checked /\ draft[a].shown
  <2>1. draft[a] # NoRole
    BY <1>1, DraftIs
  <2>. DEFINE d == draft[a]
  <2>2. d = [role |-> r, known |-> t.cached, set |-> t.checked, shown |-> TRUE]
    BY <1>8
  <2>. HIDE DEF d, r
  <2>3. d.role = r /\ d.set = t.checked /\ d.shown
    BY <2>2
  <2>. QED  BY <2>1, <2>3 DEF d
<1>10. Sets!Commit(a)
  <2>1. /\ Sets!Shown(a) /\ role[draft[a].role] = "live"
        /\ held' = [held EXCEPT ![draft[a].role] = draft[a].set \cap Sets!Live]
        /\ mixed' = IF a \in torn THEN mixed \cup {draft[a].role} ELSE mixed
    BY <1>1, <1>5, <1>6, <1>9, LiveIs DEF Sets!Shown, draft, DraftOf
  <2>. QED  BY <1>1, <1>4, <1>6, <2>1 DEF Sets!Commit, draft, DraftOf
<1>. QED  BY <1>4, <1>7, <1>10 DEF IInv

LEMMA DialogClosesDrops ==
  ASSUME IInv, NEW a \in Admin, DialogCloses(a)
  PROVE  IInv' /\ Sets!Drop(a)
<1>1. modal[a] /\ Hide(a) /\ UNCHANGED <<perm, role, parentid, held, cache, request, mixed>>
  BY DEF DialogCloses, server, tables
<1>2. /\ Server' /\ Pages' /\ \A b \in Admin : Page(b)'
      /\ draft' = [draft EXCEPT ![a] = NoRole]
  BY <1>1, HiddenPage
<1>3. torn' = torn \ {a}
  BY <1>1 DEF Hide
<1>4. torn' \subseteq Admin /\ mixed' \subseteq Role
  BY <1>1, <1>3 DEF IInv, Tables
<1>5. IInv'
  BY <1>1, <1>2, <1>4, TablesToo
<1>6. Sets!Drop(a)
  BY <1>1, <1>2, <1>3 DEF Sets!Drop, Sets!tables, draft, DraftOf
<1>. QED  BY <1>5, <1>6

-----------------------------------------------------------------------------
(* The tables.                                                             *)

\* The pages, the requests and the cache do not mind what is added or deleted.
LEMMA PagesStay ==
  ASSUME IInv, UNCHANGED <<cache, tree, roleId, modal>>,
         \A q \in Node : perm[q] # "none" => perm'[q] # "none" /\ parentid'[q] = parentid[q],
         \A S \in SUBSET Node : Past(S) => Past(S)',
         request' \in [Admin -> RequestType],
         \A b \in Admin :
           \/ request'[b] = request[b]
           \/ request[b].at = "idle" /\ request'[b] = [request[b] EXCEPT !.at = "update"]
  PROVE  Server' /\ Pages' /\ (\A b \in Admin : Page(b)') /\ draft' = draft
<1>1. ASSUME NEW t, Shows(t) PROVE Shows(t)'
  <2>1. t.cached \subseteq Node
    BY <1>1 DEF Shows, Sound, Agree, Tree
  <2>2. \A q \in t.cached :
          /\ perm'[q] # "none"
          /\ t.parent[q] = IF parentid'[q] \in t.cached THEN parentid'[q] ELSE Root
    BY <1>1, <2>1 DEF Shows
  <2>. QED  BY <1>1, <2>2 DEF Shows
<1>2. ASSUME NEW b \in Admin PROVE Page(b)'
  <2>1. /\ IF modal[b] THEN Shows(tree[b]) /\ roleId[b] \in Role ELSE tree[b] = EmptyTree(PageSetting)
        /\ tree'[b] = tree[b] /\ roleId'[b] = roleId[b] /\ modal'[b] = modal[b]
    BY DEF IInv, Page, Dialog
  <2>2. Shows(tree[b]) => Shows(tree[b])'
    <3>1. \A t : Shows(t) => Shows(t)'
      BY <1>1
    <3>2. UNCHANGED tree
      OBVIOUS
    <3>. QED  BY <1>1, <3>2 DEF Shows
  <2>. QED  BY <2>1, <2>2 DEF Page, Dialog
<1>3. \A b \in Admin :
        /\ request[b] \in RequestType
        /\ request'[b].role = request[b].role
        /\ request'[b].perms = request[b].perms
        /\ request'[b].marks = request[b].marks
        /\ (request[b].at # "idle" => request'[b].at = request[b].at)
        /\ (request'[b].at = "list" => request[b].at = "list")
  BY DEF IInv, Server, Requests, RequestType
<1>4. Pages'
  BY DEF IInv, Pages
<1>5. draft' = draft
  <2>1. \A b \in Admin : draft'[b] = draft[b]
    BY <1>3 DEF draft, DraftOf
  <2>2. draft = [b \in Admin |-> draft[b]] /\ draft' = [b \in Admin |-> draft'[b]]
    BY DEF draft
  <2>. HIDE DEF draft
  <2>. QED  BY <2>1, <2>2
<1>6. Requests'
  <2>1. ASSUME NEW b \in Admin PROVE Asked(request[b], roleId[b], modal[b])'
    <3>1. Asked(request[b], roleId[b], modal[b]) /\ request'[b] \in RequestType
      BY DEF IInv, Server, Requests
    <3>2. request[b].perms \in SUBSET Node
      BY <1>3 DEF RequestType
    <3>3. Past(request[b].perms)'
      <4>. DEFINE S == request[b].perms
      <4>1. Past(S) /\ S \in SUBSET Node /\ request'[b].perms = S
        BY <1>3, <3>1, <3>2 DEF Asked
      <4>. HIDE DEF S
      <4>2. \A p \in S : perm'[p] # "none" /\ (parentid'[p] \in LivePerms' => parentid'[p] \in S)
        <5>1. Past(request[b].perms)
          BY <3>1 DEF Asked
        <5>2. \A K \in SUBSET Node : Past(K) =>
                \A p \in K : perm'[p] # "none" /\ (parentid'[p] \in LivePerms' => parentid'[p] \in K)
          BY DEF Past
        <5>. QED  BY <4>1, <5>2
      <4>. QED  BY <4>1, <4>2 DEF Past
    <3>. QED  BY <1>3, <3>1, <3>3 DEF Asked
  <2>. QED  BY <2>1 DEF Requests
<1>7. Kept(cache)'
  <2>1. cache \in CacheType /\ Past(cache.perms) /\ cache.perms \in SUBSET Node
    BY DEF IInv, Server, Kept, CacheType
  <2>2. Past(cache.perms)'
    BY <2>1
  <2>. QED  BY <1>3, <2>1, <2>2 DEF IInv, Server, Kept
<1>. QED  BY <1>2, <1>4, <1>5, <1>6, <1>7 DEF Server

LEMMA AddPermissionAdds ==
  ASSUME IInv, NEW a \in Admin, NEW p \in Node, NEW q \in Node \cup {Root}, AddPermission(a, p, q)
  PROVE  IInv' /\ Sets!AddPermission(p, q)
<1>1. /\ perm[p] = "none" /\ q < p /\ \A o \in Node : o < p => perm[o] # "none"
      /\ perm' = [perm EXCEPT ![p] = "live"] /\ parentid' = [parentid EXCEPT ![p] = q]
      /\ request[a].at = "idle" /\ request' = [request EXCEPT ![a].at = "update"]
      /\ UNCHANGED <<role, held, cache, torn, mixed, tree, roleId, modal>>
  BY DEF AddPermission, Changes
<1>2. Tables
  BY DEF IInv
<1>3. \A s \in Node : perm[s] # "none" => perm'[s] # "none" /\ parentid'[s] = parentid[s]
  BY <1>1, <1>2 DEF Tables
<1>4. LivePerms' = LivePerms \cup {p}
  BY <1>1, <1>2 DEF Tables, LivePerms
<1>5. ASSUME NEW S \in SUBSET Node, Past(S) PROVE Past(S)'
  <2>. SUFFICES ASSUME NEW s \in S
                PROVE  perm'[s] # "none" /\ (parentid'[s] \in LivePerms' => parentid'[s] \in S)
    BY DEF Past
  <2>1. s \in Node /\ perm[s] # "none" /\ (parentid[s] \in LivePerms => parentid[s] \in S)
    BY <1>5 DEF Past
  <2>2. parentid[s] # p
    BY <1>1, <2>1, TreeAssumption DEF IInv, Born
  <2>. QED  BY <1>3, <1>4, <2>1, <2>2
<1>6. /\ request' \in [Admin -> RequestType]
      /\ \A b \in Admin : \/ request'[b] = request[b]
                          \/ /\ request[b].at = "idle"
                             /\ request'[b] = [request[b] EXCEPT !.at = "update"]
  BY <1>1 DEF IInv, Server, Requests, RequestType
<1>7. Server' /\ Pages' /\ (\A b \in Admin : Page(b)') /\ draft' = draft
  BY <1>1, <1>3, <1>5, <1>6, PagesStay
<1>8. Tables' /\ Older'
  BY <1>1, <1>2 DEF IInv, Tables, Older, Status
<1>9. Holds'
  BY <1>1, <1>2 DEF IInv, Tables, Holds, LivePerms
<1>10. Born'
  BY <1>1, <1>2, <1>3 DEF IInv, Tables, Born
<1>11. q \notin Sets!Unborn /\ p \in Sets!Unborn
  BY <1>1, TreeAssumption DEF Sets!Unborn
<1>12. Sets!AddPermission(p, q)
  BY <1>1, <1>7, <1>11 DEF Sets!AddPermission, draft, DraftOf
<1>. QED  BY <1>7, <1>8, <1>9, <1>10, <1>12 DEF IInv

LEMMA DeletePermissionsDeletes ==
  ASSUME IInv, NEW a \in Admin, NEW S \in SUBSET LivePerms, DeletePermissions(a, S)
  PROVE  IInv' /\ Sets!DeletePermissions(S)
<1>1. /\ \A r \in Role : held[r] \cap S = {}
      /\ perm' = [p \in Node |-> IF p \in S THEN "deleted" ELSE perm[p]]
      /\ request[a].at = "idle" /\ request' = [request EXCEPT ![a].at = "update"]
      /\ UNCHANGED <<role, parentid, held, cache, torn, mixed, tree, roleId, modal>>
  BY DEF DeletePermissions, Changes
<1>2. \A q \in Node : /\ perm[q] # "none" => perm'[q] # "none" /\ parentid'[q] = parentid[q]
                     /\ perm'[q] = "live" => perm[q] = "live"
  BY <1>1
<1>3. ASSUME NEW K \in SUBSET Node, Past(K) PROVE Past(K)'
  BY <1>1, <1>2, <1>3 DEF Past, LivePerms
<1>4. /\ request' \in [Admin -> RequestType]
      /\ \A b \in Admin : \/ request'[b] = request[b]
                          \/ /\ request[b].at = "idle"
                             /\ request'[b] = [request[b] EXCEPT !.at = "update"]
  BY <1>1 DEF IInv, Server, Requests, RequestType
<1>5. Server' /\ Pages' /\ (\A b \in Admin : Page(b)') /\ draft' = draft
  BY <1>1, <1>2, <1>3, <1>4, PagesStay
<1>6. Tables' /\ Older'
  BY <1>1 DEF IInv, Tables, Older, Status
<1>7. Holds' /\ Born'
  BY <1>1 DEF IInv, Tables, Holds, Born, LivePerms
<1>8. Sets!DeletePermissions(S)
  BY <1>1, <1>5 DEF Sets!DeletePermissions, draft, DraftOf
<1>. QED  BY <1>5, <1>6, <1>7, <1>8 DEF IInv

\* Steps that leave the permissions and the pages alone.
LEMMA RolesStep ==
  ASSUME IInv,
         UNCHANGED <<perm, parentid, cache, request, torn, mixed, tree, roleId, modal>>,
         role' \in [Role -> Status], held' \in [Role -> SUBSET Node],
         \A r \in Role : held'[r] \subseteq held[r]
  PROVE  IInv' /\ draft' = draft
<1>1. \A S \in SUBSET Node : Past(S) => Past(S)'
  BY DEF Past, LivePerms
<1>2. request' \in [Admin -> RequestType]
  BY DEF IInv, Server, Requests
<1>3. Server' /\ Pages' /\ (\A b \in Admin : Page(b)') /\ draft' = draft
  BY <1>1, <1>2, PagesStay
<1>4. Tables' /\ Older' /\ Holds' /\ Born'
  BY DEF IInv, Tables, Older, Holds, Born, LivePerms
<1>. QED  BY <1>3, <1>4 DEF IInv

LEMMA AddRoleAdds ==
  ASSUME IInv, NEW r \in Role, AddRole(r)
  PROVE  IInv' /\ Sets!AddRole(r)
<1>1. /\ role[r] = "none" /\ role' = [role EXCEPT ![r] = "live"]
      /\ UNCHANGED <<perm, parentid, held, cache, request, torn, mixed, tree, roleId, modal>>
  BY DEF AddRole
<1>2. role' \in [Role -> Status] /\ held' \in [Role -> SUBSET Node] /\ \A o \in Role : held'[o] \subseteq held[o]
  BY <1>1 DEF IInv, Tables, Status
<1>3. IInv' /\ draft' = draft
  BY <1>1, <1>2, RolesStep
<1>4. Sets!AddRole(r)
  BY <1>1, <1>3 DEF Sets!AddRole, draft, DraftOf
<1>. QED  BY <1>3, <1>4

LEMMA DeleteRolesDeletes ==
  ASSUME IInv, NEW S \in SUBSET LiveRoles, DeleteRoles(S)
  PROVE  IInv' /\ Sets!DeleteRoles(S)
<1>1. /\ role' = [r \in Role |-> IF r \in S THEN "deleted" ELSE role[r]]
      /\ held' = [r \in Role |-> IF r \in S THEN {} ELSE held[r]]
      /\ UNCHANGED <<perm, parentid, cache, request, torn, mixed, tree, roleId, modal>>
  BY DEF DeleteRoles
<1>2. role' \in [Role -> Status] /\ held' \in [Role -> SUBSET Node] /\ \A o \in Role : held'[o] \subseteq held[o]
  BY <1>1 DEF IInv, Tables, Status
<1>3. IInv' /\ draft' = draft
  BY <1>1, <1>2, RolesStep
<1>4. Sets!DeleteRoles(S)
  BY <1>1, <1>3 DEF Sets!DeleteRoles, draft, DraftOf
<1>. QED  BY <1>3, <1>4

\* updatePermission: the editor of sets does not see it.
LEMMA UpdateStutters ==
  ASSUME IInv, NEW a \in Admin, UpdatePermission(a) \/ UpdateFails(a)
  PROVE  IInv' /\ UNCHANGED Sets!vars
<1>. DEFINE q == request'[a]
<1>1. /\ request' = [request EXCEPT ![a] = q] /\ request[a].at \in {"update", "query"}
      /\ UNCHANGED <<perm, role, parentid, held, cache, torn, mixed, tree, roleId, modal>>
      /\ q = Idle \/ q = [at |-> "query", role |-> NoRole, perms |-> LivePerms, marks |-> {}]
  BY RolesPageAssumption DEF UpdatePermission, UpdateFails, FindAll, IInv, Server, Requests, tables
<1>2. request[a].role = NoRole
  <2>1. CASE UpdatePermission(a)
    BY <2>1, RequestIs DEF UpdatePermission, Asked
  <2>2. CASE UpdateFails(a)
    BY <2>2 DEF UpdateFails
  <2>. QED  BY <2>1, <2>2
<1>3. Asked(q, roleId[a], modal[a]) /\ q.role = NoRole
  <2>1. CASE q = Idle
    BY <2>1, IdleIs
  <2>2. CASE q = [at |-> "query", role |-> NoRole, perms |-> LivePerms, marks |-> {}]
    BY <2>2, LivePast DEF Asked, RequestType, LivePerms
  <2>. QED  BY <1>1, <2>1, <2>2
<1>4. cache' \in CacheType /\ Past(cache'.perms) /\ cache' = cache /\ cache.maker # a
  BY <1>1, RequestIs
<1>. HIDE DEF q
<1>5. Hides(a, q)
  BY <1>1, <1>2, <1>3, <1>4 DEF Hides, Caches
<1>. QED  BY <1>5, Unseen

-----------------------------------------------------------------------------
(* The specification.                                                      *)

LEMMA EmptyType == EmptyTree(PageSetting) \in Tree
<1>. DEFINE t == EmptyTree(PageSetting)
<1>1. /\ t = [f \in Fields |-> t[f]]
      /\ t.setting = PageSetting /\ t.kids = [n \in Node \cup {Root} |-> <<>>]
      /\ t.parent = [n \in Node |-> Root] /\ t.selected = <<>>
      /\ t.state = [n \in Node |-> -1]
      /\ t.box = [n \in Node |-> Nothing] /\ t.line = [n \in Node |-> Nothing]
      /\ \A f \in NodeFlags : t[f] = {}
  BY SettingType, EmptyIs
<1>. HIDE DEF t
<1>2. /\ t.setting \in Setting /\ t.kids \in [Node \cup {Root} -> Seq(Node)]
      /\ t.parent \in [Node -> Node \cup {Root}] /\ t.selected \in Seq(Node)
      /\ t.state \in [Node -> -1 .. 2]
      /\ t.box \in [Node -> Image \cup {Nothing}] /\ t.line \in [Node -> Line \cup {Nothing}]
  <2>1. \A S, x : [n \in Node |-> x] \in [Node -> S \cup {x}]
    OBVIOUS
  <2>2. /\ t.box \in [Node -> Image \cup {Nothing}]
        /\ t.line \in [Node -> Line \cup {Nothing}]
    BY <1>1, <2>1
  <2>3. /\ t.kids \in [Node \cup {Root} -> Seq(Node)] /\ t.parent \in [Node -> Node \cup {Root}]
        /\ t.selected \in Seq(Node) /\ t.state \in [Node -> -1 .. 2]
    <3>1. <<>> \in Seq(Node) /\ -1 \in -1 .. 2
      OBVIOUS
    <3>2. \A D, S : \A x \in S : [n \in D |-> x] \in [D -> S]
      OBVIOUS
    <3>. QED  BY <1>1, <3>1, <3>2
  <2>. QED  BY <1>1, <2>2, <2>3, SettingType
<1>3. \A f \in NodeFlags : t[f] \in SUBSET Node
  BY <1>1
<1>4. t \in Tree
  BY <1>1, <1>2, <1>3 DEF Tree, Fields, NodeFlags
<1>. QED  BY <1>4 DEF t

LEMMA InitIs == Init => IInv /\ Sets!Init
<1>. SUFFICES ASSUME Init PROVE IInv /\ Sets!Init
  OBVIOUS
<1>1. /\ perm \in [Node -> {"none", "live"}] /\ role \in [Role -> {"none", "live"}]
      /\ parentid \in [Node -> LivePerms \cup {Root}] /\ \A p \in Node : parentid[p] < p
      /\ held \in [Role -> SUBSET LivePerms]
      /\ \A r \in Role : \A p \in held[r] : parentid[p] \in held[r] \cup {Root}
      /\ torn = {} /\ mixed = {}
  BY DEF Init
<1>2. /\ tree = [a \in Admin |-> EmptyTree(PageSetting)] /\ roleId = [a \in Admin |-> NoRole]
      /\ modal = [a \in Admin |-> FALSE]
      /\ request = [a \in Admin |-> Idle] /\ cache = NoList
  BY DEF Init
<1>3. Tables /\ Older /\ Holds /\ Born
  BY <1>1 DEF Tables, Older, Holds, Born, LivePerms, Status
<1>4. Pages /\ \A a \in Admin : Page(a)
  BY <1>2 DEF Pages, Page, Dialog
<1>5. draft = [a \in Admin |-> NoRole]
  BY <1>2 DEF draft, DraftOf, Idle
<1>6. Server
  <2>1. Requests
    BY <1>2, IdleIs DEF Requests, Asked
  <2>2. Kept(NoList)
    BY RolesPageAssumption DEF Kept, NoList, CacheType, Past
  <2>. QED  BY <1>2, <2>1, <2>2 DEF Server
<1>7. /\ perm \in [Node -> Sets!Status] /\ role \in [Role -> Sets!Status]
      /\ parentid \in [Node -> Node \cup {Root}] /\ held \in [Role -> SUBSET Sets!Live]
  BY <1>1, LiveIs DEF Sets!Status, LivePerms
<1>8. \A p \in Node \ Sets!Unborn : parentid[p] \notin Sets!Unborn
  BY <1>1, TreeAssumption DEF Sets!Unborn, LivePerms
<1>9. \A r \in Role : Sets!Closed(held[r], Sets!Live)
  BY <1>1, TreeAssumption, LiveIs DEF Sets!Closed, LivePerms
<1>10. Sets!Init
  BY <1>1, <1>5, <1>7, <1>8, <1>9 DEF Sets!Init, draft, DraftOf
<1>. QED  BY <1>3, <1>4, <1>6, <1>10 DEF IInv

\* Every step is a step of the editor of sets, or none.
LEMMA NextIs == IInv /\ [Next]_vars => IInv' /\ [Sets!Next]_(Sets!vars)
<1>. SUFFICES ASSUME IInv, [Next]_vars PROVE IInv' /\ [Sets!Next]_(Sets!vars)
  OBVIOUS
<1>1. ASSUME NEW a \in Admin, NEW r \in Role, AllotPermission(a, r)
      PROVE  IInv' /\ Sets!Next
  BY <1>1, AllotPermissionAsks DEF Sets!Next
<1>2. ASSUME NEW a \in Admin, AnswerList(a) \/ AnswerError(a)
      PROVE  IInv' /\ Sets!Next
  BY <1>2, AnswerListShows, AnswerErrorShowsNothing DEF Sets!Next
<1>3. ASSUME NEW a \in Admin, NEW n \in Node, ClickBox(a, n)
      PROVE  IInv' /\ Sets!Next
  BY <1>3, ClickBoxEdits DEF Sets!Next
<1>4. ASSUME NEW a \in Admin, SaveRolePermission(a)
      PROVE  IInv' /\ Sets!Next
  BY <1>4, SaveCommits DEF Sets!Next
<1>5. ASSUME NEW a \in Admin, DialogCloses(a) \/ AnswerLost(a)
      PROVE  IInv' /\ Sets!Next
  BY <1>5, DialogClosesDrops, AnswerLostDrops DEF Sets!Next
<1>6. ASSUME NEW a \in Admin, NEW p \in Node, NEW q \in Node \cup {Root}, AddPermission(a, p, q)
      PROVE  IInv' /\ Sets!Next
  BY <1>6, AddPermissionAdds DEF Sets!Next
<1>7. ASSUME NEW a \in Admin, NEW S \in SUBSET LivePerms, DeletePermissions(a, S)
      PROVE  IInv' /\ Sets!Next
  BY <1>7, DeletePermissionsDeletes, LiveIs DEF Sets!Next
<1>8. ASSUME NEW r \in Role, AddRole(r)
      PROVE  IInv' /\ Sets!Next
  BY <1>8, AddRoleAdds DEF Sets!Next
<1>9. ASSUME NEW S \in SUBSET LiveRoles, DeleteRoles(S)
      PROVE  IInv' /\ Sets!Next
  <2>1. LiveRoles = {r \in Role : role[r] = "live"}
    BY DEF LiveRoles
  <2>. QED  BY <1>9, <2>1, DeleteRolesDeletes DEF Sets!Next
<1>10. ASSUME NEW a \in Admin, CachePut(a) \/ UpdatePermission(a) \/ UpdateFails(a)
       PROVE  IInv' /\ UNCHANGED Sets!vars
  BY <1>10, PutStutters, UpdateStutters
<1>11. CASE CacheExpires
  BY <1>11, CacheExpiresStutters
<1>12. CASE UNCHANGED vars
  <2>1. UNCHANGED <<perm, role, parentid, held, cache, request, torn, mixed, tree, roleId, modal>>
    BY <1>12 DEF vars, server, tables
  <2>2. role' \in [Role -> Status] /\ held' \in [Role -> SUBSET Node]
    BY <2>1 DEF IInv, Tables
  <2>3. IInv' /\ draft' = draft
    BY <2>1, <2>2, RolesStep
  <2>. QED  BY <2>1, <2>3 DEF Sets!vars, Sets!tables, draft, DraftOf
<1>. QED
  BY <1>1, <1>2, <1>3, <1>4, <1>5, <1>6, <1>7, <1>8, <1>9, <1>10, <1>11, <1>12 DEF Next

\* The tables and the trees have their types.
THEOREM RolesPageTypeCorrect == Spec => []TypeOK
<1>1. IInv => TypeOK
  <2>. SUFFICES ASSUME IInv PROVE TypeOK
    OBVIOUS
  <2>1. ASSUME NEW a \in Admin PROVE tree[a] \in Tree
    <3>1. CASE modal[a]
      BY <3>1 DEF IInv, Page, Dialog, Shows, Sound, Agree
    <3>2. CASE ~modal[a]
      BY <3>2, EmptyType DEF IInv, Page, Dialog
    <3>. QED  BY <3>1, <3>2
  <2>. QED
    BY <2>1 DEF IInv, Tables, Pages, Server, Requests, RequestType, Kept, CacheType, TypeOK
<1>. QED  BY <1>1, InitIs, NextIs, PTL DEF Spec

\* The page implements the editor of sets: the flags of the boxes, the lists
\* that are drawn late and the recursions amount to granting what is above and
\* revoking what is below, and what is saved is the draft of the role shown.
THEOREM PageImplementsSets == Spec => ImplementsSets
BY InitIs, NextIs, PTL DEF Spec, ImplementsSets, Sets!Spec

\* The theorems about the editor of sets, for these sets.
SetsProof == INSTANCE PermissionSetsProof WITH
               Perm <- Node, Top <- Root, NoDraft <- NoRole, draft <- draft

\* The two instances of the editor are the same.
LEMMA SameEditor ==
  /\ Sets!Init => SetsProof!Init
  /\ [Sets!Next]_(Sets!vars) => [SetsProof!Next]_(SetsProof!vars)
<1>. USE DEF Sets!Init, Sets!Next, Sets!vars, Sets!tables, Sets!Ask, Sets!AskOld,
             Sets!AskTorn, Sets!Once, Sets!Show, Sets!ShowNothing, Sets!Shown, Sets!Grant, Sets!Revoke,
             Sets!Commit, Sets!Drop, Sets!AddPermission, Sets!DeletePermissions,
             Sets!AddRole, Sets!DeleteRoles, Sets!Live, Sets!Unborn, Sets!Status,
             Sets!Closed, Sets!Up, Sets!Down,
             SetsProof!Init, SetsProof!Next, SetsProof!vars, SetsProof!tables, SetsProof!Ask,
             SetsProof!AskOld, SetsProof!AskTorn, SetsProof!Once, SetsProof!Show,
             SetsProof!ShowNothing, SetsProof!Shown,
             SetsProof!Grant, SetsProof!Revoke, SetsProof!Commit, SetsProof!Drop,
             SetsProof!AddPermission, SetsProof!DeletePermissions, SetsProof!AddRole,
             SetsProof!DeleteRoles, SetsProof!Live, SetsProof!Unborn, SetsProof!Status,
             SetsProof!Closed, SetsProof!Up, SetsProof!Down,
             draft, DraftOf
<1>1. Sets!Init => SetsProof!Init
  OBVIOUS
<1>2. Sets!Next => SetsProof!Next
  OBVIOUS
<1>3. UNCHANGED Sets!vars => UNCHANGED SetsProof!vars
  OBVIOUS
<1>. QED  BY <1>1, <1>2, <1>3

\* No role holds a permission without its parent, whatever the administrators do
\* to the permissions, the roles and each other's changes and however old the list
\* that is shown, but for roles saved from a torn list: the editor of sets has this
\* property, and the page implements it.
THEOREM RolesAreClosed == Spec => []RolesClosed
<1>1. Spec => SetsProof!Spec
  BY SameEditor, InitIs, NextIs, PTL DEF Spec, SetsProof!Spec
<1>2. SetsProof!Spec => []SetsProof!RolesClosed
  BY SetsProof!RolesStayClosed
<1>3. SetsProof!RolesClosed => RolesClosed
  BY LiveIs DEF SetsProof!RolesClosed, SetsProof!Closed, SetsProof!Live, RolesClosed, LivePerms
<1>. QED  BY <1>1, <1>2, <1>3, PTL
=============================================================================
