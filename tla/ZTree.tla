-------------------------------- MODULE ZTree --------------------------------
(***************************************************************************)
(* The tree control of the administrator's pages: jquery.ztree.core.js and *)
(* its check boxes, jquery.ztree.excheck.js, as operators from a tree to a *)
(* tree, one per function that changes it.  The scripts of a page run one  *)
(* at a time, so that a call is one step of its caller (TreePage,          *)
(* RolesPage).                                                             *)
(*                                                                         *)
(* A tree is a record: the nodes and their order, the flags the code keeps *)
(* on every node (a set per Boolean flag), and what of it is in the        *)
(* document.  The cache, keyed by tId in the code, is the set of the nodes *)
(* it maps to.  Absent and empty lists of children are the same.           *)
(*                                                                         *)
(* Loading on demand (setting.async) is off, its default and what the      *)
(* pages use, and so are keep.parent and keep.leaf.                        *)
(***************************************************************************)
EXTENDS Integers, FiniteSets, SequencesExt

CONSTANTS Node,  \* the node objects
          Root   \* the root that holds the data of the tree, no node itself

ASSUME TreeAssumption == /\ IsFiniteSet(Node)
                         /\ Root \notin Node

\* setting.check: whether there are boxes, their style, what a radio button
\* excludes, and where the checking (Y) and the unchecking (N) of a box go, to
\* the parents (p) and to the sons (s).
Setting == [enable : BOOLEAN, style : {"checkbox", "radio"}, radioType : {"level", "all"},
            Y : SUBSET {"p", "s"}, N : SUBSET {"p", "s"}]

\* What is drawn of a check box: checked or not, full, part or disabled; and of
\* a node's lines and folder (switch and icon always change together).  Nothing
\* is drawn of a node that is not in the document.
Image == BOOLEAN \X {"full", "part", "disable"}
Line == {"root", "roots", "center", "bottom"} \X {"open", "close", "docu"}
Nothing == <<>>

Tree == [setting : Setting,
         kids : [Node \cup {Root} -> Seq(Node)],
         parent : [Node -> Node \cup {Root}],       \* parentTId, null is Root
         cached : SUBSET Node,
         isParent : SUBSET Node, open : SUBSET Node,
         first : SUBSET Node, last : SUBSET Node,   \* isFirstNode, isLastNode
         selected : Seq(Node),                      \* curSelectedList
         li : SUBSET Node, ul : SUBSET Node,        \* elements in the document
         checked : SUBSET Node, nocheck : SUBSET Node,
         disabled : SUBSET Node, half : SUBSET Node,
         state : [Node -> -1 .. 2],                 \* check_Child_State
         box : [Node -> Image \cup {Nothing}],
         line : [Node -> Line \cup {Nothing}],
         lined : SUBSET Node,                       \* ul with a line to the next node
         radios : SUBSET Node]                      \* radioCheckedList

Kids(t, n) == Range(t.kids[n])
HasKids(t, n) == t.kids[n] # <<>>
Fixed(t) == t.nocheck \cup t.disabled

\* The proper ancestors of n, the nearest first (getParentNode repeated).
Above(t, n) ==
  LET up[m \in Node] == IF t.parent[m] = Root THEN <<>>
                        ELSE <<t.parent[m]>> \o up[t.parent[m]]
  IN  up[n]

\* The nodes below n (Root for all), every son before its parent.
Below(t, n) ==
  LET post[m \in Node] ==
        FlattenSeq([i \in DOMAIN t.kids[m] |-> post[t.kids[m][i]]]) \o <<m>>
  IN  FlattenSeq([i \in DOMAIN t.kids[n] |-> post[t.kids[n][i]]])

Under(t, n) == Range(Below(t, n))
InTree(t) == Under(t, Root)

\* The elements of s that are in S, in their order.
Only(s, S) == FlattenSeq([i \in DOMAIN s |-> IF s[i] \in S THEN <<s[i]>> ELSE <<>>])

\* op applied along a sequence of nodes.
Each(op(_, _), t, s) ==
  LET r[i \in 0 .. Len(s)] == IF i = 0 THEN t ELSE op(r[i - 1], s[i]) IN r[Len(s)]

-----------------------------------------------------------------------------
(* The state of a box: what its sons' boxes say, and what is drawn of it.  *)

\* What one son contributes: -1 nothing, 0 unchecked, 1 part, 2 checked.
SonFlag(t, c) ==
  LET radio == t.setting.style = "radio"
      s == t.state[c]
  IN  CASE c \in Fixed(t) -> s
        [] c \notin Fixed(t) /\ c \in t.half -> IF radio THEN 2 ELSE 1
        [] c \notin Fixed(t) \cup t.half /\ c \in t.checked ->
             IF radio \/ s \in {-1, 2} THEN 2 ELSE 1
        [] OTHER -> IF s > 0 THEN IF radio THEN 2 ELSE 1 ELSE 0

\* Mutant: the flag adds up what the sons contribute.
ChkFlagSum(t, n) == FoldLeft(LAMBDA flag, c : flag + SonFlag(t, c), -1, t.kids[n])

\* The flag after another son; it may decide at once.
Merged(t, flag, son) ==
  IF t.setting.style = "radio"
  THEN IF flag = 2 THEN 2 ELSE IF son \in {0, 2} THEN son ELSE flag
  ELSE CASE flag = 1 \/ son = 1 -> 1
         [] flag = 0 /\ son = 2 -> 1
         [] flag = 2 /\ son = 0 -> 1
         [] OTHER -> IF son > -1 THEN son ELSE flag

\* makeChkFlag, the loop over the sons.  The first one never conflicts with the
\* flag: it is -1 before it.
ChkFlag(t, n) ==
  LET flag[i \in 0 .. Len(t.kids[n])] ==
        IF i = 0 THEN -1 ELSE Merged(t, flag[i - 1], SonFlag(t, t.kids[n][i]))
  IN  flag[Len(t.kids[n])]

MakeChkFlag(t, n) == [t EXCEPT !.state[n] = ChkFlag(t, n)]

\* makeChkClass
ChkImage(t, n) ==
  LET s == t.state[n] IN
  << n \in t.checked,
     CASE n \in t.disabled -> "disable"
       [] n \notin t.disabled /\ n \in t.half -> "part"
       [] OTHER -> IF \/ s < 1 /\ (t.setting.style = "radio" \/ n \notin t.checked)
                      \/ t.setting.style = "checkbox" /\ n \in t.checked /\ s \in {-1, 2}
                   THEN "full" ELSE "part" >>

HasBox(t, n) == t.setting.enable /\ n \in t.li

SetChkClass(t, n) == IF HasBox(t, n) THEN [t EXCEPT !.box[n] = ChkImage(t, n)] ELSE t

RepairChkClass(t, n) ==
  IF n \in t.nocheck THEN MakeChkFlag(t, n) ELSE SetChkClass(MakeChkFlag(t, n), n)

\* Mutant: only the parent is repaired, not its ancestors.
RepairParentChkClassOnce(t, n) ==
  IF Above(t, n) = <<>> THEN t ELSE RepairChkClass(t, Head(Above(t, n)))

RepairParentChkClass(t, n) == Each(RepairChkClass, t, Above(t, n))

RepairParentChkClassWithSelf(t, n) ==
  RepairParentChkClass(IF HasKids(t, n) THEN RepairChkClass(t, n) ELSE t, n)

-----------------------------------------------------------------------------
(* The lines and the folder of a node.                                     *)

Assign(S, n, v) == IF v THEN S \cup {n} ELSE S \ {n}

Folder(t, n) == IF n \notin t.isParent THEN "docu" ELSE IF n \in t.open THEN "open" ELSE "close"

\* makeNodeLineClass
LineClass(t, n) ==
  LET top == t.parent[n] = Root /\ n \in t.first IN
  << IF n \in t.last THEN IF top THEN "root" ELSE "bottom"
                     ELSE IF top THEN "roots" ELSE "center",
     Folder(t, n) >>

SetNodeLineIcos(t, n) ==
  [t EXCEPT !.line[n] = IF n \in t.li THEN LineClass(t, n) ELSE @,
            !.lined = IF n \in t.ul THEN Assign(@, n, n \notin t.last) ELSE @]

\* replaceSwitchClass and replaceIcoClass: one part of what is drawn.
ReplaceLine(t, n, l) == [t EXCEPT !.line[n] = IF n \in t.li THEN <<l, @[2]>> ELSE @]
ReplaceFolder(t, n) == [t EXCEPT !.line[n] = IF n \in t.li THEN <<@[1], Folder(t, n)>> ELSE @]

\* Mutant: the first level is treated like the others.
RepairLinesBottom(t, p) ==
  LET l == Last(t.kids[p]) IN [ReplaceLine(t, l, "bottom") EXCEPT !.lined = @ \ {l}]

\* The end of removeNode, for a list that has lost a node and is not empty.
RepairLines(t, p) ==
  LET f == Head(t.kids[p])
      l == Last(t.kids[p])
      u == CASE p # Root -> ReplaceLine(t, l, "bottom")
             [] p = Root /\ f = l -> ReplaceLine(t, l, "root")
             [] OTHER -> ReplaceLine(ReplaceLine(t, f, "roots"), l, "bottom")
  IN  [u EXCEPT !.lined = @ \ {l}]

-----------------------------------------------------------------------------
(* Checking a box and what follows for the others.                         *)

\* Mutant: disabled and hidden boxes follow as well.
SetSonBoxAny(t, n, v) ==
  SetChkClass([t EXCEPT !.checked = Assign(@, n, v),
                        !.state[n] = IF ~HasKids(t, n) THEN -1 ELSE IF v THEN 2 ELSE 0], n)

\* One node of setSonNodeCheckBox, after its sons.
SetSonBox(t, n, v) ==
  LET hasDisable == Kids(t, n) \cap t.disabled # {}
      flagged == IF hasDisable /\ n \notin t.nocheck THEN MakeChkFlag(t, n) ELSE t
      s == CASE n \in t.nocheck -> -1
             [] n \notin t.nocheck /\ hasDisable -> flagged.state[n]
             [] OTHER -> IF ~HasKids(t, n) THEN -1 ELSE IF v THEN 2 ELSE 0
  IN  IF n \in t.disabled THEN t
      ELSE SetChkClass([flagged EXCEPT
                          !.checked = IF n \in t.nocheck THEN @ ELSE Assign(@, n, v),
                          !.state[n] = s], n)

SetSonNodeCheckBox(t, n, v) ==
  LET son(u, m) == SetSonBox(u, m, v) IN Each(son, t, Below(t, n) \o <<n>>)

\* Mutant: a parent is unchecked though another of its sons is checked.
SetParentNodeCheckBoxAlways(t, n, v) ==
  LET mark(u, m) == SetChkClass([MakeChkFlag(u, m) EXCEPT !.checked = Assign(@, m, v)], m)
  IN  Each(mark, t, <<n>> \o Above(t, n))

\* setParentNodeCheckBox: n and its ancestors, as far as no brother of the
\* last one keeps the parent checked.
SetParentNodeCheckBox(t, n, v) ==
  LET path == <<n>> \o Above(t, n)
      mark(u, m) == IF m \in Fixed(u) THEN MakeChkFlag(u, m)
                    ELSE SetChkClass([MakeChkFlag(u, m) EXCEPT !.checked = Assign(@, m, v)], m)
      kept(u, m) == \E b \in Kids(u, u.parent[m]) :
                      IF b \in Fixed(u) THEN u.state[b] > 0 ELSE b \in u.checked
      up[i \in 0 .. Len(path)] ==
        IF i = 0 THEN [tree |-> t, go |-> TRUE]
        ELSE LET u == up[i - 1] IN
             IF ~u.go THEN u
             ELSE LET w == mark(u.tree, path[i]) IN [tree |-> w, go |-> v \/ ~kept(w, path[i])]
  IN  up[Len(path)].tree

\* Mutant: a radio button excludes its brothers only.
ExcludedBrothers(t, n) == (Kids(t, t.parent[n]) \cap t.checked) \ {n}

\* checkNodeRelation for radio buttons: the ones that n excludes go off.
Excluded(t, n) ==
  IF t.setting.radioType = "all" THEN (t.radios \cap t.cached \cap t.checked) \ {n}
  ELSE (Kids(t, t.parent[n]) \cap t.checked) \ {n}

RadioRelation(t, n) ==
  LET all == t.setting.radioType = "all"
      live == t.radios \cap t.cached
      off(u, m) ==
        LET w == SetChkClass([u EXCEPT !.checked = @ \ {m}], m) IN
        IF all /\ t.parent[m] # t.parent[n] THEN RepairParentChkClassWithSelf(w, m) ELSE w
  IN  IF n \in t.checked
      THEN Each(off, [t EXCEPT !.radios = IF all THEN (live \ Excluded(t, n)) \cup {n} ELSE live],
                SetToSeq(Excluded(t, n)))
      ELSE [t EXCEPT !.radios = IF all THEN live \ {n} ELSE live]

\* Mutant: the types of checking and of unchecking are exchanged.
CheckNodeRelationSwapped(t, n) ==
  LET v == n \in t.checked
      where == IF v THEN t.setting.N ELSE t.setting.Y
      sons == IF ~HasKids(t, n) \/ "s" \in where THEN SetSonNodeCheckBox(t, n, v) ELSE t
  IN  IF t.setting.style = "radio" THEN RadioRelation(t, n)
      ELSE IF "p" \in where THEN SetParentNodeCheckBox(sons, n, v) ELSE sons

CheckNodeRelation(t, n) ==
  LET v == n \in t.checked
      where == IF v THEN t.setting.Y ELSE t.setting.N
      sons == IF ~HasKids(t, n) \/ "s" \in where THEN SetSonNodeCheckBox(t, n, v) ELSE t
  IN  IF t.setting.style = "radio" THEN RadioRelation(t, n)
      ELSE IF "p" \in where THEN SetParentNodeCheckBox(sons, n, v) ELSE sons

\* onCheckNode, after its test of chkDisabled: a click on the box of n.
ToggleCheck(t, n) ==
  LET clicked == [t EXCEPT !.checked = Assign(@, n, n \notin t.checked)]
  IN  RepairParentChkClassWithSelf(SetChkClass(CheckNodeRelation(clicked, n), n), n)

\* The method checkNode; with checkTypeFlag the others follow.
CheckNode(t, n, v, checkTypeFlag) ==
  LET set == [t EXCEPT !.checked = Assign(@, n, v)]
      related == IF checkTypeFlag \/ t.setting.style = "radio"
                 THEN CheckNodeRelation(set, n) ELSE set
  IN  IF \/ n \in Fixed(t) \/ ~t.setting.enable
         \/ (n \in t.checked) = v /\ ~checkTypeFlag
      THEN t
      ELSE RepairParentChkClassWithSelf(SetChkClass(related, n), n)

\* checkAllNodes, for check boxes only.
CheckAllNodes(t, v) ==
  LET one(u, n) == SetSonNodeCheckBox(
                     IF n \in Fixed(u) THEN u ELSE [u EXCEPT !.checked = Assign(@, n, v)], n, v)
  IN  IF t.setting.enable /\ t.setting.style = "checkbox" THEN Each(one, t, t.kids[Root]) ELSE t

\* setChkDisabled: the node, its sons on request, then its ancestors, each
\* repaired when it is reached, before its own sons are.
SetChkDisabled(t, n, v, inheritParent, inheritChildren) ==
  LET down == IF inheritChildren THEN Reverse(Below(t, n)) ELSE <<>>
      set(u, m) == RepairChkClass([u EXCEPT !.disabled = Assign(@, m, v)], m)
      up(u, m) == IF inheritParent THEN set(u, m) ELSE RepairChkClass(u, m)
  IN  Each(up, Each(set, t, <<n>> \o down), Above(t, n))

\* getCheckedNodes(true)
GetCheckedNodes(t) == (InTree(t) \cap t.checked) \ Fixed(t)

-----------------------------------------------------------------------------
(* Nodes join and leave the tree, and the document.                        *)

NodeFlags == {"isParent", "open", "first", "last", "li", "ul", "lined", "cached",
              "checked", "nocheck", "disabled", "half", "radios"}

\* A tree without nodes: what every node object is before it is in the tree,
\* and for the model again once it has left.  (The list of checked radio
\* buttons keeps nodes that left, and drops them before its every use.)
EmptyTree(setting) ==
  [f \in {"setting", "kids", "parent", "selected", "state", "box", "line"} \cup NodeFlags |->
     CASE f = "setting" -> setting
       [] f = "kids" -> [n \in Node \cup {Root} |-> <<>>]
       [] f = "parent" -> [n \in Node |-> Root]
       [] f = "selected" -> <<>>
       [] f = "state" -> [n \in Node |-> -1]
       [] f \in {"box", "line"} -> [n \in Node |-> Nothing]
       [] f \in NodeFlags -> {}]

\* Mutant: what leaves the document stays in the cache.
ForgetDrawn(t, gone) ==
  [t EXCEPT !.li = @ \ gone, !.ul = @ \ gone, !.lined = @ \ gone,
            !.box = [n \in Node |-> IF n \in gone THEN Nothing ELSE @[n]],
            !.line = [n \in Node |-> IF n \in gone THEN Nothing ELSE @[n]]]

Forget(t, gone) ==
  [f \in DOMAIN t |->
     CASE f \in NodeFlags -> t[f] \ gone
       [] f \in {"kids", "parent", "state", "box", "line"} ->
            [n \in DOMAIN t[f] |-> IF n \in gone THEN EmptyTree(t.setting)[f][n] ELSE t[f][n]]
       [] f = "selected" -> Only(t.selected, Node \ gone)
       [] f = "setting" -> t.setting]

Family(t, nodes) == Range(nodes) \cup UNION {Under(t, n) : n \in Range(nodes)}

\* initNode and addNodeCache, for nodes that are the children of p from index
\* on (the last ones if it is negative), and for all below them.
InitNodes(t, p, nodes, index) ==
  LET new == Family(t, nodes)
      inner == {n \in new : HasKids(t, n)}
      at == IF index >= Len(t.kids[p]) - Len(nodes) THEN -1 ELSE index
      alone == Len(t.kids[p]) = Len(nodes)
      radioAll == t.setting.style = "radio" /\ t.setting.radioType = "all"
  IN  [t EXCEPT
         !.parent = [n \in Node |-> IF n \in Range(nodes) THEN p
                                    ELSE IF n \in new THEN CHOOSE q \in inner : n \in Kids(t, q)
                                    ELSE @[n]],
         !.cached = @ \cup new,
         !.isParent = @ \cup inner,
         !.open = @ \ (new \ (inner \cup t.isParent)),
         !.first = (@ \ new) \cup {t.kids[n][1] : n \in inner}
                     \cup (IF at = 0 \/ alone THEN {nodes[1]} ELSE {}),
         !.last = (@ \ new) \cup {Last(t.kids[n]) : n \in inner}
                    \cup (IF at < 0 THEN {Last(nodes)} ELSE {}),
         !.state = [n \in Node |-> IF n \in new THEN -1 ELSE @[n]],
         !.radios = IF radioAll THEN @ \cup (new \cap t.checked) ELSE @]

\* What is in the document of nodes that are: them, and the sons of the open.
Shown(t, nodes) ==
  LET shown[n \in Node] ==
        {n} \cup IF n \in t.open THEN UNION {shown[k] : k \in Kids(t, n)} ELSE {}
  IN  UNION {shown[n] : n \in Range(nodes)}

\* The elements of the nodes in drawn, with the lists of the open ones.
Draw(t, drawn) ==
  LET uls == drawn \cap t.isParent \cap t.open
  IN  [t EXCEPT !.li = @ \cup drawn,
                !.ul = @ \cup uls,
                !.lined = @ \cup (uls \ t.last),
                !.line = [n \in Node |-> IF n \in drawn THEN LineClass(t, n) ELSE @[n]],
                !.box = [n \in Node |-> IF n \in drawn /\ t.setting.enable THEN ChkImage(t, n) ELSE @[n]]]

\* appendNodes after initNode: the boxes' states from the leaves up, p's as
\* well, and the elements of the nodes in drawn.
AppendNodes(t, p, nodes, drawn) ==
  LET family == FlattenSeq([i \in DOMAIN nodes |-> Below(t, nodes[i]) \o <<nodes[i]>>])
      flags == Only(family, {n \in Node : HasKids(t, n)} \cup drawn)
  IN  Draw(Each(MakeChkFlag, t, IF p = Root THEN flags ELSE Append(flags, p)), drawn)

\* createNodes: nodes, already children of p, get their place in the document
\* if p's list is there and p is open or its first child drawn.
CreateNodes(t, p, nodes, index) ==
  LET openFlag == p = Root \/ p \in t.open \/ Head(t.kids[p]) \in t.li
      inDocument == p = Root \/ p \in t.ul
      u == AppendNodes(InitNodes(t, p, nodes, index), p, nodes,
                       IF openFlag /\ inDocument THEN Shown(t, nodes) ELSE {})
  IN  IF nodes = <<>> THEN t
      ELSE IF p = Root THEN u ELSE RepairParentChkClassWithSelf(u, p)

\* The method refresh, which is also the end of init: the document and the
\* cache are emptied, the selection is lost, and all nodes made again.
Refresh(t) ==
  CreateNodes([t EXCEPT !.cached = {}, !.selected = <<>>, !.radios = {}, !.li = {}, !.ul = {}, !.lined = {},
                        !.box = [n \in Node |-> Nothing], !.line = [n \in Node |-> Nothing]],
              Root, t.kids[Root], -1)

\* init of a page's data: a record with kids, isParent, open, checked,
\* nocheck, disabled and half.
InitTree(setting, data) ==
  Refresh([f \in DOMAIN EmptyTree(setting) |->
             IF f \in DOMAIN data THEN data[f] ELSE EmptyTree(setting)[f]])

\* Mutant: the brothers keep their marks of the first and the last.
AddNodesDataMarked(t, p, index, nodes) ==
  LET old == t.kids[p]
      at == IF index >= Len(old) \/ index < 0 THEN Len(old) ELSE index
  IN  [t EXCEPT !.isParent = IF p = Root THEN @ ELSE @ \cup {p},
                !.kids[p] = SubSeq(old, 1, at) \o nodes \o SubSeq(old, at + 1, Len(old))]

AddNodesData(t, p, index, nodes) ==
  LET old == t.kids[p]
      at == IF index >= Len(old) THEN -1 ELSE index
      u == CASE old # <<>> /\ at = 0 ->
                  SetNodeLineIcos([t EXCEPT !.first = @ \ {Head(old)}], Head(old))
             [] old # <<>> /\ at < 0 ->
                  SetNodeLineIcos([t EXCEPT !.last = @ \ {Last(old)}], Last(old))
             [] OTHER -> t
  IN  [u EXCEPT !.isParent = IF p = Root THEN @ ELSE @ \cup {p},
                !.kids[p] = IF at < 0 THEN old \o nodes
                            ELSE SubSeq(old, 1, at) \o nodes \o SubSeq(old, at + 1, Len(old))]

-----------------------------------------------------------------------------
(* Opening and closing.                                                    *)

\* appendParentULDom: the list of n is drawn anew, after those of the
\* ancestors that n needs to be in the document itself.
DrawSons(t, n) ==
  LET below == Under(t, n)
      u == [t EXCEPT !.li = @ \ below,
                     !.ul = @ \ (below \cup {n}), !.lined = @ \ (below \cup {n}),
                     !.box = [m \in Node |-> IF m \in below THEN Nothing ELSE @[m]],
                     !.line = [m \in Node |-> IF m \in below THEN Nothing ELSE @[m]]]
  IN  [AppendNodes(u, n, t.kids[n], Shown(t, t.kids[n])) EXCEPT
         !.ul = @ \cup {n}, !.lined = Assign(@, n, n \notin t.last)]

AppendParentULDom(t, n) ==
  LET drawn[m \in Node] ==
        DrawSons(IF m \in t.li \/ t.parent[m] = Root THEN t ELSE drawn[t.parent[m]], m)
  IN  drawn[n]

\* Mutant: a list that is there is never drawn again.
ExpandCollapseNodeOnce(t, n, v) ==
  LET u == IF n \in t.isParent \ (t.open \cup t.ul) THEN AppendParentULDom(t, n) ELSE t
  IN  IF n \in t.isParent THEN ReplaceFolder([u EXCEPT !.open = Assign(@, n, v)], n) ELSE u

ExpandCollapseNode(t, n, v) ==
  LET undrawn == n \notin t.ul \/ (HasKids(t, n) /\ Head(t.kids[n]) \notin t.li)
      u == IF n \in t.isParent \ t.open /\ undrawn THEN AppendParentULDom(t, n) ELSE t
  IN  IF n \in t.isParent THEN ReplaceFolder([u EXCEPT !.open = Assign(@, n, v)], n) ELSE u

ExpandCollapseAll(t, s, v) == LET one(u, n) == ExpandCollapseNode(u, n, v) IN Each(one, t, s)

ExpandCollapseParentNode(t, n, v) == ExpandCollapseAll(t, <<n>> \o Above(t, n), v)
ExpandCollapseSonNode(t, n, v) == ExpandCollapseAll(t, Below(t, n) \o <<n>>, v)

ExpandAll(t, v) == ExpandCollapseAll(t, Below(t, Root), v)

\* The method expandNode, for a node with isParent.
ExpandNode(t, n, v, sonSign) ==
  LET u == IF v /\ t.parent[n] # Root THEN ExpandCollapseParentNode(t, t.parent[n], TRUE) ELSE t
  IN  IF sonSign THEN ExpandCollapseSonNode(u, n, v)
      ELSE IF (n \in t.open) = v THEN u ELSE ExpandCollapseNode(u, n, v)

SwitchNode(t, n) == ExpandCollapseNode(t, n, n \notin t.open)

AddNodes(t, p, index, nodes, isSilent) ==
  LET folder == IF p = Root \/ p \in t.open THEN t
                ELSE ReplaceFolder([t EXCEPT !.isParent = @ \cup {p}], p)
      u == CreateNodes(AddNodesData(folder, p, index, nodes), p, nodes, index)
  IN  IF p = Root \/ isSilent THEN u ELSE ExpandCollapseParentNode(u, p, TRUE)

-----------------------------------------------------------------------------
(* Removal and selection.                                                  *)

RemoveNode(t, n) ==
  LET p == t.parent[n]
      rest == RemoveAt(t.kids[p], CHOOSE i \in DOMAIN t.kids[p] : t.kids[p][i] = n)
      emptied == IF rest = <<>> THEN {p} ELSE {}
      u == [Forget(t, Under(t, n) \cup {n}) EXCEPT
              !.kids[p] = rest,
              !.first = IF rest = <<>> THEN @ ELSE @ \cup {Head(rest)},
              !.last = IF rest = <<>> THEN @ ELSE @ \cup {Last(rest)},
              !.isParent = @ \ emptied,
              !.open = @ \ emptied]
      v == CASE rest # <<>> -> RepairLines(u, p)
             [] rest = <<>> /\ p # Root -> ReplaceFolder(u, p)
             [] OTHER -> u
  IN  IF p = Root THEN v ELSE RepairParentChkClass(RepairChkClass(v, p), p)

\* Mutant: removed nodes stay selected.
RemoveChildNodesSelected(t, n) ==
  ReplaceFolder([Forget(t, Under(t, n)) EXCEPT
                   !.kids[n] = <<>>, !.isParent = @ \ {n}, !.open = @ \ {n},
                   !.ul = @ \ {n}, !.lined = @ \ {n}, !.selected = t.selected], n)

\* For a node with a list of children, otherwise nothing happens.
RemoveChildNodes(t, n) ==
  ReplaceFolder([Forget(t, Under(t, n)) EXCEPT
                   !.kids[n] = <<>>, !.isParent = @ \ {n}, !.open = @ \ {n},
                   !.ul = @ \ {n}, !.lined = @ \ {n}], n)

CancelSelected(t, n) == [t EXCEPT !.selected = Only(@, Node \ {n})]

\* view.selectNode: without addFlag every other selection is cancelled.
Select(t, n, addFlag) ==
  LET kept == IF addFlag THEN t.selected ELSE Only(t.selected, {n})
  IN  [t EXCEPT !.selected = IF n \in Range(kept) THEN kept ELSE Append(kept, n)]

\* The method selectNode opens the ancestors first.
SelectNode(t, n, addFlag) ==
  Select(IF t.parent[n] = Root THEN t ELSE ExpandCollapseParentNode(t, t.parent[n], TRUE),
         n, addFlag)

\* onClickNode: with ctrl a selected node is released, another one added.
ClickNode(t, n, ctrl) ==
  IF ctrl /\ n \in Range(t.selected) THEN CancelSelected(t, n) ELSE Select(t, n, ctrl)
=============================================================================
