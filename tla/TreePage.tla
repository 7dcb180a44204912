------------------------------ MODULE TreePage ------------------------------
(***************************************************************************)
(* A page with a tree: the user clicks on what is drawn of it, the page's  *)
(* own script calls the control's methods.  Both run on the page's one     *)
(* thread, so a click and a call are a step each.  A page differs from     *)
(* another in the settings of its tree, in its data and in the methods its *)
(* script calls: one of Pages, for the life of the page.  Two bounds: size, *)
(* the number of its nodes, and names, whether the user clicks on names.   *)
(***************************************************************************)
EXTENDS ZTree

CONSTANT Pages

\* The methods, and what a script may do with some of them: insertSilent and
\* addChecked add a node silently in front of its brothers, and one that is
\* checked; checkAlone checks no relatives; disableInner disables nodes that
\* have sons.
Calls == {"addNodes", "addSilent", "insertSilent", "addChecked", "removeNode",
          "removeChildNodes", "expandAll", "expandNode", "selectNode", "cancelSelectedNode",
          "refresh", "checkNode", "checkAlone", "checkAllNodes", "setChkDisabled", "disableInner"}

\* The data are nodes nested in nodes: what is listed is listed once, below
\* one parent, and the nesting ends; flags are flags of what is listed.
WellFormed(data) ==
  LET listed == UNION {Range(data.kids[p]) : p \in Node \cup {Root}} IN
  /\ {"kids"} \subseteq DOMAIN data
  /\ DOMAIN data \subseteq {"kids", "isParent", "open", "checked", "nocheck", "disabled", "half"}
  /\ \A f \in DOMAIN data \ {"kids"} : data[f] \subseteq listed
  /\ data.kids \in [Node \cup {Root} -> Seq(Node)]
  /\ \A p \in Node \cup {Root} : IsInjective(data.kids[p])
  /\ \E up \in [Node -> Node \cup {Root}] :
       /\ \A p \in Node \cup {Root} : Range(data.kids[p]) = {n \in listed : up[n] = p}
       /\ \A n \in Node : up[n] \in (IF n \in listed THEN listed ELSE {}) \cup {Root}
       /\ \E depth \in [Node -> 0 .. Cardinality(Node)] :
            \A n \in Node : up[n] # Root => depth[up[n]] < depth[n]

ASSUME PagesAssumption ==
  \A p \in Pages : /\ p.setting \in Setting /\ p.script \subseteq Calls /\ p.size \in Nat
                   /\ WellFormed(p.data)

VARIABLES page, tree
vars == <<page, tree>>

Script == page.script
Unused == Node \ InTree(tree)
Spare == CHOOSE n \in Unused : TRUE      \* unused nodes are all alike

\* What the user can reach: drawn, and in no closed list.
Visible == {n \in tree.li : Range(Above(tree, n)) \subseteq tree.open}

Init == /\ page \in Pages
        /\ tree = InitTree(page.setting, page.data)

Step(t) == tree' = t /\ UNCHANGED page

-----------------------------------------------------------------------------
(* The user.                                                               *)

ClickName(n, ctrl) == page.names /\ n \in Visible /\ Step(ClickNode(tree, n, ctrl))

ClickSwitch(n) == n \in Visible \cap tree.isParent /\ Step(SwitchNode(tree, n))

\* The box of a node with nocheck is hidden, a disabled one does not react.
ClickBox(n) == /\ tree.setting.enable
               /\ n \in Visible \ Fixed(tree)
               /\ Step(ToggleCheck(tree, n))

-----------------------------------------------------------------------------
(* The script.                                                             *)

\* One new node, checked or not, at any place; isSilent leaves the parent
\* closed.
CallAddNodes(p, index, isSilent, v) ==
  /\ IF isSilent THEN "addSilent" \in Script /\ (index = 0 => "insertSilent" \in Script)
                 ELSE "addNodes" \in Script
  /\ Cardinality(InTree(tree)) < page.size /\ Unused # {}
  /\ index < Len(tree.kids[p])
  /\ v => "addChecked" \in Script
  /\ Step(AddNodes([tree EXCEPT !.checked = Assign(@, Spare, v)], p, index, <<Spare>>, isSilent))

CallRemoveNode(n) == "removeNode" \in Script /\ Step(RemoveNode(tree, n))

\* For a node with a list of children; an empty one goes with its drawn list.
CallRemoveChildNodes(n) == /\ "removeChildNodes" \in Script
                           /\ HasKids(tree, n) \/ n \in tree.ul
                           /\ Step(RemoveChildNodes(tree, n))

CallExpandAll(v) == "expandAll" \in Script /\ Step(ExpandAll(tree, v))

CallExpandNode(n, v, sonSign) == /\ "expandNode" \in Script /\ n \in tree.isParent
                                 /\ Step(ExpandNode(tree, n, v, sonSign))

CallSelectNode(n, addFlag) == "selectNode" \in Script /\ Step(SelectNode(tree, n, addFlag))

CallCancelSelectedNode(n) ==
  "cancelSelectedNode" \in Script /\ n \in Range(tree.selected) /\ Step(CancelSelected(tree, n))

CallRefresh == "refresh" \in Script /\ Step(Refresh(tree))

CallCheckNode(n, v, checkTypeFlag) ==
  /\ "checkNode" \in Script
  /\ checkTypeFlag \/ "checkAlone" \in Script
  /\ Step(CheckNode(tree, n, v, checkTypeFlag))

CallCheckAllNodes(v) == "checkAllNodes" \in Script /\ Step(CheckAllNodes(tree, v))

CallSetChkDisabled(n, v, inheritParent, inheritChildren) ==
  /\ "setChkDisabled" \in Script
  /\ HasKids(tree, n) \/ inheritParent => "disableInner" \in Script
  /\ Step(SetChkDisabled(tree, n, v, inheritParent, inheritChildren))

Next ==
  \/ \E n \in InTree(tree) :
       \/ ClickSwitch(n) \/ ClickBox(n) \/ CallRemoveNode(n) \/ CallRemoveChildNodes(n)
       \/ CallCancelSelectedNode(n)
       \/ \E v, w \in BOOLEAN : CallExpandNode(n, v, w) \/ CallCheckNode(n, v, w)
       \/ \E v \in BOOLEAN : ClickName(n, v) \/ CallSelectNode(n, v)
       \/ \E v, p, s \in BOOLEAN : CallSetChkDisabled(n, v, p, s)
  \/ \E p \in InTree(tree) \cup {Root}, index \in -1 .. Cardinality(Node), silent, v \in BOOLEAN :
       CallAddNodes(p, index, silent, v)
  \/ \E v \in BOOLEAN : CallExpandAll(v) \/ CallCheckAllNodes(v)
  \/ CallRefresh

Spec == Init /\ [][Next]_vars

-----------------------------------------------------------------------------
(* Properties.                                                             *)

TypeOK == page \in Pages /\ tree \in Tree

\* The lists of children, the parents' keys and the cache tell one tree: a
\* node is the child of one parent, once, that parent is the one it names,
\* and the cache has the nodes of the tree and no other (addNodesData,
\* removeNode, removeNodeCache and initNode keep three copies in step).
OneTree ==
  /\ tree.cached = InTree(tree)
  /\ Cardinality(InTree(tree)) = Len(Below(tree, Root))
  /\ \A p \in InTree(tree) \cup {Root} : \A n \in Kids(tree, p) : tree.parent[n] = p
  /\ {p \in Node : HasKids(tree, p)} \subseteq tree.isParent

\* The marks of the first and of the last son, from which the lines are drawn,
\* are on the first and on the last son, wherever nodes were put in and
\* taken out.
EndsMarked ==
  /\ tree.first = {Head(tree.kids[p]) : p \in {q \in Node \cup {Root} : HasKids(tree, q)}}
  /\ tree.last = {Last(tree.kids[p]) : p \in {q \in Node \cup {Root} : HasKids(tree, q)}}

\* A node that is shown open shows all its children, although lists are drawn
\* late, in part, and again (expandCollapseNode looks at the first child only,
\* and is misled by one that was put there silently).
OpenShowsAll ==
  "insertSilent" \notin Script => \A n \in tree.li \cap tree.open : Kids(tree, n) \subseteq tree.li

\* What is drawn is in the tree, under a list that is drawn; what is selected
\* is in the tree.
DrawnIsLive ==
  /\ tree.li \cup Range(tree.selected) \subseteq InTree(tree)
  /\ \A n \in tree.li : tree.parent[n] \in tree.ul \cup {Root}

\* The lines and folders that are drawn are those of the tree: they are drawn
\* once, and every later operation replaces the parts it believes to change,
\* of the node, of its parent, and of the brother before it.
LinesCurrent ==
  /\ \A n \in tree.li : tree.line[n] = LineClass(tree, n)
  /\ tree.lined = tree.ul \ tree.last

\* The tree the page began with.
Given == InitTree(page.setting, page.data)

\* Below such a node the boxes that cannot change are those of leaves, and the
\* data half check none.
Plain(t, n) ==
  \A m \in Under(t, n) \cup {n} : m \notin t.half /\ (m \in Fixed(t) => ~HasKids(t, m))

\* Every box that is drawn shows what the boxes below it say, after every
\* click and call, in lists drawn before and after it.  (Recursions pass by a
\* node that cannot change, and leave its state as it was; the sons of a
\* disabled node are not repaired with it, nor is a node whose children are
\* removed all at once.)
BoxesCurrent ==
  {"disableInner", "removeChildNodes"} \cap Script = {} /\ tree.setting.enable
  => \A n \in tree.li \ tree.nocheck :
       Plain(tree, n) => tree.box[n] = ChkImage(MakeChkFlag(tree, n), n)

\* Pages on which boxes change by clicks, and in ways that take the relatives
\* along.
Related == /\ tree.setting.enable /\ tree.setting.style = "checkbox"
           /\ {"addNodes", "addSilent", "checkAlone", "setChkDisabled"} \cap Script = {}

\* Where checking goes up and unchecking goes down, as on the administrator's
\* page of roles, whoever is checked has a checked parent, if that can change,
\* as long as the data are so.
Upheld(t) == \A n \in t.checked \ Fixed(t) : t.parent[n] \in t.checked \cup Fixed(t) \cup {Root}
ParentsChecked ==
  Related /\ "p" \in tree.setting.Y /\ "s" \in tree.setting.N /\ Upheld(Given) => Upheld(tree)

\* Where both go both ways, an inner node is checked exactly if one of its
\* sons is, as long as the data are so, all boxes can change and no son is
\* taken away.
Summed(t) == \A n \in InTree(t) : HasKids(t, n) =>
               (n \in t.checked <=> Kids(t, n) \cap t.checked # {})
InnerFollowsSons ==
  /\ Related /\ "removeNode" \notin Script /\ tree.setting.Y \cap tree.setting.N = {"p", "s"}
  /\ Fixed(Given) = {} /\ Summed(Given)
  => Summed(tree)

\* One radio button is checked among brothers, or in the whole tree, whatever
\* was clicked, set, added, removed and made anew, if it is so in the data.
Single(t) == IF t.setting.radioType = "all" THEN Cardinality(t.checked) <= 1
             ELSE \A p \in InTree(t) \cup {Root} : Cardinality(Kids(t, p) \cap t.checked) <= 1
OneRadio ==
  tree.setting.style = "radio" /\ "addChecked" \notin Script /\ Single(Given) => Single(tree)

\* A box that is disabled or hidden is not changed by what happens to others.
FixedKept ==
  [][tree.setting.style = "checkbox" =>
       \A n \in Fixed(tree) \cap tree.cached \cap tree'.cached :
         n \in tree.checked <=> n \in tree.checked']_vars
=============================================================================
