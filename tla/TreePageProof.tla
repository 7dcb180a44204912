--------------------------- MODULE TreePageProof ---------------------------
(***************************************************************************)
(* What stays true of a page with a tree, for trees of any finite size and *)
(* shape, any pages and any sequence of clicks and calls; before it, what  *)
(* only pages with such scripts do to a tree, as nodes come and go.        *)
(***************************************************************************)
EXTENDS TreePage, ZTreeProof

-----------------------------------------------------------------------------
(* A tree that gets or loses nodes.                                        *)

\* The place p, if it is a node, and what is above it.
Route(t, p) == IF p = Root THEN {} ELSE Upward(t, p)

LEMMA RouteIs ==
  ASSUME NEW t, Agree(t), NEW p \in Node \cup {Root}
  PROVE  /\ Route(t, p) \in SUBSET Node /\ p \in Route(t, p) \cup {Root} /\ Climbing(t, Route(t, p))
         /\ \A n \in Node \ Route(t, p) : n # p /\ \A c \in Node : t.parent[c] = n => c \notin Route(t, p)
<1>1. CASE p = Root
  BY <1>1, TreeAssumption DEF Route, Climbing
<1>2. CASE p # Root
  <2>1. Route(t, p) = Upward(t, p) /\ p \in Node
    BY <1>2 DEF Route
  <2>2. /\ Upward(t, p) = {p} \cup Range(Above(t, p)) /\ Upward(t, p) \in SUBSET Node
        /\ ParentsOf(t, Upward(t, p)) \subseteq Range(Above(t, p)) \cup {Root}
    BY <2>1, UpwardSplits
  <2>3. \A c \in Upward(t, p) : t.parent[c] \in Upward(t, p) \cup {Root}
    BY <2>2 DEF ParentsOf
  <2>. QED  BY <2>1, <2>2, <2>3, TreeAssumption DEF Climbing
<1>. QED  BY <1>1, <1>2

\* The nodes of K have kept all that they and their sons say.
LEMMA StillSettled ==
  ASSUME NEW t, Agree(t), NEW u, Agree(u), u.setting = t.setting, NEW K, K \subseteq t.cached,
         \A n \in K : /\ SameBox(t, u, n) /\ Kids(u, n) = Kids(t, n) /\ Kids(t, n) \subseteq K
                     /\ u.box[n] = t.box[n] /\ (n \in u.li => n \in t.li),
         Settled(t)
  PROVE  SettledBut(u, u.cached \ K)
<1>1. /\ t \in Tree /\ u \in Tree /\ K \subseteq Node
      /\ \A q \in Node : (HasKids(t, q) <=> Kids(t, q) # {}) /\ (HasKids(u, q) <=> Kids(u, q) # {})
  BY KidsAre DEF Agree, Tree
<1>. SUFFICES ASSUME t.setting.enable, NEW n \in K, Simple(u, n) PROVE Right(u, n)
  BY DEF SettledBut
<1>2. PICK S \in SUBSET Node : n \in S /\ Flawless(u, S)
  BY DEF Simple
<1>3. Flawless(t, S \cap K)
  <2>. SUFFICES ASSUME NEW q \in S \cap K
                PROVE  /\ Kids(t, q) \subseteq S \cap K /\ q \notin t.half
                       /\ q \in Fixed(t) => ~HasKids(t, q)
    BY DEF Flawless
  <2>1. Kids(u, q) \subseteq S /\ q \notin u.half /\ (q \in Fixed(u) => ~HasKids(u, q))
    BY <1>2 DEF Flawless
  <2>2. SameBox(t, u, q) /\ Kids(u, q) = Kids(t, q) /\ Kids(t, q) \subseteq K /\ q \in Node
    BY <1>1
  <2>3. (q \in t.half <=> q \in u.half) /\ (q \in Fixed(t) <=> q \in Fixed(u))
    BY <2>2 DEF SameBox, Fixed
  <2>4. HasKids(t, q) => HasKids(u, q)
    BY <1>1, <2>2
  <2>5. Kids(t, q) \subseteq S \cap K
    BY <2>1, <2>2
  <2>6. q \in Fixed(t) => ~HasKids(t, q)
    BY <2>1, <2>3, <2>4
  <2>. QED  BY <2>1, <2>3, <2>5, <2>6
<1>4. Simple(t, n)
  BY <1>2, <1>3 DEF Simple
<1>5. Right(t, n)
  BY <1>4 DEF Settled, SettledBut
<1>6. \A c \in Kids(t, n) : SonFlag(u, c) = SonFlag(t, c)
  BY AlikeSay
<1>. QED  BY <1>1, <1>5, <1>6, RightStays

-----------------------------------------------------------------------------
(* A node is added.                                                        *)

\* x may become the son of p, at index or, if that is negative, as the last.
Adds(t, p, index, x) ==
  /\ Sound(t) /\ x \in Node \ t.cached /\ p \in t.cached \cup {Root}
  /\ index \in Int /\ index < Len(t.kids[p])

\* u has x as a son of p, t has not.
Added(t, p, index, x, u) ==
  /\ u.kids = [t.kids EXCEPT ![p] = Put(t.kids[p], index, x)]
  /\ u.parent = [t.parent EXCEPT ![x] = p]
  /\ u.cached = t.cached \cup {x}

LEMMA NoSons ==
  ASSUME NEW t, Agree(t), NEW x \in Node \ t.cached
  PROVE  /\ Kids(t, x) = {} /\ t.kids[x] = <<>> /\ t.parent[x] = Root
         /\ \A q \in Node \cup {Root} : x \notin Kids(t, q)
         /\ \A q \in Node : t.parent[q] # x
<1>1. t \in Tree /\ x # Root
  BY TreeAssumption DEF Agree
<1>2. Kids(t, x) = {}
  BY <1>1 DEF Agree
<1>3. t.kids[x] = <<>>
  BY <1>1, <1>2, KidsAre DEF HasKids
<1>. QED  BY <1>1, <1>2, <1>3 DEF Agree

LEMMA AddAgrees ==
  ASSUME NEW t, NEW p, NEW index, NEW x, Adds(t, p, index, x), NEW u \in Tree, Added(t, p, index, x, u)
  PROVE  /\ Agree(u)
         /\ Kids(u, p) = Kids(t, p) \cup {x}
         /\ \A q \in (Node \cup {Root}) \ {p} : u.kids[q] = t.kids[q] /\ Kids(u, q) = Kids(t, q)
         /\ u.kids[p] = Put(t.kids[p], index, x)
<1>1. Agree(t) /\ t \in Tree /\ p \in Node \cup {Root} /\ x \in Node /\ x # Root
  BY TreeAssumption DEF Adds, Sound, Agree, Tree
<1>2. /\ t.kids \in [Node \cup {Root} -> Seq(Node)] /\ t.parent \in [Node -> Node \cup {Root}]
      /\ t.cached \in SUBSET Node
  BY <1>1 DEF Tree
<1>3. /\ Kids(t, x) = {} /\ t.kids[x] = <<>> /\ t.parent[x] = Root
      /\ \A q \in Node \cup {Root} : x \notin Kids(t, q)
      /\ \A q \in Node : t.parent[q] # x
  BY <1>1, NoSons DEF Adds
<1>4. t.kids[p] \in Seq(Node) /\ IsInjective(t.kids[p]) /\ x \notin Range(t.kids[p])
  BY <1>1, <1>2, <1>3 DEF Agree, Kids
<1>. DEFINE new == Put(t.kids[p], index, x)
<1>5. /\ new \in Seq(Node) /\ Range(new) = Range(t.kids[p]) \cup {x}
      /\ IsInjective(t.kids[p]) /\ x \notin Range(t.kids[p]) => IsInjective(new)
  <2>1. index \in Int /\ index < Len(t.kids[p])
    BY DEF Adds
  <2>. QED  BY <1>1, <1>4, <2>1, PutIs
<1>6. /\ u.kids[p] = new
      /\ \A q \in (Node \cup {Root}) \ {p} : u.kids[q] = t.kids[q]
  <2>1. u.kids = [t.kids EXCEPT ![p] = new]
    BY DEF Added
  <2>. HIDE DEF new
  <2>. QED  BY <1>1, <1>2, <2>1
<1>. HIDE DEF new
<1>7. /\ Kids(u, p) = Kids(t, p) \cup {x}
      /\ \A q \in (Node \cup {Root}) \ {p} : Kids(u, q) = Kids(t, q)
  BY <1>5, <1>6 DEF Kids
<1>8. u.parent[x] = p /\ \A q \in Node \ {x} : u.parent[q] = t.parent[q]
  BY <1>1, <1>2 DEF Added
<1>9. u.cached = t.cached \cup {x}
  BY DEF Added
<1>10. ParentsEnd(u)
  <2>1. PICK N \in Nat : \E depth \in [Node -> 0 .. N] :
               \A n \in Node : t.parent[n] # Root => depth[t.parent[n]] < depth[n]
    BY <1>1 DEF Agree, ParentsEnd
  <2>2. PICK depth \in [Node -> 0 .. N] :
               \A n \in Node : t.parent[n] # Root => depth[t.parent[n]] < depth[n]
    BY <2>1
  <2>. DEFINE d == [n \in Node |-> IF n = x THEN N + 1 ELSE depth[n]]
  <2>3. N + 1 \in Nat /\ d \in [Node -> 0 .. N + 1]
    OBVIOUS
  <2>4. ASSUME NEW n \in Node, u.parent[n] # Root PROVE d[u.parent[n]] < d[n]
    <3>1. CASE n = x
      <4>1. u.parent[n] = p /\ p \in Node /\ p # x
        BY <1>1, <1>8, <2>4, <3>1 DEF Adds
      <4>2. d[p] = depth[p] /\ d[n] = N + 1 /\ depth[p] \in 0 .. N
        BY <3>1, <4>1
      <4>. QED  BY <4>1, <4>2
    <3>2. CASE n # x
      <4>1. u.parent[n] = t.parent[n] /\ t.parent[n] # x /\ t.parent[n] \in Node
        BY <1>2, <1>3, <1>8, <2>4, <3>2
      <4>2. d[t.parent[n]] = depth[t.parent[n]] /\ d[n] = depth[n]
        BY <3>2, <4>1
      <4>. QED  BY <2>2, <2>4, <4>1, <4>2
    <3>. QED  BY <3>1, <3>2
  <2>. HIDE DEF d
  <2>. QED  BY <2>3, <2>4 DEF ParentsEnd
<1>11. ASSUME NEW q \in Node \cup {Root} PROVE Kids(u, q) = {k \in u.cached : u.parent[k] = q}
  <2>1. Kids(t, q) = {k \in t.cached : t.parent[k] = q}
    BY <1>1 DEF Agree
  <2>2. x \notin t.cached
    BY DEF Adds
  <2>3. {k \in u.cached : u.parent[k] = q} =
          {k \in t.cached : t.parent[k] = q} \cup (IF q = p THEN {x} ELSE {})
    BY <1>2, <1>8, <1>9, <2>2
  <2>. QED  BY <1>7, <2>1, <2>3
<1>12. \A q \in Node \cup {Root} : IsInjective(u.kids[q])
  BY <1>1, <1>4, <1>5, <1>6 DEF Agree
<1>13. /\ \A q \in u.cached : u.parent[q] \in u.cached \cup {Root}
       /\ \A q \in Node \ u.cached : u.parent[q] = Root
  BY <1>1, <1>2, <1>8, <1>9 DEF Agree, Adds
<1>. QED  BY <1>6, <1>7, <1>10, <1>11, <1>12, <1>13 DEF Agree, new

\* The folder of a node that gets its first son.
LEMMA FolderSound ==
  ASSUME NEW t, Sound(t), NEW p \in t.cached \ t.open
  PROVE  LET r == ReplaceFolder([t EXCEPT !.isParent = @ \cup {p}], p) IN
         /\ r \in Differ(t, {"isParent", "line"}) /\ Sound(r)
         /\ r.isParent = t.isParent \cup {p} /\ \A E : Whole(t, E) => Whole(r, E)
         /\ Settled(t) => Settled(r)
<1>. DEFINE u == [t EXCEPT !.isParent = @ \cup {p}]
            r == ReplaceFolder(u, p)
<1>1. t \in Tree /\ p \in Node /\ Agree(t)
  BY DEF Sound, Agree, Tree
<1>2. /\ u \in Tree /\ u.isParent = t.isParent \cup {p} /\ u \in Differ(t, {"isParent"})
      /\ u.li = t.li /\ u.line = t.line
  BY <1>1 DEF Tree, Differ, Fields
<1>3. p \in u.li => u.line[p] \in Line
  BY <1>1, <1>2, LineClassType DEF Sound, Pictured
<1>. HIDE DEF u
<1>4. /\ r \in Differ(u, {"line"})
      /\ \A m \in Node : r.line[m] = IF m = p /\ p \in u.li THEN <<u.line[p][1], Folder(u, p)>> ELSE u.line[m]
  BY <1>1, <1>2, <1>3, FolderIs
<1>. HIDE DEF r
<1>5. r \in Differ(t, {"isParent", "line"})
  BY <1>2, <1>4 DEF Differ
<1>6. /\ r \in Tree /\ r.isParent = t.isParent \cup {p} /\ r.open = t.open /\ r.first = t.first
      /\ r.last = t.last /\ r.li = t.li /\ r.ul = t.ul /\ r.lined = t.lined
      /\ r.parent = t.parent /\ r.kids = t.kids /\ r.cached = t.cached /\ r.selected = t.selected
  BY <1>2, <1>4 DEF Differ, Fields
<1>7. Agree(r)
  BY <1>1, <1>5, AgreeStays DEF Family3
<1>8. Inner(r)
  BY <1>6 DEF Sound, Inner, HasKids
<1>9. Ended(r)
  BY <1>6 DEF Sound, Ended
<1>10. ASSUME NEW n \in r.li PROVE r.line[n] = LineClass(r, n)
  <2>1. n \in Node /\ t.line[n] = LineClass(t, n)
    BY <1>1, <1>6, <1>10 DEF Sound, Pictured, Tree
  <2>2. CASE n = p
    <3>1. r.line[n] = <<t.line[n][1], Folder(u, n)>>
      BY <1>2, <1>4, <1>6, <1>10, <2>1, <2>2
    <3>2. LineClass(t, n)[1] = LineClass(r, n)[1]
      BY <1>6 DEF LineClass
    <3>3. Folder(u, n) = Folder(r, n)
      BY <1>2, <1>4 DEF Folder, Differ, Fields
    <3>4. LineClass(r, n) = <<LineClass(r, n)[1], Folder(r, n)>>
      BY <1>6, <2>1, LineClassType
    <3>. QED  BY <2>1, <3>1, <3>2, <3>3, <3>4
  <2>3. CASE n # p
    <3>1. r.line[n] = t.line[n]
      BY <1>2, <1>4, <2>1, <2>3
    <3>2. LineClass(t, n) = LineClass(r, n)
      BY <1>6, <2>3 DEF LineClass, Folder
    <3>. QED  BY <2>1, <3>1, <3>2
  <2>. QED  BY <2>2, <2>3
<1>11. Pictured(r)
  BY <1>6, <1>10 DEF Sound, Pictured, Kids
<1>12. Sound(r)
  BY <1>6, <1>7, <1>8, <1>9, <1>11 DEF Sound
<1>13. \A E : Whole(t, E) => Whole(r, E)
  BY <1>6 DEF Whole, Kids
<1>14. {"isParent", "line"} \cap Boxing = {}
  BY DEF Boxing
<1>15. Settled(t) => Settled(r)
  BY <1>1, <1>5, <1>14, SettledStays DEF Settled
<1>. QED  BY <1>5, <1>6, <1>12, <1>13, <1>15 DEF r, u

\* The lines of a node that is no longer the first or the last.
LEMMA EndMarked ==
  ASSUME NEW t, Sound(t), NEW h \in Node, NEW v \in Differ(t, {"first", "last"}),
         v.first \ {h} = t.first \ {h}, v.last \ {h} = t.last \ {h}
  PROVE  LET w == SetNodeLineIcos(v, h) IN
         /\ w \in Differ(v, {"line", "lined"}) /\ w.lined = w.ul \ w.last
         /\ \A n \in w.li : w.line[n] = LineClass(w, n)
<1>. DEFINE w == SetNodeLineIcos(v, h)
            l == IF h \in v.li THEN LineClass(v, h) ELSE v.line[h]
            d == IF h \in v.ul THEN Assign(v.lined, h, h \notin v.last) ELSE v.lined
<1>1. t \in Tree /\ v \in Tree /\ v.lined = t.lined /\ v.ul = t.ul /\ v.li = t.li /\ v.line = t.line
  BY DEF Sound, Agree, Differ, Fields
<1>2. w = [v EXCEPT !.line[h] = l, !.lined = d]
  BY DEF SetNodeLineIcos
<1>3. l \in Line \cup {Nothing}
  BY <1>1, LineClassType DEF Tree
<1>4. d \in SUBSET Node
  BY <1>1 DEF Tree, Assign
<1>. HIDE DEF l, d
<1>5. /\ w \in Tree /\ w \in Differ(v, {"line", "lined"})
      /\ w.line = [v.line EXCEPT ![h] = l] /\ w.lined = d
  <2>. DEFINE m == [v.line EXCEPT ![h] = l]
  <2>1. m \in [Node -> Line \cup {Nothing}]
    BY <1>1, <1>3 DEF Tree
  <2>2. w = [v EXCEPT !.line = m, !.lined = d]
    BY <1>2
  <2>. HIDE DEF m, w
  <2>3. w \in Tree
    BY <1>1, <1>4, <2>1, <2>2 DEF Tree
  <2>4. w.line = m /\ w.lined = d
    BY <1>1, <2>2 DEF Tree
  <2>5. \A f \in Fields \ {"line", "lined"} : w[f] = v[f]
    BY <1>1, <2>2 DEF Tree, Fields
  <2>. QED  BY <2>3, <2>4, <2>5 DEF m, Differ
<1>. HIDE DEF w
<1>6. /\ w.ul = v.ul /\ w.last = v.last /\ w.first = v.first /\ w.li = v.li
      /\ w.parent = v.parent /\ w.isParent = v.isParent /\ w.open = v.open
  BY <1>5 DEF Differ, Fields
<1>7. /\ v.parent = t.parent /\ v.isParent = t.isParent /\ v.open = t.open
  BY DEF Differ, Fields
<1>8. t.lined = t.ul \ t.last
  BY DEF Sound, Pictured
<1>9. w.lined = w.ul \ w.last
  BY <1>1, <1>5, <1>6, <1>8 DEF d, Assign
<1>10. ASSUME NEW n \in w.li PROVE w.line[n] = LineClass(w, n)
  <2>1. n \in Node /\ n \in t.li /\ t.line[n] = LineClass(t, n)
    BY <1>1, <1>6, <1>10 DEF Sound, Pictured, Tree
  <2>2. CASE n = h
    <3>1. w.line[n] = LineClass(v, n)
      BY <1>1, <1>5, <1>6, <2>1, <2>2 DEF l, Tree
    <3>2. LineClass(w, n) = LineClass(v, n)
      BY <1>6 DEF LineClass, Folder
    <3>. QED  BY <3>1, <3>2
  <2>3. CASE n # h
    <3>1. w.line[n] = t.line[n]
      BY <1>1, <1>5, <2>1, <2>3 DEF Tree
    <3>2. (n \in w.first <=> n \in t.first) /\ (n \in w.last <=> n \in t.last)
      BY <1>6, <2>3
    <3>3. LineClass(w, n) = LineClass(t, n)
      BY <1>6, <1>7, <3>2 DEF LineClass, Folder
    <3>. QED  BY <2>1, <3>1, <3>3
  <2>. QED  BY <2>2, <2>3
<1>. QED  BY <1>5, <1>9, <1>10 DEF w

\* The data of the tree with x, its brothers' marks and lines.
DataAdded(t, p, index, x, d) ==
  /\ d \in Differ(t, {"kids", "first", "last", "line", "lined"})
  /\ d.kids = [t.kids EXCEPT ![p] = Put(t.kids[p], index, x)]
  /\ d.first = t.first \ (IF t.kids[p] # <<>> /\ index = 0 THEN {t.kids[p][1]} ELSE {})
  /\ d.last = t.last \ (IF t.kids[p] # <<>> /\ index < 0 THEN {Last(t.kids[p])} ELSE {})
  /\ d.lined = d.ul \ d.last
  /\ \A n \in d.li : d.line[n] = LineClass(d, n)

LEMMA DataIs ==
  ASSUME NEW t, NEW p, NEW index, NEW x, Adds(t, p, index, x), p \in t.isParent \cup {Root}
  PROVE  DataAdded(t, p, index, x, AddNodesData(t, p, index, <<x>>))
<1>. DEFINE old == t.kids[p]
            v == CASE old # <<>> /\ index = 0 -> [t EXCEPT !.first = @ \ {Head(old)}]
                   [] old # <<>> /\ index < 0 -> [t EXCEPT !.last = @ \ {Last(old)}]
                   [] OTHER -> t
            u == CASE old # <<>> /\ index = 0 -> SetNodeLineIcos(v, Head(old))
                   [] old # <<>> /\ index < 0 -> SetNodeLineIcos(v, Last(old))
                   [] OTHER -> t
            new == Put(t.kids[p], index, x)
            d == [u EXCEPT !.isParent = IF p = Root THEN @ ELSE @ \cup {p}, !.kids[p] = new]
<1>1. /\ t \in Tree /\ Sound(t) /\ Agree(t) /\ p \in Node \cup {Root} /\ x \in Node
      /\ index \in Int /\ index < Len(old)
  BY DEF Adds, Sound, Agree, Tree
<1>2. /\ old \in Seq(Node) /\ Len(old) \in Nat
      /\ old # <<>> => Head(old) = old[1] /\ Head(old) \in Node /\ Last(old) \in Node
  <2>1. old \in Seq(Node) /\ Len(old) \in Nat
    BY <1>1 DEF Tree
  <2>2. old # <<>> => Head(old) = old[1] /\ Head(old) \in Node /\ Last(old) \in Node
    BY <1>1, EndsAre, KidsAre DEF HasKids
  <2>. QED  BY <2>1, <2>2
<1>3. AddNodesData(t, p, index, <<x>>) = d
  <2>. DEFINE at == IF index >= Len(old) THEN -1 ELSE index
  <2>1. at = index
    BY <1>1, <1>2
  <2>2. new = IF at < 0 THEN old \o <<x>> ELSE SubSeq(old, 1, at) \o <<x>> \o SubSeq(old, at + 1, Len(old))
    BY <2>1 DEF Put
  <2>3. u = CASE old # <<>> /\ at = 0 ->
                  SetNodeLineIcos([t EXCEPT !.first = @ \ {Head(old)}], Head(old))
             [] old # <<>> /\ at < 0 ->
                  SetNodeLineIcos([t EXCEPT !.last = @ \ {Last(old)}], Last(old))
             [] OTHER -> t
    BY <2>1
  <2>. HIDE DEF u, new
  <2>. QED  BY <2>2, <2>3 DEF AddNodesData
<1>. DEFINE f == t.first \ (IF t.kids[p] # <<>> /\ index = 0 THEN {t.kids[p][1]} ELSE {})
            l == t.last \ (IF t.kids[p] # <<>> /\ index < 0 THEN {Last(t.kids[p])} ELSE {})
<1>4. v \in Differ(t, {"first", "last"}) /\ v.first = f /\ v.last = l
  <2>1. CASE old # <<>> /\ index = 0
    <3>1. v = [t EXCEPT !.first = @ \ {Head(old)}]
      BY <2>1
    <3>2. t.first \ {Head(old)} \in SUBSET Node
      BY <1>1 DEF Tree
    <3>. HIDE DEF v
    <3>3. v \in Tree
      BY <1>1, <3>1, <3>2 DEF Tree
    <3>4. /\ v.first = t.first \ {Head(old)}
          /\ \A g \in Fields \ {"first", "last"} : v[g] = t[g]
          /\ v.last = t.last
      BY <1>1, <3>1 DEF Tree, Fields
    <3>5. v.first = f /\ v.last = l
      BY <1>1, <1>2, <2>1, <3>4
    <3>. QED  BY <3>3, <3>4, <3>5 DEF Differ
  <2>2. CASE old # <<>> /\ index < 0
    <3>1. v = [t EXCEPT !.last = @ \ {Last(old)}]
      BY <1>1, <2>2
    <3>2. t.last \ {Last(old)} \in SUBSET Node
      BY <1>1 DEF Tree
    <3>. HIDE DEF v
    <3>3. v \in Tree
      BY <1>1, <3>1, <3>2 DEF Tree
    <3>4. /\ v.last = t.last \ {Last(old)}
          /\ \A g \in Fields \ {"first", "last"} : v[g] = t[g]
          /\ v.first = t.first
      BY <1>1, <3>1 DEF Tree, Fields
    <3>5. v.first = f /\ v.last = l
      BY <1>1, <1>2, <2>2, <3>4
    <3>. QED  BY <3>3, <3>4, <3>5 DEF Differ
  <2>3. CASE ~(old # <<>> /\ index = 0) /\ ~(old # <<>> /\ index < 0)
    <3>1. v = t /\ f = t.first /\ l = t.last
      BY <2>3
    <3>. QED  BY <1>1, <3>1, DifferNot
  <2>. QED  BY <2>1, <2>2, <2>3
<1>5. /\ u \in Differ(v, {"line", "lined"}) /\ u.lined = u.ul \ u.last
      /\ \A n \in u.li : u.line[n] = LineClass(u, n)
  <2>1. CASE old # <<>> /\ index = 0
    <3>1. u = SetNodeLineIcos(v, Head(old))
      BY <2>1
    <3>2. v.first \ {Head(old)} = t.first \ {Head(old)} /\ v.last \ {Head(old)} = t.last \ {Head(old)}
      BY <1>2, <1>4, <2>1
    <3>. HIDE DEF u, v
    <3>. QED  BY <1>1, <1>2, <1>4, <2>1, <3>1, <3>2, EndMarked
  <2>2. CASE old # <<>> /\ index < 0
    <3>1. u = SetNodeLineIcos(v, Last(old))
      BY <1>1, <2>2
    <3>2. v.first \ {Last(old)} = t.first \ {Last(old)} /\ v.last \ {Last(old)} = t.last \ {Last(old)}
      BY <1>1, <1>2, <1>4, <2>2
    <3>. HIDE DEF u, v
    <3>. QED  BY <1>1, <1>2, <1>4, <2>2, <3>1, <3>2, EndMarked
  <2>3. CASE ~(old # <<>> /\ index = 0) /\ ~(old # <<>> /\ index < 0)
    <3>1. v = t /\ u = t
      BY <2>3
    <3>. HIDE DEF u, v
    <3>2. u \in Differ(v, {"line", "lined"})
      BY <1>1, <3>1, DifferNot
    <3>. QED  BY <1>1, <3>1, <3>2 DEF Sound, Pictured
  <2>. QED  BY <2>1, <2>2, <2>3
<1>. HIDE DEF u, v
<1>6. u \in Differ(t, {"first", "last", "line", "lined"}) /\ u.first = f /\ u.last = l
  BY <1>4, <1>5 DEF Differ, Fields
<1>. HIDE DEF f, l
<1>7. new \in Seq(Node)
  BY <1>1, <1>2, PutIs
<1>8. /\ u \in Tree /\ u.isParent = t.isParent /\ u.kids = t.kids
  BY <1>6 DEF Differ, Fields
<1>9. (IF p = Root THEN u.isParent ELSE u.isParent \cup {p}) = u.isParent
  BY <1>8
<1>. HIDE DEF new
<1>10. /\ d \in Differ(u, {"kids"}) /\ d.kids = [t.kids EXCEPT ![p] = new]
  <2>1. d = [u EXCEPT !.isParent = u.isParent, !.kids = [t.kids EXCEPT ![p] = new]]
    BY <1>8, <1>9
  <2>2. [t.kids EXCEPT ![p] = new] \in [Node \cup {Root} -> Seq(Node)]
    BY <1>1, <1>7 DEF Tree
  <2>. QED  BY <1>8, <2>1, <2>2 DEF Tree, Differ, Fields
<1>. HIDE DEF d
<1>11. d \in Differ(t, {"kids", "first", "last", "line", "lined"})
  BY <1>6, <1>10 DEF Differ
<1>12. /\ d.first = f /\ d.last = l /\ d.ul = u.ul /\ d.lined = u.lined /\ d.li = u.li
       /\ d.line = u.line /\ d.parent = u.parent /\ d.isParent = u.isParent /\ d.open = u.open
       /\ u.first = f /\ u.last = l
  BY <1>6, <1>10 DEF Differ, Fields
<1>13. \A n \in d.li : d.line[n] = LineClass(d, n)
  BY <1>5, <1>12 DEF LineClass, Folder
<1>14. d.lined = d.ul \ d.last
  BY <1>5, <1>12
<1>. QED  BY <1>3, <1>10, <1>11, <1>12, <1>13, <1>14 DEF DataAdded, f, l, new

\* t with x in its place, which is not drawn yet.
Planted(t, p, index, x, u) ==
  /\ u \in Tree /\ Added(t, p, index, x, u) /\ Agree(u) /\ Inner(u) /\ Ended(u) /\ Boxed(t, u)
  /\ u.selected = t.selected /\ u.li = t.li /\ u.ul = t.ul
  /\ u.open = t.open /\ u.isParent = t.isParent
  /\ u.lined = u.ul \ u.last /\ \A n \in u.li : u.line[n] = LineClass(u, n)
  /\ u.radios = t.radios \cup (IF RadioAll(t) THEN {x} \cap t.checked ELSE {})
  /\ u.half = t.half /\ u.box = t.box
  /\ u.state[x] = -1 /\ \A n \in Node \ {x} : u.state[n] = t.state[n]

\* The fields of the new tree, and what follows from them.
InitAdds(t, p, index, x, d, u) ==
  /\ u.kids = d.kids /\ u.parent = [t.parent EXCEPT ![x] = p] /\ u.cached = t.cached \cup {x}
  /\ u.isParent = t.isParent /\ u.open = t.open
  /\ u.first = d.first \cup (IF index = 0 \/ t.kids[p] = <<>> THEN {x} ELSE {})
  /\ u.last = d.last \cup (IF index < 0 THEN {x} ELSE {})
  /\ u.li = t.li /\ u.ul = t.ul /\ u.lined = d.lined /\ u.line = d.line

LEMMA PlantedIs ==
  ASSUME NEW t, NEW p, NEW index, NEW x, Adds(t, p, index, x), p \in t.isParent \cup {Root},
         NEW d, DataAdded(t, p, index, x, d), NEW u \in Tree, InitAdds(t, p, index, x, d, u)
  PROVE  /\ Added(t, p, index, x, u) /\ Agree(u) /\ Inner(u) /\ Ended(u)
         /\ u.lined = u.ul \ u.last /\ \A n \in u.li : u.line[n] = LineClass(u, n)
<1>. DEFINE old == t.kids[p]
            new == Put(old, index, x)
<1>1. /\ Agree(t) /\ t \in Tree /\ p \in Node \cup {Root} /\ x \in Node /\ x \notin t.cached
      /\ Inner(t) /\ Ended(t) /\ Pictured(t) /\ x # Root
      /\ index \in Int /\ index < Len(t.kids[p])
  BY TreeAssumption DEF Adds, Sound, Agree, Tree
<1>0. /\ u.kids = d.kids /\ u.parent = [t.parent EXCEPT ![x] = p] /\ u.cached = t.cached \cup {x}
      /\ u.isParent = t.isParent /\ u.open = t.open
      /\ u.first = d.first \cup (IF index = 0 \/ t.kids[p] = <<>> THEN {x} ELSE {})
      /\ u.last = d.last \cup (IF index < 0 THEN {x} ELSE {})
      /\ u.li = t.li /\ u.ul = t.ul /\ u.lined = d.lined /\ u.line = d.line
  BY DEF InitAdds
<1>2. Added(t, p, index, x, u)
  BY <1>0 DEF Added, DataAdded
<1>3. /\ Agree(u)
      /\ Kids(u, p) = Kids(t, p) \cup {x} /\ u.kids[p] = new
      /\ \A q \in (Node \cup {Root}) \ {p} : u.kids[q] = t.kids[q] /\ Kids(u, q) = Kids(t, q)
  BY <1>2, AddAgrees
<1>4. /\ t.parent \in [Node -> Node \cup {Root}] /\ t.cached \in SUBSET Node
      /\ old \in Seq(Node)
  BY <1>1 DEF Tree
<1>5. /\ Kids(t, x) = {} /\ t.parent[x] = Root
  BY <1>1, NoSons
<1>6. u.parent[x] = p /\ \A q \in Node \ {x} : u.parent[q] = t.parent[q]
  BY <1>0, <1>1, <1>4
<1>7. Inner(u)
  <2>1. ASSUME NEW q \in Node, HasKids(u, q) PROVE q \in u.isParent
    <3>1. CASE q = p
      BY <1>0, <1>1, <3>1, TreeAssumption
    <3>2. CASE q # p
      <4>1. HasKids(t, q)
        BY <1>3, <2>1, <3>2 DEF HasKids
      <4>. QED  BY <1>0, <1>1, <4>1 DEF Inner
    <3>. QED  BY <3>1, <3>2
  <2>. QED  BY <1>0, <1>1, <2>1 DEF Inner
<1>8. \A q \in t.cached : t.parent[q] = p <=> q \in Kids(t, p)
  BY <1>1 DEF Agree
<1>9. old # <<>> => old[1] \in Kids(t, p) /\ Last(old) \in Kids(t, p)
  BY <1>1, EndsAre DEF HasKids
<1>10. old = <<>> <=> Kids(t, p) = {}
  BY <1>1, KidsAre DEF HasKids
<1>11. /\ new[1] = IF old = <<>> \/ index = 0 THEN x ELSE old[1]
       /\ Last(new) = IF index < 0 THEN x ELSE Last(old)
  <2>. HIDE DEF old
  <2>. QED  BY <1>1, <1>4, PutIs DEF old
<1>12. old = <<>> => index < 0
  BY <1>1
<1>13. Kids(t, p) \subseteq t.cached
  BY <1>1 DEF Agree
<1>. HIDE DEF new
<1>14. /\ d.first = t.first \ (IF old # <<>> /\ index = 0 THEN {old[1]} ELSE {})
       /\ d.last = t.last \ (IF old # <<>> /\ index < 0 THEN {Last(old)} ELSE {})
       /\ u.first = d.first \cup (IF index = 0 \/ old = <<>> THEN {x} ELSE {})
       /\ d \in Differ(t, {"kids", "first", "last", "line", "lined"})
       /\ d.lined = d.ul \ d.last /\ \A n \in d.li : d.line[n] = LineClass(d, n)
  BY <1>0 DEF DataAdded
<1>. HIDE DEF old
<1>15. t.first \subseteq t.cached /\ t.last \subseteq t.cached
  BY <1>1 DEF Ended
<1>16. Ended(u)
  <2>1. u.first \subseteq u.cached /\ u.last \subseteq u.cached
    BY <1>0, <1>12, <1>14, <1>15
  <2>2. ASSUME NEW q \in u.cached
        PROVE  /\ q \in u.first <=> q = u.kids[u.parent[q]][1]
               /\ q \in u.last <=> q = Last(u.kids[u.parent[q]])
    <3>1. CASE q = x
      <4>1. u.kids[u.parent[q]] = new
        BY <1>3, <1>6, <3>1
      <4>2. x \notin d.first /\ x \notin d.last
        BY <1>1, <1>14, <1>15
      <4>. QED  BY <1>0, <1>1, <1>9, <1>11, <1>12, <1>13, <1>14, <3>1, <4>1, <4>2
    <3>2. CASE q # x /\ t.parent[q] # p
      <4>1. q \in t.cached /\ q \in Node /\ q \notin Kids(t, p)
        BY <1>0, <1>4, <1>8, <3>2
      <4>2. u.kids[u.parent[q]] = t.kids[t.parent[q]]
        <5>1. t.parent[q] \in (Node \cup {Root}) \ {p}
          BY <1>4, <3>2, <4>1
        <5>. QED  BY <1>3, <1>6, <3>2, <4>1, <5>1
      <4>3. (q \in u.first <=> q \in t.first) /\ (q \in u.last <=> q \in t.last)
        BY <1>0, <1>9, <1>14, <3>2, <4>1
      <4>. QED  BY <1>1, <4>1, <4>2, <4>3 DEF Ended
    <3>3. CASE q # x /\ t.parent[q] = p
      <4>1. q \in t.cached /\ q \in Node /\ q \in Kids(t, p) /\ old # <<>>
        BY <1>0, <1>4, <1>8, <1>10, <3>3
      <4>2. u.kids[u.parent[q]] = new
        BY <1>3, <1>6, <3>3, <4>1
      <4>3. /\ q \in t.first <=> q = old[1]
            /\ q \in t.last <=> q = Last(old)
        BY <1>1, <3>3, <4>1 DEF Ended, old
      <4>. QED  BY <1>0, <1>11, <1>14, <3>3, <4>1, <4>2, <4>3
    <3>. QED  BY <3>1, <3>2, <3>3
  <2>. QED  BY <2>1, <2>2 DEF Ended
<1>17. /\ d.ul = t.ul /\ d.li = t.li /\ d.parent = t.parent /\ d.isParent = t.isParent
       /\ d.open = t.open /\ t.li \subseteq t.cached /\ t.ul \subseteq t.cached
  BY <1>1, <1>14 DEF Differ, Fields, Pictured
<1>18. u.lined = u.ul \ u.last
  BY <1>0, <1>1, <1>14, <1>17
<1>19. ASSUME NEW n \in u.li PROVE u.line[n] = LineClass(u, n)
  <2>1. n \in Node /\ n # x /\ n \in d.li
    BY <1>0, <1>1, <1>4, <1>17
  <2>2. (n \in u.first <=> n \in d.first) /\ (n \in u.last <=> n \in d.last)
    BY <1>0, <1>14, <2>1
  <2>3. LineClass(u, n) = LineClass(d, n)
    BY <1>0, <1>6, <1>17, <2>1, <2>2 DEF LineClass, Folder
  <2>. QED  BY <1>0, <1>14, <2>1, <2>3
<1>. QED  BY <1>2, <1>3, <1>7, <1>16, <1>18, <1>19

LEMMA InitAdded ==
  ASSUME NEW t, NEW p, NEW index, NEW x, Adds(t, p, index, x), p \in t.isParent \cup {Root},
         NEW d, DataAdded(t, p, index, x, d)
  PROVE  /\ Planted(t, p, index, x, InitNodes(d, p, <<x>>, index))
         /\ d \in Tree /\ SonsEnd(d) /\ Shown(d, <<x>>) = {x}
<1>1. /\ Agree(t) /\ t \in Tree /\ p \in Node \cup {Root} /\ x \in Node /\ x \notin t.cached
      /\ x # Root /\ p # x /\ Inner(t) /\ index \in Int /\ index < Len(t.kids[p])
      /\ t.kids[p] \in Seq(Node) /\ t.kids \in [Node \cup {Root} -> Seq(Node)]
      /\ t.parent \in [Node -> Node \cup {Root}] /\ t.cached \in SUBSET Node
  BY TreeAssumption DEF Adds, Sound, Agree, Tree
<1>. DEFINE new == Put(t.kids[p], index, x)
<1>2. /\ new \in Seq(Node) /\ new # <<>> /\ Len(new) = Len(t.kids[p]) + 1
  BY <1>1, PutIs
<1>3. d \in Tree /\ d.kids = [t.kids EXCEPT ![p] = new]
  BY DEF DataAdded, Differ
<1>. HIDE DEF new
<1>4. d.kids[p] = new /\ \A q \in (Node \cup {Root}) \ {p} : d.kids[q] = t.kids[q]
  BY <1>1, <1>3
<1>5. SonsEnd(d) /\ Kids(d, x) = {} /\ ~HasKids(d, x)
  <2>. DEFINE parent == [t.parent EXCEPT ![x] = p]
              cached == t.cached \cup {x}
              w == [t EXCEPT !.kids = d.kids, !.parent = parent, !.cached = cached]
  <2>1. parent \in [Node -> Node \cup {Root}] /\ cached \in SUBSET Node
        /\ d.kids \in [Node \cup {Root} -> Seq(Node)]
    BY <1>1, <1>3 DEF Tree
  <2>. HIDE DEF parent, cached
  <2>2. w \in Tree /\ w.kids = d.kids /\ w.parent = parent /\ w.cached = cached
    BY <1>1, <2>1 DEF Tree
  <2>. HIDE DEF w
  <2>3. Added(t, p, index, x, w)
    BY <1>3, <2>2 DEF Added, new, parent, cached
  <2>4. Agree(w)
    BY <2>2, <2>3, AddAgrees
  <2>5. SonsEnd(d)
    BY <2>2, <2>4, AgreeEnds DEF SonsEnd, Kids
  <2>6. t.kids[x] = <<>> /\ Kids(t, x) = {}
    BY <1>1, NoSons
  <2>7. d.kids[x] = <<>>
    BY <1>1, <1>4, <2>6
  <2>. QED  BY <2>5, <2>6, <2>7 DEF HasKids, Kids
<1>6. Under(d, x) = {}
  <2>1. Under(d, x) = UNION {{k} \cup Under(d, k) : k \in Kids(d, x)}
    BY <1>1, <1>3, <1>5, BelowIs
  <2>. QED  BY <1>5, <2>1
<1>7. /\ d \in Differ(t, {"kids", "first", "last", "line", "lined"})
      /\ d.parent = t.parent /\ d.isParent = t.isParent /\ d.open = t.open /\ d.li = t.li
      /\ d.ul = t.ul /\ d.selected = t.selected /\ d.cached = t.cached /\ d.radios = t.radios
      /\ d.state = t.state /\ d.half = t.half /\ d.box = t.box /\ Boxed(t, d)
  BY DEF DataAdded, Differ, Fields, Boxed
<1>8. t.isParent \subseteq t.cached /\ t.open \subseteq t.isParent /\ t.first \subseteq t.cached
      /\ t.last \subseteq t.cached
  BY <1>1 DEF Inner, Ended, Adds, Sound
<1>9. Shown(d, <<x>>) = {x}
  <2>1. <<x>> \in Seq(Node) /\ Range(<<x>>) = {x}
    BY <1>1, Joined
  <2>2. PICK f : Showing(f, d) /\ Shown(d, <<x>>) = UNION {f[n] : n \in Range(<<x>>)}
    BY <1>3, <1>5, <2>1, ShownShowing
  <2>3. x \notin d.open
    BY <1>1, <1>7, <1>8
  <2>4. f[x] = {x}
    BY <1>1, <2>2, <2>3 DEF Showing
  <2>. QED  BY <2>1, <2>2, <2>4
<1>. DEFINE family == Family(d, <<x>>)
            inner == {n \in family : HasKids(d, n)}
            at == IF index >= Len(d.kids[p]) - Len(<<x>>) THEN -1 ELSE index
            alone == Len(d.kids[p]) = Len(<<x>>)
            radioAll == d.setting.style = "radio" /\ d.setting.radioType = "all"
            parent == [n \in Node |-> IF n \in Range(<<x>>) THEN p
                                      ELSE IF n \in family THEN CHOOSE q \in inner : n \in Kids(d, q)
                                      ELSE d.parent[n]]
            cached == d.cached \cup family
            isParent == d.isParent \cup inner
            open == d.open \ (family \ (inner \cup d.isParent))
            first == (d.first \ family) \cup {d.kids[n][1] : n \in inner}
                       \cup (IF at = 0 \/ alone THEN {<<x>>[1]} ELSE {})
            last == (d.last \ family) \cup {Last(d.kids[n]) : n \in inner}
                       \cup (IF at < 0 THEN {Last(<<x>>)} ELSE {})
            state == [n \in Node |-> IF n \in family THEN -1 ELSE d.state[n]]
            radios == IF radioAll THEN d.radios \cup (family \cap d.checked) ELSE d.radios
            u == [d EXCEPT !.parent = parent, !.cached = cached, !.isParent = isParent, !.open = open,
                           !.first = first, !.last = last, !.state = state, !.radios = radios]
<1>10. InitNodes(d, p, <<x>>, index) = u
  BY DEF InitNodes
<1>11. Range(<<x>>) = {x} /\ <<x>>[1] = x /\ Last(<<x>>) = x /\ Len(<<x>>) = 1
  BY <1>1, Joined DEF Last
<1>12. family = {x} /\ inner = {}
  <2>1. family = {x}
    BY <1>6, <1>11 DEF Family
  <2>. HIDE DEF family
  <2>. QED  BY <1>5, <2>1
<1>13. at = index /\ (alone <=> t.kids[p] = <<>>)
  <2>1. \A s \in Seq(Node) : Len(s) \in Nat /\ (Len(s) = 0 <=> s = <<>>)
    OBVIOUS
  <2>2. Len(d.kids[p]) = Len(t.kids[p]) + 1 /\ Len(t.kids[p]) \in Nat
    BY <1>1, <1>2, <1>4, <2>1
  <2>3. Len(t.kids[p]) = 0 <=> t.kids[p] = <<>>
    BY <1>1, <2>1
  <2>. HIDE DEF family
  <2>. DEFINE n == Len(t.kids[p])
              m == Len(d.kids[p])
  <2>. HIDE DEF n, m
  <2>4. m = n + 1 /\ n \in Nat /\ index < n
    BY <1>1, <2>2 DEF n, m
  <2>5. ~(index >= m - 1) /\ (m = 1 <=> n = 0)
    BY <1>1, <2>4
  <2>. QED  BY <1>11, <2>3, <2>5 DEF n, m
<1>14. parent = [t.parent EXCEPT ![x] = p]
  <2>. HIDE DEF family, inner
  <2>. QED  BY <1>1, <1>7, <1>11, <1>12
<1>15. cached = t.cached \cup {x} /\ isParent = t.isParent /\ open = t.open
  <2>. HIDE DEF family, inner
  <2>. QED  BY <1>1, <1>7, <1>8, <1>12
<1>16. /\ first = d.first \cup (IF index = 0 \/ t.kids[p] = <<>> THEN {x} ELSE {})
       /\ last = d.last \cup (IF index < 0 THEN {x} ELSE {})
  <2>1. d.first \subseteq t.first /\ d.last \subseteq t.last
    BY DEF DataAdded
  <2>2. x \notin d.first /\ x \notin d.last
    BY <1>1, <1>8, <2>1
  <2>. HIDE DEF family, inner, at, alone
  <2>. QED  BY <1>11, <1>12, <1>13, <2>2
<1>17. radios = t.radios \cup (IF RadioAll(t) THEN {x} \cap t.checked ELSE {})
  <2>. HIDE DEF family
  <2>. QED  BY <1>7, <1>12 DEF RadioAll, Boxed
<1>18. state \in [Node -> -1 .. 2] /\ state = [n \in Node |-> IF n = x THEN -1 ELSE t.state[n]]
  <2>. HIDE DEF family
  <2>. QED  BY <1>1, <1>7, <1>12 DEF Tree
<1>19. /\ parent \in [Node -> Node \cup {Root}] /\ cached \in SUBSET Node /\ isParent \in SUBSET Node
       /\ open \in SUBSET Node /\ radios \in SUBSET Node
  <2>. HIDE DEF parent, cached, isParent, open, radios
  <2>. QED  BY <1>1, <1>14, <1>15, <1>17 DEF Tree
<1>20. first \in SUBSET Node /\ last \in SUBSET Node
  <2>. HIDE DEF first, last
  <2>. QED  BY <1>1, <1>3, <1>16 DEF Tree
<1>. HIDE DEF family, inner, at, alone, radioAll, parent, cached, isParent, open, first, last, state, radios
<1>21. u \in Tree
  BY <1>3, <1>18, <1>19, <1>20 DEF Tree
<1>22. /\ u.parent = parent /\ u.cached = cached /\ u.isParent = isParent /\ u.open = open
       /\ u.first = first /\ u.last = last /\ u.radios = radios
       /\ u.kids = d.kids /\ u.li = d.li /\ u.ul = d.ul /\ u.lined = d.lined /\ u.line = d.line
       /\ u.selected = d.selected /\ u.state = state /\ u.half = d.half /\ u.box = d.box
  BY <1>3 DEF Tree
<1>23. Boxed(d, u)
  BY <1>3 DEF Tree, Boxed
<1>. HIDE DEF u
<1>24. /\ u.kids = d.kids /\ u.parent = [t.parent EXCEPT ![x] = p] /\ u.cached = t.cached \cup {x}
       /\ u.isParent = t.isParent /\ u.open = t.open
       /\ u.first = d.first \cup (IF index = 0 \/ t.kids[p] = <<>> THEN {x} ELSE {})
       /\ u.last = d.last \cup (IF index < 0 THEN {x} ELSE {})
       /\ u.li = t.li /\ u.ul = t.ul /\ u.lined = d.lined /\ u.line = d.line
  BY <1>7, <1>14, <1>15, <1>16, <1>22
<1>25. /\ Added(t, p, index, x, u) /\ Agree(u) /\ Inner(u) /\ Ended(u)
       /\ u.lined = u.ul \ u.last /\ \A n \in u.li : u.line[n] = LineClass(u, n)
  <2>1. InitAdds(t, p, index, x, d, u)
    BY <1>24 DEF InitAdds
  <2>. QED  BY <1>21, <2>1, PlantedIs
<1>26. Boxed(t, u)
  BY <1>7, <1>23 DEF Boxed
<1>27. u.state[x] = -1 /\ \A n \in Node \ {x} : u.state[n] = t.state[n]
  BY <1>1, <1>18, <1>22
<1>28. Planted(t, p, index, x, u)
  BY <1>7, <1>17, <1>21, <1>22, <1>24, <1>25, <1>26, <1>27 DEF Planted
<1>. QED  BY <1>3, <1>5, <1>9, <1>10, <1>28

\* Only what is above it has to follow.
LEMMA PlantedSettles ==
  ASSUME NEW t, NEW p, NEW index, NEW x, Adds(t, p, index, x), NEW u, Planted(t, p, index, x, u),
         Settled(t)
  PROVE  SettledBut(u, Route(u, p))
<1>. DEFINE K == t.cached \ Route(u, p)
<1>1. /\ Agree(t) /\ t \in Tree /\ x \in Node \ t.cached /\ p \in Node \cup {Root} /\ t.cached \subseteq Node
      /\ t.li \subseteq t.cached
  BY DEF Adds, Sound, Agree, Tree, Pictured
<1>2. /\ u \in Tree /\ Agree(u) /\ Added(t, p, index, x, u) /\ Boxed(t, u) /\ u.li = t.li
      /\ u.half = t.half /\ u.box = t.box
      /\ u.state[x] = -1 /\ \A n \in Node \ {x} : u.state[n] = t.state[n]
  BY DEF Planted
<1>3. /\ \A q \in (Node \cup {Root}) \ {p} : u.kids[q] = t.kids[q] /\ Kids(u, q) = Kids(t, q)
      /\ u.cached = t.cached \cup {x} /\ \A q \in Node \ {x} : u.parent[q] = t.parent[q]
  <2>1. t.parent \in [Node -> Node \cup {Root}]
    BY <1>1 DEF Tree
  <2>2. \A q \in (Node \cup {Root}) \ {p} : u.kids[q] = t.kids[q] /\ Kids(u, q) = Kids(t, q)
    BY <1>2, AddAgrees
  <2>. QED  BY <1>1, <1>2, <2>1, <2>2 DEF Added
<1>4. /\ Kids(t, x) = {} /\ t.kids[x] = <<>> /\ \A q \in Node \cup {Root} : x \notin Kids(t, q)
  BY <1>1, NoSons
<1>5. \A n \in Node \ Route(u, p) : n # p /\ \A c \in Node : u.parent[c] = n => c \notin Route(u, p)
  BY <1>1, <1>2, RouteIs
<1>6. ASSUME NEW n \in K
      PROVE  /\ SameBox(t, u, n) /\ Kids(u, n) = Kids(t, n) /\ Kids(t, n) \subseteq K
             /\ u.box[n] = t.box[n] /\ (n \in u.li => n \in t.li)
  <2>1. n \in Node \ Route(u, p) /\ n # x /\ n # p
    BY <1>1, <1>5
  <2>2. SameBox(t, u, n)
    BY <1>2, <2>1 DEF SameBox, Boxed
  <2>3. Kids(u, n) = Kids(t, n)
    BY <1>3, <2>1
  <2>4. ASSUME NEW c \in Kids(t, n) PROVE c \in K
    <3>1. c \in t.cached /\ t.parent[c] = n /\ c # x /\ c \in Node
      BY <1>1, <1>4, <2>1 DEF Agree
    <3>2. u.parent[c] = n
      BY <1>3, <3>1
    <3>. QED  BY <1>5, <2>1, <3>1, <3>2
  <2>. QED  BY <1>2, <2>2, <2>3, <2>4
<1>. HIDE DEF K
<1>7. u.setting = t.setting /\ K \subseteq t.cached
  BY <1>2 DEF Boxed, K
<1>8. SettledBut(u, u.cached \ K)
  BY <1>1, <1>2, <1>6, <1>7, StillSettled
<1>9. SettledBut(u, Route(u, p) \cup {x})
  <2>1. u.cached \ K \subseteq Route(u, p) \cup {x}
    BY <1>3 DEF K
  <2>. QED  BY <1>8, <2>1, SettledLess
<1>10. x \notin Route(u, p) => Right(u, x)
  <2>. SUFFICES ASSUME x \notin Route(u, p) PROVE Right(u, x)
    OBVIOUS
  <2>1. x # p
    BY <1>1, <1>5
  <2>2. ~HasKids(u, x)
    BY <1>1, <1>3, <1>4, <2>1 DEF HasKids
  <2>3. Says(u, x)
    BY <1>1, <1>2, <2>2, LeafSays
  <2>. QED  BY <1>1, <1>2, <2>3 DEF Right
<1>. QED  BY <1>9, <1>10 DEF SettledBut

\* t with x in its place, drawn where its brothers are.
Grown(t, p, index, x, r) ==
  /\ Sound(r) /\ Added(t, p, index, x, r) /\ Boxed(t, r) /\ r.selected = t.selected
  /\ r.open = t.open /\ r.isParent = t.isParent
  /\ r.radios = t.radios \cup (IF RadioAll(t) THEN {x} \cap t.checked ELSE {})
  /\ Whole(t, {}) => Whole(r, {p})
  /\ Whole(t, {}) /\ (index = 0 => p \in t.open \cup {Root}) => Whole(r, {})
  /\ index = 0 /\ p \notin t.open \cup {Root} => Head(r.kids[p]) \notin r.li
  /\ Settled(t) => Settled(r)

LEMMA CreateGrows ==
  ASSUME NEW t, NEW p, NEW index, NEW x, Adds(t, p, index, x), p \in t.isParent \cup {Root}
  PROVE  Grown(t, p, index, x, CreateNodes(AddNodesData(t, p, index, <<x>>), p, <<x>>, index))
<1>. DEFINE d == AddNodesData(t, p, index, <<x>>)
            i == InitNodes(d, p, <<x>>, index)
            S == IF /\ p = Root \/ p \in d.open \/ Head(d.kids[p]) \in d.li
                    /\ p = Root \/ p \in d.ul
                 THEN Shown(d, <<x>>) ELSE {}
            u == AppendNodes(i, p, <<x>>, S)
            r == IF p = Root THEN u ELSE RepairParentChkClassWithSelf(u, p)
<1>1. /\ Agree(t) /\ t \in Tree /\ p \in Node \cup {Root} /\ x \in Node /\ x \notin t.cached
      /\ x # Root /\ p # x /\ Inner(t) /\ Pictured(t) /\ Sound(t) /\ t.cached \in SUBSET Node
      /\ index \in Int /\ index < Len(t.kids[p]) /\ t.kids[p] \in Seq(Node)
  BY TreeAssumption DEF Adds, Sound, Agree, Tree
<1>2. <<x>> \in Seq(Node) /\ <<x>> # <<>>
  BY <1>1
<1>3. CreateNodes(d, p, <<x>>, index) = r
  <2>. HIDE DEF d
  <2>. QED  BY <1>2 DEF CreateNodes
<1>4. DataAdded(t, p, index, x, d)
  BY DataIs
<1>. HIDE DEF d
<1>5. Planted(t, p, index, x, i) /\ d \in Tree /\ Shown(d, <<x>>) = {x}
  BY <1>4, InitAdded
<1>. HIDE DEF i
<1>6. /\ d.open = t.open /\ d.li = t.li /\ d.ul = t.ul
      /\ d.kids = [t.kids EXCEPT ![p] = Put(t.kids[p], index, x)]
  BY <1>4 DEF DataAdded, Differ, Fields
<1>7. S = IF /\ p = Root \/ p \in t.open \/ Head(d.kids[p]) \in t.li
             /\ p = Root \/ p \in t.ul
          THEN {x} ELSE {}
  BY <1>5, <1>6
<1>. HIDE DEF S
<1>8. /\ Agree(i) /\ Inner(i) /\ Ended(i) /\ i \in Tree /\ i.li = t.li /\ i.ul = t.ul /\ i.open = t.open
      /\ i.isParent = t.isParent /\ i.selected = t.selected /\ Boxed(t, i)
      /\ i.lined = i.ul \ i.last /\ \A n \in i.li : i.line[n] = LineClass(i, n)
      /\ i.radios = t.radios \cup (IF RadioAll(t) THEN {x} \cap t.checked ELSE {})
      /\ Added(t, p, index, x, i)
  BY <1>5 DEF Planted
<1>9. Appended(i, S, u)
  <2>1. S \in SUBSET Node
    BY <1>1, <1>7
  <2>2. SonsEnd(i)
    BY <1>8, AgreeEnds
  <2>. HIDE DEF u
  <2>. QED  BY <1>1, <1>2, <1>8, <2>1, <2>2, AppendIs DEF u
<1>. HIDE DEF u
<1>10. /\ Kids(i, p) = Kids(t, p) \cup {x} /\ i.kids[p] = Put(t.kids[p], index, x)
       /\ \A q \in (Node \cup {Root}) \ {p} : Kids(i, q) = Kids(t, q)
       /\ i.kids = d.kids
  <2>1. /\ Kids(i, p) = Kids(t, p) \cup {x} /\ i.kids[p] = Put(t.kids[p], index, x)
        /\ \A q \in (Node \cup {Root}) \ {p} : Kids(i, q) = Kids(t, q)
    BY <1>8, AddAgrees
  <2>. QED  BY <1>6, <1>8, <2>1 DEF Added
<1>11. i.parent[x] = p /\ (\A q \in Node \ {x} : i.parent[q] = t.parent[q]) /\ i.cached = t.cached \cup {x}
  BY <1>1, <1>8 DEF Added, Tree
<1>12. /\ u \in Differ(i, Pictures) /\ u.li = t.li \cup S /\ u.ul = t.ul /\ u.lined = i.lined
       /\ \A n \in Node : u.line[n] = IF n \in S THEN LineClass(i, n) ELSE i.line[n]
  <2>1. S \cap i.isParent = {}
    BY <1>1, <1>7, <1>8 DEF Inner
  <2>. QED  BY <1>8, <1>9, <2>1 DEF Appended
<1>13. /\ u.kids = i.kids /\ u.parent = i.parent /\ u.cached = i.cached /\ u.isParent = i.isParent
       /\ u.open = i.open /\ u.first = i.first /\ u.last = i.last /\ u.selected = i.selected
       /\ u.radios = i.radios /\ u \in Tree
  BY <1>12 DEF Differ, Fields, Pictures
<1>14. Agree(u) /\ Inner(u) /\ Ended(u)
  <2>1. Agree(u)
    BY <1>8, <1>12, AgreeStays DEF Pictures, Family3
  <2>. QED  BY <1>8, <1>13, <2>1 DEF Inner, Ended, HasKids
<1>15. Pictured(u)
  <2>1. u.li \subseteq u.cached /\ u.ul \subseteq u.cached /\ u.lined = u.ul \ u.last
    BY <1>1, <1>7, <1>8, <1>11, <1>12, <1>13 DEF Pictured
  <2>2. Kids(u, Root) \subseteq u.li
    <3>1. Kids(u, Root) = Kids(i, Root)
      BY <1>13 DEF Kids
    <3>2. CASE p = Root
      BY <1>1, <1>7, <1>10, <1>12, <3>1, <3>2 DEF Pictured
    <3>3. CASE p # Root
      <4>1. Kids(i, Root) = Kids(t, Root)
        BY <1>10, <3>3
      <4>. QED  BY <1>1, <1>12, <3>1, <4>1 DEF Pictured
    <3>. QED  BY <3>2, <3>3
  <2>3. ASSUME NEW n \in u.li PROVE u.parent[n] \in u.ul \cup {Root} /\ u.line[n] = LineClass(u, n)
    <3>1. n \in Node
      BY <1>1, <1>7, <1>12 DEF Pictured
    <3>2. LineClass(u, n) = LineClass(i, n)
      BY <1>13 DEF LineClass, Folder
    <3>3. CASE n \in S
      BY <1>7, <1>11, <1>12, <1>13, <3>1, <3>2, <3>3
    <3>4. CASE n \notin S
      <4>1. n \in t.li /\ n \in i.li /\ n # x
        BY <1>1, <1>8, <1>12, <3>4 DEF Pictured
      <4>2. u.parent[n] = t.parent[n]
        BY <1>11, <1>13, <3>1, <4>1
      <4>. QED  BY <1>1, <1>8, <1>12, <3>1, <3>2, <3>4, <4>1, <4>2 DEF Pictured
    <3>. QED  BY <3>3, <3>4
  <2>. QED  BY <2>1, <2>2, <2>3 DEF Pictured
<1>16. Sound(u)
  <2>1. Range(u.selected) \subseteq u.cached
    BY <1>1, <1>8, <1>11, <1>13 DEF Sound
  <2>. QED  BY <1>14, <1>15, <2>1 DEF Sound
<1>17. Boxed(t, u)
  BY <1>8, <1>12 DEF Boxed, Differ, Fields, Pictures
<1>18. /\ r \in Differ(u, Drawn) /\ Sound(r) /\ \A E : Whole(u, E) => Whole(r, E)
  <2>1. r \in Differ(u, Drawn)
    <3>1. CASE p = Root
      BY <1>13, <3>1, DifferNot
    <3>2. CASE p # Root
      <4>1. RepairParentChkClassWithSelf(u, p) \in Differ(u, Drawn)
        BY <1>1, <1>13, <1>14, <3>2, RepairParentDiffers DEF Agree
      <4>. QED  BY <3>2, <4>1
    <3>. QED  BY <3>1, <3>2
  <2>. HIDE DEF r
  <2>2. r \in Differ(u, BoxFields)
    BY <1>13, <2>1, DifferMore DEF Drawn, BoxFields
  <2>. QED  BY <1>16, <2>1, <2>2, BoxesApart
<1>. HIDE DEF r
<1>19. /\ r.kids = u.kids /\ r.parent = u.parent /\ r.cached = u.cached /\ r.isParent = u.isParent
       /\ r.open = u.open /\ r.selected = u.selected /\ r.radios = u.radios /\ r.li = u.li
       /\ Boxed(u, r)
  BY <1>18 DEF Differ, Fields, Drawn, Boxed
<1>20. Added(t, p, index, x, r) /\ Boxed(t, r)
  BY <1>8, <1>13, <1>17, <1>19 DEF Added, Boxed
<1>. DEFINE top == IF t.kids[p] = <<>> \/ index = 0 THEN x ELSE Head(t.kids[p])
<1>21. Head(u.kids[p]) = top /\ Head(d.kids[p]) = top
  <2>. DEFINE s == t.kids[p]
              new == Put(s, index, x)
  <2>1. s \in Seq(Node)
    BY <1>1
  <2>. HIDE DEF s
  <2>2. new \in Seq(Node) /\ new # <<>> /\ new[1] = IF s = <<>> \/ index = 0 THEN x ELSE s[1]
    BY <1>1, <2>1, PutIs DEF s
  <2>. HIDE DEF new
  <2>3. Head(new) = new[1] /\ (s # <<>> => Head(s) = s[1])
    BY <2>1, <2>2
  <2>4. u.kids[p] = new /\ d.kids[p] = new
    BY <1>10, <1>13 DEF new, s
  <2>. QED  BY <2>2, <2>3, <2>4 DEF s
<1>22. x \notin t.li /\ x \notin t.ul /\ x \notin t.open
  BY <1>1 DEF Pictured, Inner
<1>23. /\ t.kids[p] # <<>> => Head(t.kids[p]) \in Kids(t, p)
       /\ t.kids[p] = <<>> => Kids(t, p) = {}
  BY <1>1, EndsAre, KidsAre DEF HasKids
<1>24. \A k \in Kids(t, p) \cap t.li : p \in t.ul \cup {Root}
  BY <1>1 DEF Pictured, Agree
<1>25. ASSUME Whole(t, {}), NEW q \in Node, q = p => (index = 0 => p \in t.open \cup {Root})
       PROVE  /\ Kids(u, q) \subseteq u.li \/ Kids(u, q) \cap u.li = {}
              /\ q \in (u.li \cup u.ul) \cap u.open => q \in u.ul /\ Kids(u, q) \subseteq u.li
  <2>1. /\ Kids(t, q) \subseteq t.li \/ Kids(t, q) \cap t.li = {}
        /\ q \in (t.li \cup t.ul) \cap t.open => q \in t.ul /\ Kids(t, q) \subseteq t.li
    BY <1>25 DEF Whole
  <2>2. Kids(u, q) = Kids(i, q)
    BY <1>13 DEF Kids
  <2>3. u.open = t.open /\ q # Root
    BY <1>8, <1>13, TreeAssumption
  <2>4. CASE q # p
    <3>1. Kids(u, q) = Kids(t, q) /\ x \notin Kids(t, q)
      BY <1>1, <1>10, <2>2, <2>4, NoSons
    <3>. QED  BY <1>7, <1>12, <1>22, <2>1, <2>3, <3>1
  <2>5. CASE q = p
    <3>1. Kids(u, q) = Kids(t, p) \cup {x}
      BY <1>10, <2>2, <2>5
    <3>2. CASE p \in t.open
      <4>1. p \in t.ul => S = {x}
        BY <1>7, <3>2
      <4>2. p \notin t.ul => S = {} /\ Kids(t, p) \cap t.li = {}
        BY <1>7, <1>24, <2>3, <2>5
      <4>. QED  BY <1>1, <1>12, <1>22, <2>1, <2>3, <2>5, <3>1, <3>2, <4>1, <4>2
    <3>3. CASE p \notin t.open
      <4>1. index # 0
        BY <1>25, <2>3, <2>5, <3>3
      <4>2. CASE t.kids[p] = <<>> \/ Head(t.kids[p]) \notin t.li
        <5>1. S = {}
          BY <1>7, <1>21, <1>22, <2>3, <2>5, <3>3, <4>1, <4>2
        <5>2. Kids(t, p) \cap t.li = {}
          BY <1>23, <2>1, <2>5, <4>2
        <5>. QED  BY <1>12, <1>22, <2>3, <2>5, <3>1, <3>3, <5>1, <5>2
      <4>3. CASE t.kids[p] # <<>> /\ Head(t.kids[p]) \in t.li
        <5>1. p \in t.ul /\ Kids(t, p) \subseteq t.li
          BY <1>23, <1>24, <2>1, <2>3, <2>5, <4>3
        <5>2. S = {x}
          BY <1>7, <1>21, <4>1, <4>3, <5>1
        <5>. QED  BY <1>12, <2>3, <2>5, <3>1, <3>3, <5>1, <5>2
      <4>. QED  BY <4>2, <4>3
    <3>. QED  BY <3>2, <3>3
  <2>. QED  BY <2>4, <2>5
<1>26. Whole(t, {}) => Whole(u, {p})
  BY <1>25 DEF Whole
<1>27. Whole(t, {}) /\ (index = 0 => p \in t.open \cup {Root}) => Whole(u, {})
  BY <1>25 DEF Whole
<1>28. index = 0 /\ p \notin t.open \cup {Root} => Head(r.kids[p]) \notin r.li
  <2>1. ASSUME index = 0, p \notin t.open \cup {Root} PROVE Head(r.kids[p]) \notin r.li
    <3>1. Head(r.kids[p]) = x /\ Head(d.kids[p]) = x
      BY <1>19, <1>21, <2>1
    <3>2. S = {}
      BY <1>7, <1>22, <2>1, <3>1
    <3>. QED  BY <1>12, <1>19, <1>22, <3>1, <3>2
  <2>. QED  BY <2>1
<1>29. r.selected = t.selected /\ r.open = t.open /\ r.isParent = t.isParent
       /\ r.radios = t.radios \cup (IF RadioAll(t) THEN {x} \cap t.checked ELSE {})
  BY <1>8, <1>13, <1>19
<1>30. Settled(t) => Settled(r)
  <2>. SUFFICES ASSUME Settled(t) PROVE Settled(r)
    OBVIOUS
  <2>1. SettledBut(i, Route(i, p)) /\ Climbing(i, Route(i, p)) /\ S \in SUBSET Node
    BY <1>1, <1>5, <1>7, <1>8, PlantedSettles, RouteIs
  <2>2. SettledBut(AppendNodes(i, p, <<x>>, S), Route(i, p))
    BY <1>1, <1>2, <1>8, <2>1, AppendSettles
  <2>3. SettledBut(u, Route(i, p))
    BY <2>2 DEF u
  <2>4. CASE p = Root
    BY <2>3, <2>4 DEF r, Route, Settled
  <2>5. CASE p # Root
    <3>1. Upward(u, p) = Upward(i, p) /\ p \in Node
      BY <1>1, <1>13, <2>5 DEF Upward, Above
    <3>2. SettledBut(u, {} \cup Upward(u, p))
      BY <2>3, <2>5, <3>1 DEF Route
    <3>3. HasKids(u, p)
      <4>1. Kids(u, p) # {}
        BY <1>10, <1>13 DEF Kids
      <4>. QED  BY <1>1, <1>13, <4>1, KidsAre
    <3>4. SettledBut(RepairParentChkClassWithSelf(u, p), {})
      BY <1>14, <3>1, <3>2, <3>3, SelfSettles
    <3>. QED  BY <2>5, <3>4 DEF r, Settled
  <2>. QED  BY <2>4, <2>5
<1>31. Grown(t, p, index, x, r)
  BY <1>18, <1>20, <1>26, <1>27, <1>28, <1>29, <1>30 DEF Grown
<1>. QED  BY <1>3, <1>31 DEF d

\* The method addNodes, for one node.
LEMMA AddNodesIs ==
  ASSUME NEW t, NEW p, NEW index, NEW x, Adds(t, p, index, x), NEW isSilent \in BOOLEAN
  PROVE  LET r == AddNodes(t, p, index, <<x>>, isSilent) IN
         /\ Sound(r) /\ Added(t, p, index, x, r) /\ Boxed(t, r)
         /\ r.radios = t.radios \cup (IF RadioAll(t) THEN {x} \cap t.checked ELSE {})
         /\ Whole(t, {}) /\ ~(isSilent /\ index = 0) => Whole(r, {})
         /\ Settled(t) => Settled(r)
<1>. DEFINE f == IF p = Root \/ p \in t.open THEN t
                 ELSE ReplaceFolder([t EXCEPT !.isParent = @ \cup {p}], p)
            c == CreateNodes(AddNodesData(f, p, index, <<x>>), p, <<x>>, index)
            r == IF p = Root \/ isSilent THEN c ELSE ExpandCollapseParentNode(c, p, TRUE)
<1>1. /\ Sound(t) /\ t \in Tree /\ p \in t.cached \cup {Root} /\ Agree(t) /\ Inner(t)
      /\ p \in Node \cup {Root} /\ x \in Node
  BY DEF Adds, Sound, Agree, Tree
<1>2. AddNodes(t, p, index, <<x>>, isSilent) = r
  BY DEF AddNodes
<1>3. /\ f \in Differ(t, {"isParent", "line"}) /\ Sound(f) /\ (Whole(t, {}) => Whole(f, {}))
      /\ p \in f.isParent \cup {Root} /\ (Settled(t) => Settled(f))
  <2>1. CASE p = Root \/ p \in t.open
    <3>1. f = t
      BY <2>1
    <3>2. p \in t.isParent \cup {Root}
      BY <1>1, <2>1 DEF Inner
    <3>. QED  BY <1>1, <3>1, <3>2, DifferNot
  <2>2. CASE ~(p = Root \/ p \in t.open)
    <3>1. f = ReplaceFolder([t EXCEPT !.isParent = @ \cup {p}], p) /\ p \in t.cached \ t.open
      BY <1>1, <2>2
    <3>. HIDE DEF f
    <3>. QED  BY <1>1, <3>1, FolderSound
  <2>. QED  BY <2>1, <2>2
<1>. HIDE DEF f
<1>4. /\ f.kids = t.kids /\ f.parent = t.parent /\ f.cached = t.cached /\ f.open = t.open
      /\ f.radios = t.radios /\ Boxed(t, f)
  BY <1>3 DEF Differ, Fields, Boxed
<1>5. Adds(f, p, index, x)
  BY <1>3, <1>4 DEF Adds
<1>6. Grown(f, p, index, x, c)
  <2>. HIDE DEF c
  <2>. QED  BY <1>3, <1>5, CreateGrows DEF c
<1>. HIDE DEF c
<1>7. /\ Sound(c) /\ Added(t, p, index, x, c) /\ Boxed(t, c) /\ c.open = t.open
      /\ c.isParent = f.isParent
      /\ c.radios = t.radios \cup (IF RadioAll(t) THEN {x} \cap t.checked ELSE {})
  BY <1>4, <1>6 DEF Grown, Added, Boxed, RadioAll
<1>10. Settled(t) => Settled(c)
  BY <1>3, <1>6 DEF Grown
<1>8. CASE p = Root \/ isSilent
  <2>1. r = c
    BY <1>8
  <2>2. Whole(t, {}) /\ ~(isSilent /\ index = 0) => Whole(r, {})
    BY <1>3, <1>6, <1>8, <2>1 DEF Grown
  <2>. QED  BY <1>2, <1>7, <1>10, <2>1, <2>2
<1>9. CASE ~(p = Root \/ isSilent)
  <2>. DEFINE e == ExpandCollapseNode(c, p, TRUE)
  <2>1. r = ExpandCollapseParentNode(c, p, TRUE) /\ p \in Node /\ p \in c.isParent
    BY <1>1, <1>3, <1>7, <1>9
  <2>. HIDE DEF r
  <2>2. r \in Redrawn(c) /\ r \in Redrawn(e)
    BY <1>7, <2>1, OpeningsRedraw
  <2>3. e \in Redrawn(c)
    BY <1>7, <2>1, ExpandRedraws
  <2>4. p \in c.isParent \ c.open /\ HasKids(c, p) /\ Head(c.kids[p]) \notin c.li
        => \A E : Whole(c, E) => Whole(e, E \ {p})
    BY <1>7, <2>1, ExpandRedraws
  <2>. HIDE DEF e
  <2>5. HasKids(c, p)
    <3>1. c.kids[p] = Put(t.kids[p], index, x)
      BY <1>1, <1>7 DEF Added, Tree
    <3>2. t.kids[p] \in Seq(Node) /\ index \in Int /\ index < Len(t.kids[p])
      BY <1>1 DEF Tree, Adds
    <3>. QED  BY <1>1, <3>1, <3>2, PutIs DEF HasKids
  <2>6. Whole(t, {}) => Whole(e, {})
    <3>1. CASE index = 0 /\ p \notin t.open
      <4>1. Head(c.kids[p]) \notin c.li
        BY <1>4, <1>6, <1>9, <3>1 DEF Grown
      <4>2. Whole(c, {p}) => Whole(e, {p} \ {p})
        BY <1>7, <2>1, <2>4, <2>5, <3>1, <4>1
      <4>3. {p} \ {p} = {}
        OBVIOUS
      <4>. QED  BY <1>3, <1>6, <4>2, <4>3 DEF Grown
    <3>2. CASE index = 0 => p \in t.open
      <4>1. Whole(t, {}) => Whole(c, {})
        BY <1>3, <1>4, <1>6, <3>2 DEF Grown
      <4>. QED  BY <2>3, <4>1 DEF Redrawn
    <3>. QED  BY <3>1, <3>2
  <2>7. Whole(t, {}) => Whole(r, {})
    BY <2>2, <2>6 DEF Redrawn
  <2>8. Sound(r)
    BY <2>2 DEF Redrawn
  <2>9. /\ r.kids = c.kids /\ r.parent = c.parent /\ r.cached = c.cached /\ r.radios = c.radios
        /\ Boxed(c, r)
    BY <2>2 DEF Redrawn, Differ, View, Fields, Boxed
  <2>10. Added(t, p, index, x, r) /\ Boxed(t, r)
    BY <1>7, <2>9 DEF Added, Boxed
  <2>11. Settled(t) => Settled(r)
    BY <1>10, <2>2 DEF Redrawn
  <2>. QED  BY <1>2, <1>7, <2>7, <2>8, <2>9, <2>10, <2>11
<1>. QED  BY <1>8, <1>9

-----------------------------------------------------------------------------
(* Nodes leave the tree.                                                   *)

\* f is t without anything that is kept of the nodes in G, but for the lists
\* that they are in.
Forgotten(t, G, f) ==
  /\ f \in Tree /\ f.setting = t.setting /\ f.selected = Only(t.selected, Node \ G)
  /\ f.kids = [q \in Node \cup {Root} |-> IF q \in G THEN <<>> ELSE t.kids[q]]
  /\ f.parent = [q \in Node |-> IF q \in G THEN Root ELSE t.parent[q]]
  /\ f.line = [q \in Node |-> IF q \in G THEN Nothing ELSE t.line[q]]
  /\ f.isParent = t.isParent \ G /\ f.open = t.open \ G /\ f.first = t.first \ G
  /\ f.last = t.last \ G /\ f.li = t.li \ G /\ f.ul = t.ul \ G /\ f.lined = t.lined \ G
  /\ f.cached = t.cached \ G /\ f.checked = t.checked \ G /\ f.nocheck = t.nocheck \ G
  /\ f.disabled = t.disabled \ G /\ f.half = t.half \ G /\ f.radios = t.radios \ G
  /\ \A q \in Node \ G : f.state[q] = t.state[q] /\ f.box[q] = t.box[q]

LEMMA ForgetIs ==
  ASSUME NEW t \in Tree, NEW G \in SUBSET Node
  PROVE  Forgotten(t, G, Forget(t, G))
<1>. DEFINE e == EmptyTree(t.setting)
            tables == {"kids", "parent", "state", "box", "line"}
            table(g) == [n \in DOMAIN t[g] |-> IF n \in G THEN e[g][n] ELSE t[g][n]]
            c(g) == CASE g \in NodeFlags -> t[g] \ G
                      [] g \in tables -> table(g)
                      [] g = "selected" -> Only(t.selected, Node \ G)
                      [] g = "setting" -> t.setting
            f == Forget(t, G)
<1>1. /\ e.kids = [n \in Node \cup {Root} |-> <<>>] /\ e.parent = [n \in Node |-> Root]
      /\ e.state = [n \in Node |-> -1]
      /\ e.box = [n \in Node |-> Nothing] /\ e.line = [n \in Node |-> Nothing]
  BY EmptyIs DEF Tree
<1>. HIDE DEF e
<1>2. DOMAIN t = Fields
  BY DEF Tree, Fields
<1>3. f = [g \in Fields |-> c(g)]
  <2>1. f = [g \in DOMAIN t |-> c(g)]
    BY DEF Forget, e
  <2>. HIDE DEF c, f
  <2>. QED  BY <1>2, <2>1
<1>4. /\ \A g \in NodeFlags : c(g) = t[g] \ G
      /\ \A g \in tables : c(g) = table(g)
      /\ c("selected") = Only(t.selected, Node \ G) /\ c("setting") = t.setting
  <2>. HIDE DEF table
  <2>. QED  BY DEF NodeFlags
<1>. HIDE DEF c, f
<1>5. f = [g \in Fields |-> f[g]] /\ \A g \in Fields : f[g] = c(g)
  BY <1>3
<1>6. /\ f.setting = t.setting /\ f.selected = Only(t.selected, Node \ G)
      /\ \A g \in NodeFlags : f[g] = t[g] \ G
      /\ \A g \in tables : f[g] = table(g)
  <2>1. NodeFlags \subseteq Fields /\ tables \subseteq Fields
    BY DEF NodeFlags, Fields
  <2>. HIDE DEF table, tables
  <2>. QED  BY <1>4, <1>5, <2>1 DEF Fields
<1>7. /\ f.isParent = t.isParent \ G /\ f.open = t.open \ G /\ f.first = t.first \ G
      /\ f.last = t.last \ G /\ f.li = t.li \ G /\ f.ul = t.ul \ G /\ f.lined = t.lined \ G
      /\ f.cached = t.cached \ G /\ f.checked = t.checked \ G /\ f.nocheck = t.nocheck \ G
      /\ f.disabled = t.disabled \ G /\ f.half = t.half \ G /\ f.radios = t.radios \ G
  BY <1>6 DEF NodeFlags
<1>8. /\ t.kids \in [Node \cup {Root} -> Seq(Node)] /\ t.parent \in [Node -> Node \cup {Root}]
      /\ t.state \in [Node -> -1 .. 2] /\ t.box \in [Node -> Image \cup {Nothing}]
      /\ t.line \in [Node -> Line \cup {Nothing}] /\ t.selected \in Seq(Node)
  BY DEF Tree
<1>9. /\ f.kids = table("kids") /\ f.parent = table("parent") /\ f.state = table("state")
      /\ f.box = table("box") /\ f.line = table("line")
  <2>. HIDE DEF table
  <2>. QED  BY <1>6
<1>10. /\ f.kids = [q \in Node \cup {Root} |-> IF q \in G THEN <<>> ELSE t.kids[q]]
       /\ f.kids \in [Node \cup {Root} -> Seq(Node)]
  <2>1. DOMAIN t.kids = Node \cup {Root} /\ <<>> \in Seq(Node)
    BY <1>8
  <2>2. \A q \in Node \cup {Root} : e.kids[q] = <<>>
    BY <1>1
  <2>3. f.kids = [q \in Node \cup {Root} |-> IF q \in G THEN <<>> ELSE t.kids[q]]
    BY <1>9, <2>1, <2>2
  <2>4. \A q \in Node \cup {Root} : (IF q \in G THEN <<>> ELSE t.kids[q]) \in Seq(Node)
    BY <1>8, <2>1
  <2>. QED  BY <2>3, <2>4
<1>11. /\ f.parent = [q \in Node |-> IF q \in G THEN Root ELSE t.parent[q]]
       /\ f.parent \in [Node -> Node \cup {Root}]
  BY <1>1, <1>8, <1>9
<1>12. f.state \in [Node -> -1 .. 2] /\ \A q \in Node \ G : f.state[q] = t.state[q]
  BY <1>1, <1>8, <1>9
<1>13. f.box \in [Node -> Image \cup {Nothing}] /\ \A q \in Node \ G : f.box[q] = t.box[q]
  BY <1>1, <1>8, <1>9
<1>14. /\ f.line = [q \in Node |-> IF q \in G THEN Nothing ELSE t.line[q]]
       /\ f.line \in [Node -> Line \cup {Nothing}]
  BY <1>1, <1>8, <1>9
<1>15. f.selected \in Seq(Node)
  BY <1>6, <1>8, OnlyIs
<1>16. f \in Tree
  <2>1. f = [setting |-> f.setting, kids |-> f.kids, parent |-> f.parent, cached |-> f.cached,
             isParent |-> f.isParent, open |-> f.open, first |-> f.first, last |-> f.last,
             selected |-> f.selected, li |-> f.li, ul |-> f.ul, checked |-> f.checked,
             nocheck |-> f.nocheck, disabled |-> f.disabled, half |-> f.half, state |-> f.state,
             box |-> f.box, line |-> f.line, lined |-> f.lined, radios |-> f.radios]
    BY <1>5 DEF Fields
  <2>2. /\ f.cached \in SUBSET Node /\ f.isParent \in SUBSET Node /\ f.open \in SUBSET Node
        /\ f.first \in SUBSET Node /\ f.last \in SUBSET Node /\ f.li \in SUBSET Node
        /\ f.ul \in SUBSET Node /\ f.lined \in SUBSET Node /\ f.checked \in SUBSET Node
        /\ f.nocheck \in SUBSET Node /\ f.disabled \in SUBSET Node /\ f.half \in SUBSET Node
        /\ f.radios \in SUBSET Node
    BY <1>7 DEF Tree
  <2>3. f.setting \in Setting
    BY <1>6 DEF Tree
  <2>. QED  BY ONLY <1>10, <1>11, <1>12, <1>13, <1>14, <1>15, <2>1, <2>2, <2>3 DEF Tree
<1>17. Forgotten(t, G, f)
  BY <1>6, <1>7, <1>10, <1>11, <1>12, <1>13, <1>14, <1>16 DEF Forgotten
<1>. QED  BY <1>17 DEF f

\* The nodes in G, with all that is below them, may go from below p, where the
\* others stay as they are in rest.
Cuts(t, p, G, rest) ==
  /\ Sound(t) /\ p \in t.cached \cup {Root} /\ p \notin G /\ G \subseteq t.cached
  /\ \A q \in t.cached : t.parent[q] \in G => q \in G
  /\ \A q \in G : t.parent[q] \in G \cup {p}
  /\ rest \in Seq(Node) /\ Range(rest) = Kids(t, p) \ G /\ IsInjective(rest)
  /\ rest # <<>> => /\ t.kids[p][1] \notin G => rest[1] = t.kids[p][1]
                    /\ Last(t.kids[p]) \notin G => Last(rest) = Last(t.kids[p])

\* t without the nodes in G.
Cut(t, G, u) ==
  /\ u.parent = [q \in Node |-> IF q \in G THEN Root ELSE t.parent[q]]
  /\ u.cached = t.cached \ G /\ u.checked = t.checked \ G /\ u.nocheck = t.nocheck \ G
  /\ u.disabled = t.disabled \ G /\ u.half = t.half \ G /\ u.radios = t.radios \ G
  /\ u.setting = t.setting
  /\ \A q \in Node \cup {Root} : Kids(u, q) = IF q \in G THEN {} ELSE Kids(t, q) \ G

CutFields(t, p, G, rest, u) ==
  /\ u.kids = [q \in Node \cup {Root} |->
                 IF q = p THEN rest ELSE IF q \in G THEN <<>> ELSE t.kids[q]]
  /\ u.parent = [q \in Node |-> IF q \in G THEN Root ELSE t.parent[q]]
  /\ u.first = (t.first \ G) \cup (IF rest = <<>> THEN {} ELSE {rest[1]})
  /\ u.last = (t.last \ G) \cup (IF rest = <<>> THEN {} ELSE {Last(rest)})
  /\ u.isParent = t.isParent \ (G \cup (IF rest = <<>> THEN {p} ELSE {}))
  /\ u.open = t.open \ (G \cup (IF rest = <<>> THEN {p} ELSE {}))
  /\ u.li = t.li \ G /\ u.cached = t.cached \ G
  /\ u.ul \subseteq t.ul \ G /\ (t.ul \ G) \ u.ul \subseteq (IF rest = <<>> THEN {p} ELSE {})
  /\ u.selected = Only(t.selected, Node \ G)
  /\ u.setting = t.setting /\ u.checked = t.checked \ G /\ u.nocheck = t.nocheck \ G
  /\ u.disabled = t.disabled \ G /\ u.half = t.half \ G /\ u.radios = t.radios \ G

\* All but the lines.
Unlined(u) ==
  /\ Agree(u) /\ Inner(u) /\ Ended(u) /\ Range(u.selected) \subseteq u.cached
  /\ u.li \subseteq u.cached /\ u.ul \subseteq u.cached /\ Kids(u, Root) \subseteq u.li
  /\ \A n \in u.li : u.parent[n] \in u.ul \cup {Root}

LEMMA CutIs ==
  ASSUME NEW t, NEW p, NEW G, NEW rest, Cuts(t, p, G, rest),
         NEW u \in Tree, CutFields(t, p, G, rest, u)
  PROVE  Cut(t, G, u) /\ Unlined(u) /\ \A E : Whole(t, E) => Whole(u, E)
<1>1. /\ Agree(t) /\ t \in Tree /\ p \in Node \cup {Root} /\ p \notin G /\ G \subseteq Node
      /\ Inner(t) /\ Ended(t) /\ Pictured(t) /\ G \subseteq t.cached /\ Root \notin G
      /\ t.cached \in SUBSET Node /\ t.parent \in [Node -> Node \cup {Root}]
      /\ t.kids \in [Node \cup {Root} -> Seq(Node)] /\ Root \notin Node
  BY TreeAssumption DEF Cuts, Sound, Agree, Tree
<1>2. /\ \A q \in t.cached : t.parent[q] \in G => q \in G
      /\ \A q \in G : t.parent[q] \in G \cup {p}
      /\ rest \in Seq(Node) /\ Range(rest) = Kids(t, p) \ G /\ IsInjective(rest)
      /\ rest # <<>> => /\ t.kids[p][1] \notin G => rest[1] = t.kids[p][1]
                        /\ Last(t.kids[p]) \notin G => Last(rest) = Last(t.kids[p])
  BY DEF Cuts
<1>3. /\ u.kids = [q \in Node \cup {Root} |->
                     IF q = p THEN rest ELSE IF q \in G THEN <<>> ELSE t.kids[q]]
      /\ u.parent = [q \in Node |-> IF q \in G THEN Root ELSE t.parent[q]]
      /\ u.first = (t.first \ G) \cup (IF rest = <<>> THEN {} ELSE {rest[1]})
      /\ u.last = (t.last \ G) \cup (IF rest = <<>> THEN {} ELSE {Last(rest)})
      /\ u.isParent = t.isParent \ (G \cup (IF rest = <<>> THEN {p} ELSE {}))
      /\ u.open = t.open \ (G \cup (IF rest = <<>> THEN {p} ELSE {}))
      /\ u.li = t.li \ G /\ u.cached = t.cached \ G
      /\ u.ul \subseteq t.ul \ G /\ (t.ul \ G) \ u.ul \subseteq (IF rest = <<>> THEN {p} ELSE {})
      /\ u.selected = Only(t.selected, Node \ G)
  BY DEF CutFields
<1>4. \A q \in Node \cup {Root} : Kids(t, q) = {k \in t.cached : t.parent[k] = q}
  BY <1>1 DEF Agree
<1>5. \A q \in G : Kids(t, q) \subseteq G
  BY <1>1, <1>2, <1>4
<1>6. \A q \in (Node \cup {Root}) \ (G \cup {p}) : Kids(t, q) \cap G = {}
  BY <1>1, <1>2, <1>4
<1>7. /\ u.kids[p] = rest
      /\ \A q \in G : u.kids[q] = <<>>
      /\ \A q \in (Node \cup {Root}) \ (G \cup {p}) : u.kids[q] = t.kids[q]
  BY <1>1, <1>3
<1>8. \A q \in Node : u.parent[q] = IF q \in G THEN Root ELSE t.parent[q]
  BY <1>3
<1>9. ASSUME NEW q \in Node \cup {Root} PROVE Kids(u, q) = IF q \in G THEN {} ELSE Kids(t, q) \ G
  <2>1. CASE q \in G
    BY <1>7, <2>1 DEF Kids, Range
  <2>2. CASE q = p
    BY <1>1, <1>2, <1>7, <2>2 DEF Kids
  <2>3. CASE q \notin G \cup {p}
    BY <1>6, <1>7, <2>3 DEF Kids
  <2>. QED  BY <2>1, <2>2, <2>3
<1>10. ASSUME NEW q \in Node \cup {Root} PROVE IsInjective(u.kids[q])
  <2>1. CASE q \in G
    BY <1>7, <2>1 DEF IsInjective
  <2>2. CASE q = p
    BY <1>2, <1>7, <2>2
  <2>3. CASE q \notin G \cup {p}
    BY <1>1, <1>7, <2>3 DEF Agree
  <2>. QED  BY <2>1, <2>2, <2>3
<1>11. ParentsEnd(u)
  <2>1. PICK N \in Nat : \E depth \in [Node -> 0 .. N] :
               \A n \in Node : t.parent[n] # Root => depth[t.parent[n]] < depth[n]
    BY <1>1 DEF Agree, ParentsEnd
  <2>. QED  BY <1>8, <2>1 DEF ParentsEnd
<1>12. ASSUME NEW q \in Node \cup {Root} PROVE Kids(u, q) = {k \in u.cached : u.parent[k] = q}
  <2>1. \A k \in u.cached : k \in Node /\ k \notin G /\ u.parent[k] = t.parent[k]
    BY <1>1, <1>3, <1>8
  <2>2. CASE q \in G
    <3>1. \A k \in u.cached : u.parent[k] # q
      BY <1>2, <1>3, <2>1, <2>2
    <3>. QED  BY <1>9, <2>2, <3>1
  <2>3. CASE q \notin G
    <3>1. Kids(u, q) = {k \in t.cached : t.parent[k] = q} \ G
      BY <1>4, <1>9, <2>3
    <3>2. {k \in u.cached : u.parent[k] = q} = {k \in t.cached : t.parent[k] = q} \ G
      BY <1>3, <2>1
    <3>. QED  BY <3>1, <3>2
  <2>. QED  BY <2>2, <2>3
<1>13. ASSUME NEW q \in u.cached PROVE u.parent[q] \in u.cached \cup {Root}
  BY <1>1, <1>2, <1>3, <1>8 DEF Agree
<1>14. ASSUME NEW q \in Node \ u.cached PROVE u.parent[q] = Root
  BY <1>1, <1>3, <1>8 DEF Agree
<1>15. Agree(u)
  BY <1>10, <1>11, <1>12, <1>13, <1>14 DEF Agree
<1>16. Cut(t, G, u)
  BY <1>3, <1>9 DEF Cut, CutFields
<1>17. Kids(u, p) = Range(rest) /\ (rest = <<>> <=> Kids(u, p) = {})
  <2>1. u.kids[p] = <<>> <=> Kids(u, p) = {}
    BY <1>1, KidsAre DEF HasKids
  <2>. QED  BY <1>7, <2>1 DEF Kids
<1>18. Inner(u)
  <2>1. ASSUME NEW q \in Node, HasKids(u, q) PROVE q \in u.isParent
    <3>1. q \notin G /\ (q = p => rest # <<>>)
      BY <1>7, <2>1 DEF HasKids
    <3>2. Kids(t, q) # {}
      BY <1>9, <2>1, <3>1, KidsAre
    <3>3. q \in t.isParent
      BY <1>1, <3>2, KidsAre DEF Inner
    <3>. QED  BY <1>3, <3>1, <3>3
  <2>. QED  BY <1>1, <1>3, <2>1 DEF Inner
<1>19. rest # <<>> => rest[1] \in Kids(u, p) /\ Last(rest) \in Kids(u, p)
  BY <1>1, <1>7, EndsAre DEF HasKids
<1>20. Kids(u, p) \subseteq u.cached /\ \A k \in Kids(u, p) : u.parent[k] = p
  BY <1>1, <1>12
<1>21. Ended(u)
  <2>1. u.first \subseteq u.cached /\ u.last \subseteq u.cached
    BY <1>1, <1>3, <1>19, <1>20 DEF Ended
  <2>2. ASSUME NEW q \in u.cached
        PROVE  /\ q \in u.first <=> q = u.kids[u.parent[q]][1]
               /\ q \in u.last <=> q = Last(u.kids[u.parent[q]])
    <3>1. /\ q \in t.cached /\ q \in Node /\ q \notin G /\ u.parent[q] = t.parent[q]
          /\ t.parent[q] \notin G /\ t.parent[q] \in Node \cup {Root}
      BY <1>1, <1>2, <1>3, <1>8
    <3>2. /\ q \in t.first <=> q = t.kids[t.parent[q]][1]
          /\ q \in t.last <=> q = Last(t.kids[t.parent[q]])
      BY <1>1, <3>1 DEF Ended
    <3>3. CASE t.parent[q] # p
      <4>1. u.kids[u.parent[q]] = t.kids[t.parent[q]]
        BY <1>7, <3>1, <3>3
      <4>2. (q \in u.first <=> q \in t.first) /\ (q \in u.last <=> q \in t.last)
        BY <1>3, <1>19, <1>20, <3>1, <3>3
      <4>. QED  BY <3>2, <4>1, <4>2
    <3>4. CASE t.parent[q] = p
      <4>1. q \in Kids(u, p)
        BY <1>1, <1>12, <3>1, <3>4
      <4>2. rest # <<>> /\ u.kids[u.parent[q]] = rest
        BY <1>7, <1>17, <3>1, <3>4, <4>1
      <4>3. (q \in t.first => q = rest[1]) /\ (q \in t.last => q = Last(rest))
        BY <1>2, <3>1, <3>2, <3>4, <4>2
      <4>. QED  BY <1>3, <3>1, <4>2, <4>3
    <3>. QED  BY <3>3, <3>4
  <2>. QED  BY <2>1, <2>2 DEF Ended
<1>22. Range(u.selected) \subseteq u.cached
  <2>1. t.selected \in Seq(Node) /\ Range(t.selected) \subseteq t.cached
    BY <1>1 DEF Cuts, Sound, Tree
  <2>2. Range(Only(t.selected, Node \ G)) = Range(t.selected) \cap (Node \ G)
    BY <2>1, OnlyIs
  <2>. QED  BY <1>3, <2>1, <2>2
<1>23. u.li \subseteq u.cached /\ u.ul \subseteq u.cached
  BY <1>1, <1>3 DEF Pictured
<1>24. Kids(u, Root) \subseteq u.li
  BY <1>1, <1>3, <1>9 DEF Pictured
<1>25. ASSUME NEW n \in u.li PROVE u.parent[n] \in u.ul \cup {Root}
  <2>1. n \in u.cached /\ n \in t.li /\ n \in Node /\ n \notin G /\ n \in t.cached
    BY <1>1, <1>3, <1>23
  <2>2. u.parent[n] = t.parent[n] /\ t.parent[n] \in t.ul \cup {Root} /\ t.parent[n] \notin G
    BY <1>1, <1>2, <1>8, <2>1 DEF Pictured
  <2>3. CASE t.parent[n] = p
    <3>1. n \in Kids(u, p)
      BY <1>1, <1>12, <2>1, <2>2, <2>3
    <3>. QED  BY <1>3, <1>17, <2>2, <3>1
  <2>4. CASE t.parent[n] # p
    BY <1>3, <2>2, <2>4
  <2>. QED  BY <2>3, <2>4
<1>26. Unlined(u)
  BY <1>15, <1>18, <1>21, <1>22, <1>23, <1>24, <1>25 DEF Unlined
<1>27. ASSUME NEW E, Whole(t, E), NEW q \in Node \ E
       PROVE  /\ Kids(u, q) \subseteq u.li \/ Kids(u, q) \cap u.li = {}
              /\ q \in (u.li \cup u.ul) \cap u.open => q \in u.ul /\ Kids(u, q) \subseteq u.li
  <2>1. /\ Kids(t, q) \subseteq t.li \/ Kids(t, q) \cap t.li = {}
        /\ q \in (t.li \cup t.ul) \cap t.open => q \in t.ul /\ Kids(t, q) \subseteq t.li
    BY <1>27 DEF Whole
  <2>2. CASE q \in G
    <3>1. Kids(u, q) = {} /\ q \notin u.li /\ q \notin u.ul
      BY <1>3, <1>9, <2>2
    <3>. QED  BY <3>1
  <2>3. CASE q \notin G
    <3>1. Kids(u, q) = Kids(t, q) \ G
      BY <1>9, <2>3
    <3>2. Kids(u, q) \subseteq u.li \/ Kids(u, q) \cap u.li = {}
      BY <1>3, <2>1, <3>1
    <3>3. ASSUME q \in (u.li \cup u.ul) \cap u.open PROVE q \in u.ul /\ Kids(u, q) \subseteq u.li
      <4>1. q \in (t.li \cup t.ul) \cap t.open
        BY <1>3, <3>3
      <4>2. q \in t.ul \ G /\ Kids(u, q) \subseteq u.li
        BY <1>3, <2>1, <2>3, <3>1, <4>1
      <4>3. q = p => rest # <<>>
        BY <1>3, <3>3
      <4>. QED  BY <1>3, <4>2, <4>3
    <3>. QED  BY <3>2, <3>3
  <2>. QED  BY <2>2, <2>3
<1>28. \A E : Whole(t, E) => Whole(u, E)
  BY <1>27 DEF Whole
<1>. QED  BY <1>16, <1>26, <1>28

\* Of what stays, only p and what is above it have to follow.
LEMMA CutSettles ==
  ASSUME NEW t, NEW p, NEW G, NEW rest, Cuts(t, p, G, rest),
         NEW u \in Tree, CutFields(t, p, G, rest, u), Settled(t),
         \A q \in Node \ G : u.state[q] = t.state[q] /\ u.box[q] = t.box[q]
  PROVE  SettledBut(u, Route(u, p))
<1>. DEFINE K == u.cached \ Route(u, p)
<1>1. /\ Agree(t) /\ t \in Tree /\ p \in Node \cup {Root} /\ t.cached \subseteq Node
      /\ G \subseteq Node /\ \A q \in G : t.parent[q] \in G \cup {p}
  BY DEF Cuts, Sound, Agree, Tree
<1>2. Agree(u) /\ \A q \in Node \cup {Root} : Kids(u, q) = IF q \in G THEN {} ELSE Kids(t, q) \ G
  <2>1. Cut(t, G, u) /\ Unlined(u)
    BY CutIs
  <2>. QED  BY <2>1 DEF Cut, Unlined
<1>3. /\ u.cached = t.cached \ G /\ u.li = t.li \ G /\ u.setting = t.setting
      /\ u.checked = t.checked \ G /\ u.nocheck = t.nocheck \ G
      /\ u.disabled = t.disabled \ G /\ u.half = t.half \ G
      /\ \A q \in Node \ G : u.parent[q] = t.parent[q]
  BY DEF CutFields
<1>4. \A n \in Node \ Route(u, p) : n # p /\ \A c \in Node : u.parent[c] = n => c \notin Route(u, p)
  BY <1>1, <1>2, RouteIs
<1>5. ASSUME NEW n \in K
      PROVE  /\ SameBox(t, u, n) /\ Kids(u, n) = Kids(t, n) /\ Kids(t, n) \subseteq K
             /\ u.box[n] = t.box[n] /\ (n \in u.li => n \in t.li)
  <2>1. n \in Node \ Route(u, p) /\ n \in Node \ G /\ n # p
    BY <1>1, <1>3, <1>4
  <2>2. SameBox(t, u, n)
    BY <1>3, <2>1 DEF SameBox
  <2>3. ASSUME NEW c \in Kids(t, n) PROVE c \in K /\ c \notin G
    <3>1. c \in t.cached /\ t.parent[c] = n /\ c \in Node
      BY <1>1, <2>1 DEF Agree
    <3>2. c \notin G
      BY <1>1, <2>1, <3>1
    <3>3. u.parent[c] = n /\ c \in u.cached
      BY <1>3, <3>1, <3>2
    <3>. QED  BY <1>4, <2>1, <3>1, <3>2, <3>3
  <2>4. Kids(u, n) = Kids(t, n)
    BY <1>2, <2>1, <2>3
  <2>. QED  BY <1>3, <2>1, <2>2, <2>3, <2>4
<1>6. K \subseteq t.cached
  BY <1>3
<1>. HIDE DEF K
<1>7. SettledBut(u, u.cached \ K)
  BY <1>1, <1>2, <1>3, <1>5, <1>6, StillSettled
<1>8. (u.cached \ K) \cap u.cached \subseteq Route(u, p)
  BY DEF K
<1>. QED  BY <1>7, <1>8, SettledLess

LEMMA Relined ==
  ASSUME NEW u \in Tree, Unlined(u), NEW v \in Differ(u, {"line", "lined"}),
         v.lined = v.ul \ v.last, \A n \in v.li : v.line[n] = LineClass(v, n)
  PROVE  Sound(v) /\ \A E : Whole(u, E) => Whole(v, E)
<1>1. /\ v \in Tree /\ v.kids = u.kids /\ v.parent = u.parent /\ v.cached = u.cached
      /\ v.isParent = u.isParent /\ v.open = u.open /\ v.first = u.first /\ v.last = u.last
      /\ v.selected = u.selected /\ v.li = u.li /\ v.ul = u.ul
  BY DEF Differ, Fields
<1>2. Agree(v)
  BY AgreeStays DEF Unlined, Family3
<1>3. Inner(v) /\ Ended(v)
  BY <1>1 DEF Unlined, Inner, Ended, HasKids
<1>4. Pictured(v)
  BY <1>1 DEF Unlined, Pictured, Kids
<1>5. Sound(v)
  BY <1>1, <1>2, <1>3, <1>4 DEF Unlined, Sound
<1>6. \A E : Whole(u, E) => Whole(v, E)
  BY <1>1 DEF Whole, Kids
<1>. QED  BY <1>5, <1>6

LEMMA CutStays ==
  ASSUME NEW t, NEW G, NEW u, Cut(t, G, u), NEW v \in Differ(u, {"line", "lined", "state", "box"})
  PROVE  Cut(t, G, v)
BY DEF Cut, Differ, Fields, Kids

\* The lines are still right, but for those of the new ends, and of p if it has
\* lost all its sons.
LEMMA CutLines ==
  ASSUME NEW t, NEW p, NEW G, NEW rest, Cuts(t, p, G, rest),
         NEW u \in Tree, CutFields(t, p, G, rest, u),
         u.line = [q \in Node |-> IF q \in G THEN Nothing ELSE t.line[q]],
         NEW n \in u.li
  PROVE  /\ n \in Node /\ n \notin G /\ u.line[n] \in Line
         /\ u.line[n] = <<u.line[n][1], u.line[n][2]>>
         /\ rest # <<>> \/ n # p => u.line[n][2] = Folder(u, n)
         /\ (rest # <<>> => n \notin {rest[1], Last(rest)}) => u.line[n][1] = LineClass(u, n)[1]
<1>1. /\ n \in t.li /\ n \notin G /\ t \in Tree /\ Pictured(t) /\ t.li \subseteq Node
      /\ t.parent \in [Node -> Node \cup {Root}]
  BY DEF CutFields, Cuts, Sound, Agree, Tree
<1>2. n \in Node /\ u.line[n] = t.line[n] /\ t.line[n] = LineClass(t, n)
  BY <1>1 DEF Pictured
<1>3. LineClass(t, n) \in Line /\ LineClass(t, n) = <<LineClass(t, n)[1], Folder(t, n)>>
  BY <1>1, LineClassType
<1>4. u.parent[n] = t.parent[n]
  BY <1>1, <1>2 DEF CutFields
<1>5. ASSUME rest # <<>> \/ n # p PROVE Folder(u, n) = Folder(t, n)
  BY <1>1, <1>5 DEF CutFields, Folder
<1>6. ASSUME rest # <<>> => n \notin {rest[1], Last(rest)}
      PROVE  LineClass(u, n)[1] = LineClass(t, n)[1]
  <2>1. (n \in u.first <=> n \in t.first) /\ (n \in u.last <=> n \in t.last)
    BY <1>1, <1>6 DEF CutFields
  <2>. QED  BY <1>4, <2>1 DEF LineClass
<1>. QED  BY <1>1, <1>2, <1>3, <1>5, <1>6

\* The end of removeNode: the lines of the new ends, or the folder of p.
LEMMA CutRepaired ==
  ASSUME NEW t, NEW p, NEW G, NEW rest, Cuts(t, p, G, rest),
         NEW u \in Tree, CutFields(t, p, G, rest, u), Unlined(u),
         u.line = [q \in Node |-> IF q \in G THEN Nothing ELSE t.line[q]]
  PROVE  /\ rest # <<>> /\ u.lined = t.lined \ G /\ u.ul = t.ul \ G
            => /\ RepairLines(u, p) \in Differ(u, {"line", "lined"})
               /\ Sound(RepairLines(u, p))
         /\ rest = <<>> /\ p # Root /\ u.lined = u.ul \ u.last
            => /\ ReplaceFolder(u, p) \in Differ(u, {"line", "lined"})
               /\ Sound(ReplaceFolder(u, p))
         /\ rest = <<>> /\ p = Root /\ u.lined = u.ul \ u.last => Sound(u)
<1>1. /\ t \in Tree /\ p \in Node \cup {Root} /\ p \notin G /\ Pictured(t) /\ rest \in Seq(Node)
  BY DEF Cuts, Sound, Agree, Tree
<1>2. /\ u.first = (t.first \ G) \cup (IF rest = <<>> THEN {} ELSE {rest[1]})
      /\ u.last = (t.last \ G) \cup (IF rest = <<>> THEN {} ELSE {Last(rest)})
      /\ u.kids[p] = rest
  BY <1>1 DEF CutFields
<1>3. \A n \in u.li :
        /\ n \in Node /\ n \notin G /\ u.line[n] \in Line
        /\ u.line[n] = <<u.line[n][1], u.line[n][2]>>
        /\ rest # <<>> \/ n # p => u.line[n][2] = Folder(u, n)
        /\ (rest # <<>> => n \notin {rest[1], Last(rest)}) => u.line[n][1] = LineClass(u, n)[1]
  BY CutLines
<1>4. \A n \in Node : LineClass(u, n) = <<LineClass(u, n)[1], Folder(u, n)>>
  BY LineClassType
<1>5. ASSUME rest # <<>>, u.lined = t.lined \ G, u.ul = t.ul \ G
      PROVE  /\ RepairLines(u, p) \in Differ(u, {"line", "lined"})
             /\ Sound(RepairLines(u, p))
  <2>. DEFINE f == rest[1]
              l == Last(rest)
              a == IF p = Root THEN IF f = l THEN "root" ELSE "roots" ELSE LineClass(u, f)[1]
              b == IF p = Root /\ f = l THEN "root" ELSE "bottom"
              w == RepairLines(u, p)
              m == CASE p # Root -> ReplaceLine(u, l, "bottom")
                     [] p = Root /\ f = l -> ReplaceLine(u, l, "root")
                     [] OTHER -> ReplaceLine(ReplaceLine(u, f, "roots"), l, "bottom")
  <2>1. HasKids(u, p) /\ Head(u.kids[p]) = f /\ f \in Kids(u, p) /\ l \in Kids(u, p)
    BY <1>1, <1>2, <1>5, EndsAre DEF HasKids
  <2>2. w = [m EXCEPT !.lined = @ \ {l}]
    BY <1>2, <2>1 DEF RepairLines
  <2>3. /\ f \in Node /\ l \in Node /\ u.parent[f] = p /\ u.parent[l] = p
        /\ f \in u.cached /\ l \in u.cached
    BY <1>1, <2>1 DEF Unlined, Agree, Tree
  <2>4. /\ f \in u.first /\ l \in u.last /\ (f \in u.last <=> f = l) /\ (l \in u.first <=> f = l)
    BY <1>2, <1>5, <2>3 DEF Unlined, Ended
  <2>5. /\ f # l /\ p = Root => LineClass(u, f)[1] = "roots"
        /\ LineClass(u, l)[1] = b
    BY <2>3, <2>4 DEF LineClass
  <2>6. /\ f \in u.li => u.line[f] \in Line
        /\ l \in u.li => u.line[l] \in Line
    BY <1>3
  <2>14. {"root", "roots", "bottom"} \subseteq {"root", "roots", "center", "bottom"}
    OBVIOUS
  <2>. HIDE DEF f, l, w
  <2>7. /\ m \in Differ(u, {"line"})
        /\ \A n \in Node : m.line[n] =
             IF n = l /\ n \in u.li THEN <<b, u.line[n][2]>>
             ELSE IF n = f /\ n \in u.li /\ p = Root THEN <<"roots", u.line[n][2]>>
             ELSE u.line[n]
    <3>1. CASE p # Root
      <4>1. m = ReplaceLine(u, l, "bottom") /\ b = "bottom"
        BY <3>1
      <4>2. /\ ReplaceLine(u, l, "bottom") \in Differ(u, {"line"})
            /\ \A n \in Node : ReplaceLine(u, l, "bottom").line[n] =
                 IF n = l /\ l \in u.li THEN <<"bottom", u.line[l][2]>> ELSE u.line[n]
        BY ONLY <2>3, <2>6, <2>14, u \in Tree, ReplaceLineIs
      <4>. HIDE DEF m
      <4>. QED  BY <3>1, <4>1, <4>2
    <3>2. CASE p = Root /\ f = l
      <4>1. m = ReplaceLine(u, l, "root") /\ b = "root"
        BY <3>2
      <4>2. /\ ReplaceLine(u, l, "root") \in Differ(u, {"line"})
            /\ \A n \in Node : ReplaceLine(u, l, "root").line[n] =
                 IF n = l /\ l \in u.li THEN <<"root", u.line[l][2]>> ELSE u.line[n]
        BY ONLY <2>3, <2>6, <2>14, u \in Tree, ReplaceLineIs
      <4>. HIDE DEF m
      <4>. QED  BY <3>2, <4>1, <4>2
    <3>3. CASE p = Root /\ f # l
      <4>. DEFINE k == ReplaceLine(u, f, "roots")
      <4>1. m = ReplaceLine(k, l, "bottom") /\ b = "bottom"
        BY <3>3
      <4>2. /\ k \in Differ(u, {"line"})
            /\ \A n \in Node : k.line[n] =
                 IF n = f /\ f \in u.li THEN <<"roots", u.line[f][2]>> ELSE u.line[n]
        BY ONLY <2>3, <2>6, <2>14, u \in Tree, ReplaceLineIs
      <4>. HIDE DEF m, k
      <4>3. k \in Tree /\ k.li = u.li /\ k.line[l] = u.line[l]
        BY <2>3, <3>3, <4>2 DEF Differ, Fields
      <4>6. l \in k.li => k.line[l] \in Line
        BY <2>6, <4>3
      <4>4. /\ m \in Differ(k, {"line"})
            /\ \A n \in Node : m.line[n] =
                 IF n = l /\ l \in k.li THEN <<"bottom", k.line[l][2]>> ELSE k.line[n]
        BY ONLY <2>3, <2>14, <4>1, <4>3, <4>6, ReplaceLineIs
      <4>5. m \in Differ(u, {"line"})
        BY <4>2, <4>4, DifferChain
      <4>. QED  BY <3>3, <4>1, <4>2, <4>3, <4>4, <4>5
    <3>. QED  BY <3>1, <3>2, <3>3
  <2>. HIDE DEF m
  <2>8. w \in Differ(u, {"line", "lined"}) /\ w.lined = u.lined \ {l} /\ w.line = m.line
    <3>1. m \in Tree /\ m.lined = u.lined /\ u.lined \in SUBSET Node
      BY <2>7 DEF Differ, Fields, Tree
    <3>2. w = [m EXCEPT !.lined = u.lined \ {l}]
      BY <2>2, <3>1
    <3>3. w \in Tree
      BY <3>1, <3>2 DEF Tree
    <3>4. w.lined = u.lined \ {l} /\ \A g \in Fields \ {"lined"} : w[g] = m[g]
      BY <3>1, <3>2 DEF Tree, Fields
    <3>5. \A g \in Fields \ {"line"} : m[g] = u[g]
      BY <2>7 DEF Differ
    <3>6. w \in Differ(u, {"line", "lined"})
      BY <3>3, <3>4, <3>5 DEF Differ
    <3>. QED  BY <3>4, <3>6 DEF Fields
  <2>9. /\ w.li = u.li /\ w.ul = u.ul /\ w.last = u.last /\ w.first = u.first /\ w.parent = u.parent
        /\ w.isParent = u.isParent /\ w.open = u.open
    BY <2>8 DEF Differ, Fields
  <2>10. w.lined = w.ul \ w.last
    BY <1>1, <1>2, <1>5, <2>8, <2>9 DEF Pictured, l
  <2>11. ASSUME NEW n \in w.li PROVE w.line[n] = LineClass(w, n)
    <3>1. n \in Node /\ n \in u.li /\ u.line[n][2] = Folder(u, n)
      BY <1>3, <1>5, <2>9
    <3>2. LineClass(w, n) = LineClass(u, n) /\ LineClass(u, n) = <<LineClass(u, n)[1], Folder(u, n)>>
      BY <1>4, <2>9, <3>1 DEF LineClass, Folder
    <3>3. CASE n = l
      BY <2>5, <2>7, <2>8, <3>1, <3>2, <3>3
    <3>4. CASE n # l /\ n = f /\ p = Root
      BY <2>5, <2>7, <2>8, <3>1, <3>2, <3>4
    <3>5. CASE n # l /\ n = f /\ p # Root
      <4>1. w.line[n] = u.line[n]
        BY <2>7, <2>8, <3>1, <3>5
      <4>2. n \in t.li /\ n \notin G /\ u.line[n] = t.line[n] /\ t.line[n] = LineClass(t, n)
        BY <1>1, <1>3, <3>1 DEF CutFields, Pictured
      <4>3. t.parent[n] = p /\ u.parent[n] = p
        BY <2>3, <3>1, <3>5, <4>2 DEF CutFields
      <4>4. n \in u.last <=> n \in t.last
        BY <1>2, <2>4, <3>5, <4>2 DEF l
      <4>5. LineClass(u, n)[1] = LineClass(t, n)[1]
        BY <3>5, <4>3, <4>4 DEF LineClass
      <4>6. u.line[n] = <<u.line[n][1], u.line[n][2]>>
        BY <1>3, <3>1
      <4>. QED  BY <3>1, <3>2, <4>1, <4>2, <4>5, <4>6
    <3>6. CASE n # l /\ n # f
      <4>1. w.line[n] = u.line[n]
        BY <2>7, <2>8, <3>1, <3>6
      <4>2. u.line[n][1] = LineClass(u, n)[1] /\ u.line[n] = <<u.line[n][1], u.line[n][2]>>
        BY <1>3, <3>1, <3>6 DEF f, l
      <4>. QED  BY <3>1, <3>2, <4>1, <4>2
    <3>. QED  BY <3>3, <3>4, <3>5, <3>6
  <2>12. Sound(w)
    BY <2>8, <2>10, <2>11, Relined
  <2>. QED  BY <2>8, <2>12 DEF w
<1>6. ASSUME rest = <<>>, p # Root, u.lined = u.ul \ u.last
      PROVE  /\ ReplaceFolder(u, p) \in Differ(u, {"line", "lined"})
             /\ Sound(ReplaceFolder(u, p))
  <2>. DEFINE w == ReplaceFolder(u, p)
  <2>1. p \in Node /\ (p \in u.li => u.line[p] \in Line)
    BY <1>1, <1>3, <1>6
  <2>2. /\ w \in Differ(u, {"line"})
        /\ \A n \in Node : w.line[n] =
             IF n = p /\ p \in u.li THEN <<u.line[p][1], Folder(u, p)>> ELSE u.line[n]
    BY <2>1, FolderIs
  <2>. HIDE DEF w
  <2>3. w \in Differ(u, {"line", "lined"})
    BY <2>2, DifferMore
  <2>4. /\ w.li = u.li /\ w.ul = u.ul /\ w.last = u.last /\ w.first = u.first /\ w.parent = u.parent
        /\ w.isParent = u.isParent /\ w.open = u.open /\ w.lined = u.lined
    BY <2>2 DEF Differ, Fields
  <2>5. ASSUME NEW n \in w.li PROVE w.line[n] = LineClass(w, n)
    <3>1. /\ n \in Node /\ n \in u.li /\ u.line[n] = <<u.line[n][1], u.line[n][2]>>
          /\ n # p => u.line[n][2] = Folder(u, n)
          /\ u.line[n][1] = LineClass(u, n)[1]
      BY <1>3, <1>6, <2>4
    <3>2. LineClass(w, n) = LineClass(u, n) /\ LineClass(u, n) = <<LineClass(u, n)[1], Folder(u, n)>>
      BY <1>4, <2>4, <3>1 DEF LineClass, Folder
    <3>3. CASE n = p
      BY <2>2, <3>1, <3>2, <3>3
    <3>4. CASE n # p
      BY <2>2, <3>1, <3>2, <3>4
    <3>. QED  BY <3>3, <3>4
  <2>6. w.lined = w.ul \ w.last
    BY <1>6, <2>4
  <2>7. Sound(w)
    BY <2>3, <2>5, <2>6, Relined
  <2>. QED  BY <2>3, <2>7 DEF w
<1>7. ASSUME rest = <<>>, p = Root, u.lined = u.ul \ u.last PROVE Sound(u)
  <2>1. \A n \in u.li : u.line[n] = LineClass(u, n)
    <3>. SUFFICES ASSUME NEW n \in u.li PROVE u.line[n] = LineClass(u, n)
      OBVIOUS
    <3>1. /\ n \in Node /\ u.line[n] = <<u.line[n][1], u.line[n][2]>>
          /\ u.line[n][2] = Folder(u, n) /\ u.line[n][1] = LineClass(u, n)[1]
      BY <1>3, <1>7, TreeAssumption
    <3>. QED  BY <1>4, <3>1
  <2>2. u \in Differ(u, {"line", "lined"})
    BY DifferNot
  <2>. QED  BY <1>7, <2>1, <2>2, Relined
<1>. QED  BY <1>5, <1>6, <1>7

\* What is below a node, with it or without it, may go.
LEMMA NodeCuts ==
  ASSUME NEW t, Sound(t), NEW n \in t.cached
  PROVE  LET p == t.parent[n]
             i == CHOOSE i \in DOMAIN t.kids[p] : t.kids[p][i] = n
         IN  Cuts(t, p, Under(t, n) \cup {n}, RemoveAt(t.kids[p], i))
<1>. DEFINE p == t.parent[n]
            s == t.kids[p]
            i == CHOOSE i \in DOMAIN s : s[i] = n
            r == RemoveAt(s, i)
            G == Under(t, n) \cup {n}
<1>1. /\ Agree(t) /\ t \in Tree /\ t.cached \in SUBSET Node /\ n \in Node
      /\ p \in t.cached \cup {Root} /\ p \in Node \cup {Root}
  BY DEF Sound, Agree, Tree
<1>2. /\ s \in Seq(Node) /\ Len(s) \in Nat /\ DOMAIN s = 1 .. Len(s) /\ IsInjective(s)
      /\ Kids(t, p) = {s[j] : j \in 1 .. Len(s)} /\ n \in Kids(t, p)
  BY <1>1, KidsAre DEF Agree
<1>3. i \in 1 .. Len(s) /\ s[i] = n
  <2>1. \E j \in DOMAIN s : s[j] = n
    BY <1>2
  <2>. HIDE DEF s
  <2>. QED  BY <1>2, <2>1
<1>. HIDE DEF i
<1>4. /\ Under(t, n) = {k \in t.cached : t.parent[k] \in {n} \cup Under(t, n)}
      /\ Under(t, p) = {k \in t.cached : t.parent[k] \in {p} \cup Under(t, p)}
      /\ p \notin Under(t, p)
  BY <1>1, UnderIs
<1>5. G \subseteq Under(t, p)
  <2>1. Under(t, p) = UNION {Downward(t, k) : k \in Kids(t, p)}
    BY <1>1, DownwardIs
  <2>2. G = Downward(t, n)
    BY DEF Downward
  <2>. HIDE DEF G
  <2>. QED  BY <1>2, <2>1, <2>2
<1>6. p \notin G /\ G \subseteq t.cached
  BY <1>4, <1>5
<1>7. \A q \in t.cached : t.parent[q] \in G => q \in G
  BY <1>4
<1>8. \A q \in G : t.parent[q] \in G \cup {p}
  BY <1>4
<1>9. Kids(t, p) \cap G = {n}
  <2>1. \A k \in Kids(t, p) : t.parent[k] = p /\ k \in t.cached
    BY <1>1 DEF Agree
  <2>2. \A k \in Under(t, n) : t.parent[k] \in G
    BY <1>4
  <2>. QED  BY <1>2, <1>6, <2>1, <2>2
<1>. HIDE DEF G
<1>10. /\ r \in Seq(Node) /\ Range(r) = Range(s) \ {s[i]} /\ IsInjective(r)
       /\ r # <<>> => /\ i # 1 => r[1] = s[1]
                      /\ i # Len(s) => Last(r) = Last(s)
  <2>. HIDE DEF s
  <2>. QED  BY <1>2, <1>3, TakenOut
<1>. HIDE DEF r
<1>11. Range(r) = Kids(t, p) \ G
  BY <1>3, <1>9, <1>10 DEF Kids
<1>12. r # <<>> => /\ s[1] \notin G => r[1] = s[1]
                   /\ Last(s) \notin G => Last(r) = Last(s)
  <2>1. n \in G
    BY <1>9
  <2>2. Last(s) = s[Len(s)]
    BY DEF Last
  <2>. QED  BY <1>3, <1>10, <2>1, <2>2
<1>13. Cuts(t, p, G, r)
  BY <1>1, <1>6, <1>7, <1>8, <1>10, <1>11, <1>12 DEF Cuts
<1>. QED  BY <1>13 DEF r, i, G

LEMMA SonsCut ==
  ASSUME NEW t, Sound(t), NEW n \in t.cached
  PROVE  Cuts(t, n, Under(t, n), <<>>)
<1>1. /\ Agree(t) /\ t \in Tree /\ t.cached \in SUBSET Node /\ n \in Node
  BY DEF Sound, Agree, Tree
<1>2. /\ Under(t, n) = {k \in t.cached : t.parent[k] \in {n} \cup Under(t, n)}
      /\ n \notin Under(t, n)
  BY <1>1, UnderIs
<1>3. Kids(t, n) = {q \in t.cached : t.parent[q] = n}
  BY <1>1 DEF Agree
<1>4. Kids(t, n) \ Under(t, n) = {}
  BY <1>2, <1>3
<1>5. <<>> \in Seq(Node) /\ Range(<<>>) = {} /\ IsInjective(<<>>)
  BY DEF Range, IsInjective
<1>. QED  BY <1>1, <1>2, <1>4, <1>5 DEF Cuts

\* What is gone is gone from everywhere, and what stays, stays as it was.
LEMMA RemoveNodeIs ==
  ASSUME NEW t, Sound(t), NEW n \in t.cached
  PROVE  LET r == RemoveNode(t, n) IN
         /\ Sound(r) /\ Cut(t, Under(t, n) \cup {n}, r)
         /\ \A E : Whole(t, E) => Whole(r, E)
         /\ Settled(t) => Settled(r)
<1>. DEFINE G == Under(t, n) \cup {n}
            p == t.parent[n]
            i == CHOOSE i \in DOMAIN t.kids[p] : t.kids[p][i] = n
            rest == RemoveAt(t.kids[p], i)
            emptied == IF rest = <<>> THEN {p} ELSE {}
            f == Forget(t, G)
            u == [f EXCEPT !.kids[p] = rest,
                           !.first = IF rest = <<>> THEN @ ELSE @ \cup {Head(rest)},
                           !.last = IF rest = <<>> THEN @ ELSE @ \cup {Last(rest)},
                           !.isParent = @ \ emptied,
                           !.open = @ \ emptied]
            v == CASE rest # <<>> -> RepairLines(u, p)
                   [] rest = <<>> /\ p # Root -> ReplaceFolder(u, p)
                   [] OTHER -> u
            r == IF p = Root THEN v ELSE RepairParentChkClass(RepairChkClass(v, p), p)
<1>1. RemoveNode(t, n) = r
  BY DEF RemoveNode
<1>2. Cuts(t, p, G, rest)
  BY NodeCuts
<1>. HIDE DEF G, rest, i
<1>3. /\ t \in Tree /\ p \in Node \cup {Root} /\ p \notin G /\ G \in SUBSET Node /\ rest \in Seq(Node)
      /\ Pictured(t)
  BY <1>2 DEF Cuts, Sound, Agree, Tree
<1>4. Forgotten(t, G, f)
  BY <1>3, ForgetIs
<1>. HIDE DEF f
<1>5. rest # <<>> => Head(rest) = rest[1] /\ rest[1] \in Node /\ Last(rest) \in Node
  <2>1. rest # <<>> => Head(rest) = rest[1] /\ Len(rest) \in Nat /\ Len(rest) >= 1
    BY <1>3
  <2>. QED  BY <1>3, <2>1 DEF Last
<1>. DEFINE kids == [f.kids EXCEPT ![p] = rest]
            first == f.first \cup (IF rest = <<>> THEN {} ELSE {rest[1]})
            last == f.last \cup (IF rest = <<>> THEN {} ELSE {Last(rest)})
            isParent == f.isParent \ emptied
            open == f.open \ emptied
<1>6. u = [f EXCEPT !.kids = kids, !.first = first, !.last = last, !.isParent = isParent, !.open = open]
  <2>1. (IF rest = <<>> THEN f.first ELSE f.first \cup {Head(rest)}) = first
    BY <1>5
  <2>2. (IF rest = <<>> THEN f.last ELSE f.last \cup {Last(rest)}) = last
    OBVIOUS
  <2>. HIDE DEF first, last, emptied
  <2>. QED  BY <2>1, <2>2
<1>7. f \in Tree
  BY <1>4 DEF Forgotten
<1>8. /\ kids \in [Node \cup {Root} -> Seq(Node)] /\ first \in SUBSET Node /\ last \in SUBSET Node
      /\ isParent \in SUBSET Node /\ open \in SUBSET Node
  BY <1>3, <1>5, <1>7 DEF Tree
<1>9. /\ kids = [q \in Node \cup {Root} |->
                   IF q = p THEN rest ELSE IF q \in G THEN <<>> ELSE t.kids[q]]
      /\ first = (t.first \ G) \cup (IF rest = <<>> THEN {} ELSE {rest[1]})
      /\ last = (t.last \ G) \cup (IF rest = <<>> THEN {} ELSE {Last(rest)})
      /\ isParent = t.isParent \ (G \cup (IF rest = <<>> THEN {p} ELSE {}))
      /\ open = t.open \ (G \cup (IF rest = <<>> THEN {p} ELSE {}))
  <2>1. kids = [q \in Node \cup {Root} |->
                   IF q = p THEN rest ELSE IF q \in G THEN <<>> ELSE t.kids[q]]
    BY <1>3, <1>4 DEF Forgotten
  <2>. HIDE DEF kids
  <2>. QED  BY <1>4, <2>1 DEF Forgotten
<1>. HIDE DEF u, kids, first, last, isParent, open
<1>10. u \in Tree
  BY <1>6, <1>7, <1>8 DEF Tree
<1>11. /\ u.kids = kids /\ u.first = first /\ u.last = last /\ u.isParent = isParent /\ u.open = open
       /\ \A g \in Fields \ {"kids", "first", "last", "isParent", "open"} : u[g] = f[g]
  BY <1>6, <1>7 DEF Tree, Fields
<1>12. /\ u.li = t.li \ G /\ u.cached = t.cached \ G /\ u.ul = t.ul \ G /\ u.lined = t.lined \ G
       /\ u.selected = Only(t.selected, Node \ G) /\ u.setting = t.setting
       /\ u.checked = t.checked \ G /\ u.nocheck = t.nocheck \ G
       /\ u.disabled = t.disabled \ G /\ u.half = t.half \ G /\ u.radios = t.radios \ G
       /\ u.parent = [q \in Node |-> IF q \in G THEN Root ELSE t.parent[q]]
       /\ u.line = [q \in Node |-> IF q \in G THEN Nothing ELSE t.line[q]]
       /\ \A q \in Node \ G : u.state[q] = t.state[q] /\ u.box[q] = t.box[q]
  BY <1>4, <1>11 DEF Forgotten, Fields
<1>13. CutFields(t, p, G, rest, u)
  BY <1>9, <1>11, <1>12 DEF CutFields
<1>14. Cut(t, G, u) /\ Unlined(u) /\ \A E : Whole(t, E) => Whole(u, E)
  BY <1>2, <1>10, <1>13, CutIs
<1>15. rest = <<>> => u.lined = u.ul \ u.last
  BY <1>3, <1>9, <1>11, <1>12 DEF Pictured
<1>16. v \in Differ(u, {"line", "lined"}) /\ Sound(v)
  <2>1. CASE rest # <<>>
    <3>1. v = RepairLines(u, p)
      BY <2>1
    <3>. HIDE DEF v
    <3>. QED  BY <1>2, <1>10, <1>12, <1>13, <1>14, <2>1, <3>1, CutRepaired
  <2>2. CASE rest = <<>> /\ p # Root
    <3>1. v = ReplaceFolder(u, p)
      BY <2>2
    <3>. HIDE DEF v
    <3>. QED  BY <1>2, <1>10, <1>12, <1>13, <1>14, <1>15, <2>2, <3>1, CutRepaired
  <2>3. CASE rest = <<>> /\ p = Root
    <3>1. v = u
      BY <2>3
    <3>2. u \in Differ(u, {"line", "lined"})
      BY <1>10, DifferNot
    <3>3. Sound(u)
      BY <1>2, <1>10, <1>12, <1>13, <1>14, <1>15, <2>3, CutRepaired
    <3>. QED  BY <3>1, <3>2, <3>3
  <2>. QED  BY <2>1, <2>2, <2>3
<1>. HIDE DEF v
<1>17. Cut(t, G, v) /\ \A E : Whole(t, E) => Whole(v, E)
  <2>1. v \in Differ(u, {"line", "lined", "state", "box"})
    BY <1>10, <1>16, DifferMore
  <2>2. Cut(t, G, v)
    BY <1>14, <2>1, CutStays
  <2>3. v.kids = u.kids /\ v.li = u.li /\ v.ul = u.ul /\ v.open = u.open
    BY <1>16 DEF Differ, Fields
  <2>4. \A E : Whole(u, E) => Whole(v, E)
    BY <2>3 DEF Whole, Kids
  <2>. QED  BY <1>14, <2>2, <2>4
<1>21. Settled(t) => Settled(r)
  <2>. SUFFICES ASSUME Settled(t) PROVE Settled(r)
    OBVIOUS
  <2>1. SettledBut(u, Route(u, p)) /\ Agree(u)
    BY <1>2, <1>10, <1>12, <1>13, <1>14, CutSettles DEF Unlined
  <2>2. SettledBut(v, Route(u, p)) /\ Agree(v) /\ v.parent = u.parent
    <3>1. {"line", "lined"} \cap Boxing = {}
      BY DEF Boxing
    <3>2. SettledBut(v, Route(u, p))
      BY <1>16, <2>1, <3>1, SettledStays
    <3>3. Agree(v) /\ v.parent = u.parent
      BY <1>16 DEF Sound, Differ, Fields
    <3>. QED  BY <3>2, <3>3
  <2>3. CASE p = Root
    BY <2>2, <2>3 DEF r, Route, Settled
  <2>4. CASE p # Root
    <3>. DEFINE w == RepairChkClass(v, p)
    <3>1. p \in Node /\ Upward(u, p) = Upward(v, p)
      BY <1>3, <2>2, <2>4 DEF Upward, Above
    <3>2. SettledBut(v, Upward(v, p)) /\ v \in Tree
      BY <2>2, <2>4, <3>1 DEF Route, Agree
    <3>3. SettledBut(w, (Upward(v, p) \ {p}) \cup {v.parent[p]}) /\ Touched(v, w, {p})
      BY <2>2, <3>1, <3>2, RepairSettles, RepairTouches
    <3>. HIDE DEF w
    <3>4. Agree(w) /\ w.cached = v.cached /\ w.parent = v.parent /\ Root \notin w.cached
      <4>1. Agree(w) /\ w.cached = v.cached /\ w.parent = v.parent /\ w \in Tree
        BY <2>2, <3>3, TouchedFields
      <4>. QED  BY <4>1, TreeAssumption DEF Tree
    <3>5. Upward(v, p) = {p} \cup Range(Above(v, p)) /\ v.parent[p] \in Range(Above(v, p)) \cup {Root}
      <4>1. /\ Upward(v, p) = {p} \cup Range(Above(v, p))
            /\ ParentsOf(v, Upward(v, p)) \subseteq Range(Above(v, p)) \cup {Root}
        BY <2>2, <3>1, UpwardSplits
      <4>. QED  BY <4>1 DEF ParentsOf
    <3>6. Range(Above(w, p)) = Range(Above(v, p))
      BY <3>4 DEF Above
    <3>7. ((Upward(v, p) \ {p}) \cup {v.parent[p]}) \cap w.cached \subseteq {} \cup Range(Above(w, p))
      BY <3>4, <3>5, <3>6
    <3>8. SettledBut(w, {} \cup Range(Above(w, p)))
      BY <3>3, <3>7, SettledLess
    <3>9. SettledBut(RepairParentChkClass(w, p), {})
      BY <3>1, <3>4, <3>8, PathSettles
    <3>. QED  BY <2>4, <3>9 DEF r, w, Settled
  <2>. QED  BY <2>3, <2>4
<1>18. r \in Differ(v, Drawn)
  <2>1. v \in Tree /\ Agree(v)
    BY <1>16 DEF Sound, Agree
  <2>2. CASE p = Root
    BY <2>1, <2>2, DifferNot
  <2>3. CASE p # Root
    <3>. DEFINE w == RepairChkClass(v, p)
    <3>1. p \in Node /\ w \in Differ(v, Drawn)
      BY <1>3, <2>1, <2>3, RepairDiffers
    <3>. HIDE DEF w
    <3>2. Agree(w)
      BY <2>1, <3>1, AgreeStays DEF Drawn, Family3
    <3>3. RepairParentChkClass(w, p) \in Differ(w, Drawn)
      BY <3>1, <3>2, RepairParentDiffers DEF Agree
    <3>4. RepairParentChkClass(w, p) \in Differ(v, Drawn)
      BY <2>1, <3>1, <3>3, DifferChain
    <3>. QED  BY <2>3, <3>4 DEF w
  <2>. QED  BY <2>2, <2>3
<1>. HIDE DEF r
<1>19. Sound(r) /\ \A E : Whole(v, E) => Whole(r, E)
  <2>1. r \in Differ(v, BoxFields)
    BY <1>16, <1>18, DifferMore DEF Drawn, BoxFields, Sound, Agree
  <2>. QED  BY <1>16, <2>1, BoxesApart
<1>20. Cut(t, G, r)
  <2>1. r \in Differ(v, {"line", "lined", "state", "box"})
    BY <1>16, <1>18, DifferMore DEF Drawn, Sound, Agree
  <2>. QED  BY <1>17, <2>1, CutStays
<1>. QED  BY <1>1, <1>17, <1>19, <1>20, <1>21 DEF G

LEMMA RemoveChildNodesIs ==
  ASSUME NEW t, Sound(t), NEW n \in t.cached
  PROVE  LET r == RemoveChildNodes(t, n) IN
         /\ Sound(r) /\ Cut(t, Under(t, n), r)
         /\ \A E : Whole(t, E) => Whole(r, E)
<1>. DEFINE G == Under(t, n)
            f == Forget(t, G)
            kids == [f.kids EXCEPT ![n] = <<>>]
            u == [f EXCEPT !.kids[n] = <<>>, !.isParent = @ \ {n}, !.open = @ \ {n},
                           !.ul = @ \ {n}, !.lined = @ \ {n}]
            r == ReplaceFolder(u, n)
<1>1. RemoveChildNodes(t, n) = r
  BY DEF RemoveChildNodes
<1>2. Cuts(t, n, G, <<>>)
  BY SonsCut
<1>. HIDE DEF G
<1>3. /\ t \in Tree /\ n \in Node /\ n \notin G /\ G \in SUBSET Node /\ <<>> \in Seq(Node)
      /\ Pictured(t) /\ n # Root
  BY <1>2, TreeAssumption DEF Cuts, Sound, Agree, Tree
<1>4. Forgotten(t, G, f)
  BY <1>3, ForgetIs
<1>. HIDE DEF f
<1>5. f \in Tree
  BY <1>4 DEF Forgotten
<1>6. /\ kids \in [Node \cup {Root} -> Seq(Node)]
      /\ kids = [q \in Node \cup {Root} |->
                   IF q = n THEN <<>> ELSE IF q \in G THEN <<>> ELSE t.kids[q]]
  BY <1>3, <1>4, <1>5 DEF Tree, Forgotten
<1>7. u = [f EXCEPT !.kids = kids, !.isParent = @ \ {n}, !.open = @ \ {n},
                    !.ul = @ \ {n}, !.lined = @ \ {n}]
  OBVIOUS
<1>. HIDE DEF u, kids
<1>8. u \in Tree
  BY <1>5, <1>6, <1>7 DEF Tree
<1>9. /\ u.kids = kids /\ u.isParent = f.isParent \ {n} /\ u.open = f.open \ {n}
      /\ u.ul = f.ul \ {n} /\ u.lined = f.lined \ {n}
      /\ \A g \in Fields \ {"kids", "isParent", "open", "ul", "lined"} : u[g] = f[g]
  BY <1>5, <1>7 DEF Tree, Fields
<1>10. /\ u.li = t.li \ G /\ u.cached = t.cached \ G
       /\ u.selected = Only(t.selected, Node \ G) /\ u.setting = t.setting
       /\ u.checked = t.checked \ G /\ u.nocheck = t.nocheck \ G
       /\ u.disabled = t.disabled \ G /\ u.half = t.half \ G /\ u.radios = t.radios \ G
       /\ u.parent = [q \in Node |-> IF q \in G THEN Root ELSE t.parent[q]]
       /\ u.line = [q \in Node |-> IF q \in G THEN Nothing ELSE t.line[q]]
       /\ u.first = t.first \ G /\ u.last = t.last \ G
       /\ u.isParent = t.isParent \ (G \cup {n}) /\ u.open = t.open \ (G \cup {n})
       /\ u.ul = (t.ul \ G) \ {n} /\ u.lined = (t.lined \ G) \ {n}
  BY <1>4, <1>9 DEF Forgotten, Fields
<1>11. CutFields(t, n, G, <<>>, u)
  BY <1>6, <1>9, <1>10 DEF CutFields
<1>12. Cut(t, G, u) /\ Unlined(u) /\ \A E : Whole(t, E) => Whole(u, E)
  BY <1>2, <1>8, <1>11, CutIs
<1>13. u.lined = u.ul \ u.last
  BY <1>3, <1>10 DEF Pictured
<1>14. r \in Differ(u, {"line", "lined"}) /\ Sound(r)
  BY <1>2, <1>3, <1>8, <1>10, <1>11, <1>12, <1>13, CutRepaired
<1>. HIDE DEF r
<1>15. Cut(t, G, r)
  <2>1. r \in Differ(u, {"line", "lined", "state", "box"})
    BY <1>8, <1>14, DifferMore
  <2>. QED  BY <1>12, <2>1, CutStays
<1>16. \A E : Whole(u, E) => Whole(r, E)
  <2>1. r.kids = u.kids /\ r.li = u.li /\ r.ul = u.ul /\ r.open = u.open
    BY <1>14 DEF Differ, Fields
  <2>. QED  BY <2>1 DEF Whole, Kids
<1>. QED  BY <1>1, <1>12, <1>14, <1>15, <1>16 DEF G

-----------------------------------------------------------------------------
(* What a step does to the tree: one of the following.                     *)

\* Something is opened, closed, selected or released, or nothing happens.
Looked(t, u) ==
  u \in Differ(t, View \cup {"selected"}) /\ Sound(u) /\ \A E : Whole(t, E) => Whole(u, E)

\* A box is checked or unchecked, with those that follow, or alone.
Ticked(t, u) == /\ t.setting.style = "checkbox"
                /\ \E n \in t.cached \ Fixed(t), v \in BOOLEAN : \E D, U : Spread(t, n, v, D, U, u)
Alone(t, u) == /\ t.setting.style = "checkbox" /\ "checkAlone" \in Script
               /\ u \in Differ(t, Checks)
               /\ \E n \in t.cached \ Fixed(t), v \in BOOLEAN : u.checked = Marked(t.checked, {n}, v)
AllTicked(t, u) == /\ t.setting.style = "checkbox" /\ u \in Differ(t, Checks)
                   /\ \E v \in BOOLEAN : u.checked = Marked(t.checked, t.cached \ Fixed(t), v)

\* A radio button is checked or unchecked.
Picked(t, u) ==
  t.setting.style = "radio" /\ \E n \in t.cached, v \in BOOLEAN : Chosen(t, n, v, u)

\* Boxes are disabled or enabled.
Locked(t, u) == "setChkDisabled" \in Script /\ u \in Differ(t, Locks)

\* A node joins the tree, nodes leave it, it is made anew.
Grows(t, u) ==
  /\ {"addNodes", "addSilent"} \cap Script # {}
  /\ Sound(u)
  /\ "insertSilent" \notin Script /\ Whole(t, {}) => Whole(u, {})
  /\ \E p, index, x, v :
       /\ p \in t.cached \cup {Root} /\ x \in Node \ t.cached /\ v \in BOOLEAN
       /\ v => "addChecked" \in Script
       /\ index \in Int /\ index < Len(t.kids[p]) /\ Added(t, p, index, x, u)
       /\ u.setting = t.setting /\ u.checked = Assign(t.checked, x, v)
       /\ u.nocheck = t.nocheck /\ u.disabled = t.disabled /\ t.radios \subseteq u.radios
Shrinks(t, u) ==
  /\ Sound(u) /\ \A E : Whole(t, E) => Whole(u, E)
  /\ \E n \in t.cached : \/ "removeNode" \in Script /\ Cut(t, Under(t, n) \cup {n}, u)
                         \/ Cut(t, Under(t, n), u)
Renewed(t, u) ==
  /\ Sound(u) /\ Whole(u, {}) /\ Boxed(t, u)
  /\ u.cached = t.cached /\ u.parent = t.parent /\ u.kids = t.kids
  /\ u.radios = IF RadioAll(t) THEN t.cached \cap t.checked ELSE {}

Changed(t, u) == \/ Looked(t, u) \/ Ticked(t, u) \/ Alone(t, u) \/ AllTicked(t, u) \/ Picked(t, u)
                 \/ Locked(t, u) \/ Grows(t, u) \/ Shrinks(t, u) \/ Renewed(t, u)

-----------------------------------------------------------------------------
(* The invariant.                                                          *)

IInv == /\ page \in Pages /\ Sound(tree)
        /\ tree.setting = page.setting /\ tree.checked \subseteq tree.cached
        /\ "insertSilent" \notin Script => Whole(tree, {})

LEMMA NodesAre ==
  ASSUME NEW t, Sound(t)
  PROVE  InTree(t) = t.cached /\ t.cached \subseteq Node /\ t \in Tree /\ Agree(t)
<1>1. Agree(t)
  BY DEF Sound
<1>2. t \in Tree
  BY <1>1 DEF Agree
<1>3. t.cached \subseteq Node
  BY <1>2 DEF Tree
<1>. QED  BY <1>1, <1>2, <1>3, AllUnderRoot DEF InTree

\* The data of a page are those of a forest.
LEMMA GivenData ==
  ASSUME NEW data, WellFormed(data)
  PROVE  \E K, up : Data(data, K, up)
<1>. DEFINE K == UNION {Range(data.kids[p]) : p \in Node \cup {Root}}
            kids == data["kids"]
            N == Cardinality(Node)
<1>1. /\ "kids" \in DOMAIN data /\ DOMAIN data \subseteq DataFlags \cup {"kids"}
      /\ \A f \in DOMAIN data \ {"kids"} : data[f] \subseteq K
      /\ kids \in [Node \cup {Root} -> Seq(Node)]
      /\ \A p \in Node \cup {Root} : IsInjective(kids[p])
  BY DEF WellFormed, DataFlags
<1>2. PICK up \in [Node -> Node \cup {Root}] :
        /\ \A p \in Node \cup {Root} : Range(kids[p]) = {n \in K : up[n] = p}
        /\ \A n \in Node : up[n] \in (IF n \in K THEN K ELSE {}) \cup {Root}
        /\ \E depth \in [Node -> 0 .. N] : \A n \in Node : up[n] # Root => depth[up[n]] < depth[n]
  BY DEF WellFormed
<1>3. K \in SUBSET Node
  <2>1. \A p \in Node \cup {Root} : Range(kids[p]) \subseteq Node
    BY <1>1 DEF Range
  <2>. QED  BY <2>1
<1>4. N \in Nat
  BY TreeAssumption, FS_CardinalityType
<1>. HIDE DEF K, kids, N
<1>5. \A q \in K : up[q] \in K \cup {Root}
  BY <1>2, <1>3
<1>6. \A q \in Node \ K : up[q] = Root
  BY <1>2
<1>7. Forest(kids, K, up)
  BY <1>1, <1>2, <1>3, <1>4, <1>5, <1>6 DEF Forest
<1>. QED  BY <1>1, <1>7 DEF Data, kids

LEMMA InitIs ==
  Init => IInv /\ tree = Given /\ (RadioAll(tree) => tree.checked \subseteq tree.radios)
<1>. SUFFICES ASSUME Init
              PROVE  IInv /\ tree = Given /\ (RadioAll(tree) => tree.checked \subseteq tree.radios)
  OBVIOUS
<1>. DEFINE s == page.setting
            data == page.data
            t == InitTree(s, data)
<1>1. page \in Pages /\ tree = t
  BY DEF Init
<1>2. s \in Setting /\ WellFormed(data)
  BY <1>1, PagesAssumption
<1>. HIDE DEF s, data
<1>3. PICK K, up : Data(data, K, up)
  BY <1>2, GivenData
<1>4. Sound(t) /\ Whole(t, {}) /\ t.cached = K /\ t.setting = s /\ t.checked = Said(data, "checked")
  BY <1>2, <1>3, InitTreeIs
<1>5. Said(data, "checked") \subseteq K
  BY <1>3 DEF Data, Said
<1>6. t.radios = IF RadioAll(t) THEN t.checked ELSE {}
  BY <1>2, <1>3, InitTreeIs
<1>. HIDE DEF t
<1>7. IInv
  BY <1>1, <1>4, <1>5 DEF IInv, s
<1>. QED  BY <1>1, <1>6, <1>7 DEF Given, t, s, data


-----------------------------------------------------------------------------
(* Every click and every call does one of these.                           *)

LEMMA LookedNot ==
  ASSUME NEW t, Sound(t)
  PROVE  Looked(t, t)
BY DifferNot, NodesAre DEF Looked

LEMMA RedrawnLooked ==
  ASSUME NEW t, Sound(t), NEW u \in Redrawn(t)
  PROVE  Looked(t, u)
<1>1. u \in Differ(t, View) /\ Sound(u) /\ \A E : Whole(t, E) => Whole(u, E)
  BY DEF Redrawn
<1>2. u \in Differ(t, View \cup {"selected"})
  BY <1>1 DEF Differ
<1>. QED  BY <1>1, <1>2 DEF Looked

LEMMA SelectedLooked ==
  ASSUME NEW t, Sound(t), NEW u \in Differ(t, {"selected"}), Sound(u), \A E : Whole(t, E) => Whole(u, E)
  PROVE  Looked(t, u)
<1>1. u \in Differ(t, View \cup {"selected"})
  BY DEF Differ
<1>. QED  BY <1>1 DEF Looked

LEMMA ClicksChange ==
  ASSUME IInv, NEW n \in InTree(tree)
  PROVE  /\ \A ctrl \in BOOLEAN : ClickName(n, ctrl) => Changed(tree, tree') /\ page' = page
         /\ ClickSwitch(n) => Changed(tree, tree') /\ page' = page
         /\ ClickBox(n) => Changed(tree, tree') /\ page' = page
<1>1. Sound(tree) /\ n \in tree.cached /\ n \in Node /\ Agree(tree) /\ tree \in Tree
  BY NodesAre DEF IInv
<1>2. ASSUME NEW ctrl \in BOOLEAN, ClickName(n, ctrl) PROVE Changed(tree, tree') /\ page' = page
  <2>1. tree' = ClickNode(tree, n, ctrl) /\ page' = page
    BY <1>2 DEF ClickName, Step
  <2>2. /\ tree' \in Differ(tree, {"selected"}) /\ Sound(tree')
        /\ \A E : Whole(tree, E) => Whole(tree', E)
    BY <1>1, <2>1, SelectSound
  <2>3. Looked(tree, tree')
    BY <1>1, <2>2, SelectedLooked
  <2>. QED  BY <2>1, <2>3 DEF Changed
<1>3. ASSUME ClickSwitch(n) PROVE Changed(tree, tree') /\ page' = page
  <2>1. tree' = SwitchNode(tree, n) /\ page' = page
    BY <1>3 DEF ClickSwitch, Step
  <2>2. SwitchNode(tree, n) \in Redrawn(tree)
    BY <1>1, OpeningsRedraw
  <2>3. Looked(tree, tree')
    BY <1>1, <2>1, <2>2, RedrawnLooked
  <2>. QED  BY <2>1, <2>3 DEF Changed
<1>4. ASSUME ClickBox(n) PROVE Changed(tree, tree') /\ page' = page
  <2>1. tree' = ToggleCheck(tree, n) /\ page' = page /\ n \notin Fixed(tree)
    BY <1>4 DEF ClickBox, Step
  <2>. DEFINE v == n \notin tree.checked
  <2>2. v \in BOOLEAN
    OBVIOUS
  <2>3. CASE tree.setting.style = "checkbox"
    <3>1. PICK D, U : Spread(tree, n, v, D, U, ToggleCheck(tree, n))
      BY <1>1, <2>1, <2>3, ClickSpreads
    <3>. HIDE DEF v
    <3>2. Spread(tree, n, v, D, U, tree')
      BY <2>1, <3>1
    <3>3. Ticked(tree, tree')
      BY <1>1, <2>1, <2>2, <2>3, <3>2 DEF Ticked
    <3>. QED  BY <2>1, <3>3 DEF Changed
  <2>4. CASE tree.setting.style = "radio"
    <3>1. Chosen(tree, n, v, ToggleCheck(tree, n))
      BY <1>1, <2>4, RadioChooses
    <3>. HIDE DEF v
    <3>2. Picked(tree, tree')
      BY <1>1, <2>1, <2>2, <2>4, <3>1 DEF Picked
    <3>. QED  BY <2>1, <3>2 DEF Changed
  <2>5. tree.setting.style \in {"checkbox", "radio"}
    BY <1>1 DEF Tree, Setting
  <2>. QED  BY <2>3, <2>4, <2>5
<1>. QED  BY <1>2, <1>3, <1>4

LEMMA ViewsChange ==
  ASSUME IInv
  PROVE  /\ \A v \in BOOLEAN : CallExpandAll(v) => Changed(tree, tree') /\ page' = page
         /\ CallRefresh => Changed(tree, tree') /\ page' = page
         /\ \A n \in InTree(tree), v, w \in BOOLEAN :
              \/ CallExpandNode(n, v, w) \/ CallSelectNode(n, v) \/ CallCancelSelectedNode(n)
              => Changed(tree, tree') /\ page' = page
<1>1. Sound(tree) /\ InTree(tree) \subseteq tree.cached /\ InTree(tree) \subseteq Node
  BY NodesAre DEF IInv
<1>2. Agree(tree) /\ tree \in Tree
  BY NodesAre DEF IInv
<1>3. ASSUME NEW v \in BOOLEAN, CallExpandAll(v) PROVE Changed(tree, tree') /\ page' = page
  <2>1. tree' = ExpandAll(tree, v) /\ page' = page
    BY <1>3 DEF CallExpandAll, Step
  <2>2. Below(tree, Root) \in Seq(Node)
    BY <1>2, AgreeEnds, BelowIs
  <2>3. ExpandCollapseAll(tree, Below(tree, Root), v) \in Redrawn(tree)
    BY <1>1, <2>2, ExpandAllRedraws
  <2>4. Looked(tree, tree')
    BY <1>1, <2>1, <2>3, RedrawnLooked DEF ExpandAll
  <2>. QED  BY <2>1, <2>4 DEF Changed
<1>4. ASSUME CallRefresh PROVE Changed(tree, tree') /\ page' = page
  <2>. DEFINE r == Refresh(tree)
  <2>1. tree' = r /\ page' = page
    BY <1>4 DEF CallRefresh, Step
  <2>2. /\ Sound(r) /\ Whole(r, {}) /\ r.cached = tree.cached /\ r.parent = tree.parent
        /\ r.kids = tree.kids /\ Boxed(tree, r)
        /\ r.radios = IF RadioAll(tree) THEN tree.cached \cap tree.checked ELSE {}
    BY <1>1, RefreshIs
  <2>. HIDE DEF r
  <2>3. Renewed(tree, tree')
    BY <2>1, <2>2 DEF Renewed
  <2>. QED  BY <2>1, <2>3 DEF Changed
<1>5. ASSUME NEW n \in InTree(tree), NEW v \in BOOLEAN, NEW w \in BOOLEAN, CallExpandNode(n, v, w)
      PROVE  Changed(tree, tree') /\ page' = page
  <2>1. tree' = ExpandNode(tree, n, v, w) /\ page' = page /\ n \in Node
    BY <1>1, <1>5 DEF CallExpandNode, Step
  <2>2. ExpandNode(tree, n, v, w) \in Redrawn(tree)
    BY <1>1, <2>1, OpeningsRedraw
  <2>3. Looked(tree, tree')
    BY <1>1, <2>1, <2>2, RedrawnLooked
  <2>. QED  BY <2>1, <2>3 DEF Changed
<1>6. ASSUME NEW n \in InTree(tree), NEW v \in BOOLEAN, CallSelectNode(n, v)
      PROVE  Changed(tree, tree') /\ page' = page
  <2>. DEFINE r == SelectNode(tree, n, v)
  <2>1. tree' = r /\ page' = page
    BY <1>6 DEF CallSelectNode, Step
  <2>2. /\ r \in Differ(tree, View \cup {"selected"}) /\ Sound(r)
        /\ \A E : Whole(tree, E) => Whole(r, E)
    BY <1>1, SelectNodeSound
  <2>. HIDE DEF r
  <2>3. Looked(tree, tree')
    BY <2>1, <2>2 DEF Looked
  <2>. QED  BY <2>1, <2>3 DEF Changed
<1>7. ASSUME NEW n \in InTree(tree), CallCancelSelectedNode(n)
      PROVE  Changed(tree, tree') /\ page' = page
  <2>1. tree' = CancelSelected(tree, n) /\ page' = page
    BY <1>7 DEF CallCancelSelectedNode, Step
  <2>2. TRUE \in BOOLEAN /\ n \in tree.cached
    BY <1>1
  <2>3. /\ tree' \in Differ(tree, {"selected"}) /\ Sound(tree')
        /\ \A E : Whole(tree, E) => Whole(tree', E)
    BY <1>1, <2>1, <2>2, SelectSound
  <2>4. Looked(tree, tree')
    BY <1>1, <2>3, SelectedLooked
  <2>. QED  BY <2>1, <2>4 DEF Changed
<1>. QED  BY <1>3, <1>4, <1>5, <1>6, <1>7

LEMMA ChecksChange ==
  ASSUME IInv
  PROVE  /\ \A n \in InTree(tree), v, w \in BOOLEAN :
              CallCheckNode(n, v, w) => Changed(tree, tree') /\ page' = page
         /\ \A v \in BOOLEAN : CallCheckAllNodes(v) => Changed(tree, tree') /\ page' = page
         /\ \A n \in InTree(tree), v, p, s \in BOOLEAN :
              CallSetChkDisabled(n, v, p, s) => Changed(tree, tree') /\ page' = page
<1>1. /\ Sound(tree) /\ InTree(tree) \subseteq tree.cached /\ InTree(tree) \subseteq Node
      /\ Agree(tree) /\ tree \in Tree
  BY NodesAre DEF IInv
<1>2. Changed(tree, tree)
  BY <1>1, LookedNot DEF Changed
<1>3. ASSUME NEW n \in InTree(tree), NEW v \in BOOLEAN, NEW w \in BOOLEAN, CallCheckNode(n, v, w)
      PROVE  Changed(tree, tree') /\ page' = page
  <2>. DEFINE r == CheckNode(tree, n, v, w)
  <2>1. tree' = r /\ page' = page /\ (w \/ "checkAlone" \in Script)
    BY <1>3 DEF CallCheckNode, Step
  <2>2. n \in Node /\ n \in tree.cached
    BY <1>1
  <2>3. CASE r = tree
    BY <1>2, <2>1, <2>3
  <2>4. CASE r # tree /\ tree.setting.style = "radio"
    <3>1. n \notin Fixed(tree) /\ Chosen(tree, n, v, r)
      BY <1>1, <2>2, <2>4, RadioChooses
    <3>. HIDE DEF r
    <3>2. Picked(tree, tree')
      BY <2>1, <2>2, <2>4, <3>1 DEF Picked
    <3>. QED  BY <2>1, <3>2 DEF Changed
  <2>5. CASE r # tree /\ tree.setting.style = "checkbox"
    <3>1. /\ n \notin Fixed(tree)
          /\ w => \E D, U : Spread(tree, n, v, D, U, r)
          /\ ~w => r \in Differ(tree, Checks) /\ r.checked = Marked(tree.checked, {n}, v)
      BY <1>1, <2>2, <2>5, CheckNodeSpreads
    <3>. HIDE DEF r
    <3>2. CASE w
      <4>1. Ticked(tree, tree')
        BY <2>1, <2>2, <2>5, <3>1, <3>2 DEF Ticked
      <4>. QED  BY <2>1, <4>1 DEF Changed
    <3>3. CASE ~w
      <4>1. Alone(tree, tree')
        BY <2>1, <2>2, <2>5, <3>1, <3>3 DEF Alone
      <4>. QED  BY <2>1, <4>1 DEF Changed
    <3>. QED  BY <3>2, <3>3
  <2>6. tree.setting.style \in {"checkbox", "radio"}
    BY <1>1 DEF Tree, Setting
  <2>. QED  BY <2>3, <2>4, <2>5, <2>6
<1>4. ASSUME NEW v \in BOOLEAN, CallCheckAllNodes(v) PROVE Changed(tree, tree') /\ page' = page
  <2>. DEFINE r == CheckAllNodes(tree, v)
  <2>1. tree' = r /\ page' = page
    BY <1>4 DEF CallCheckAllNodes, Step
  <2>2. CASE r = tree
    BY <1>2, <2>1, <2>2
  <2>3. CASE r # tree
    <3>1. /\ tree.setting.style = "checkbox" /\ r \in Differ(tree, Checks)
          /\ r.checked = Marked(tree.checked, tree.cached \ Fixed(tree), v)
      BY <1>1, <2>3, AllFollow
    <3>. HIDE DEF r
    <3>2. AllTicked(tree, tree')
      BY <2>1, <3>1 DEF AllTicked
    <3>. QED  BY <2>1, <3>2 DEF Changed
  <2>. QED  BY <2>2, <2>3
<1>5. ASSUME NEW n \in InTree(tree), NEW v \in BOOLEAN, NEW p \in BOOLEAN, NEW s \in BOOLEAN,
             CallSetChkDisabled(n, v, p, s)
      PROVE  Changed(tree, tree') /\ page' = page
  <2>1. /\ tree' = SetChkDisabled(tree, n, v, p, s) /\ page' = page /\ n \in Node
        /\ "setChkDisabled" \in Script
    BY <1>1, <1>5 DEF CallSetChkDisabled, Step
  <2>2. SetChkDisabled(tree, n, v, p, s) \in Differ(tree, Locks)
    BY <1>1, <2>1, DisablingLocks
  <2>3. Locked(tree, tree')
    BY <2>1, <2>2 DEF Locked
  <2>. QED  BY <2>1, <2>3 DEF Changed
<1>. QED  BY <1>3, <1>4, <1>5

LEMMA NodesChange ==
  ASSUME IInv
  PROVE  /\ \A n \in InTree(tree) : CallRemoveNode(n) \/ CallRemoveChildNodes(n)
              => Changed(tree, tree') /\ page' = page
         /\ \A p \in InTree(tree) \cup {Root}, index \in -1 .. Cardinality(Node), silent, v \in BOOLEAN :
              CallAddNodes(p, index, silent, v) => Changed(tree, tree') /\ page' = page
<1>1. /\ Sound(tree) /\ InTree(tree) = tree.cached /\ tree.cached \subseteq Node
      /\ Agree(tree) /\ tree \in Tree
  BY NodesAre DEF IInv
<1>2. ASSUME NEW n \in InTree(tree), CallRemoveNode(n) PROVE Changed(tree, tree') /\ page' = page
  <2>. DEFINE r == RemoveNode(tree, n)
  <2>1. tree' = r /\ page' = page /\ "removeNode" \in Script
    BY <1>2 DEF CallRemoveNode, Step
  <2>2. Sound(r) /\ Cut(tree, Under(tree, n) \cup {n}, r) /\ \A E : Whole(tree, E) => Whole(r, E)
    BY <1>1, RemoveNodeIs
  <2>. HIDE DEF r
  <2>3. Shrinks(tree, tree')
    BY <1>1, <2>1, <2>2 DEF Shrinks
  <2>. QED  BY <2>1, <2>3 DEF Changed
<1>3. ASSUME NEW n \in InTree(tree), CallRemoveChildNodes(n)
      PROVE  Changed(tree, tree') /\ page' = page
  <2>. DEFINE r == RemoveChildNodes(tree, n)
  <2>1. tree' = r /\ page' = page
    BY <1>3 DEF CallRemoveChildNodes, Step
  <2>2. Sound(r) /\ Cut(tree, Under(tree, n), r) /\ \A E : Whole(tree, E) => Whole(r, E)
    BY <1>1, RemoveChildNodesIs
  <2>. HIDE DEF r
  <2>3. Shrinks(tree, tree')
    BY <1>1, <2>1, <2>2 DEF Shrinks
  <2>. QED  BY <2>1, <2>3 DEF Changed
<1>4. ASSUME NEW p \in InTree(tree) \cup {Root}, NEW index \in -1 .. Cardinality(Node),
             NEW silent \in BOOLEAN, NEW v \in BOOLEAN, CallAddNodes(p, index, silent, v)
      PROVE  Changed(tree, tree') /\ page' = page
  <2>. DEFINE x == Spare
              t == [tree EXCEPT !.checked = Assign(@, x, v)]
              r == AddNodes(t, p, index, <<x>>, silent)
  <2>1. /\ tree' = r /\ page' = page /\ Unused # {} /\ index < Len(tree.kids[p])
        /\ {"addNodes", "addSilent"} \cap Script # {}
        /\ silent /\ index = 0 => "insertSilent" \in Script
        /\ v => "addChecked" \in Script
    BY <1>4 DEF CallAddNodes, Step
  <2>2. x \in Node \ tree.cached /\ index \in Int
    BY <1>1, <2>1 DEF Spare, Unused
  <2>. HIDE DEF x
  <2>3. t \in Differ(tree, {"checked"}) /\ t.checked = Assign(tree.checked, x, v)
    BY <1>1, <2>2 DEF Tree, Differ, Fields, Assign
  <2>. HIDE DEF t
  <2>4. /\ t.cached = tree.cached /\ t.kids = tree.kids /\ t.parent = tree.parent
        /\ t.setting = tree.setting /\ t.nocheck = tree.nocheck /\ t.disabled = tree.disabled
        /\ t.radios = tree.radios
    BY <2>3 DEF Differ, Fields
  <2>5. t \in Differ(tree, BoxFields)
    BY <2>3 DEF Differ, BoxFields
  <2>6. Sound(t) /\ \A E : Whole(tree, E) => Whole(t, E)
    BY <1>1, <2>5, BoxesApart
  <2>7. Adds(t, p, index, x)
    BY <1>1, <2>1, <2>2, <2>4, <2>6 DEF Adds
  <2>8. /\ Sound(r) /\ Added(t, p, index, x, r) /\ Boxed(t, r)
        /\ r.radios = t.radios \cup (IF RadioAll(t) THEN {x} \cap t.checked ELSE {})
        /\ Whole(t, {}) /\ ~(silent /\ index = 0) => Whole(r, {})
    BY <2>7, AddNodesIs
  <2>. HIDE DEF r
  <2>9. /\ Added(tree, p, index, x, r) /\ r.setting = tree.setting
        /\ r.checked = Assign(tree.checked, x, v)
        /\ r.nocheck = tree.nocheck /\ r.disabled = tree.disabled /\ tree.radios \subseteq r.radios
    BY <2>3, <2>4, <2>8 DEF Added, Boxed
  <2>10. "insertSilent" \notin Script /\ Whole(tree, {}) => Whole(r, {})
    BY <2>1, <2>6, <2>8
  <2>11. Grows(tree, r)
    BY <1>1, <2>1, <2>2, <2>8, <2>9, <2>10 DEF Grows
  <2>. QED  BY <2>1, <2>11 DEF Changed
<1>. QED  BY <1>2, <1>3, <1>4

THEOREM NextChanges == IInv /\ [Next]_vars => Changed(tree, tree') /\ page' = page
<1>. SUFFICES ASSUME IInv, [Next]_vars PROVE Changed(tree, tree') /\ page' = page
  OBVIOUS
<1>1. CASE UNCHANGED vars
  <2>1. tree' = tree /\ page' = page
    BY <1>1 DEF vars
  <2>2. Looked(tree, tree)
    BY LookedNot DEF IInv
  <2>. QED  BY <2>1, <2>2 DEF Changed
<1>2. CASE Next
  BY <1>2, ClicksChange, ViewsChange, ChecksChange, NodesChange DEF Next
<1>. QED  BY <1>1, <1>2


-----------------------------------------------------------------------------
(* The invariant is kept.                                                  *)

\* What follows a box is in the tree.
LEMMA SpreadInTree ==
  ASSUME NEW t, Agree(t), NEW n \in t.cached, NEW v, NEW D, NEW U, NEW r, Spread(t, n, v, D, U, r)
  PROVE  n \in D \cup U /\ D \cup U \subseteq t.cached
<1>1. Downward(t, n) \subseteq t.cached
  BY BelowHasAbove
<1>2. Upward(t, n) \subseteq t.cached
  BY AboveHasBelow
<1>3. D \subseteq t.cached /\ n \in U /\ U \subseteq t.cached
  BY <1>1, <1>2 DEF Spread
<1>. QED  BY <1>3

\* What every step keeps of the invariant.
Keeps(t, u) == /\ Sound(u) /\ u.setting = t.setting /\ u.checked \subseteq u.cached
               /\ "insertSilent" \notin Script /\ Whole(t, {}) => Whole(u, {})

LEMMA BoxesKeep ==
  ASSUME NEW t, Sound(t), NEW u \in Differ(t, BoxFields), u.checked \subseteq t.cached
  PROVE  Keeps(t, u)
<1>1. Sound(u) /\ \A E : Whole(t, E) => Whole(u, E)
  BY BoxesApart
<1>2. u.setting = t.setting /\ u.cached = t.cached
  BY DEF Differ, Fields, BoxFields
<1>. QED  BY <1>1, <1>2 DEF Keeps

LEMMA ChangeKeeps ==
  ASSUME NEW t, Sound(t), t.checked \subseteq t.cached, NEW u, Changed(t, u)
  PROVE  Keeps(t, u)
<1>1. Agree(t) /\ t \in Tree
  BY NodesAre
<1>2. CASE Looked(t, u)
  <2>1. u.setting = t.setting /\ u.checked = t.checked /\ u.cached = t.cached
    BY <1>2 DEF Looked, Differ, Fields, View
  <2>. QED  BY <1>2, <2>1 DEF Looked, Keeps
<1>3. CASE Ticked(t, u)
  <2>0. PICK n \in t.cached, v \in BOOLEAN : \E D, U : Spread(t, n, v, D, U, u)
    BY <1>3 DEF Ticked
  <2>1. PICK D, U : Spread(t, n, v, D, U, u)
    BY <2>0
  <2>2. D \cup U \subseteq t.cached
    BY <1>1, <2>0, <2>1, SpreadInTree
  <2>3. u \in Differ(t, Checks) /\ u.checked \subseteq t.cached
    BY <2>1, <2>2 DEF Spread, Marked
  <2>4. u \in Differ(t, BoxFields)
    BY <1>1, <2>3, DifferMore DEF Checks, BoxFields
  <2>. QED  BY <2>3, <2>4, BoxesKeep
<1>4. CASE Alone(t, u) \/ AllTicked(t, u)
  <2>1. u \in Differ(t, Checks) /\ u.checked \subseteq t.cached
    BY <1>4 DEF Alone, AllTicked, Marked
  <2>2. u \in Differ(t, BoxFields)
    BY <1>1, <2>1, DifferMore DEF Checks, BoxFields
  <2>. QED  BY <2>1, <2>2, BoxesKeep
<1>5. CASE Picked(t, u)
  <2>1. u \in Differ(t, Radioed) /\ u.checked \subseteq t.cached
    BY <1>5 DEF Picked, Chosen
  <2>2. u \in Differ(t, BoxFields)
    BY <1>1, <2>1, DifferMore DEF Radioed, Checks, BoxFields
  <2>. QED  BY <2>1, <2>2, BoxesKeep
<1>6. CASE Locked(t, u)
  <2>1. u \in Differ(t, Locks)
    BY <1>6 DEF Locked
  <2>2. u \in Differ(t, BoxFields) /\ u.checked = t.checked
    BY <1>1, <2>1, DifferMore DEF Locks, BoxFields, Differ, Fields
  <2>. QED  BY <2>2, BoxesKeep
<1>7. CASE Grows(t, u)
  <2>1. PICK x, v, p, index : /\ x \in Node \ t.cached /\ v \in BOOLEAN
                             /\ Added(t, p, index, x, u) /\ u.setting = t.setting
                             /\ u.checked = Assign(t.checked, x, v)
    BY <1>7 DEF Grows
  <2>2. u.checked \subseteq u.cached /\ u.setting = t.setting
    BY <2>1 DEF Added, Assign
  <2>. QED  BY <1>7, <2>2 DEF Grows, Keeps
<1>8. CASE Shrinks(t, u)
  <2>1. PICK G : Cut(t, G, u)
    BY <1>8 DEF Shrinks
  <2>2. u.checked \subseteq u.cached /\ u.setting = t.setting
    BY <2>1 DEF Cut
  <2>. QED  BY <1>8, <2>2 DEF Shrinks, Keeps
<1>9. CASE Renewed(t, u)
  BY <1>9 DEF Renewed, Boxed, Keeps
<1>. QED  BY <1>2, <1>3, <1>4, <1>5, <1>6, <1>7, <1>8, <1>9 DEF Changed

LEMMA NextKeeps == IInv /\ [Next]_vars => IInv'
<1>. SUFFICES ASSUME IInv, [Next]_vars PROVE IInv'
  OBVIOUS
<1>1. Changed(tree, tree') /\ page' = page
  BY NextChanges
<1>2. Keeps(tree, tree')
  BY <1>1, ChangeKeeps DEF IInv
<1>. QED  BY <1>1, <1>2 DEF IInv, Keeps, Script

\* The three copies of the tree agree, and what is marked and drawn of it, on
\* every page and for all time.
THEOREM Invariance == Spec => []IInv
<1>1. Init => IInv
  BY InitIs
<1>. QED  BY <1>1, NextKeeps, PTL DEF Spec


-----------------------------------------------------------------------------
(* What the invariant says of what is in the tree and what is drawn of it. *)

\* A page and its tree keep their types.
THEOREM TypesHold == Spec => []TypeOK
<1>1. IInv => TypeOK
  BY NodesAre DEF IInv, TypeOK
<1>. QED  BY <1>1, Invariance, PTL

\* The three copies of the tree are one tree: the lists of children, the keys
\* of the parents and the cache.
THEOREM TreeIsOne == Spec => []OneTree
<1>1. ASSUME IInv PROVE OneTree
  <2>. DEFINE below == Below(tree, Root)
  <2>1. /\ Sound(tree) /\ Agree(tree) /\ tree \in Tree
        /\ InTree(tree) = tree.cached /\ tree.cached \subseteq Node
    BY <1>1, NodesAre DEF IInv
  <2>2. SonsEnd(tree) /\ Root \in Node \cup {Root}
    BY <2>1, AgreeEnds
  <2>3. below \in Seq(Node) /\ IsInjective(below)
    BY <2>1, <2>2, BelowIs, BelowOnce
  <2>4. Cardinality(Range(below)) = Len(below)
    BY <2>3, InjectiveLength
  <2>5. Cardinality(InTree(tree)) = Len(Below(tree, Root))
    BY <2>4 DEF InTree, Under
  <2>6. \A p \in InTree(tree) \cup {Root} : \A n \in Kids(tree, p) : tree.parent[n] = p
    BY <2>1 DEF Agree
  <2>7. {p \in Node : HasKids(tree, p)} \subseteq tree.isParent
    BY <2>1 DEF Sound, Inner
  <2>. QED  BY <2>1, <2>5, <2>6, <2>7 DEF OneTree
<1>. QED  BY <1>1, Invariance, PTL

\* The marks of the first and the last son are on the first and the last son,
\* wherever nodes were put in and taken out.
THEOREM EndsStayMarked == Spec => []EndsMarked
<1>1. ASSUME IInv PROVE EndsMarked
  <2>. DEFINE P == {p \in Node \cup {Root} : HasKids(tree, p)}
              F == {Head(tree.kids[p]) : p \in P}
              L == {Last(tree.kids[p]) : p \in P}
  <2>1. /\ Agree(tree) /\ Ended(tree) /\ tree \in Tree /\ tree.cached \subseteq Node
    BY <1>1, NodesAre DEF IInv, Sound
  <2>2. ASSUME NEW p \in P
        PROVE  /\ Head(tree.kids[p]) \in tree.first /\ Last(tree.kids[p]) \in tree.last
    <3>. DEFINE h == tree.kids[p][1]
                l == Last(tree.kids[p])
    <3>1. h \in Kids(tree, p) /\ l \in Kids(tree, p) /\ Head(tree.kids[p]) = h
      BY <2>1, EndsAre
    <3>2. h \in tree.cached /\ tree.parent[h] = p /\ l \in tree.cached /\ tree.parent[l] = p
      BY <2>1, <3>1 DEF Agree
    <3>3. h \in tree.first /\ l \in tree.last
      BY <2>1, <3>2 DEF Ended
    <3>. QED  BY <3>1, <3>3
  <2>3. ASSUME NEW q \in tree.cached
        PROVE  /\ tree.parent[q] \in P
               /\ q \in tree.first => q = Head(tree.kids[tree.parent[q]])
               /\ q \in tree.last => q = Last(tree.kids[tree.parent[q]])
    <3>. DEFINE p == tree.parent[q]
    <3>1. p \in Node \cup {Root}
      BY <2>1 DEF Tree
    <3>2. q \in Kids(tree, p)
      BY <2>1, <3>1 DEF Agree
    <3>3. HasKids(tree, p)
      BY <2>1, <3>1, <3>2, KidsAre
    <3>4. Head(tree.kids[p]) = tree.kids[p][1]
      BY <2>1, <3>1, <3>3, EndsAre
    <3>. QED  BY <2>1, <3>1, <3>3, <3>4 DEF Ended
  <2>4. tree.first \subseteq tree.cached /\ tree.last \subseteq tree.cached
    BY <2>1 DEF Ended
  <2>5. tree.first = F
    BY <2>2, <2>3, <2>4
  <2>6. tree.last = L
    BY <2>2, <2>3, <2>4
  <2>. QED  BY <2>5, <2>6 DEF EndsMarked
<1>. QED  BY <1>1, Invariance, PTL

\* A node that is shown open shows all its children, unless the script put one
\* in front of them silently.
THEOREM OpenIsWhole == Spec => []OpenShowsAll
<1>1. ASSUME IInv PROVE OpenShowsAll
  <2>1. tree.li \subseteq Node
    BY <1>1, NodesAre DEF IInv, Tree
  <2>2. ASSUME "insertSilent" \notin Script, NEW n \in tree.li \cap tree.open
        PROVE  Kids(tree, n) \subseteq tree.li
    BY <1>1, <2>1, <2>2 DEF IInv, Whole
  <2>. QED  BY <2>2 DEF OpenShowsAll
<1>. QED  BY <1>1, Invariance, PTL

\* What is drawn or selected is in the tree, and drawn under what is drawn.
THEOREM DrawnStaysLive == Spec => []DrawnIsLive
<1>1. ASSUME IInv PROVE DrawnIsLive
  <2>1. Sound(tree) /\ InTree(tree) = tree.cached
    BY <1>1, NodesAre DEF IInv
  <2>. QED  BY <2>1 DEF DrawnIsLive, Sound, Pictured
<1>. QED  BY <1>1, Invariance, PTL

\* The lines and folders that are drawn are those of the tree.
THEOREM LinesStayCurrent == Spec => []LinesCurrent
<1>1. IInv => LinesCurrent
  BY DEF IInv, LinesCurrent, Sound, Pictured
<1>. QED  BY <1>1, Invariance, PTL


-----------------------------------------------------------------------------
(* What happens to the boxes.                                              *)

\* A step that leaves a box as it is.
Same(t, u, n) == n \in t.checked <=> n \in u.checked

LEMMA MarkedSame ==
  ASSUME NEW t, NEW D, NEW v \in BOOLEAN, NEW u, u.checked = Marked(t.checked, D, v), NEW n, n \notin D
  PROVE  Same(t, u, n)
BY DEF Marked, Same

\* Nothing but a click on it, or a call for it, changes a box that is disabled
\* or hidden: not those of others, and not checkAllNodes.
LEMMA FixedSame ==
  ASSUME NEW t, NEW u, Changed(t, u), t.setting.style = "checkbox",
         NEW n \in Fixed(t) \cap t.cached \cap u.cached
  PROVE  Same(t, u, n)
<1>1. CASE Looked(t, u)
  BY <1>1 DEF Looked, Differ, Fields, View, Same
<1>2. CASE Ticked(t, u)
  <2>0. PICK m \in t.cached, v \in BOOLEAN : \E D, U : Spread(t, m, v, D, U, u)
    BY <1>2 DEF Ticked
  <2>1. PICK D, U : Spread(t, m, v, D, U, u)
    BY <2>0
  <2>2. u.checked = Marked(t.checked, (D \cup U) \ Fixed(t), v)
    BY <2>1 DEF Spread
  <2>3. n \notin (D \cup U) \ Fixed(t)
    OBVIOUS
  <2>. QED  BY <2>2, <2>3, MarkedSame
<1>3. CASE Alone(t, u)
  <2>1. PICK m \in t.cached \ Fixed(t), v \in BOOLEAN : u.checked = Marked(t.checked, {m}, v)
    BY <1>3 DEF Alone
  <2>2. n \notin {m}
    BY <2>1
  <2>. QED  BY <2>1, <2>2, MarkedSame
<1>4. CASE AllTicked(t, u)
  <2>1. PICK v \in BOOLEAN : u.checked = Marked(t.checked, t.cached \ Fixed(t), v)
    BY <1>4 DEF AllTicked
  <2>. QED  BY <2>1, MarkedSame
<1>5. CASE Picked(t, u)
  BY <1>5 DEF Picked
<1>6. CASE Locked(t, u)
  BY <1>6 DEF Locked, Locks, Differ, Fields, Same
<1>7. CASE Grows(t, u)
  <2>1. PICK x \in Node \ t.cached, v \in BOOLEAN : u.checked = Assign(t.checked, x, v)
    BY <1>7 DEF Grows
  <2>2. n # x
    BY <2>1
  <2>. QED  BY <2>1, <2>2 DEF Assign, Same
<1>8. CASE Shrinks(t, u)
  <2>1. PICK G : Cut(t, G, u)
    BY <1>8 DEF Shrinks
  <2>. QED  BY <2>1 DEF Cut, Same
<1>9. CASE Renewed(t, u)
  BY <1>9 DEF Renewed, Boxed, Same
<1>. QED  BY <1>1, <1>2, <1>3, <1>4, <1>5, <1>6, <1>7, <1>8, <1>9 DEF Changed

\* A box that is disabled or hidden keeps its mark, whatever happens to others.
THEOREM FixedStays == Spec => FixedKept
<1>1. IInv /\ [Next]_vars =>
        [tree.setting.style = "checkbox" =>
           \A n \in Fixed(tree) \cap tree.cached \cap tree'.cached :
             n \in tree.checked <=> n \in tree.checked']_vars
  <2>. SUFFICES ASSUME IInv, [Next]_vars, tree.setting.style = "checkbox",
                       NEW n \in Fixed(tree) \cap tree.cached \cap tree'.cached
                PROVE  n \in tree.checked <=> n \in tree'.checked
    OBVIOUS
  <2>1. Changed(tree, tree')
    BY NextChanges
  <2>. QED  BY <2>1, FixedSame DEF Same
<1>. QED  BY <1>1, Invariance, PTL DEF Spec, FixedKept


-----------------------------------------------------------------------------
(* Whoever is checked has a checked parent.                                *)

LEMMA SpreadUpholds ==
  ASSUME NEW t, Agree(t), NEW n \in t.cached, NEW v \in BOOLEAN, NEW D, NEW U, NEW u,
         Spread(t, n, v, D, U, u), "p" \in t.setting.Y, "s" \in t.setting.N,
         t.checked \subseteq t.cached, Upheld(t)
  PROVE  Upheld(u)
<1>. DEFINE M == (D \cup U) \ Fixed(t)
<1>1. t \in Tree /\ ParentsEnd(t) /\ n \in Node /\ t.cached \subseteq Node
  BY DEF Agree, Tree
<1>2. u.checked = Marked(t.checked, M, v) /\ Fixed(u) = Fixed(t) /\ u.parent = t.parent
  BY DEF Spread, Differ, Fields, Checks, Fixed
<1>3. D \cup U \subseteq t.cached /\ n \in D \cup U
  BY SpreadInTree
<1>4. \A q \in t.cached : t.parent[q] \in t.cached \cup {Root}
  BY DEF Agree
<1>. SUFFICES ASSUME NEW k \in u.checked \ Fixed(t)
              PROVE  t.parent[k] \in u.checked \cup Fixed(t) \cup {Root}
  BY <1>2 DEF Upheld
<1>. DEFINE p == t.parent[k]
<1>5. CASE v
  <2>1. u.checked = t.checked \cup M
    BY <1>2, <1>5 DEF Marked
  <2>2. CASE k \in t.checked
    BY <2>1, <2>2 DEF Upheld
  <2>3. CASE k \in U /\ p # Root
    <3>1. U = Upward(t, n)
      BY <1>5 DEF Spread, Follows
    <3>2. p \in U
      BY <1>1, <2>3, <3>1, UpwardCloses
    <3>. QED  BY <2>1, <3>2
  <2>4. CASE k \in D \ U
    <3>1. D = Downward(t, n) /\ n \in U
      BY <2>4 DEF Spread
    <3>2. k \in Under(t, n)
      BY <2>4, <3>1 DEF Downward
    <3>3. p \in D
      BY <1>1, <3>1, <3>2, UnderIs DEF Downward
    <3>. QED  BY <2>1, <3>3
  <2>. QED  BY <2>1, <2>2, <2>3, <2>4
<1>6. CASE ~v
  <2>1. u.checked = t.checked \ M
    BY <1>2, <1>6 DEF Marked
  <2>2. k \in t.checked \ Fixed(t) /\ k \notin D \cup U
    BY <2>1
  <2>3. p \in t.checked \cup Fixed(t) \cup {Root}
    BY <2>2 DEF Upheld
  <2>4. p \notin M
    <3>. SUFFICES ASSUME p \in M PROVE FALSE
      OBVIOUS
    <3>1. D = Downward(t, n) /\ n \in D
      BY <1>6 DEF Spread, Follows, Downward
    <3>2. k \in t.cached /\ p \in Node
      BY <1>1, <1>3, <2>2
    <3>3. k \in Kids(t, p)
      BY <3>2 DEF Agree
    <3>4. p \notin D
      BY <1>1, <2>2, <3>1, <3>2, <3>3, DownwardCloses
    <3>5. p \in U /\ p # n
      BY <3>1, <3>4
    <3>6. "p" \in Follows(t, v)
      BY <3>5 DEF Spread
    <3>7. PICK b \in U : t.parent[b] = p
      BY <3>5 DEF Spread
    <3>8. Kids(t, p) \cap u.checked \subseteq Fixed(t)
      BY <1>6, <3>5, <3>6, <3>7 DEF Spread
    <3>. QED  BY <3>3, <3>8
  <2>. QED  BY <2>1, <2>3, <2>4
<1>. QED  BY <1>5, <1>6

LEMMA CutUpholds ==
  ASSUME NEW t, Sound(t), t.checked \subseteq t.cached, Upheld(t), NEW u, Shrinks(t, u)
  PROVE  Upheld(u)
<1>1. Agree(t) /\ t \in Tree /\ t.cached \subseteq Node
  BY NodesAre
<1>2. PICK n \in t.cached : Cut(t, Under(t, n) \cup {n}, u) \/ Cut(t, Under(t, n), u)
  BY DEF Shrinks
<1>3. \A k \in t.cached : t.parent[k] \in {n} \cup Under(t, n) => k \in Under(t, n)
  BY <1>1, <1>2, UnderIs
<1>4. PICK G : Cut(t, G, u) /\ \A k \in t.cached \ G : t.parent[k] \notin G
  BY <1>2, <1>3
<1>5. n \in Node /\ Fixed(u) = Fixed(t) \ G /\ u.checked = t.checked \ G
  BY <1>1, <1>4 DEF Cut, Fixed
<1>6. ASSUME NEW k \in u.checked \ Fixed(u)
      PROVE  u.parent[k] \in u.checked \cup Fixed(u) \cup {Root}
  <2>1. k \in t.cached \ G /\ k \in t.checked \ Fixed(t)
    BY <1>5, <1>6
  <2>2. u.parent[k] = t.parent[k] /\ t.parent[k] \notin G
    BY <1>1, <1>4, <2>1 DEF Cut
  <2>3. t.parent[k] \in t.checked \cup Fixed(t) \cup {Root}
    BY <2>1 DEF Upheld
  <2>. QED  BY <1>5, <2>2, <2>3
<1>. QED  BY <1>6 DEF Upheld

LEMMA ChangeUpholds ==
  ASSUME NEW t, Sound(t), t.checked \subseteq t.cached, NEW u, Changed(t, u), t.setting.style = "checkbox",
         {"addNodes", "addSilent", "checkAlone", "setChkDisabled"} \cap Script = {},
         "p" \in t.setting.Y, "s" \in t.setting.N, Upheld(t)
  PROVE  Upheld(u)
<1>1. Agree(t) /\ t \in Tree
  BY NodesAre
<1>2. CASE Looked(t, u)
  BY <1>2 DEF Looked, Differ, Fields, View, Upheld, Fixed
<1>3. CASE Ticked(t, u)
  BY <1>1, <1>3, SpreadUpholds DEF Ticked
<1>4. CASE AllTicked(t, u)
  <2>1. PICK v \in BOOLEAN : u.checked = Marked(t.checked, t.cached \ Fixed(t), v)
    BY <1>4 DEF AllTicked
  <2>2. u.parent = t.parent /\ Fixed(u) = Fixed(t)
    BY <1>4 DEF AllTicked, Differ, Fields, Checks, Fixed
  <2>3. CASE v
    <3>1. u.checked \subseteq t.cached /\ t.cached \subseteq u.checked \cup Fixed(t)
      BY <2>1, <2>3 DEF Marked
    <3>2. \A q \in t.cached : t.parent[q] \in t.cached \cup {Root}
      BY <1>1 DEF Agree
    <3>. QED  BY <2>2, <3>1, <3>2 DEF Upheld
  <2>4. CASE ~v
    <3>1. u.checked \subseteq Fixed(t)
      BY <2>1, <2>4 DEF Marked
    <3>. QED  BY <2>2, <3>1 DEF Upheld
  <2>. QED  BY <2>3, <2>4
<1>5. CASE Shrinks(t, u)
  BY <1>5, CutUpholds
<1>6. CASE Renewed(t, u)
  BY <1>6 DEF Renewed, Boxed, Upheld, Fixed
<1>7. CASE Alone(t, u) \/ Picked(t, u) \/ Locked(t, u) \/ Grows(t, u)
  BY <1>7 DEF Alone, Picked, Locked, Grows
<1>. QED  BY <1>2, <1>3, <1>4, <1>5, <1>6, <1>7 DEF Changed

\* Where checking goes up and unchecking goes down, whoever is checked has a
\* checked parent, as long as the data are so: whatever the clicks and calls,
\* the places from which the boxes follow, and the boxes that cannot.
THEOREM ParentsStayChecked == Spec => []ParentsChecked
<1>1. Init => IInv /\ ParentsChecked
  BY InitIs DEF ParentsChecked
<1>2. IInv /\ ParentsChecked /\ [Next]_vars => ParentsChecked'
  <2>. SUFFICES ASSUME IInv, ParentsChecked, [Next]_vars,
                       (Related /\ "p" \in tree.setting.Y /\ "s" \in tree.setting.N /\ Upheld(Given))'
                PROVE  Upheld(tree')
    BY DEF ParentsChecked
  <2>1. Changed(tree, tree') /\ page' = page
    BY NextChanges
  <2>2. tree'.setting = tree.setting
    BY <2>1, ChangeKeeps DEF Keeps, IInv
  <2>3. Related /\ "p" \in tree.setting.Y /\ "s" \in tree.setting.N /\ Upheld(Given)
    BY <2>1, <2>2 DEF Related, Script, Given
  <2>4. Upheld(tree)
    BY <2>3 DEF ParentsChecked
  <2>. QED  BY <2>1, <2>3, <2>4, ChangeUpholds DEF IInv, Related
<1>. QED  BY <1>1, <1>2, Invariance, PTL DEF Spec


-----------------------------------------------------------------------------
(* An inner node is checked exactly if one of its sons is.                 *)

\* All boxes can change, and each inner one shows whether one below it is
\* checked.
SumsUp(t) == /\ Fixed(t) = {}
             /\ \A m \in t.cached : Kids(t, m) # {} =>
                  (m \in t.checked <=> Kids(t, m) \cap t.checked # {})

LEMMA SumsUpIs ==
  ASSUME NEW t, Sound(t)
  PROVE  SumsUp(t) <=> Fixed(t) = {} /\ Summed(t)
<1>1. InTree(t) = t.cached /\ t.cached \subseteq Node /\ t \in Tree
  BY NodesAre
<1>2. \A m \in t.cached : HasKids(t, m) <=> Kids(t, m) # {}
  BY <1>1, KidsAre
<1>. QED  BY <1>1, <1>2 DEF SumsUp, Summed

LEMMA CheckingSums ==
  ASSUME NEW t, Agree(t), NEW n \in t.cached, NEW D, NEW U, NEW u,
         Spread(t, n, TRUE, D, U, u), t.setting.Y = {"p", "s"}, SumsUp(t),
         NEW m \in t.cached, Kids(t, m) # {}
  PROVE  m \in u.checked <=> Kids(t, m) \cap u.checked # {}
<1>1. t \in Tree /\ ParentsEnd(t) /\ n \in Node /\ m \in Node
  BY DEF Agree, Tree
<1>2. D = Downward(t, n) /\ U = Upward(t, n) /\ u.checked = t.checked \cup D \cup U
  BY DEF Spread, Follows, Marked, SumsUp
<1>3. \A k \in Kids(t, m) : k \in t.cached /\ t.parent[k] = m
  BY <1>1 DEF Agree
<1>4. ASSUME m \in D PROVE Kids(t, m) \subseteq D
  BY <1>1, <1>2, <1>4, DownwardCloses
<1>5. ASSUME m \in U \ {n} PROVE Kids(t, m) \cap U # {}
  <2>1. PICK b \in U : t.parent[b] = m
    BY <1>5 DEF Spread
  <2>2. b \in t.cached
    BY <1>2, <2>1, AboveHasBelow, SpreadInTree
  <2>3. b \in Kids(t, m)
    BY <1>1, <2>1, <2>2 DEF Agree
  <2>. QED  BY <2>1, <2>3
<1>6. n \in D
  BY <1>2 DEF Downward
<1>7. ASSUME NEW k \in Kids(t, m), k \in D \cup U PROVE m \in D \cup U
  <2>1. t.parent[k] = m /\ m # Root /\ k \in t.cached
    BY <1>1, <1>3, <1>7, TreeAssumption
  <2>2. CASE k \in U
    BY <1>1, <1>2, <2>1, <2>2, UpwardCloses
  <2>3. CASE k \in Under(t, n)
    BY <1>1, <1>2, <2>1, <2>3, UnderIs DEF Downward
  <2>4. CASE k = n
    <3>1. n \in U
      BY DEF Spread
    <3>. QED  BY <2>2, <2>4, <3>1
  <2>. QED  BY <1>2, <1>7, <2>2, <2>3, <2>4 DEF Downward
<1>8. m \in t.checked <=> Kids(t, m) \cap t.checked # {}
  BY DEF SumsUp
<1>. QED  BY <1>2, <1>4, <1>5, <1>6, <1>7, <1>8

LEMMA UncheckingSums ==
  ASSUME NEW t, Agree(t), NEW n \in t.cached, NEW D, NEW U, NEW u,
         Spread(t, n, FALSE, D, U, u), t.setting.N = {"p", "s"}, SumsUp(t),
         NEW m \in t.cached, Kids(t, m) # {}
  PROVE  m \in u.checked <=> Kids(t, m) \cap u.checked # {}
<1>1. t \in Tree /\ ParentsEnd(t) /\ n \in Node /\ m \in Node /\ Fixed(t) = {}
  BY DEF Agree, Tree, SumsUp
<1>2. /\ D = Downward(t, n) /\ u.checked = t.checked \ (D \cup U)
      /\ n \in U /\ n \in D /\ D \cup U \subseteq t.cached
      /\ "p" \in Follows(t, FALSE)
  <2>1. Follows(t, FALSE) = {"p", "s"}
    BY DEF Follows
  <2>2. D = (IF "s" \in Follows(t, FALSE) THEN Downward(t, n) ELSE {n}) /\ n \in U
    BY DEF Spread
  <2>3. u.checked = Marked(t.checked, (D \cup U) \ Fixed(t), FALSE)
    BY DEF Spread
  <2>4. u.checked = t.checked \ (D \cup U)
    BY <1>1, <2>3 DEF Marked
  <2>5. D \cup U \subseteq t.cached
    BY SpreadInTree
  <2>. QED  BY <2>1, <2>2, <2>4, <2>5 DEF Downward
<1>3. \A k \in Kids(t, m) : k \in t.cached /\ t.parent[k] = m
  BY <1>1 DEF Agree
<1>4. m \in t.checked <=> Kids(t, m) \cap t.checked # {}
  BY DEF SumsUp
<1>5. ASSUME m \in D PROVE Kids(t, m) \subseteq D
  BY <1>1, <1>2, <1>5, DownwardCloses
<1>6. ASSUME m \in U \ D PROVE Kids(t, m) \cap u.checked = {}
  <2>1. PICK b \in U : t.parent[b] = m
    BY <1>2, <1>6 DEF Spread
  <2>2. Kids(t, t.parent[b]) \cap u.checked \subseteq Fixed(t)
    BY <1>2, <1>6, <2>1 DEF Spread
  <2>. QED  BY <1>1, <2>1, <2>2
<1>7. ASSUME m \in t.checked \ (D \cup U) PROVE Kids(t, m) \cap u.checked # {}
  <2>1. PICK k \in Kids(t, m) : k \in t.checked
    BY <1>4, <1>7
  <2>2. CASE k \notin D \cup U
    BY <1>2, <2>1, <2>2
  <2>3. CASE k \in D \ {n}
    <3>1. k \in Under(t, n)
      BY <1>2, <2>3 DEF Downward
    <3>2. t.parent[k] \in {n} \cup Under(t, n)
      BY <1>1, <3>1, UnderIs
    <3>3. m \in D
      BY <1>2, <1>3, <3>2 DEF Downward
    <3>. QED  BY <1>7, <3>3
  <2>4. CASE k \in U
    <3>1. t.parent[k] = m /\ m \notin U \cup {Root}
      BY <1>1, <1>3, <1>7, TreeAssumption
    <3>2. Kids(t, t.parent[k]) \cap (Fixed(t) \cup u.checked) # {}
      BY <1>2, <2>4, <3>1 DEF Spread
    <3>. QED  BY <1>1, <3>1, <3>2
  <2>. QED  BY <1>2, <2>2, <2>3, <2>4
<1>. QED  BY <1>2, <1>4, <1>5, <1>6, <1>7

LEMMA TickingSums ==
  ASSUME NEW t, Agree(t), NEW u, Ticked(t, u), t.setting.Y = {"p", "s"}, t.setting.N = {"p", "s"},
         SumsUp(t)
  PROVE  SumsUp(u)
<1>0. PICK n \in t.cached, v \in BOOLEAN : \E D, U : Spread(t, n, v, D, U, u)
  BY DEF Ticked
<1>1. PICK D, U : Spread(t, n, v, D, U, u)
  BY <1>0
<1>2. u.cached = t.cached /\ u.kids = t.kids /\ Fixed(u) = Fixed(t)
  BY <1>1 DEF Spread, Differ, Fields, Checks, Fixed
<1>3. \A m : Kids(u, m) = Kids(t, m)
  BY <1>2 DEF Kids
<1>4. ASSUME NEW m \in t.cached, Kids(t, m) # {}
      PROVE  m \in u.checked <=> Kids(t, m) \cap u.checked # {}
  <2>1. CASE v = TRUE
    <3>1. Spread(t, n, TRUE, D, U, u)
      BY <1>0, <1>1, <2>1
    <3>. QED  BY <1>4, <3>1, CheckingSums
  <2>2. CASE v = FALSE
    <3>1. Spread(t, n, FALSE, D, U, u)
      BY <1>0, <1>1, <2>2
    <3>. QED  BY <1>4, <3>1, UncheckingSums
  <2>. QED  BY <2>1, <2>2
<1>5. Fixed(t) = {}
  BY DEF SumsUp
<1>. QED  BY <1>2, <1>3, <1>4, <1>5 DEF SumsUp

LEMMA CutSums ==
  ASSUME NEW t, Sound(t), SumsUp(t), NEW u, Shrinks(t, u), "removeNode" \notin Script
  PROVE  SumsUp(u)
<1>1. Agree(t) /\ t \in Tree /\ t.cached \subseteq Node
  BY NodesAre
<1>2. PICK n \in t.cached : Cut(t, Under(t, n), u)
  BY DEF Shrinks
<1>. DEFINE G == Under(t, n)
<1>3. /\ \A k \in t.cached : k \in G <=> t.parent[k] \in {n} \cup G
      /\ n \in Node
  BY <1>1, <1>2, UnderIs
<1>. HIDE DEF G
<1>4. Cut(t, G, u) /\ Fixed(t) = {}
  BY <1>2 DEF G, SumsUp
<1>5. Fixed(u) = {} /\ u.cached = t.cached \ G /\ u.checked = t.checked \ G
  BY <1>4 DEF Cut, Fixed
<1>6. ASSUME NEW m \in u.cached, Kids(u, m) # {}
      PROVE  m \in u.checked <=> Kids(u, m) \cap u.checked # {}
  <2>1. m \in t.cached \ G /\ m \in Node
    BY <1>1, <1>5
  <2>2. Kids(t, m) = {q \in t.cached : t.parent[q] = m}
    BY <1>1, <2>1 DEF Agree
  <2>3. Kids(u, m) = Kids(t, m) \ G
    BY <1>4, <2>1 DEF Cut
  <2>4. m # n /\ Kids(t, m) \cap G = {}
    BY <1>3, <1>6, <2>1, <2>2, <2>3
  <2>5. m \in t.checked <=> Kids(t, m) \cap t.checked # {}
    BY <1>6, <2>1, <2>3 DEF SumsUp
  <2>. QED  BY <1>5, <2>1, <2>3, <2>4, <2>5
<1>. QED  BY <1>5, <1>6 DEF SumsUp

LEMMA ChangeSums ==
  ASSUME NEW t, Sound(t), NEW u, Changed(t, u), t.setting.style = "checkbox",
         {"addNodes", "addSilent", "checkAlone", "setChkDisabled", "removeNode"} \cap Script = {},
         t.setting.Y = {"p", "s"}, t.setting.N = {"p", "s"}, SumsUp(t)
  PROVE  SumsUp(u)
<1>1. Agree(t) /\ t \in Tree /\ Fixed(t) = {} /\ t.cached \subseteq Node
  BY NodesAre DEF SumsUp
<1>2. CASE Looked(t, u)
  BY <1>2 DEF Looked, Differ, Fields, View, SumsUp, Fixed, Kids
<1>3. CASE Ticked(t, u)
  BY <1>1, <1>3, TickingSums
<1>4. CASE AllTicked(t, u)
  <2>1. PICK v \in BOOLEAN : u.checked = Marked(t.checked, t.cached \ Fixed(t), v)
    BY <1>4 DEF AllTicked
  <2>2. u.kids = t.kids /\ u.cached = t.cached /\ Fixed(u) = {}
    BY <1>1, <1>4 DEF AllTicked, Differ, Fields, Checks, Fixed
  <2>3. \A m \in t.cached : Kids(u, m) = Kids(t, m) /\ Kids(t, m) \subseteq t.cached
    BY <1>1, <2>2 DEF Kids, Agree
  <2>4. CASE v
    <3>1. t.cached \subseteq u.checked
      BY <1>1, <2>1, <2>4 DEF Marked
    <3>. QED  BY <2>2, <2>3, <3>1 DEF SumsUp
  <2>5. CASE ~v
    <3>1. t.cached \cap u.checked = {}
      BY <1>1, <2>1, <2>5 DEF Marked
    <3>. QED  BY <2>2, <2>3, <3>1 DEF SumsUp
  <2>. QED  BY <2>4, <2>5
<1>5. CASE Shrinks(t, u)
  BY <1>5, CutSums
<1>6. CASE Renewed(t, u)
  BY <1>6 DEF Renewed, Boxed, SumsUp, Fixed, Kids
<1>7. CASE Alone(t, u) \/ Picked(t, u) \/ Locked(t, u) \/ Grows(t, u)
  BY <1>7 DEF Alone, Picked, Locked, Grows
<1>. QED  BY <1>2, <1>3, <1>4, <1>5, <1>6, <1>7 DEF Changed

\* Pages of which InnerFollowsSons speaks.
Summing == /\ Related /\ "removeNode" \notin Script /\ tree.setting.Y \cap tree.setting.N = {"p", "s"}
           /\ Fixed(Given) = {} /\ Summed(Given)

\* Where checking and unchecking both go both ways, an inner node is checked
\* exactly if one of its sons is, as long as the data are so.
THEOREM InnerFollows == Spec => []InnerFollowsSons
<1>. DEFINE J == Summing => SumsUp(tree)
<1>1. Init => IInv /\ J
  BY InitIs, SumsUpIs DEF IInv, Summing
<1>2. IInv /\ J /\ [Next]_vars => J'
  <2>. SUFFICES ASSUME IInv, J, [Next]_vars, Summing' PROVE SumsUp(tree')
    OBVIOUS
  <2>1. Changed(tree, tree') /\ page' = page
    BY NextChanges
  <2>2. tree'.setting = tree.setting
    BY <2>1, ChangeKeeps DEF Keeps, IInv
  <2>3. Summing
    BY <2>1, <2>2 DEF Summing, Related, Script, Given
  <2>4. SumsUp(tree)
    BY <2>3
  <2>5. tree.setting.Y = {"p", "s"} /\ tree.setting.N = {"p", "s"}
    <3>1. tree.setting.Y \in SUBSET {"p", "s"} /\ tree.setting.N \in SUBSET {"p", "s"}
      BY NodesAre DEF IInv, Tree, Setting
    <3>. QED  BY <2>3, <3>1 DEF Summing
  <2>. QED  BY <2>1, <2>3, <2>4, <2>5, ChangeSums DEF IInv, Summing, Related
<1>3. IInv /\ J => InnerFollowsSons
  BY SumsUpIs DEF IInv, InnerFollowsSons, Summing
<1>. QED  BY <1>1, <1>2, <1>3, Invariance, PTL DEF Spec


-----------------------------------------------------------------------------
(* One radio button is checked.                                            *)

Alike(S) == \A x, y \in S : x = y

LEMMA AlikeIs ==
  ASSUME NEW S \in SUBSET Node
  PROVE  Cardinality(S) <= 1 <=> Alike(S)
<1>1. IsFiniteSet(S) /\ Cardinality(S) \in Nat
  BY TreeAssumption, FS_Subset, FS_CardinalityType
<1>2. CASE S = {}
  <2>1. Cardinality(S) = 0
    BY <1>2, FS_EmptySet
  <2>. QED  BY <1>2, <2>1 DEF Alike
<1>3. CASE S # {}
  <2>1. PICK x : x \in S
    BY <1>3
  <2>2. /\ IsFiniteSet(S \ {x}) /\ Cardinality(S \ {x}) = Cardinality(S) - 1
        /\ Cardinality(S \ {x}) \in Nat
    BY <1>1, <2>1, FS_RemoveElement, FS_CardinalityType
  <2>3. Cardinality(S \ {x}) = 0 <=> S \ {x} = {}
    BY <2>2, FS_EmptySet
  <2>4. S \ {x} = {} <=> Alike(S)
    BY <2>1 DEF Alike
  <2>. QED  BY <1>1, <2>2, <2>3, <2>4
<1>. QED  BY <1>2, <1>3

\* One is checked among brothers or in the tree, and the list that the control
\* keeps of the checked ones misses none.
OneOf(t) == IF t.setting.radioType = "all" THEN Alike(t.checked) /\ t.checked \subseteq t.radios
            ELSE \A p \in t.cached \cup {Root} : Alike(Kids(t, p) \cap t.checked)

LEMMA OneOfIs ==
  ASSUME NEW t, Sound(t)
  PROVE  OneOf(t) <=> /\ Single(t)
                      /\ t.setting.radioType = "all" => t.checked \subseteq t.radios
<1>1. InTree(t) = t.cached /\ t.cached \subseteq Node /\ t \in Tree
  BY NodesAre
<1>2. Cardinality(t.checked) <= 1 <=> Alike(t.checked)
  <2>1. t.checked \in SUBSET Node
    BY <1>1 DEF Tree
  <2>. QED  BY <2>1, AlikeIs
<1>3. ASSUME NEW p \in t.cached \cup {Root}
      PROVE  Cardinality(Kids(t, p) \cap t.checked) <= 1 <=> Alike(Kids(t, p) \cap t.checked)
  <2>1. Kids(t, p) \cap t.checked \in SUBSET Node
    BY <1>1, KidsAre
  <2>. QED  BY <2>1, AlikeIs
<1>. QED  BY <1>1, <1>2, <1>3 DEF OneOf, Single

LEMMA PickingKeepsOne ==
  ASSUME NEW t, Sound(t), t.checked \subseteq t.cached, OneOf(t), NEW u, Picked(t, u)
  PROVE  OneOf(u)
<1>1. Agree(t) /\ t \in Tree /\ t.cached \subseteq Node
  BY NodesAre
<1>2. PICK n \in t.cached, v \in BOOLEAN : Chosen(t, n, v, u)
  BY DEF Picked
<1>3. u.checked = IF v THEN (t.checked \cup {n}) \ Excluded(t, n) ELSE t.checked \ {n}
  BY <1>2 DEF Chosen
<1>4. u.setting = t.setting /\ u.kids = t.kids /\ u.cached = t.cached
  BY <1>2 DEF Chosen, Differ, Fields, Radioed, Checks
<1>5. CASE t.setting.radioType = "all"
  <2>1. u.radios = IF v THEN ((t.radios \cap t.cached) \ Excluded(t, n)) \cup {n}
                   ELSE (t.radios \cap t.cached) \ {n}
    BY <1>2, <1>5 DEF Chosen
  <2>2. Excluded(t, n) = t.checked \ {n} /\ Alike(t.checked)
    BY <1>5 DEF OneOf, Excluded
  <2>3. t.checked \subseteq t.radios
    BY <1>5 DEF OneOf
  <2>4. Alike(u.checked) /\ u.checked \subseteq u.radios
    BY <1>3, <2>1, <2>2, <2>3 DEF Alike
  <2>. QED  BY <1>4, <1>5, <2>4 DEF OneOf
<1>6. CASE t.setting.radioType # "all"
  <2>1. Excluded(t, n) = (Kids(t, t.parent[n]) \cap t.checked) \ {n}
    BY <1>6 DEF Excluded
  <2>2. ASSUME NEW p \in t.cached \cup {Root} PROVE Alike(Kids(t, p) \cap u.checked)
    <3>1. Alike(Kids(t, p) \cap t.checked)
      BY <1>6 DEF OneOf
    <3>2. n \in Kids(t, p) => p = t.parent[n]
      BY <1>1 DEF Agree
    <3>3. CASE v /\ n \in Kids(t, p)
      <4>1. Kids(t, p) \cap u.checked \subseteq {n}
        BY <1>3, <2>1, <3>2, <3>3
      <4>. QED  BY <4>1 DEF Alike
    <3>4. CASE ~(v /\ n \in Kids(t, p))
      <4>1. Kids(t, p) \cap u.checked \subseteq Kids(t, p) \cap t.checked
        BY <1>3, <3>4
      <4>. QED  BY <3>1, <4>1 DEF Alike
    <3>. QED  BY <3>3, <3>4
  <2>3. \A p : Kids(u, p) = Kids(t, p)
    BY <1>4 DEF Kids
  <2>. QED  BY <1>4, <1>6, <2>2, <2>3 DEF OneOf
<1>. QED  BY <1>5, <1>6

LEMMA AddingKeepsOne ==
  ASSUME NEW t, Sound(t), t.checked \subseteq t.cached, OneOf(t), NEW u, Grows(t, u),
         "addChecked" \notin Script
  PROVE  OneOf(u)
<1>1. Agree(t) /\ t \in Tree /\ t.cached \subseteq Node /\ u \in Tree
  BY NodesAre DEF Grows
<1>2. PICK p, index, x :
        /\ p \in t.cached \cup {Root} /\ x \in Node \ t.cached
        /\ index \in Int /\ index < Len(t.kids[p]) /\ Added(t, p, index, x, u)
        /\ u.setting = t.setting /\ u.checked = Assign(t.checked, x, FALSE)
        /\ t.radios \subseteq u.radios
  BY DEF Grows
<1>3. u.checked = t.checked /\ x \notin u.checked
  BY <1>2 DEF Assign
<1>4. CASE t.setting.radioType = "all"
  BY <1>2, <1>3, <1>4 DEF OneOf
<1>5. CASE t.setting.radioType # "all"
  <2>1. Adds(t, p, index, x)
    BY <1>2 DEF Adds
  <2>2. /\ Kids(u, p) = Kids(t, p) \cup {x}
        /\ \A q \in (Node \cup {Root}) \ {p} : Kids(u, q) = Kids(t, q)
    BY <1>1, <1>2, <2>1, AddAgrees
  <2>3. Kids(t, x) = {}
    BY <1>1, <1>2, NoSons
  <2>4. ASSUME NEW q \in u.cached \cup {Root} PROVE Alike(Kids(u, q) \cap u.checked)
    <3>1. q \in t.cached \cup {Root, x} /\ q \in Node \cup {Root}
      BY <1>1, <1>2 DEF Added
    <3>2. Kids(u, q) \cap u.checked = Kids(t, q) \cap t.checked
      BY <1>3, <2>2, <3>1
    <3>3. CASE q \in t.cached \cup {Root}
      BY <1>5, <3>2, <3>3 DEF OneOf
    <3>4. CASE q = x
      BY <2>3, <3>2, <3>4 DEF Alike
    <3>. QED  BY <3>1, <3>3, <3>4
  <2>. QED  BY <1>2, <1>5, <2>4 DEF OneOf
<1>. QED  BY <1>4, <1>5

LEMMA CuttingKeepsOne ==
  ASSUME NEW t, Sound(t), OneOf(t), NEW u, Shrinks(t, u)
  PROVE  OneOf(u)
<1>1. t.cached \subseteq Node
  BY NodesAre
<1>2. PICK G : Cut(t, G, u)
  BY DEF Shrinks
<1>3. /\ u.setting = t.setting /\ u.cached = t.cached \ G /\ u.checked = t.checked \ G
      /\ u.radios = t.radios \ G
  BY <1>2 DEF Cut
<1>4. \A q \in Node \cup {Root} : Kids(u, q) \subseteq Kids(t, q)
  BY <1>2 DEF Cut
<1>5. CASE t.setting.radioType = "all"
  BY <1>3, <1>5 DEF OneOf, Alike
<1>6. CASE t.setting.radioType # "all"
  <2>1. ASSUME NEW q \in u.cached \cup {Root} PROVE Alike(Kids(u, q) \cap u.checked)
    <3>1. Kids(u, q) \cap u.checked \subseteq Kids(t, q) \cap t.checked
      BY <1>1, <1>3, <1>4
    <3>2. Alike(Kids(t, q) \cap t.checked)
      BY <1>3, <1>6 DEF OneOf
    <3>. QED  BY <3>1, <3>2 DEF Alike
  <2>. QED  BY <1>3, <1>6, <2>1 DEF OneOf
<1>. QED  BY <1>5, <1>6

LEMMA ChangeKeepsOne ==
  ASSUME NEW t, Sound(t), t.checked \subseteq t.cached, NEW u, Changed(t, u), t.setting.style = "radio",
         "addChecked" \notin Script, OneOf(t)
  PROVE  OneOf(u)
<1>1. CASE Looked(t, u)
  BY <1>1 DEF Looked, Differ, Fields, View, OneOf, Kids
<1>2. CASE Locked(t, u)
  BY <1>2 DEF Locked, Differ, Fields, Locks, OneOf, Kids
<1>3. CASE Picked(t, u)
  BY <1>3, PickingKeepsOne
<1>4. CASE Grows(t, u)
  BY <1>4, AddingKeepsOne
<1>5. CASE Shrinks(t, u)
  BY <1>5, CuttingKeepsOne
<1>6. CASE Renewed(t, u)
  <2>1. /\ u.setting = t.setting /\ u.cached = t.cached /\ u.checked = t.checked
        /\ \A q : Kids(u, q) = Kids(t, q)
    BY <1>6 DEF Renewed, Boxed, Kids
  <2>2. t.setting.radioType = "all" => u.checked \subseteq u.radios
    BY <1>6, <2>1 DEF Renewed, RadioAll
  <2>. QED  BY <2>1, <2>2 DEF OneOf
<1>7. CASE Ticked(t, u) \/ Alone(t, u) \/ AllTicked(t, u)
  BY <1>7 DEF Ticked, Alone, AllTicked
<1>. QED  BY <1>1, <1>2, <1>3, <1>4, <1>5, <1>6, <1>7 DEF Changed

\* Pages of which OneRadio speaks.
Choosing == tree.setting.style = "radio" /\ "addChecked" \notin Script /\ Single(Given)

\* One radio button is checked among brothers, or in the whole tree, as long as
\* the data are so: the list from which the control takes the ones that go off
\* misses none.
THEOREM OneRadioStays == Spec => []OneRadio
<1>. DEFINE J == Choosing => OneOf(tree)
<1>1. Init => IInv /\ J
  BY InitIs, OneOfIs DEF IInv, Choosing, RadioAll
<1>2. IInv /\ J /\ [Next]_vars => J'
  <2>. SUFFICES ASSUME IInv, J, [Next]_vars, Choosing' PROVE OneOf(tree')
    OBVIOUS
  <2>1. Changed(tree, tree') /\ page' = page
    BY NextChanges
  <2>2. tree'.setting = tree.setting
    BY <2>1, ChangeKeeps DEF Keeps, IInv
  <2>3. Choosing
    BY <2>1, <2>2 DEF Choosing, Script, Given
  <2>4. OneOf(tree)
    BY <2>3
  <2>. QED  BY <2>1, <2>3, <2>4, ChangeKeepsOne DEF IInv, Choosing
<1>3. IInv /\ J => OneRadio
  BY OneOfIs DEF IInv, OneRadio, Choosing
<1>. QED  BY <1>1, <1>2, <1>3, Invariance, PTL DEF Spec

-----------------------------------------------------------------------------
(* The boxes show what the boxes below them say.                           *)

\* Scripts of which BoxesCurrent speaks.
Orderly == {"disableInner", "removeChildNodes"} \cap Script = {}

\* Where a click ends, all boxes that are simple are right again.
LEMMA ClicksSettle ==
  ASSUME IInv, Settled(tree), NEW n \in InTree(tree)
  PROVE  /\ \A ctrl \in BOOLEAN : ClickName(n, ctrl) => Settled(tree')
         /\ ClickSwitch(n) => Settled(tree')
         /\ ClickBox(n) => Settled(tree')
<1>1. Sound(tree) /\ n \in tree.cached /\ n \in Node /\ Agree(tree)
  BY NodesAre DEF IInv
<1>2. ASSUME NEW ctrl \in BOOLEAN, ClickName(n, ctrl) PROVE Settled(tree')
  <2>1. ClickNode(tree, n, ctrl) \in Differ(tree, {"selected"}) /\ {"selected"} \cap Boxing = {}
    BY <1>1, SelectSound DEF Boxing
  <2>2. Settled(ClickNode(tree, n, ctrl))
    BY <1>1, <2>1, SettledStays DEF Settled
  <2>. QED  BY <1>2, <2>2 DEF ClickName, Step
<1>3. ASSUME ClickSwitch(n) PROVE Settled(tree')
  <2>1. SwitchNode(tree, n) \in Redrawn(tree)
    BY <1>1, OpeningsRedraw
  <2>2. Settled(SwitchNode(tree, n))
    BY <2>1 DEF Redrawn
  <2>. QED  BY <1>3, <2>2 DEF ClickSwitch, Step
<1>4. ASSUME ClickBox(n) PROVE Settled(tree')
  <2>1. tree' = ToggleCheck(tree, n) /\ n \notin Fixed(tree) /\ tree.setting.enable
    BY <1>4 DEF ClickBox, Step
  <2>2. Settled(ToggleCheck(tree, n))
    BY <1>1, <2>1, ToggleSettles
  <2>. QED  BY <2>1, <2>2
<1>. QED  BY <1>2, <1>3, <1>4

LEMMA ViewsSettle ==
  ASSUME IInv, Settled(tree)
  PROVE  /\ \A v \in BOOLEAN : CallExpandAll(v) => Settled(tree')
         /\ CallRefresh => Settled(tree')
         /\ \A n \in InTree(tree), v, w \in BOOLEAN :
              CallExpandNode(n, v, w) \/ CallSelectNode(n, v) \/ CallCancelSelectedNode(n)
              => Settled(tree')
<1>1. Sound(tree) /\ InTree(tree) \subseteq tree.cached /\ InTree(tree) \subseteq Node /\ Agree(tree)
  BY NodesAre DEF IInv
<1>2. ASSUME NEW v \in BOOLEAN, CallExpandAll(v) PROVE Settled(tree')
  <2>1. Below(tree, Root) \in Seq(Node)
    BY <1>1, AgreeEnds, BelowIs DEF Agree
  <2>2. ExpandCollapseAll(tree, Below(tree, Root), v) \in Redrawn(tree)
    BY <1>1, <2>1, ExpandAllRedraws
  <2>3. Settled(ExpandAll(tree, v))
    BY <2>2 DEF ExpandAll, Redrawn
  <2>. QED  BY <1>2, <2>3 DEF CallExpandAll, Step
<1>3. ASSUME CallRefresh PROVE Settled(tree')
  <2>1. Settled(Refresh(tree))
    BY <1>1, RefreshIs
  <2>. QED  BY <1>3, <2>1 DEF CallRefresh, Step
<1>4. ASSUME NEW n \in InTree(tree), NEW v \in BOOLEAN, NEW w \in BOOLEAN, CallExpandNode(n, v, w)
      PROVE  Settled(tree')
  <2>1. ExpandNode(tree, n, v, w) \in Redrawn(tree)
    BY <1>1, OpeningsRedraw
  <2>2. Settled(ExpandNode(tree, n, v, w))
    BY <2>1 DEF Redrawn
  <2>. QED  BY <1>4, <2>2 DEF CallExpandNode, Step
<1>5. ASSUME NEW n \in InTree(tree), NEW v \in BOOLEAN, CallSelectNode(n, v) PROVE Settled(tree')
  <2>1. Settled(SelectNode(tree, n, v))
    BY <1>1, SelectNodeSound
  <2>. QED  BY <1>5, <2>1 DEF CallSelectNode, Step
<1>6. ASSUME NEW n \in InTree(tree), CallCancelSelectedNode(n) PROVE Settled(tree')
  <2>1. TRUE \in BOOLEAN /\ n \in tree.cached
    BY <1>1
  <2>2. CancelSelected(tree, n) \in Differ(tree, {"selected"}) /\ {"selected"} \cap Boxing = {}
    BY <1>1, <2>1, SelectSound DEF Boxing
  <2>3. Settled(CancelSelected(tree, n))
    BY <1>1, <2>2, SettledStays DEF Settled
  <2>. QED  BY <1>6, <2>3 DEF CallCancelSelectedNode, Step
<1>. QED  BY <1>2, <1>3, <1>4, <1>5, <1>6

LEMMA ChecksSettle ==
  ASSUME IInv, Settled(tree), Orderly
  PROVE  /\ \A n \in InTree(tree), v, w \in BOOLEAN : CallCheckNode(n, v, w) => Settled(tree')
         /\ \A v \in BOOLEAN : CallCheckAllNodes(v) => Settled(tree')
         /\ \A n \in InTree(tree), v, p, s \in BOOLEAN : CallSetChkDisabled(n, v, p, s) => Settled(tree')
<1>1. InTree(tree) \subseteq tree.cached /\ Agree(tree)
  BY NodesAre DEF IInv
<1>2. ASSUME NEW n \in InTree(tree), NEW v \in BOOLEAN, NEW w \in BOOLEAN, CallCheckNode(n, v, w)
      PROVE  Settled(tree')
  <2>1. Settled(CheckNode(tree, n, v, w))
    BY <1>1, CheckNodeSettles
  <2>. QED  BY <1>2, <2>1 DEF CallCheckNode, Step
<1>3. ASSUME NEW v \in BOOLEAN, CallCheckAllNodes(v) PROVE Settled(tree')
  <2>1. Settled(CheckAllNodes(tree, v))
    BY <1>1, AllSettle
  <2>. QED  BY <1>3, <2>1 DEF CallCheckAllNodes, Step
<1>4. ASSUME NEW n \in InTree(tree), NEW v \in BOOLEAN, NEW p \in BOOLEAN, NEW s \in BOOLEAN,
             CallSetChkDisabled(n, v, p, s)
      PROVE  Settled(tree')
  <2>1. /\ tree' = SetChkDisabled(tree, n, v, p, s)
        /\ HasKids(tree, n) \/ p => "disableInner" \in Script
    BY <1>4 DEF CallSetChkDisabled, Step
  <2>2. ~HasKids(tree, n) /\ p = FALSE
    BY <2>1 DEF Orderly
  <2>3. Settled(SetChkDisabled(tree, n, v, FALSE, s))
    BY <1>1, <2>2, DisablingSettles
  <2>. QED  BY <2>1, <2>2, <2>3
<1>. QED  BY <1>2, <1>3, <1>4

LEMMA NodesSettle ==
  ASSUME IInv, Settled(tree), Orderly
  PROVE  /\ \A n \in InTree(tree) : CallRemoveNode(n) \/ CallRemoveChildNodes(n) => Settled(tree')
         /\ \A p \in InTree(tree) \cup {Root}, index \in -1 .. Cardinality(Node), silent, v \in BOOLEAN :
              CallAddNodes(p, index, silent, v) => Settled(tree')
<1>1. /\ Sound(tree) /\ InTree(tree) = tree.cached /\ tree.cached \subseteq Node
      /\ Agree(tree) /\ tree \in Tree
  BY NodesAre DEF IInv
<1>2. ASSUME NEW n \in InTree(tree), CallRemoveNode(n) \/ CallRemoveChildNodes(n) PROVE Settled(tree')
  <2>1. tree' = RemoveNode(tree, n)
    BY <1>2 DEF CallRemoveNode, CallRemoveChildNodes, Step, Orderly
  <2>2. Settled(RemoveNode(tree, n))
    BY <1>1, RemoveNodeIs
  <2>. QED  BY <2>1, <2>2
<1>3. ASSUME NEW p \in InTree(tree) \cup {Root}, NEW index \in -1 .. Cardinality(Node),
             NEW silent \in BOOLEAN, NEW v \in BOOLEAN, CallAddNodes(p, index, silent, v)
      PROVE  Settled(tree')
  <2>. DEFINE x == Spare
              t == [tree EXCEPT !.checked = Assign(@, x, v)]
  <2>1. /\ tree' = AddNodes(t, p, index, <<x>>, silent) /\ Unused # {} /\ index < Len(tree.kids[p])
    BY <1>3 DEF CallAddNodes, Step
  <2>2. x \in Node \ tree.cached /\ index \in Int
    BY <1>1, <2>1 DEF Spare, Unused
  <2>. HIDE DEF x
  <2>3. t \in Differ(tree, {"checked"}) /\ Touched(tree, t, {x})
    BY <1>1, <2>2, AssignTouches
  <2>. HIDE DEF t
  <2>4. t.cached = tree.cached /\ t.kids = tree.kids /\ t \in Differ(tree, BoxFields)
    BY <2>3 DEF Differ, Fields, BoxFields
  <2>5. Sound(t)
    BY <1>1, <2>4, BoxesApart
  <2>6. Settled(t)
    <3>1. SettledBut(t, {} \cup {x} \cup ParentsOf(tree, {x}))
      BY <1>1, <2>2, <2>3, Disturbed DEF Settled
    <3>2. tree.parent[x] = Root /\ Root \notin tree.cached
      BY <1>1, <2>2, NoSons, TreeAssumption
    <3>3. ({} \cup {x} \cup ParentsOf(tree, {x})) \cap t.cached \subseteq {}
      BY <2>2, <2>4, <3>2 DEF ParentsOf
    <3>. QED  BY <3>1, <3>3, SettledLess DEF Settled
  <2>7. Adds(t, p, index, x)
    BY <1>1, <2>1, <2>2, <2>4, <2>5 DEF Adds
  <2>8. Settled(AddNodes(t, p, index, <<x>>, silent))
    BY <2>6, <2>7, AddNodesIs
  <2>. QED  BY <2>1, <2>8
<1>. QED  BY <1>2, <1>3

\* Every box that is drawn shows what the boxes below it say, after every click
\* and call: those that a call does not repair are right as they are.
THEOREM BoxesStayCurrent == Spec => []BoxesCurrent
<1>. DEFINE J == Orderly => Settled(tree)
<1>1. Init => IInv /\ J
  <2>. SUFFICES ASSUME Init PROVE Settled(tree)
    BY InitIs
  <2>. DEFINE s == page.setting
              data == page.data
  <2>1. page \in Pages /\ tree = InitTree(s, data) /\ s \in Setting /\ WellFormed(data)
    BY PagesAssumption DEF Init
  <2>. HIDE DEF s, data
  <2>2. PICK K, up : Data(data, K, up)
    BY <2>1, GivenData
  <2>. QED  BY <2>1, <2>2, InitTreeIs
<1>2. IInv /\ J /\ [Next]_vars => J'
  <2>. SUFFICES ASSUME IInv, J, [Next]_vars, Orderly' PROVE Settled(tree')
    OBVIOUS
  <2>1. page' = page
    BY NextChanges
  <2>2. Orderly
    BY <2>1 DEF Orderly, Script
  <2>3. Settled(tree)
    BY <2>2
  <2>4. CASE UNCHANGED vars
    BY <2>3, <2>4 DEF vars
  <2>5. CASE Next
    BY <2>2, <2>3, <2>5, ClicksSettle, ViewsSettle, ChecksSettle, NodesSettle DEF Next
  <2>. QED  BY <2>4, <2>5
<1>3. IInv /\ J => BoxesCurrent
  <2>. SUFFICES ASSUME IInv, Settled(tree), tree.setting.enable, NEW n \in tree.li \ tree.nocheck,
                       Plain(tree, n)
                PROVE  tree.box[n] = ChkImage(MakeChkFlag(tree, n), n)
    BY DEF BoxesCurrent, Orderly
  <2>. DEFINE S == Under(tree, n) \cup {n}
  <2>1. /\ Agree(tree) /\ tree.li \subseteq tree.cached /\ tree.cached \subseteq Node
    BY NodesAre DEF IInv, Sound, Pictured
  <2>2. Under(tree, n) = {k \in tree.cached : tree.parent[k] \in {n} \cup Under(tree, n)}
    BY <2>1, UnderIs
  <2>3. \A q \in Node : Kids(tree, q) = {k \in tree.cached : tree.parent[k] = q}
    BY <2>1 DEF Agree
  <2>4. \A q \in S : q \in Node /\ Kids(tree, q) \subseteq S
    BY <2>1, <2>2, <2>3
  <2>5. \A q \in S : q \notin tree.half /\ (q \in Fixed(tree) => ~HasKids(tree, q))
    BY DEF Plain
  <2>6. S \in SUBSET Node /\ n \in S
    BY <2>4
  <2>. HIDE DEF S
  <2>7. Simple(tree, n)
    BY <2>4, <2>5, <2>6 DEF Simple, Flawless
  <2>8. Right(tree, n)
    BY <2>1, <2>7 DEF Settled, SettledBut
  <2>. QED  BY <2>8 DEF Right, Says
<1>. QED  BY <1>1, <1>2, <1>3, Invariance, PTL DEF Spec
=============================================================================
