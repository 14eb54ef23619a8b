----------------------------- MODULE ShmTreeProofs -----------------------------
(***************************************************************************)
(* Proof that the leftist tree of ShmTreeSet stays one tree of the nodes   *)
(* in the pool, for any finite set of positions.                           *)
(***************************************************************************)
EXTENDS ShmTreeSet, NumberFacts, FiniteSetTheorems, TLAPS

Links == [rank : Int, root : Link, left : Link, right : Link]

\* z hangs under y, a member of S, by a link that is not cut: cl and cr are the
\* nodes whose left and whose right link is cut.
Kid(node, S, cl, cr, y, z) ==
    /\ y \in S
    /\ z # SHM_NULL
    /\ (y \notin cl /\ node[y].left = z) \/ (y \notin cr /\ node[y].right = z)

\* The uncut links stay in S, lead upwards and are answered by the root link.
Forest(node, S, cl, cr) ==
    /\ \A y, z \in Node : Kid(node, S, cl, cr, y, z) => z \in S /\ y < z /\ node[z].root = y
    /\ \A y \in S \ (cl \cup cr) : node[y].left = node[y].right => node[y].left = SHM_NULL

\* z heads a tree of the forest.
Top(node, S, cl, cr, z) == z \in S /\ \A y \in Node : ~ Kid(node, S, cl, cr, y, z)

\* y is below the trees at a and b.
Under(y, a, b) == (a # SHM_NULL => y < a) /\ (b # SHM_NULL => y < b)

\* a and b may be merged in the forest: each is the head of a tree or NULL, they are
\* two, and every cut link is below them.
MayMerge(node, S, cl, cr, a, b) ==
    /\ node \in [Node -> Links] /\ S \subseteq Node /\ cl \subseteq Node /\ cr \subseteq Node
    /\ a \in Link /\ b \in Link
    /\ Forest(node, S, cl, cr)
    /\ a # SHM_NULL => Top(node, S, cl, cr, a)
    /\ b # SHM_NULL => Top(node, S, cl, cr, b)
    /\ a = b => a = SHM_NULL
    /\ \A y \in cl \cup cr : Under(y, a, b)

\* s is a forest of the same nodes with a and b made one tree, headed by the lower.
Merged(s, node, S, cl, cr, a, b) ==
    /\ s.ends = TRUE
    /\ s.node \in [Node -> Links]
    /\ s.pos \in Link
    /\ Forest(s.node, S, cl, cr)
    /\ s.pos = IF a = SHM_NULL THEN b ELSE IF b = SHM_NULL \/ a < b THEN a ELSE b
    /\ \A z \in Node : Top(s.node, S, cl, cr, z) <=>
         z = s.pos \/ (Top(node, S, cl, cr, z) /\ z # a /\ z # b)
    /\ \A y \in Node : y \notin S \/ Under(y, a, b) => s.node[y] = node[y]
    /\ s.pos # SHM_NULL => s.node[s.pos].root = node[s.pos].root

\* Cutting the right link of a leaves the forest with one tree more, headed by r, and the
\* call below may merge it with the tree at b.
CutOff(node, S, cl, cr, a, b, r) ==
    /\ MayMerge(node, S, cl, cr \cup {a}, r, b)
    /\ a \in S \ cr /\ a \notin cl
    /\ r # SHM_NULL => r \in S /\ a < r /\ ~ Top(node, S, cl, cr, r)
    /\ \A z \in Node : Top(node, S, cl, cr \cup {a}, z) <=>
         Top(node, S, cl, cr, z) \/ z = r

\* s is what a call returns that hangs the outcome sub of the call below under t.
Hung(s, t, sub) == s = [node |-> Join(sub.node, t, sub.pos), pos |-> t, ends |-> TRUE]

-----------------------------------------------------------------------------
(* The recursion of shm_tree_merge *)

\* The number of calls that may be pending is a number.
LEMMA FuelIs == Fuel \in Nat /\ Cardinality(Node) \in Nat /\ Fuel > Cardinality(Node)
BY NodeAssumption, FS_CardinalityType DEF Fuel

\* There is a function that answers each call by the answers of the calls with one
\* fewer below them, and Merge is one.
LEMMA MergeUnfold ==
    ASSUME NEW node, NEW n \in 0 .. Fuel
    PROVE  Merge(node)[n] = MergeCall(node, IF n = 0 THEN NoReturn(node) ELSE Merge(node)[n - 1])
<1> DEFINE Below(g, k) == IF k = 0 THEN NoReturn(node) ELSE g[k - 1]
           Calls(g, N) == [k \in 0 .. N |-> MergeCall(node, Below(g, k))]
           Bad == {N \in Nat : ~ \E g : g = Calls(g, N)}
           merge == CHOOSE g : g = Calls(g, Fuel)
<1>0. Fuel \in Nat
  BY FuelIs
<1>1. Merge(node) = merge
  BY DEF Merge
<1> HIDE DEF merge
<1>2. Bad = {}
  <2>1. SUFFICES ASSUME Bad # {} PROVE FALSE
    OBVIOUS
  <2>2. PICK N \in Bad : \A k \in Bad : N <= k
    <3>1. Bad \in SUBSET Nat
      OBVIOUS
    <3> HIDE DEF Bad
    <3> QED BY <2>1, <3>1, MinIs
  <2>3. N # 0
    <3>1. SUFFICES ASSUME N = 0 PROVE \E g : g = Calls(g, N)
      BY <2>2
    <3> DEFINE g == [k \in 0 .. 0 |-> MergeCall(node, NoReturn(node))]
    <3>2. g = Calls(g, 0)
      <4>1. \A k \in 0 .. 0 : Below(g, k) = NoReturn(node)
        OBVIOUS
      <4> HIDE DEF Below
      <4> QED BY <4>1
    <3> QED BY <3>1, <3>2
  <2>4. N - 1 \in Nat /\ N \in Nat
    BY <2>2, <2>3
  <2>5. PICK g : g = Calls(g, N - 1)
    <3>1. N - 1 \notin Bad
      BY <2>2, <2>4
    <3> QED BY <2>4, <3>1
  <2> DEFINE h == [k \in 0 .. N |-> IF k < N THEN g[k] ELSE MergeCall(node, Below(g, k))]
  <2>6. \A k \in 0 .. N : Below(h, k) = Below(g, k)
    BY <2>4
  <2>7. \A k \in 0 .. N : h[k] = MergeCall(node, Below(g, k))
    <3> HIDE DEF Below
    <3>1. \A k \in 0 .. (N - 1) : g[k] = MergeCall(node, Below(g, k))
      BY <2>5
    <3> QED BY <2>4, <3>1
  <2>8. h = Calls(h, N)
    <3>1. h = [k \in 0 .. N |-> h[k]]
      OBVIOUS
    <3> HIDE DEF h, Below
    <3> QED BY <2>6, <2>7, <3>1
  <2> QED BY <2>2, <2>8
<1>3. merge = Calls(merge, Fuel)
  <2>1. \E g : g = Calls(g, Fuel)
    BY <1>0, <1>2
  <2> HIDE DEF Calls
  <2> QED BY <2>1 DEF merge
<1>4. merge[n] = MergeCall(node, Below(merge, n))
  <2> HIDE DEF Below
  <2> QED BY <1>3
<1> QED BY <1>1, <1>4

\* A call that is given no tree on one side returns the other.
LEMMA CallNull ==
    ASSUME NEW node, NEW deeper, NEW a \in Link, NEW b \in Link, a = SHM_NULL \/ b = SHM_NULL
    PROVE  MergeCall(node, deeper)[<<a, b>>] =
             [node |-> node, pos |-> IF a = SHM_NULL THEN b ELSE a, ends |-> TRUE]
BY DEF MergeCall

\* A call that is given two trees hangs what the call below returns under the lower.
LEMMA CallBoth ==
    ASSUME NEW node, NEW deeper, NEW a \in Node, NEW b \in Node, a < b,
           deeper[<<node[a].right, b>>].ends = TRUE
    PROVE  Hung(MergeCall(node, deeper)[<<a, b>>], a, deeper[<<node[a].right, b>>])
           /\ Hung(MergeCall(node, deeper)[<<b, a>>], a, deeper[<<node[a].right, b>>])
<1> DEFINE s == [node |-> Join(deeper[<<node[a].right, b>>].node, a,
                               deeper[<<node[a].right, b>>].pos),
                 pos |-> a, ends |-> TRUE]
           Low(t)  == IF t[1] > t[2] THEN t[2] ELSE t[1]
           High(t) == IF t[1] > t[2] THEN t[1] ELSE t[2]
           Sub(t)  == deeper[<<node[Low(t)].right, High(t)>>]
<1>1. a \in Nat /\ b \in Nat /\ a # SHM_NULL /\ b # SHM_NULL
  BY NodeAssumption
<1>2. ASSUME NEW t \in {<<a, b>>, <<b, a>>} PROVE MergeCall(node, deeper)[t] = s
  <2>1. t \in Link \X Link /\ t[1] # SHM_NULL /\ t[2] # SHM_NULL
    BY <1>1 DEF Link
  <2>2. Low(t) = a /\ High(t) = b
    BY <1>1
  <2>3. MergeCall(node, deeper)[t] =
          IF ~ Sub(t).ends THEN Sub(t)
          ELSE [node |-> Join(Sub(t).node, Low(t), Sub(t).pos), pos |-> Low(t), ends |-> TRUE]
    BY <2>1 DEF MergeCall
  <2> HIDE DEF Low, High
  <2> QED BY <2>2, <2>3
<1> QED BY <1>2 DEF Hung

\* Join gives t the two subtrees it had and r, in one order or the other, and r its new
\* parent; it changes no other node.
LEMMA JoinIs ==
    ASSUME NEW node \in [Node -> Links], NEW t \in Node, NEW r \in Node, t # r,
           NEW f, f = Join(node, t, r)
    PROVE  /\ f \in [Node -> Links]
           /\ \A y \in Node : y # t /\ y # r => f[y] = node[y]
           /\ f[r].left = node[r].left /\ f[r].right = node[r].right /\ f[r].root = t
           /\ f[t].root = node[t].root
           /\ \/ f[t].left = node[t].left /\ f[t].right = r /\ node[t].left # SHM_NULL
              \/ f[t].left = r /\ f[t].right = node[t].left
<1> DEFINE m == [[node EXCEPT ![r].root = t] EXCEPT ![t].right = r]
           l == m[t].left
<1>1. /\ m \in [Node -> Links]
      /\ \A y \in Node : y # t /\ y # r => m[y] = node[y]
      /\ m[r] = [node[r] EXCEPT !.root = t]
      /\ m[t] = [node[t] EXCEPT !.right = r]
  BY DEF Links, Link
<1>2. l \in Link /\ l = node[t].left
  BY <1>1 DEF Links
<1>3. f = IF l = SHM_NULL
          THEN [m EXCEPT ![t] = [@ EXCEPT !.left = r, !.right = SHM_NULL]]
          ELSE IF m[l].rank < m[r].rank
          THEN [m EXCEPT ![t] = [@ EXCEPT !.left = r, !.right = l, !.rank = m[l].rank + 1]]
          ELSE [m EXCEPT ![t].rank = m[r].rank + 1]
  BY DEF Join
<1> HIDE DEF m, l
<1>4. \E k \in Int : \E x, y \in Link :
        /\ f = [m EXCEPT ![t] = [rank |-> k, root |-> node[t].root, left |-> x, right |-> y]]
        /\ (x = node[t].left /\ y = r /\ node[t].left # SHM_NULL) \/ (x = r /\ y = node[t].left)
  <2>1. r \in Link /\ SHM_NULL \in Link
    BY DEF Link
  <2>2. m[t].rank \in Int /\ m[r].rank \in Int /\ node[t].rank \in Int
    BY <1>1 DEF Links
  <2>3. m[t] = [rank |-> node[t].rank, root |-> node[t].root, left |-> l, right |-> r]
    BY <1>1, <1>2 DEF Links
  <2>4. CASE l = SHM_NULL
    <3>1. f = [m EXCEPT ![t] = [rank |-> node[t].rank, root |-> node[t].root,
                                left |-> r, right |-> l]]
      <4>1. [m[t] EXCEPT !.left = r, !.right = SHM_NULL]
              = [rank |-> node[t].rank, root |-> node[t].root, left |-> r, right |-> l]
        <5> DEFINE u == [m[t] EXCEPT !.left = r]
        <5>1. u = [rank |-> node[t].rank, root |-> node[t].root, left |-> r, right |-> r]
          BY <2>3
        <5>2. [m[t] EXCEPT !.left = r, !.right = SHM_NULL] = [u EXCEPT !.right = SHM_NULL]
          OBVIOUS
        <5> HIDE DEF u
        <5>3. [u EXCEPT !.right = SHM_NULL]
                = [rank |-> node[t].rank, root |-> node[t].root, left |-> r, right |-> l]
          BY <2>4, <5>1
        <5> QED BY <5>2, <5>3
      <4> QED BY <1>3, <2>4, <4>1
    <3> QED BY <1>2, <2>1, <2>2, <3>1
  <2>5. CASE l # SHM_NULL /\ m[l].rank < m[r].rank
    <3>1. m[l].rank + 1 \in Int
      BY <1>1, <1>2, <2>5 DEF Links, Link
    <3>2. f = [m EXCEPT ![t] = [rank |-> m[l].rank + 1, root |-> node[t].root,
                                left |-> r, right |-> l]]
      <4>1. [m[t] EXCEPT !.left = r, !.right = l, !.rank = m[l].rank + 1]
              = [rank |-> m[l].rank + 1, root |-> node[t].root, left |-> r, right |-> l]
        <5> DEFINE u == [m[t] EXCEPT !.left = r]
                   v == [u EXCEPT !.right = l]
        <5>1. u = [rank |-> node[t].rank, root |-> node[t].root, left |-> r, right |-> r]
          BY <2>3
        <5>2. [m[t] EXCEPT !.left = r, !.right = l, !.rank = m[l].rank + 1]
                = [v EXCEPT !.rank = m[l].rank + 1]
          OBVIOUS
        <5> HIDE DEF u
        <5>3. v = [rank |-> node[t].rank, root |-> node[t].root, left |-> r, right |-> l]
          BY <5>1
        <5> HIDE DEF v
        <5>4. [v EXCEPT !.rank = m[l].rank + 1]
                = [rank |-> m[l].rank + 1, root |-> node[t].root, left |-> r, right |-> l]
          BY <5>3
        <5> QED BY <5>2, <5>4
      <4> QED BY <1>3, <2>5, <4>1
    <3> QED BY <1>2, <2>1, <3>1, <3>2
  <2>6. CASE l # SHM_NULL /\ ~ (m[l].rank < m[r].rank)
    <3>1. f = [m EXCEPT ![t] = [rank |-> m[r].rank + 1, root |-> node[t].root,
                                left |-> l, right |-> r]]
      <4>1. [m[t] EXCEPT !.rank = m[r].rank + 1]
              = [rank |-> m[r].rank + 1, root |-> node[t].root, left |-> l, right |-> r]
        BY <2>3
      <4>2. f = [m EXCEPT ![t] = [m[t] EXCEPT !.rank = m[r].rank + 1]]
        BY <1>3, <2>6
      <4> QED BY <4>1, <4>2
    <3>2. m[r].rank + 1 \in Int
      BY <2>2
    <3> QED BY <1>2, <2>1, <2>6, <3>1, <3>2
  <2> QED BY <2>4, <2>5, <2>6
<1>5. PICK k \in Int, x \in Link, y \in Link :
        /\ f = [m EXCEPT ![t] = [rank |-> k, root |-> node[t].root, left |-> x, right |-> y]]
        /\ (x = node[t].left /\ y = r /\ node[t].left # SHM_NULL) \/ (x = r /\ y = node[t].left)
  BY <1>4
<1>6. f \in [Node -> Links]
  BY <1>1, <1>5 DEF Links
<1>7. f[t] = [rank |-> k, root |-> node[t].root, left |-> x, right |-> y]
  BY <1>1, <1>5
<1>8. \A z \in Node : z # t => f[z] = m[z]
  BY <1>1, <1>5
<1>9. f[r].left = node[r].left /\ f[r].right = node[r].right /\ f[r].root = t
  BY <1>1, <1>8 DEF Links
<1> QED BY <1>1, <1>5, <1>6, <1>7, <1>8, <1>9

\* The order of the two trees does not matter.
LEMMA Symmetric ==
    ASSUME NEW node, NEW S, NEW cl, NEW cr, NEW a \in Link, NEW b \in Link, NEW s,
           a # b
    PROVE  /\ MayMerge(node, S, cl, cr, a, b) => MayMerge(node, S, cl, cr, b, a)
           /\ Merged(s, node, S, cl, cr, a, b) => Merged(s, node, S, cl, cr, b, a)
<1>1. MayMerge(node, S, cl, cr, a, b) => MayMerge(node, S, cl, cr, b, a)
  BY DEF MayMerge, Under
<1>2. ASSUME Merged(s, node, S, cl, cr, a, b) PROVE Merged(s, node, S, cl, cr, b, a)
  <2>1. s.pos = IF b = SHM_NULL THEN a ELSE IF a = SHM_NULL \/ b < a THEN b ELSE a
    <3>1. s.pos = IF a = SHM_NULL THEN b ELSE IF b = SHM_NULL \/ a < b THEN a ELSE b
      BY <1>2 DEF Merged
    <3>2. a # SHM_NULL /\ b # SHM_NULL => a \in Nat /\ b \in Nat
      BY NodeAssumption DEF Link
    <3> QED BY <3>1, <3>2
  <2> QED BY <1>2, <2>1 DEF Merged, Under
<1> QED BY <1>1, <1>2

\* The call below may merge the right subtree of the lower tree with the higher one, once
\* the right link is cut, and this cuts off that subtree and no other.
LEMMA StepDown ==
    ASSUME NEW node, NEW S, NEW cl, NEW cr, NEW a \in Node, NEW b \in Node, a < b,
           MayMerge(node, S, cl, cr, a, b),
           NEW r, r = node[a].right
    PROVE  CutOff(node, S, cl, cr, a, b, r)
<1> DEFINE cs == cr \cup {a}
<1>1. /\ node \in [Node -> Links] /\ S \subseteq Node /\ cl \subseteq Node /\ cr \subseteq Node
      /\ Forest(node, S, cl, cr)
      /\ Top(node, S, cl, cr, a)
      /\ Top(node, S, cl, cr, b)
      /\ \A y \in cl \cup cr : y < a /\ y < b
  BY NodeAssumption DEF MayMerge, Under
<1>2. a \in S /\ a \in Nat /\ b \in Nat /\ b \in S /\ r \in Link /\ a # SHM_NULL /\ b # SHM_NULL
  BY <1>1, NodeAssumption DEF Top, Links
<1>3. a \notin cl /\ a \notin cr
  BY <1>1, <1>2
<1>4. ASSUME r # SHM_NULL PROVE r \in Node /\ r \in S /\ a < r /\ node[r].root = a
                                /\ Kid(node, S, cl, cr, a, r)
  <2>1. r \in Node
    BY <1>2, <1>4 DEF Link
  <2>2. Kid(node, S, cl, cr, a, r)
    BY <1>2, <1>3, <1>4 DEF Kid
  <2> QED BY <1>1, <2>1, <2>2 DEF Forest
<1>5. \A y, z \in Node : Kid(node, S, cl, cr, y, z) <=>
        Kid(node, S, cl, cs, y, z) \/ (y = a /\ z = r)
  BY <1>2, <1>3, NodeAssumption DEF Kid
<1>6. Forest(node, S, cl, cs)
  BY <1>1, <1>5 DEF Forest
<1>7. r # SHM_NULL => Top(node, S, cl, cs, r)
  <2>1. SUFFICES ASSUME r # SHM_NULL, NEW y \in Node, Kid(node, S, cl, cs, y, r) PROVE FALSE
    BY <1>4 DEF Top
  <2>2. Kid(node, S, cl, cr, y, r)
    BY <1>4, <1>5, <2>1
  <2>3. y = a
    BY <1>1, <1>4, <2>1, <2>2 DEF Forest
  <2>4. node[a].left = r
    BY <2>1, <2>3 DEF Kid
  <2> QED BY <1>1, <1>2, <1>3, <2>1, <2>4 DEF Forest
<1>8. \A z \in Node : Top(node, S, cl, cs, z) <=> Top(node, S, cl, cr, z) \/ z = r
  <2>1. \A z \in Node : Top(node, S, cl, cr, z) => Top(node, S, cl, cs, z)
    BY <1>5 DEF Top
  <2>2. \A z \in Node : z = r => Top(node, S, cl, cs, z)
    BY <1>7, NodeAssumption
  <2>3. \A z \in Node : Top(node, S, cl, cs, z) /\ z # r => Top(node, S, cl, cr, z)
    BY <1>5 DEF Top
  <2> QED BY <2>1, <2>2, <2>3
<1>9. r # SHM_NULL => ~ Top(node, S, cl, cr, r)
  BY <1>4 DEF Top
<1>10. r = b => r = SHM_NULL
  BY <1>1, <1>9
<1>11. \A y \in cl \cup cs : Under(y, r, b)
  <2>1. \A y \in cl \cup cs : y \in Nat
    BY <1>1, NodeAssumption
  <2>2. r # SHM_NULL => r \in Nat
    BY <1>4, NodeAssumption
  <2> QED BY <1>1, <1>2, <1>4, <2>1, <2>2 DEF Under
<1>12. MayMerge(node, S, cl, cs, r, b)
  <2>1. cs \subseteq Node /\ b \in Link /\ Top(node, S, cl, cs, b)
    BY <1>1, <1>8 DEF Link
  <2> QED BY <1>1, <1>2, <1>6, <1>7, <1>10, <1>11, <2>1 DEF MayMerge
<1> QED BY <1>2, <1>3, <1>4, <1>8, <1>9, <1>12 DEF CutOff

\* Hanging what the call below returns under the lower tree mends the cut: the forest has
\* one tree fewer.
LEMMA StepUp ==
    ASSUME NEW node, NEW S, NEW cl, NEW cr, NEW a \in Node, NEW b \in Node, a < b,
           MayMerge(node, S, cl, cr, a, b),
           NEW r, r = node[a].right,
           NEW sub, Merged(sub, node, S, cl, cr \cup {a}, r, b),
           NEW s, s = [node |-> Join(sub.node, a, sub.pos), pos |-> a, ends |-> TRUE]
    PROVE  Merged(s, node, S, cl, cr, a, b)
<1> DEFINE cs == cr \cup {a}
           p == sub.pos
           f == Join(sub.node, a, sub.pos)
           l == node[a].left
<1>1. /\ node \in [Node -> Links] /\ S \subseteq Node /\ cl \subseteq Node /\ cr \subseteq Node
      /\ Top(node, S, cl, cr, a)
      /\ Top(node, S, cl, cr, b)
      /\ a \in S \ cr /\ a \notin cl
      /\ r # SHM_NULL => r \in S /\ a < r /\ ~ Top(node, S, cl, cr, r)
      /\ r \in Link
      /\ \A z \in Node : Top(node, S, cl, cs, z) <=> Top(node, S, cl, cr, z) \/ z = r
  <2>1. a # SHM_NULL /\ b # SHM_NULL
    BY NodeAssumption
  <2>2. /\ MayMerge(node, S, cl, cs, r, b)
        /\ a \in S \ cr /\ a \notin cl
        /\ r # SHM_NULL => r \in S /\ a < r /\ ~ Top(node, S, cl, cr, r)
        /\ \A z \in Node : Top(node, S, cl, cs, z) <=> Top(node, S, cl, cr, z) \/ z = r
    <3>1. CutOff(node, S, cl, cr, a, b, r)
      BY StepDown
    <3> QED BY <3>1 DEF CutOff
  <2>3. r \in Link
    BY <2>2 DEF MayMerge
  <2> HIDE DEF cs
  <2> QED BY <2>1, <2>2, <2>3 DEF MayMerge
<1>2. a \in Nat /\ b \in Nat /\ a # SHM_NULL /\ b # SHM_NULL /\ b \in S /\ S \subseteq Nat
  BY <1>1, NodeAssumption DEF Top
<1>3. p \in S /\ a < p /\ (p = b \/ p = r) /\ p # SHM_NULL /\ p \in Node
  <2>1. p = IF r = SHM_NULL THEN b ELSE IF b = SHM_NULL \/ r < b THEN r ELSE b
    BY DEF Merged
  <2>2. p \in S /\ a < p /\ (p = b \/ p = r)
    BY <1>1, <1>2, <2>1
  <2> QED BY <1>1, <2>2, NodeAssumption
<1>4. /\ sub.node \in [Node -> Links]
      /\ Forest(sub.node, S, cl, cs)
      /\ \A z \in Node : Top(sub.node, S, cl, cs, z) <=>
           z = p \/ (Top(node, S, cl, cs, z) /\ z # r /\ z # b)
      /\ \A y \in Node : y \notin S \/ Under(y, r, b) => sub.node[y] = node[y]
  BY DEF Merged
<1>5. Under(a, r, b) /\ sub.node[a] = node[a]
  <2>1. Under(a, r, b)
    BY <1>1 DEF Under
  <2> QED BY <1>4, <2>1
<1>6. Top(sub.node, S, cl, cs, p)
  BY <1>3, <1>4
<1>7. /\ f \in [Node -> Links]
      /\ \A y \in Node : y # a /\ y # p => f[y] = sub.node[y]
      /\ f[p].left = sub.node[p].left /\ f[p].right = sub.node[p].right /\ f[p].root = a
      /\ f[a].root = node[a].root
      /\ \/ f[a].left = l /\ f[a].right = p /\ l # SHM_NULL
         \/ f[a].left = p /\ f[a].right = l
  <2>1. a # p
    BY <1>2, <1>3, NodeAssumption
  <2> HIDE DEF p
  <2> QED BY <1>3, <1>4, <1>5, <2>1, JoinIs DEF p
<1>8. \A y \in Node : y # a => f[y].left = sub.node[y].left /\ f[y].right = sub.node[y].right
  BY <1>7
<1> HIDE DEF f, p
<1>9. \A y, z \in Node : Kid(f, S, cl, cr, y, z) <=>
        Kid(sub.node, S, cl, cs, y, z) \/ (y = a /\ z = p)
  <2>1. SUFFICES ASSUME NEW y \in Node, NEW z \in Node
                 PROVE  Kid(f, S, cl, cr, y, z) <=>
                          Kid(sub.node, S, cl, cs, y, z) \/ (y = a /\ z = p)
    OBVIOUS
  <2>2. CASE y # a
    BY <1>8, <2>2 DEF Kid
  <2>3. CASE y = a
    BY <1>1, <1>3, <1>5, <1>7, <2>3, NodeAssumption DEF Kid
  <2> QED BY <2>2, <2>3
<1>10. \A y, z \in Node : Kid(sub.node, S, cl, cs, y, z) => z # p
  BY <1>6 DEF Top
<1>11. Forest(f, S, cl, cr)
  <2>1. ASSUME NEW y \in Node, NEW z \in Node, Kid(f, S, cl, cr, y, z)
        PROVE  z \in S /\ y < z /\ f[z].root = y
    <3>1. CASE y = a /\ z = p
      BY <1>3, <1>7, <3>1
    <3>2. CASE Kid(sub.node, S, cl, cs, y, z)
      <4>1. z # p /\ z \in S /\ y < z /\ sub.node[z].root = y
        BY <1>4, <1>10, <3>2 DEF Forest
      <4>2. f[z].root = sub.node[z].root
        BY <1>5, <1>7, <4>1
      <4> QED BY <4>1, <4>2
    <3> QED BY <1>9, <2>1, <3>1, <3>2
  <2>2. ASSUME NEW y \in S \ (cl \cup cr), f[y].left = f[y].right PROVE f[y].left = SHM_NULL
    <3>1. CASE y = a
      <4>1. l # p
        <5>1. l # SHM_NULL => Kid(sub.node, S, cl, cs, a, l)
          BY <1>1, <1>5 DEF Kid
        <5>2. l \in Link
          BY <1>1 DEF Links
        <5> QED BY <1>3, <1>10, <5>1, <5>2 DEF Link
      <4> QED BY <1>7, <2>2, <3>1, <4>1
    <3>2. CASE y # a
      <4>1. y \in S \ (cl \cup cs) /\ y \in Node
        BY <1>1, <3>2
      <4> QED BY <1>4, <1>8, <2>2, <3>2, <4>1 DEF Forest
    <3> QED BY <3>1, <3>2
  <2> QED BY <2>1, <2>2 DEF Forest
<1>12. \A z \in Node : Top(f, S, cl, cr, z) <=>
         z = a \/ (Top(node, S, cl, cr, z) /\ z # a /\ z # b)
  <2>1. SUFFICES ASSUME NEW z \in Node
                 PROVE  Top(f, S, cl, cr, z) <=> Top(node, S, cl, cr, z) /\ z # b
    BY <1>1, <1>2
  <2>2. Top(f, S, cl, cr, z) <=> Top(sub.node, S, cl, cs, z) /\ z # p
    BY <1>9 DEF Top
  <2>3. Top(sub.node, S, cl, cs, z) /\ z # p <=>
          (Top(node, S, cl, cr, z) \/ z = r) /\ z # r /\ z # b /\ z # p
    BY <1>1, <1>4
  <2>4. r = z => ~ Top(node, S, cl, cr, z)
    BY <1>1, NodeAssumption
  <2> QED BY <1>3, <2>2, <2>3, <2>4
<1>13. ASSUME NEW y \in Node, y \notin S \/ Under(y, a, b) PROVE f[y] = node[y]
  <2>1. y \notin S \/ (y < a /\ y < b)
    BY <1>2, <1>13 DEF Under
  <2>2. y # a /\ y # p /\ (y \notin S \/ Under(y, r, b))
    <3>1. y \in Nat /\ p \in Nat /\ (r # SHM_NULL => r \in Nat)
      BY <1>1, <1>2, <1>3, NodeAssumption
    <3>2. y < a => y # p /\ (r # SHM_NULL => y < r)
      BY <1>1, <1>2, <1>3, <3>1
    <3>3. y < a => y # a
      BY <1>2, <3>1
    <3> QED BY <1>1, <1>3, <2>1, <3>2, <3>3 DEF Under
  <2> QED BY <1>4, <1>7, <2>2
<1>14. s.node = f /\ s.pos = a /\ s.ends = TRUE
  BY DEF f
<1>15. a \in Link
  BY DEF Link
<1> QED BY <1>2, <1>7, <1>11, <1>12, <1>13, <1>14, <1>15 DEF Merged

\* A call given the head of no tree on one side merges nothing.
LEMMA MergedNull ==
    ASSUME NEW node, NEW S, NEW cl, NEW cr, NEW a \in Link, NEW b \in Link,
           MayMerge(node, S, cl, cr, a, b), a = SHM_NULL \/ b = SHM_NULL,
           NEW s, s = [node |-> node, pos |-> IF a = SHM_NULL THEN b ELSE a, ends |-> TRUE]
    PROVE  Merged(s, node, S, cl, cr, a, b)
<1>1. s.node = node /\ s.pos = (IF a = SHM_NULL THEN b ELSE a) /\ s.ends = TRUE
  OBVIOUS
<1>2. \A z \in Node : Top(node, S, cl, cr, z) <=>
        z = s.pos \/ (Top(node, S, cl, cr, z) /\ z # a /\ z # b)
  BY <1>1, NodeAssumption DEF MayMerge
<1> QED BY <1>1, <1>2 DEF Merged, MayMerge

\* A call does what it should when the call it makes does.
LEMMA MergedBoth ==
    ASSUME NEW node, NEW S, NEW cl, NEW cr, NEW a \in Node, NEW b \in Node, a < b,
           MayMerge(node, S, cl, cr, a, b), NEW deeper,
           Merged(deeper[<<node[a].right, b>>], node, S, cl, cr \cup {a}, node[a].right, b)
    PROVE  /\ Merged(MergeCall(node, deeper)[<<a, b>>], node, S, cl, cr, a, b)
           /\ Merged(MergeCall(node, deeper)[<<b, a>>], node, S, cl, cr, b, a)
<1> DEFINE sub == deeper[<<node[a].right, b>>]
           s == [node |-> Join(sub.node, a, sub.pos), pos |-> a, ends |-> TRUE]
<1>1. Merged(s, node, S, cl, cr, a, b)
  BY StepUp
<1>2. a \in Nat /\ b \in Nat /\ a \in Link /\ b \in Link /\ a # b /\ ~ (b < a)
  BY NodeAssumption DEF Link
<1>3. sub.ends = TRUE
  BY DEF Merged
<1>4. MergeCall(node, deeper)[<<a, b>>] = s /\ MergeCall(node, deeper)[<<b, a>>] = s
  <2>1. Hung(MergeCall(node, deeper)[<<a, b>>], a, sub) /\ Hung(MergeCall(node, deeper)[<<b, a>>], a, sub)
    BY <1>3, CallBoth
  <2> HIDE DEF sub
  <2> QED BY <2>1 DEF Hung
<1> HIDE DEF s
<1>5. Merged(s, node, S, cl, cr, b, a)
  BY <1>1, <1>2, Symmetric
<1> QED BY <1>1, <1>4, <1>5

\* shm_tree_merge comes back, with the two trees made one.  Each call cuts the right link
\* of one more node on the way down, so no more calls are pending than there are nodes.
LEMMA MergeIs ==
    ASSUME NEW node, NEW S, NEW cl, NEW cr, NEW a, NEW b, MayMerge(node, S, cl, cr, a, b)
    PROVE  Merged(shm_tree_merge(node, a, b), node, S, cl, cr, a, b)
<1> DEFINE Claim(n) == \A c \in SUBSET Node : \A x, y \in Link :
             MayMerge(node, S, cl, c, x, y) /\ Cardinality(S \ c) <= n =>
               Merged(Merge(node)[n][<<x, y>>], node, S, cl, c, x, y)
           Bad == {n \in 0 .. Fuel : ~ Claim(n)}
<1>1. S \subseteq Node /\ IsFiniteSet(S) /\ Cardinality(S) <= Fuel /\ Fuel \in Nat
  <2>1. S \subseteq Node
    BY DEF MayMerge
  <2>2. IsFiniteSet(S) /\ Cardinality(S) <= Cardinality(Node) /\ Cardinality(S) \in Nat
    BY <2>1, NodeAssumption, FS_Subset, FS_CardinalityType
  <2> QED BY <2>1, <2>2, FuelIs
<1>2. Bad = {}
  <2>1. SUFFICES ASSUME Bad # {} PROVE FALSE
    OBVIOUS
  <2>2. PICK n \in Bad : \A k \in Bad : n <= k
    <3>1. Bad \in SUBSET Nat
      BY <1>1
    <3> HIDE DEF Bad
    <3> QED BY <2>1, <3>1, MinIs
  <2>3. n \in 0 .. Fuel /\ n \in Nat /\ ~ Claim(n)
    BY <1>1, <2>2
  <2> DEFINE deeper == IF n = 0 THEN NoReturn(node) ELSE Merge(node)[n - 1]
  <2>4. Merge(node)[n] = MergeCall(node, deeper)
    BY <2>3, MergeUnfold
  <2>5. n # 0 => Claim(n - 1)
    <3>1. n # 0 => n - 1 \in 0 .. Fuel /\ ~ (n <= n - 1)
      BY <1>1, <2>3
    <3> HIDE DEF Claim
    <3> QED BY <2>2, <3>1
  <2>6. PICK c \in SUBSET Node, x \in Link, y \in Link :
          /\ MayMerge(node, S, cl, c, x, y) /\ Cardinality(S \ c) <= n
          /\ ~ Merged(Merge(node)[n][<<x, y>>], node, S, cl, c, x, y)
    BY <2>3
  <2> HIDE DEF deeper
  <2>7. x # SHM_NULL /\ y # SHM_NULL
    <3>1. SUFFICES ASSUME x = SHM_NULL \/ y = SHM_NULL PROVE FALSE
      OBVIOUS
    <3> DEFINE s == [node |-> node, pos |-> IF x = SHM_NULL THEN y ELSE x, ends |-> TRUE]
    <3>2. MergeCall(node, deeper)[<<x, y>>] = s
      BY <3>1, CallNull
    <3>3. Merged(s, node, S, cl, c, x, y)
      BY <2>6, <3>1, MergedNull
    <3> HIDE DEF s
    <3> QED BY <2>4, <2>6, <3>2, <3>3
  <2>8. x \in Node /\ y \in Node /\ x # y /\ x \in Nat /\ y \in Nat
    BY <2>6, <2>7, NodeAssumption DEF Link, MayMerge
  <2>9. PICK p \in Node, q \in Node :
          /\ p < q
          /\ (p = x /\ q = y) \/ (p = y /\ q = x)
          /\ MayMerge(node, S, cl, c, p, q)
    <3>1. MayMerge(node, S, cl, c, y, x)
      BY <2>6, <2>8, Symmetric
    <3>2. x < y \/ y < x
      BY <2>8
    <3> QED BY <2>6, <2>8, <3>1, <3>2
  <2> DEFINE r == node[p].right
             cs == c \cup {p}
  <2>10. CutOff(node, S, cl, c, p, q, r)
    BY <2>9, StepDown
  <2>11. MayMerge(node, S, cl, cs, r, q) /\ p \in S \ c /\ r \in Link /\ q \in Link /\ cs \in SUBSET Node
    <3>1. MayMerge(node, S, cl, cs, r, q) /\ p \in S \ c
      BY <2>10 DEF CutOff
    <3> QED BY <3>1, <2>6 DEF MayMerge
  <2>12. n # 0 /\ Cardinality(S \ cs) <= n - 1
    <3>1. S \ cs = (S \ c) \ {p} /\ IsFiniteSet(S \ c)
      BY <1>1, FS_Subset
    <3>2. Cardinality(S \ cs) = Cardinality(S \ c) - 1 /\ Cardinality(S \ c) \in Nat
          /\ Cardinality(S \ cs) \in Nat
      <4>1. IsFiniteSet(S \ cs)
        BY <1>1, FS_Subset
      <4> DEFINE T == S \ c
      <4>2. IsFiniteSet(T) /\ p \in T
        BY <2>11, <3>1
      <4> HIDE DEF T
      <4>3. Cardinality(T \ {p}) = Cardinality(T) - 1
        BY <4>2, FS_RemoveElement
      <4> QED BY <3>1, <4>1, <4>2, <4>3, FS_CardinalityType DEF T
    <3> QED BY <2>3, <2>6, <3>2
  <2>13. deeper = Merge(node)[n - 1]
    BY <2>12 DEF deeper
  <2> HIDE DEF cs, r
  <2>14. Merged(deeper[<<r, q>>], node, S, cl, cs, r, q)
    BY <2>5, <2>11, <2>12, <2>13
  <2>15. /\ Merged(MergeCall(node, deeper)[<<p, q>>], node, S, cl, c, p, q)
         /\ Merged(MergeCall(node, deeper)[<<q, p>>], node, S, cl, c, q, p)
    BY <2>9, <2>14, MergedBoth DEF cs, r
  <2> QED BY <2>4, <2>6, <2>9, <2>15
<1>3. Claim(Fuel)
  <2> HIDE DEF Claim
  <2> QED BY <1>1, <1>2
<1>4. cr \in SUBSET Node /\ a \in Link /\ b \in Link
  BY DEF MayMerge
<1>5. Cardinality(S \ cr) <= Fuel
  <2>1. Cardinality(S \ cr) <= Cardinality(S) /\ Cardinality(S \ cr) \in Nat /\ Cardinality(S) \in Nat
    BY <1>1, FS_Subset, FS_CardinalityType
  <2> QED BY <1>1, <2>1
<1>6. Merged(Merge(node)[Fuel][<<a, b>>], node, S, cl, cr, a, b)
  BY <1>3, <1>4, <1>5
<1> QED BY <1>6 DEF shm_tree_merge

-----------------------------------------------------------------------------
(* The operations *)

\* The nodes of S are one tree, headed by root.
OneTree(node, S, root) ==
    /\ Forest(node, S, {}, {})
    /\ \A z \in Node : Top(node, S, {}, {}, z) <=> z = root
    /\ root # SHM_NULL => node[root].root = SHM_NULL

\* a and b may be merged, and the trees of the forest are headed by the nodes of heads.
Apart(node, S, cl, cr, a, b, heads) ==
    /\ MayMerge(node, S, cl, cr, a, b)
    /\ \A z \in Node : Top(node, S, cl, cr, z) <=> z \in heads

\* The head of the tree is its lowest node, and only the empty tree has none.
LEMMA RootIsMin ==
    ASSUME NEW node, NEW S \in SUBSET Node, NEW root \in Link, OneTree(node, S, root)
    PROVE  /\ root = IF S = {} THEN SHM_NULL ELSE Min(S)
           /\ root # SHM_NULL => root \in S /\ \A y \in S : root <= y
<1>1. ASSUME S # {} PROVE root = Min(S) /\ root \in S /\ \A y \in S : root <= y
  <2>1. S \in SUBSET Nat
    BY NodeAssumption
  <2>2. Min(S) \in S /\ \A y \in S : Min(S) <= y
    BY <1>1, <2>1, MinIs
  <2> DEFINE m == Min(S)
  <2> HIDE DEF m
  <2>3. m \in S /\ \A y \in S : m <= y
    BY <2>2 DEF m
  <2>4. ASSUME NEW y \in Node, Kid(node, S, {}, {}, y, m) PROVE FALSE
    <3>1. y \in S /\ y < m
      BY <2>3, <2>4 DEF Kid, OneTree, Forest
    <3> QED BY <2>1, <2>3, <3>1
  <2>5. Top(node, S, {}, {}, m)
    BY <2>3, <2>4 DEF Top
  <2>6. m = root
    BY <2>3, <2>5 DEF OneTree
  <2> QED BY <2>3, <2>6 DEF m
<1>2. ASSUME S = {} PROVE root = SHM_NULL
  <2>1. root \notin Node
    BY <1>2 DEF OneTree, Top
  <2> QED BY <2>1 DEF Link
<1> QED BY <1>1, <1>2

\* A node outside the tree may be overwritten.
LEMMA BlankOutside ==
    ASSUME NEW node \in [Node -> Links], NEW S \in SUBSET Node, NEW x \in Node, x \notin S,
           NEW root \in Link, OneTree(node, S, root),
           NEW g, g = [node EXCEPT ![x] = Unlinked]
    PROVE  g \in [Node -> Links] /\ OneTree(g, S, root)
<1>1. Unlinked \in Links
  BY DEF Unlinked, Links, Link
<1>2. g \in [Node -> Links] /\ \A y \in Node : y # x => g[y] = node[y]
  BY <1>1
<1>3. \A y, z \in Node : Kid(g, S, {}, {}, y, z) <=> Kid(node, S, {}, {}, y, z)
  BY <1>2 DEF Kid
<1>4. Forest(g, S, {}, {})
  <2>1. Forest(node, S, {}, {})
    BY DEF OneTree
  <2>2. \A y \in S : g[y] = node[y]
    BY <1>2
  <2>3. ASSUME NEW y \in Node, NEW z \in Node, Kid(g, S, {}, {}, y, z)
        PROVE  z \in S /\ y < z /\ g[z].root = y
    <3>1. z \in S /\ y < z /\ node[z].root = y
      BY <1>3, <2>1, <2>3 DEF Forest
    <3> QED BY <2>2, <3>1
  <2>4. \A y \in S \ ({} \cup {}) : g[y].left = g[y].right => g[y].left = SHM_NULL
    BY <2>1, <2>2 DEF Forest
  <2> QED BY <2>3, <2>4 DEF Forest
<1>5. \A z \in Node : Top(g, S, {}, {}, z) <=> z = root
  BY <1>3 DEF OneTree, Top
<1>6. root # SHM_NULL => root \in S
  BY DEF OneTree, Top, Link
<1>7. root # SHM_NULL => g[root].root = SHM_NULL
  BY <1>2, <1>6 DEF OneTree
<1> QED BY <1>2, <1>4, <1>5, <1>7 DEF OneTree

\* A node with its links cleared is a tree of its own beside the tree.
LEMMA Beside ==
    ASSUME NEW node \in [Node -> Links], NEW S \in SUBSET Node, NEW x \in Node, x \notin S,
           NEW root \in Link, OneTree(node, S, root), node[x] = Unlinked
    PROVE  Apart(node, S \cup {x}, {}, {}, root, x, {root, x})
<1> DEFINE U == S \cup {x}
<1>1. \A y, z \in Node : Kid(node, U, {}, {}, y, z) <=> Kid(node, S, {}, {}, y, z)
  BY NodeAssumption DEF Kid, Unlinked
<1>2. Forest(node, U, {}, {})
  <2>1. node[x].left = SHM_NULL
    BY DEF Unlinked
  <2> QED BY <1>1, <2>1 DEF OneTree, Forest
<1>3. \A y \in Node : ~ Kid(node, U, {}, {}, y, x)
  BY <1>1 DEF OneTree, Forest
<1>4. \A z \in Node : Top(node, U, {}, {}, z) <=> z = root \/ z = x
  <2>1. \A z \in Node : z # x => (Top(node, U, {}, {}, z) <=> Top(node, S, {}, {}, z))
    BY <1>1 DEF Top
  <2>2. Top(node, U, {}, {}, x)
    BY <1>3 DEF Top
  <2> QED BY <2>1, <2>2 DEF OneTree
<1>5. root = x => root = SHM_NULL
  BY DEF OneTree, Top
<1>6. root # SHM_NULL => Top(node, U, {}, {}, root)
  BY <1>4 DEF Link
<1>7. Top(node, U, {}, {}, x)
  BY <1>4
<1> HIDE DEF U
<1>8. MayMerge(node, U, {}, {}, root, x)
  <2>1. U \subseteq Node /\ x \in Link
    BY DEF U, Link
  <2> QED BY <1>2, <1>5, <1>6, <1>7, <2>1 DEF MayMerge
<1> QED BY <1>4, <1>8 DEF U, Apart

\* The children of a node are above it, and none is the head.
LEMMA KidsAbove ==
    ASSUME NEW node \in [Node -> Links], NEW S \in SUBSET Node, NEW x \in S,
           NEW root \in Link, OneTree(node, S, root),
           NEW z \in {node[x].left, node[x].right} \ {SHM_NULL}
    PROVE  z \in S /\ x < z /\ z # root
<1>1. z \in Node /\ x \in Node
  BY DEF Links, Link
<1>2. Kid(node, S, {}, {}, x, z)
  BY DEF Kid
<1>3. z \in S /\ x < z
  BY <1>1, <1>2 DEF OneTree, Forest
<1>4. z # root
  BY <1>1, <1>2 DEF OneTree, Top
<1> QED BY <1>3, <1>4

\* Taking x out of the tree, its two subtrees may be merged: the link x hung from, if any,
\* is cut.
LEMMA Detach ==
    ASSUME NEW node \in [Node -> Links], NEW S \in SUBSET Node, NEW x \in S,
           NEW root \in Link, OneTree(node, S, root),
           NEW cl \in SUBSET Node, NEW cr \in SUBSET Node, \A y \in cl \cup cr : y < x,
           \A y, z \in Node : Kid(node, S \ {x}, cl, cr, y, z) <=>
             Kid(node, S, {}, {}, y, z) /\ y # x /\ z # x
    PROVE  Apart(node, S \ {x}, cl, cr, node[x].left, node[x].right,
                 {root, node[x].left, node[x].right} \ {x})
<1> DEFINE l == node[x].left
           r == node[x].right
           U == S \ {x}
<1>1. l \in Link /\ r \in Link /\ x \in Node
  BY DEF Links
<1>2. \A z \in Node : Kid(node, S, {}, {}, x, z) <=> z = l \/ z = r
  BY NodeAssumption DEF Kid
<1>3. /\ \A y, z \in Node : Kid(node, S, {}, {}, y, z) => z \in S /\ y < z /\ node[z].root = y
      /\ \A y \in S : node[y].left = node[y].right => node[y].left = SHM_NULL
      /\ \A z \in Node : (z \in S /\ \A y \in Node : ~ Kid(node, S, {}, {}, y, z)) <=> z = root
  BY DEF OneTree, Forest, Top
<1>4. \A y, z \in Node : Kid(node, U, cl, cr, y, z) <=> Kid(node, S, {}, {}, y, z) /\ y # x /\ z # x
  OBVIOUS
<1>5. \A z \in Node : z = l \/ z = r => z \in S /\ x < z /\ z # x /\ z # root
  <2>1. x \in Nat
    BY <1>1, NodeAssumption
  <2> QED BY <1>1, <1>2, <1>3, <2>1
<1>6. Forest(node, U, cl, cr)
  <2>1. \A y \in U \ (cl \cup cr) : node[y].left = node[y].right => node[y].left = SHM_NULL
    BY <1>3
  <2>2. \A y, z \in Node : Kid(node, U, cl, cr, y, z) => z \in U /\ y < z /\ node[z].root = y
    BY <1>3, <1>4
  <2> HIDE DEF U
  <2> QED BY <2>1, <2>2 DEF Forest
<1>7. ASSUME NEW z \in Node
      PROVE  Top(node, U, cl, cr, z) <=> z # x /\ (z = root \/ z = l \/ z = r)
  <2>1. Top(node, U, cl, cr, z) <=> z \in U /\ \A y \in Node : ~ Kid(node, U, cl, cr, y, z)
    BY DEF Top
  <2>2. CASE z = l \/ z = r
    <3>1. z \in S /\ z # x /\ node[z].root = x
      BY <1>1, <1>2, <1>3, <1>5, <2>2
    <3>2. \A y \in Node : Kid(node, S, {}, {}, y, z) => y = x
      BY <1>3, <3>1
    <3> QED BY <1>4, <2>1, <2>2, <3>1, <3>2
  <2>3. CASE z # l /\ z # r
    <3>1. ~ Kid(node, S, {}, {}, x, z)
      BY <1>2, <2>3
    <3>2. z # x => (z \in U <=> z \in S)
          /\ \A y \in Node : Kid(node, U, cl, cr, y, z) <=> Kid(node, S, {}, {}, y, z)
      BY <1>4, <3>1
    <3>3. z # x => (Top(node, U, cl, cr, z) <=> z = root)
      BY <1>3, <2>1, <3>2
    <3> QED BY <2>1, <2>3, <3>3
  <2> QED BY <2>2, <2>3
<1>8. (l # SHM_NULL => Top(node, U, cl, cr, l)) /\ (r # SHM_NULL => Top(node, U, cl, cr, r))
  BY <1>1, <1>5, <1>7 DEF Link
<1>9. l = r => l = SHM_NULL
  BY <1>3
<1>10. \A y \in cl \cup cr : Under(y, l, r)
  <2>1. \A y \in cl \cup cr : y \in Nat /\ y < x
    BY NodeAssumption
  <2>2. \A z \in {l, r} : z # SHM_NULL => z \in Nat /\ x < z /\ x \in Nat
    BY <1>1, <1>5, NodeAssumption DEF Link
  <2> HIDE DEF l, r
  <2> QED BY <2>1, <2>2 DEF Under
<1> HIDE DEF l, r, U
<1>12. MayMerge(node, U, cl, cr, l, r)
  <2>1. U \subseteq Node
    BY DEF U
  <2> QED BY <1>1, <1>6, <1>8, <1>9, <1>10, <2>1 DEF MayMerge
<1>13. Apart(node, U, cl, cr, l, r, {root, l, r} \ {x})
  BY <1>7, <1>12 DEF Apart
<1> QED BY <1>13 DEF l, r, U

\* Giving the head of the only tree no parent changes no other link.
LEMMA Crown ==
    ASSUME NEW node \in [Node -> Links], NEW S \in SUBSET Node, NEW p \in Node,
           Forest(node, S, {}, {}), \A z \in Node : Top(node, S, {}, {}, z) <=> z = p,
           NEW g, g = [node EXCEPT ![p].root = SHM_NULL]
    PROVE  g \in [Node -> Links] /\ OneTree(g, S, p)
<1>1. /\ g \in [Node -> Links]
      /\ \A y \in Node : g[y].left = node[y].left /\ g[y].right = node[y].right
      /\ \A y \in Node : y # p => g[y].root = node[y].root
      /\ g[p].root = SHM_NULL
  BY DEF Links, Link
<1>2. \A y, z \in Node : Kid(g, S, {}, {}, y, z) <=> Kid(node, S, {}, {}, y, z)
  BY <1>1 DEF Kid
<1>3. \A y, z \in Node : Kid(node, S, {}, {}, y, z) => z # p
  BY DEF Top
<1>4. ASSUME NEW y \in Node, NEW z \in Node, Kid(g, S, {}, {}, y, z)
      PROVE  z \in S /\ y < z /\ g[z].root = y
  <2>1. z # p /\ z \in S /\ y < z /\ node[z].root = y
    BY <1>2, <1>3, <1>4 DEF Forest
  <2> QED BY <1>1, <2>1
<1>5. \A y \in S \ ({} \cup {}) : g[y].left = g[y].right => g[y].left = SHM_NULL
  BY <1>1 DEF Forest
<1>6. Forest(g, S, {}, {})
  BY <1>4, <1>5 DEF Forest
<1>7. \A z \in Node : Top(g, S, {}, {}, z) <=> z = p
  BY <1>2 DEF Top
<1> QED BY <1>1, <1>6, <1>7 DEF OneTree

\* g is the links of node with p hung from the cut link of t.
Grafted(g, node, t, cl, p) ==
    /\ g \in [Node -> Links]
    /\ \A y \in Node : y # t => g[y].left = node[y].left /\ g[y].right = node[y].right
    /\ g[t].left = IF cl = {} THEN node[t].left ELSE p
    /\ g[t].right = IF cl = {} THEN p ELSE node[t].right
    /\ \A y \in Node : g[y].root = IF y = p THEN t ELSE node[y].root

\* The forest that g links has no cut, and p heads no tree of it any more.
Mended(g, node, S, cl, cr, p) ==
    /\ Forest(g, S, {}, {})
    /\ \A z \in Node : Top(g, S, {}, {}, z) <=> Top(node, S, cl, cr, z) /\ z # p

\* Hanging the tree at p, or none, from the one cut link mends the cut.
LEMMA Graft ==
    ASSUME NEW node \in [Node -> Links], NEW S \in SUBSET Node, NEW t \in S,
           NEW cl, NEW cr, (cl = {t} /\ cr = {}) \/ (cl = {} /\ cr = {t}),
           Forest(node, S, cl, cr),
           NEW p \in Link, p # SHM_NULL => Top(node, S, cl, cr, p) /\ t < p,
           NEW g, Grafted(g, node, t, cl, p)
    PROVE  Mended(g, node, S, cl, cr, p)
<1>0. /\ g \in [Node -> Links]
      /\ \A y \in Node : y # t => g[y].left = node[y].left /\ g[y].right = node[y].right
      /\ g[t].left = IF cl = {} THEN node[t].left ELSE p
      /\ g[t].right = IF cl = {} THEN p ELSE node[t].right
      /\ \A y \in Node : g[y].root = IF y = p THEN t ELSE node[y].root
  BY DEF Grafted
<1>1. ASSUME NEW y \in Node, NEW z \in Node
      PROVE  Kid(g, S, {}, {}, y, z) <=> Kid(node, S, cl, cr, y, z) \/ (y = t /\ z = p)
  <2>1. CASE y # t
    BY <1>0, <2>1 DEF Kid
  <2>2. CASE y = t /\ cl = {t}
    BY <1>0, <2>2, NodeAssumption DEF Kid
  <2>3. CASE y = t /\ cl = {}
    BY <1>0, <2>3, NodeAssumption DEF Kid
  <2> QED BY <2>1, <2>2, <2>3
<1>2. \A y, z \in Node : Kid(node, S, cl, cr, y, z) => z # p
  BY NodeAssumption DEF Top
<1>3. ASSUME NEW y \in Node, NEW z \in Node, Kid(g, S, {}, {}, y, z)
      PROVE  z \in S /\ y < z /\ g[z].root = y
  <2>1. CASE y = t /\ z = p
    BY <1>0, <2>1, NodeAssumption DEF Top
  <2>2. CASE Kid(node, S, cl, cr, y, z)
    <3>1. z # p /\ z \in S /\ y < z /\ node[z].root = y
      BY <1>2, <2>2 DEF Forest
    <3> QED BY <1>0, <3>1
  <2> QED BY <1>1, <1>3, <2>1, <2>2
<1>4. ASSUME NEW y \in S, g[y].left = g[y].right PROVE g[y].left = SHM_NULL
  <2>1. CASE y # t
    <3>1. y \in S \ (cl \cup cr)
      BY <2>1
    <3> QED BY <1>0, <1>4, <2>1, <3>1 DEF Forest
  <2>2. CASE y = t
    <3> DEFINE o == IF cl = {} THEN node[t].left ELSE node[t].right
    <3>1. o = p /\ g[y].left = p
      BY <1>0, <1>4, <2>2
    <3>2. p # SHM_NULL => Kid(node, S, cl, cr, t, p)
      BY <3>1 DEF Kid
    <3>3. p # SHM_NULL => p \in Node
      BY DEF Link
    <3> QED BY <1>2, <3>1, <3>2, <3>3
  <2> QED BY <2>1, <2>2
<1>5. Forest(g, S, {}, {})
  BY <1>3, <1>4 DEF Forest
<1>6. \A z \in Node : Top(g, S, {}, {}, z) <=> Top(node, S, cl, cr, z) /\ z # p
  BY <1>1 DEF Top
<1> QED BY <1>5, <1>6 DEF Mended

\* The pool t holds the nodes of S.
PoolIs(t, S) ==
    /\ t \in [node : [Node -> Links], root : Link, size : Int, ends : BOOLEAN]
    /\ t.ends = TRUE
    /\ OneTree(t.node, S, t.root)
    /\ t.size = Cardinality(S)

\* The inductive invariant: the pool holds the nodes that were pushed and not taken.
PoolIInv == pooled \subseteq Node /\ PoolIs(pool, pooled)

\* shm_tree_push of a cleared node adds it.
LEMMA PushIs ==
    ASSUME NEW S \in SUBSET Node, NEW t, PoolIs(t, S), NEW x \in Node, x \notin S
    PROVE  PoolIs(shm_tree_push([t EXCEPT !.node[x] = Unlinked], x), S \cup {x})
<1> DEFINE g == [t.node EXCEPT ![x] = Unlinked]
           u == [t EXCEPT !.node[x] = Unlinked]
           U == S \cup {x}
           s == shm_tree_merge(g, t.root, x)
<1>1. t.node \in [Node -> Links] /\ t.root \in Link /\ t.size \in Int /\ OneTree(t.node, S, t.root)
  BY DEF PoolIs
<1>2. u.node = g /\ u.root = t.root /\ u.size = t.size
  BY DEF PoolIs
<1>3. g \in [Node -> Links] /\ OneTree(g, S, t.root)
  BY <1>1, BlankOutside
<1>4. g[x] = Unlinked
  BY <1>1
<1> HIDE DEF g
<1>5. /\ MayMerge(g, U, {}, {}, t.root, x)
      /\ \A z \in Node : Top(g, U, {}, {}, z) <=> z = t.root \/ z = x
  <2>1. Apart(g, U, {}, {}, t.root, x, {t.root, x})
    BY <1>1, <1>3, <1>4, Beside
  <2> QED BY <2>1 DEF Apart
<1> HIDE DEF U
<1>6. Merged(s, g, U, {}, {}, t.root, x)
  BY <1>5, MergeIs
<1> HIDE DEF s
<1>7. /\ s.ends = TRUE /\ s.node \in [Node -> Links] /\ s.pos \in Link
      /\ Forest(s.node, U, {}, {})
      /\ s.pos = t.root \/ s.pos = x
      /\ s.pos # SHM_NULL => s.node[s.pos].root = g[s.pos].root
      /\ \A z \in Node : Top(s.node, U, {}, {}, z) <=> z = s.pos
  BY <1>5, <1>6 DEF Merged
<1>8. s.pos # SHM_NULL => g[s.pos].root = SHM_NULL
  BY <1>3, <1>4, <1>7 DEF OneTree, Unlinked
<1>9. OneTree(s.node, U, s.pos)
  BY <1>7, <1>8 DEF OneTree
<1>10. shm_tree_push(u, x) = [node |-> s.node, root |-> s.pos, size |-> t.size + 1, ends |-> s.ends]
  <2>1. shm_tree_merge(u.node, u.root, x) = s
    BY <1>2 DEF s
  <2> HIDE DEF u
  <2> QED BY <1>2, <2>1 DEF shm_tree_push
<1>11. t.size + 1 = Cardinality(U)
  <2>1. IsFiniteSet(S)
    BY NodeAssumption, FS_Subset
  <2>2. Cardinality(U) = Cardinality(S) + 1
    BY <2>1, FS_AddElement DEF U
  <2> QED BY <2>2 DEF PoolIs
<1> HIDE DEF u
<1> DEFINE v == [node |-> s.node, root |-> s.pos, size |-> t.size + 1, ends |-> s.ends]
<1>12. PoolIs(v, U)
  <2>1. t.size + 1 \in Int
    BY <1>1
  <2>2. v \in [node : [Node -> Links], root : Link, size : Int, ends : BOOLEAN]
    BY <1>7, <2>1
  <2>3. v.node = s.node /\ v.root = s.pos /\ v.size = t.size + 1 /\ v.ends = TRUE
    BY <1>7
  <2> HIDE DEF v
  <2> QED BY <1>9, <1>11, <2>2, <2>3 DEF PoolIs
<1> QED BY <1>10, <1>12 DEF u, U

\* One node fewer is counted, and a node out of the tree may be blanked.
LEMMA LeaveIs ==
    ASSUME NEW S \in SUBSET Node, NEW x \in S, NEW t, PoolIs(t, S),
           NEW f \in [Node -> Links], NEW p \in Link, OneTree(f, S \ {x}, p)
    PROVE  PoolIs(Leave([node |-> f, root |-> p, size |-> t.size - 1, ends |-> TRUE], x), S \ {x})
<1> DEFINE v == [node |-> f, root |-> p, size |-> t.size - 1, ends |-> TRUE]
           g == [f EXCEPT ![x] = Unlinked]
           U == S \ {x}
<1>1. g \in [Node -> Links] /\ OneTree(g, U, p)
  BY BlankOutside
<1>2. Leave(v, x) = [node |-> g, root |-> p, size |-> t.size - 1, ends |-> TRUE]
  <2> HIDE DEF g
  <2>1. Leave(v, x) = [v EXCEPT !.node = g]
    BY DEF Leave, g
  <2> QED BY <2>1
<1>3. t.size - 1 = Cardinality(U) /\ t.size - 1 \in Int
  <2>1. IsFiniteSet(S)
    BY NodeAssumption, FS_Subset
  <2>2. Cardinality(U) = Cardinality(S) - 1
    BY <2>1, FS_RemoveElement
  <2> QED BY <2>2 DEF PoolIs
<1> HIDE DEF v, g, U
<1>4. PoolIs(Leave(v, x), U)
  BY <1>1, <1>2, <1>3 DEF PoolIs
<1> QED BY <1>4 DEF v, U

\* shm_tree_pop takes the head.
LEMMA PopIs ==
    ASSUME NEW S \in SUBSET Node, NEW t, PoolIs(t, S), S # {}
    PROVE  t.root \in S /\ PoolIs(Leave(shm_tree_pop(t), t.root), S \ {t.root})
<1> DEFINE node == t.node
           x == t.root
           U == S \ {x}
           l == node[x].left
           r == node[x].right
           s == shm_tree_merge(node, l, r)
<1>1. node \in [Node -> Links] /\ x \in Link /\ OneTree(node, S, x)
  BY DEF PoolIs
<1> HIDE DEF node, x
<1>2. x \in S /\ x \in Node /\ x # SHM_NULL
  <2>1. S # {} => Min(S) \in S
    BY NodeAssumption, MinIs
  <2> QED BY <1>1, <2>1, RootIsMin, NodeAssumption
<1>3. \A y, z \in Node : Kid(node, U, {}, {}, y, z) <=>
        Kid(node, S, {}, {}, y, z) /\ y # x /\ z # x
  <2>1. \A y \in Node : ~ Kid(node, S, {}, {}, y, x)
    BY <1>1, <1>2 DEF OneTree, Top
  <2> QED BY <2>1 DEF Kid
<1>4. /\ MayMerge(node, U, {}, {}, l, r)
      /\ \A z \in Node : Top(node, U, {}, {}, z) <=> z # x /\ (z = x \/ z = l \/ z = r)
  <2>1. {} \in SUBSET Node /\ \A y \in {} \cup {} : y < x
    OBVIOUS
  <2>2. Apart(node, U, {}, {}, l, r, {x, l, r} \ {x})
    BY <1>1, <1>2, <1>3, <2>1, Detach
  <2> QED BY <2>2 DEF Apart
<1> HIDE DEF U
<1>5. Merged(s, node, U, {}, {}, l, r)
  BY <1>4, MergeIs
<1> HIDE DEF s
<1>6. /\ s.ends = TRUE /\ s.node \in [Node -> Links] /\ s.pos \in Link
      /\ Forest(s.node, U, {}, {})
      /\ \A z \in Node : Top(s.node, U, {}, {}, z) <=> z = s.pos
  BY <1>4, <1>5 DEF Merged
<1> DEFINE f == IF s.pos = SHM_NULL THEN s.node ELSE [s.node EXCEPT ![s.pos].root = SHM_NULL]
<1>7. f \in [Node -> Links] /\ OneTree(f, U, s.pos)
  <2>1. CASE s.pos = SHM_NULL
    BY <1>6, <2>1 DEF OneTree
  <2>2. CASE s.pos # SHM_NULL
    <3>1. s.pos \in Node /\ U \in SUBSET Node
      BY <1>6, <2>2 DEF Link, U
    <3>2. f = [s.node EXCEPT ![s.pos].root = SHM_NULL]
      BY <2>2
    <3> HIDE DEF f
    <3> QED BY <1>6, <3>1, <3>2, Crown
  <2> QED BY <2>1, <2>2
<1>8. shm_tree_pop(t) = [node |-> f, root |-> s.pos, size |-> t.size - 1, ends |-> TRUE]
  <2> DEFINE m == MergeBelow(t.node, t.root, SHM_NULL)
  <2>1. m = IF s.pos = SHM_NULL THEN s ELSE [s EXCEPT !.node[s.pos].root = SHM_NULL]
    BY DEF MergeBelow, s, l, r, node, x
  <2>2. m.node = f /\ m.pos = s.pos /\ m.ends = TRUE
    <3>1. CASE s.pos = SHM_NULL
      BY <1>6, <2>1, <3>1
    <3>2. CASE s.pos # SHM_NULL
      BY <1>6, <2>1, <3>2
    <3> QED BY <3>1, <3>2
  <2>3. t.size # 0 /\ t.root # SHM_NULL
    <3>1. IsFiniteSet(S) /\ t.size = Cardinality(S)
      BY NodeAssumption, FS_Subset DEF PoolIs
    <3> QED BY <1>2, <3>1, FS_EmptySet DEF x
  <2> HIDE DEF m, f
  <2> QED BY <2>2, <2>3 DEF shm_tree_pop, m
<1> HIDE DEF f
<1>9. PoolIs(Leave(shm_tree_pop(t), x), U)
  BY <1>2, <1>6, <1>7, <1>8, LeaveIs DEF U
<1> QED BY <1>2, <1>9 DEF U, x

\* shm_tree_remove takes a node other than the head out from under its parent.
LEMMA RemoveBelow ==
    ASSUME NEW S \in SUBSET Node, NEW t, PoolIs(t, S), NEW x \in S, t.root # x
    PROVE  PoolIs(Leave(shm_tree_remove(t, x), x), S \ {x})
<1> DEFINE node == t.node
           root == t.root
           U == S \ {x}
           l == node[x].left
           r == node[x].right
           up == node[x].root
           s == shm_tree_merge(node, l, r)
           onLeft == node[up].left = x
           cl == IF onLeft THEN {up} ELSE {}
           cr == IF onLeft THEN {} ELSE {up}
<1>1. node \in [Node -> Links] /\ root \in Link /\ OneTree(node, S, root) /\ root # x /\ x \in Node
  BY DEF PoolIs
<1> HIDE DEF node, root
<1>2. Kid(node, S, {}, {}, up, x) /\ up \in Node /\ up \in U /\ up < x /\ up # SHM_NULL
  <2>1. PICK y \in Node : Kid(node, S, {}, {}, y, x)
    BY <1>1 DEF OneTree, Top
  <2>2. y = up /\ y < x /\ y \in S
    BY <1>1, <2>1 DEF OneTree, Forest, Kid
  <2>3. y # x
    BY <1>1, <2>2, NodeAssumption
  <2> QED BY <2>1, <2>2, <2>3, NodeAssumption
<1>3. \A y, z \in Node : Kid(node, U, cl, cr, y, z) <=>
        Kid(node, S, {}, {}, y, z) /\ y # x /\ z # x
  <2>1. \A y \in Node : Kid(node, S, {}, {}, y, x) => y = up
    BY <1>1 DEF OneTree, Forest
  <2>2. node[up].left = x => node[up].right # x
    BY <1>1, <1>2, NodeAssumption DEF OneTree, Forest
  <2>3. ~ onLeft => node[up].right = x
    BY <1>2 DEF Kid
  <2>4. ASSUME NEW y \in Node, NEW z \in Node
        PROVE  Kid(node, U, cl, cr, y, z) <=> Kid(node, S, {}, {}, y, z) /\ y # x /\ z # x
    <3>1. CASE y # up
      <4>1. ~ Kid(node, S, {}, {}, y, x)
        BY <2>1, <3>1
      <4>2. y \notin cl /\ y \notin cr
        BY <3>1
      <4> HIDE DEF cl, cr
      <4> QED BY <4>1, <4>2 DEF Kid
    <3>2. CASE y = up /\ onLeft
      BY <1>2, <2>2, <3>2 DEF Kid
    <3>3. CASE y = up /\ ~ onLeft
      BY <1>2, <2>3, <3>3 DEF Kid
    <3> QED BY <3>1, <3>2, <3>3
  <2> QED BY <2>4
<1>4. cl \in SUBSET Node /\ cr \in SUBSET Node /\ \A y \in cl \cup cr : y < x
  BY <1>2
<1>5. (cl = {up} /\ cr = {}) \/ (cl = {} /\ cr = {up})
  OBVIOUS
<1>6. cl = {} <=> ~ onLeft
  OBVIOUS
<1> HIDE DEF cl, cr
<1>7. /\ Apart(node, U, cl, cr, l, r, {root, l, r} \ {x})
      /\ \A z \in {l, r} \ {SHM_NULL} : z \in S /\ x < z /\ z # root
  <2>1. Apart(node, U, cl, cr, l, r, {root, l, r} \ {x})
    BY <1>1, <1>3, <1>4, Detach
  <2>2. \A z \in {l, r} \ {SHM_NULL} : z \in S /\ x < z /\ z # root
    BY <1>1, KidsAbove
  <2> QED BY <2>1, <2>2
<1>8. MayMerge(node, U, cl, cr, l, r) /\ l \in Link /\ r \in Link
  BY <1>7 DEF Apart, MayMerge
<1> HIDE DEF U
<1>9. Merged(s, node, U, cl, cr, l, r)
  BY <1>8, MergeIs
<1> HIDE DEF s, l, r
<1> DEFINE p == s.pos
<1>10. /\ s.ends = TRUE /\ s.node \in [Node -> Links] /\ p \in Link
       /\ Forest(s.node, U, cl, cr)
       /\ p \in {l, r}
       /\ \A z \in Node : Top(s.node, U, cl, cr, z) <=>
            z = p \/ (Top(node, U, cl, cr, z) /\ z # l /\ z # r)
       /\ \A y \in Node : y \notin U \/ Under(y, l, r) => s.node[y] = node[y]
  BY <1>9 DEF Merged
<1>11. p # SHM_NULL => p \in Node /\ up < p /\ p # up /\ p # root
  <2>1. p # SHM_NULL => p \in S /\ x < p /\ p # root
    BY <1>7, <1>10
  <2>2. x \in Nat /\ up \in Nat /\ (p # SHM_NULL => p \in Nat)
    BY <1>1, <1>2, <2>1, NodeAssumption
  <2> QED BY <1>2, <2>1, <2>2
<1>12. \A z \in Node : Top(s.node, U, cl, cr, z) <=> z = p \/ z = root
  <2>1. \A z \in Node : Top(node, U, cl, cr, z) <=> z \in {root, l, r} \ {x}
    BY <1>7 DEF Apart
  <2>2. \A z \in Node : z = root => z # l /\ z # r
    BY <1>7, NodeAssumption
  <2> QED BY <1>1, <1>10, <2>1, <2>2
<1>13. root # SHM_NULL /\ root \in Node /\ root \in S /\ \A y \in S : root <= y
  <2>1. S # {} => Min(S) \in S
    BY NodeAssumption, MinIs
  <2>2. /\ root = IF S = {} THEN SHM_NULL ELSE Min(S)
        /\ root # SHM_NULL => root \in S /\ \A y \in S : root <= y
    BY <1>1, RootIsMin
  <2>3. root \in S /\ root \in Node /\ root # SHM_NULL
    BY <2>1, <2>2, NodeAssumption
  <2> QED BY <2>2, <2>3
<1>14. s.node[up] = node[up] /\ s.node[root].root = SHM_NULL
  <2>1. \A z \in {l, r} \ {SHM_NULL} : z \in Nat /\ x < z /\ root <= z /\ z # root
    BY <1>7, <1>13, NodeAssumption
  <2>2. up \in Nat /\ root \in Nat /\ x \in Nat
    BY <1>1, <1>2, <1>13, NodeAssumption
  <2>3. Under(up, l, r) /\ Under(root, l, r)
    BY <1>2, <2>1, <2>2 DEF Under
  <2> QED BY <1>1, <1>2, <1>10, <1>13, <2>3 DEF OneTree
<1> HIDE DEF up
<1> DEFINE h == IF p = SHM_NULL THEN s.node ELSE [s.node EXCEPT ![p].root = up]
           g == IF h[up].left = x THEN [h EXCEPT ![up].left = p] ELSE [h EXCEPT ![up].right = p]
<1>15. /\ h \in [Node -> Links]
       /\ \A y \in Node : h[y].left = s.node[y].left /\ h[y].right = s.node[y].right
       /\ \A y \in Node : h[y].root = IF y = p THEN up ELSE s.node[y].root
  <2>1. CASE p = SHM_NULL
    BY <1>10, <2>1, NodeAssumption
  <2>2. CASE p # SHM_NULL
    <3>1. up \in Link
      BY <1>2 DEF Link
    <3>2. h = [s.node EXCEPT ![p].root = up] /\ p \in Node
      BY <1>11, <2>2
    <3> HIDE DEF h
    <3> QED BY <1>10, <3>1, <3>2 DEF Links
  <2> QED BY <2>1, <2>2
<1> HIDE DEF h
<1>16. /\ g \in [Node -> Links]
       /\ \A y \in Node : y # up => g[y].left = s.node[y].left /\ g[y].right = s.node[y].right
       /\ g[up].left = IF cl = {} THEN s.node[up].left ELSE p
       /\ g[up].right = IF cl = {} THEN p ELSE s.node[up].right
       /\ \A y \in Node : g[y].root = IF y = p THEN up ELSE s.node[y].root
  <2>1. h[up].left = x <=> cl # {}
    BY <1>2, <1>6, <1>14, <1>15
  <2>2. CASE cl = {}
    <3>1. g = [h EXCEPT ![up].right = p]
      BY <2>1, <2>2
    <3> HIDE DEF g
    <3>2. /\ g \in [Node -> Links]
          /\ \A y \in Node : g[y].left = h[y].left /\ g[y].root = h[y].root
          /\ \A y \in Node : y # up => g[y].right = h[y].right
          /\ g[up].right = p
      BY <1>2, <1>10, <1>15, <3>1 DEF Links
    <3> QED BY <1>2, <1>15, <2>2, <3>2
  <2>3. CASE cl # {}
    <3>1. g = [h EXCEPT ![up].left = p]
      BY <2>1, <2>3
    <3> HIDE DEF g
    <3>2. /\ g \in [Node -> Links]
          /\ \A y \in Node : g[y].right = h[y].right /\ g[y].root = h[y].root
          /\ \A y \in Node : y # up => g[y].left = h[y].left
          /\ g[up].left = p
      BY <1>2, <1>10, <1>15, <3>1 DEF Links
    <3> QED BY <1>2, <1>15, <2>3, <3>2
  <2> QED BY <2>2, <2>3
<1> HIDE DEF g
<1>17. /\ Forest(g, U, {}, {})
       /\ \A z \in Node : Top(g, U, {}, {}, z) <=> Top(s.node, U, cl, cr, z) /\ z # p
  <2>1. p # SHM_NULL => Top(s.node, U, cl, cr, p) /\ up < p
    BY <1>11, <1>12
  <2>2. U \in SUBSET Node
    BY DEF U
  <2>3. Grafted(g, s.node, up, cl, p)
    BY <1>16 DEF Grafted
  <2> HIDE DEF p
  <2>4. Mended(g, s.node, U, cl, cr, p)
    BY <1>2, <1>5, <1>10, <2>1, <2>2, <2>3, Graft
  <2> QED BY <2>4 DEF Mended
<1>18. OneTree(g, U, root)
  <2>1. root # p
    BY <1>11, <1>13
  <2>2. g[root].root = SHM_NULL
    BY <1>13, <1>14, <1>16, <2>1
  <2> QED BY <1>12, <1>17, <2>1, <2>2 DEF OneTree
<1>19. shm_tree_remove(t, x) = [node |-> g, root |-> root, size |-> t.size - 1, ends |-> TRUE]
  <2> DEFINE m == MergeBelow(t.node, x, up)
  <2>1. m = IF p = SHM_NULL THEN s ELSE [s EXCEPT !.node[p].root = up]
    BY DEF MergeBelow, s, l, r, node
  <2>2. m.node = h /\ m.pos = p /\ m.ends = TRUE
    <3>1. CASE p = SHM_NULL
      BY <1>10, <2>1, <3>1 DEF h
    <3>2. CASE p # SHM_NULL
      BY <1>10, <2>1, <3>2 DEF h
    <3> QED BY <3>1, <3>2
  <2>3. t.root # x /\ t.node[x].root = up /\ up # SHM_NULL
    BY <1>1, <1>2 DEF root, up, node
  <2> HIDE DEF m, p
  <2>4. shm_tree_remove(t, x) =
          [node |-> IF m.node[up].left = x THEN [m.node EXCEPT ![up].left = m.pos]
                    ELSE [m.node EXCEPT ![up].right = m.pos],
           root |-> t.root, size |-> t.size - 1, ends |-> m.ends]
    BY <2>3 DEF shm_tree_remove, m
  <2> QED BY <2>2, <2>4 DEF g, root
<1>20. PoolIs(Leave(shm_tree_remove(t, x), x), U)
  BY <1>1, <1>16, <1>18, <1>19, LeaveIs DEF U
<1> QED BY <1>20 DEF U

\* shm_tree_remove takes any node of the tree.
LEMMA RemoveIs ==
    ASSUME NEW S \in SUBSET Node, NEW t, PoolIs(t, S), NEW x \in S
    PROVE  PoolIs(Leave(shm_tree_remove(t, x), x), S \ {x})
<1>1. CASE t.root = x
  <2>1. shm_tree_remove(t, x) = shm_tree_pop(t)
    BY <1>1 DEF shm_tree_remove
  <2> QED BY <1>1, <2>1, PopIs
<1>2. CASE t.root # x
  BY <1>2, RemoveBelow
<1> QED BY <1>1, <1>2

-----------------------------------------------------------------------------
(* The theorem *)

\* The empty pool holds nothing.
LEMMA PoolInitIs == PoolInit => PoolIInv
<1> SUFFICES ASSUME PoolInit PROVE PoolIInv
  OBVIOUS
<1> DEFINE node == [x \in Node |-> Unlinked]
<1>1. pool = [node |-> node, root |-> SHM_NULL, size |-> 0, ends |-> TRUE] /\ pooled = {}
  BY DEF PoolInit
<1>2. node \in [Node -> Links]
  BY DEF Unlinked, Links, Link
<1>3. OneTree(node, {}, SHM_NULL)
  BY NodeAssumption DEF OneTree, Forest, Top, Kid
<1>4. Cardinality({}) = 0 /\ SHM_NULL \in Link
  BY FS_EmptySet DEF Link
<1> HIDE DEF node
<1> QED BY <1>1, <1>2, <1>3, <1>4 DEF PoolIInv, PoolIs

\* A push, a pop and a remove keep the pool the nodes pushed and not taken.
LEMMA PoolNextIs == PoolIInv /\ [PoolNext]_poolVars => PoolIInv'
<1> SUFFICES ASSUME PoolIInv, [PoolNext]_poolVars PROVE PoolIInv'
  OBVIOUS
<1>1. pooled \in SUBSET Node /\ PoolIs(pool, pooled)
  BY DEF PoolIInv
<1>2. SUFFICES pooled' \subseteq Node /\ PoolIs(pool', pooled')
  BY DEF PoolIInv, PoolIs
<1>3. CASE PoolPop
  BY <1>1, <1>3, PopIs DEF PoolPop
<1>4. ASSUME NEW x \in Node, PoolPush(x) PROVE pooled' \subseteq Node /\ PoolIs(pool', pooled')
  BY <1>1, <1>4, PushIs DEF PoolPush
<1>5. ASSUME NEW x \in Node, PoolRemove(x) PROVE pooled' \subseteq Node /\ PoolIs(pool', pooled')
  BY <1>1, <1>5, RemoveIs DEF PoolRemove
<1>6. CASE UNCHANGED poolVars
  BY <1>1, <1>6 DEF poolVars
<1> QED BY <1>3, <1>4, <1>5, <1>6 DEF PoolNext

\* One tree of the pooled nodes is what PoolLinked asks of the links.
LEMMA PoolIsLinked == PoolIInv => PoolLinked
<1> SUFFICES ASSUME PoolIInv PROVE PoolLinked
  OBVIOUS
<1> DEFINE node == pool.node
           root == pool.root
<1>1. /\ pooled \in SUBSET Node /\ node \in [Node -> Links] /\ root \in Link
      /\ pool.ends = TRUE /\ OneTree(node, pooled, root) /\ pool.size = Cardinality(pooled)
  BY DEF PoolIInv, PoolIs
<1>2. \A x : Children(x) = {node[x].left, node[x].right} \ {SHM_NULL}
  BY DEF Children
<1> HIDE DEF node, root
<1>3. \A x, y \in Node : x \in pooled => (y \in Children(x) <=> Kid(node, pooled, {}, {}, x, y))
  BY <1>2 DEF Kid
<1>4. root = IF pooled = {} THEN SHM_NULL ELSE Min(pooled)
  BY <1>1, RootIsMin
<1>5. root # SHM_NULL => node[root].root = SHM_NULL
  BY <1>1 DEF OneTree
<1>6. ASSUME NEW x \in pooled
      PROVE  /\ \A y \in Children(x) : y \in pooled /\ x < y /\ node[y].root = x
             /\ x # root => \E y \in pooled : x \in Children(y)
             /\ node[x].left = node[x].right => Children(x) = {}
  <2>1. x \in Node /\ node[x].left \in Link /\ node[x].right \in Link
    BY <1>1 DEF Links
  <2>2. \A y \in Children(x) : y \in Node
    BY <1>2, <2>1 DEF Link
  <2>3. \A y \in Children(x) : y \in pooled /\ x < y /\ node[y].root = x
    BY <1>1, <1>3, <2>1, <2>2 DEF OneTree, Forest
  <2>4. x # root => \E y \in pooled : x \in Children(y)
    <3>1. x # root => \E y \in Node : Kid(node, pooled, {}, {}, y, x)
      BY <1>1, <2>1 DEF OneTree, Top
    <3> QED BY <1>3, <2>1, <3>1 DEF Kid
  <2>5. node[x].left = node[x].right => Children(x) = {}
    BY <1>1, <1>2 DEF OneTree, Forest
  <2> QED BY <2>3, <2>4, <2>5
<1> QED BY <1>1, <1>4, <1>5, <1>6 DEF PoolLinked, node, root

\* In every state the pool of shm_tree.c is one tree of exactly the nodes pushed and not
\* taken, headed by the lowest, with every link answered by a root link, its size is their
\* number, and no call of shm_tree_merge runs on without end, for any finite set of nodes.
THEOREM PoolLinkedThm == PoolSpec => []PoolLinked
<1>1. PoolSpec => []PoolIInv
  BY PoolInitIs, PoolNextIs, PTL DEF PoolSpec
<1> QED BY <1>1, PoolIsLinked, PTL
===============================================================================
