----------------------------- MODULE TreeProofs -----------------------------
(***************************************************************************)
(* The incremental tree builds the groups of balancedReduce as the leaves  *)
(* arrive, for every number of leaves and every combining function.        *)
(*                                                                         *)
(* The invariant FrontierInv says where the cuts between the subtrees of   *)
(* the frontier are, how far the walk of a push has come along them, and   *)
(* which merges it owes; that a walk always meets a cut follows from the   *)
(* nodes of the midpoint tree being laminar.                               *)
(***************************************************************************)
EXTENDS MCIncrementalBalanced, SequenceTheorems, ArithmeticLemmas

Inside(m, node) == node[1] <= m[1] /\ m[2] <= node[2]
Apart(m, node) == m[2] < node[1] \/ node[2] < m[1]

(* The frontier holds the ranges between consecutive cuts, each grouped as *)
(* balancedReduce groups it.                                               *)
Cuts(b) ==
    /\ b \in [1 .. Len(frontier) + 1 -> Nat] /\ b[1] = 0
    /\ \A x \in 1 .. Len(frontier) + 1 : \A y \in 1 .. Len(frontier) + 1 : x < y => b[x] < b[y]
    /\ \A x \in 1 .. Len(frontier) + 1 : x - 1 <= b[x]
    /\ \A x \in 1 .. Len(frontier) : frontier[x] = reduceRange[<<b[x], b[x + 1] - 1>>]

(* A node that starts at one cut has its middle before the next: then the  *)
(* range between the two is the left half of a node.                       *)
Halved(b, x, e) == <<b[x], e>> \in Nodes(total) /\ Middle(<<b[x], e>>) + 1 = b[x + 1]

(* ... of one that the leaf at hand belongs to.                            *)
Awaits(b, x) == \E e \in received .. total - 1 : Halved(b, x, e)

(* No larger node from a on ends at the leaf at hand.                      *)
Topmost(a) ==
    \/ a = 0 /\ received = total - 1
    \/ \E e \in received + 1 .. total - 1 :
          <<a, e>> \in Nodes(total) /\ Middle(<<a, e>>) = received

(* Room for another turn to the right.                                     *)
Room(x) == received + 1 < total => 2 * TwoTo[x] <= total

Idle(b, k) ==
    /\ b[k + 1] = received
    /\ received < total => TwoTo[k] <= total /\ \A x \in 1 .. k : Awaits(b, x)
    /\ received = total => k = 1

Pushed(b, k) ==
    /\ k >= 1 /\ received < total /\ b[k + 1] = received + 1 /\ TwoTo[k - 1] <= total
    /\ \A x \in 1 .. k - 1 : Awaits(b, x)

(* After p turns to the right the walk is at lo .. hi.                     *)
Walking(b, k, p) ==
    /\ b[k] = received
    /\ p \in 0 .. k - 1 /\ b[p + 1] = lo
    /\ <<lo, hi>> \in Nodes(total) /\ lo <= received /\ received <= hi
    /\ TwoTo[p] * (hi - lo + 1) <= total
    /\ merges \in 0 .. p
    /\ \A x \in p - merges + 1 .. p : Halved(b, x, received)
    /\ IF hi = received THEN Topmost(b[p - merges + 1]) /\ Room(p - merges) ELSE merges = 0

Merging(b, k) ==
    /\ <<b[k], received>> \in Nodes(total)
    /\ merges \in 0 .. k - 1
    /\ \A x \in k - merges .. k - 1 : Halved(b, x, received)
    /\ Topmost(b[k - merges]) /\ Room(k - merges - 1)

FrontierParts(b) ==
    /\ Cuts(b)
    /\ pc = "idle" => Idle(b, Len(frontier))
    /\ pc # "idle" => Pushed(b, Len(frontier))
    /\ pc = "descend" => \E p \in 0 .. Len(frontier) - 1 : Walking(b, Len(frontier), p)
    /\ pc = "merge" => Merging(b, Len(frontier))

Values == {reduceRange[node] : node \in Ranges}

(* Everything the walk and the merges rest on.                             *)
FrontierInv ==
    /\ total \in Totals /\ received \in 0 .. total /\ merges \in Nat
    /\ lo \in Int /\ hi \in Int /\ pc \in {"idle", "descend", "merge"}
    /\ frontier \in Seq(Values)
    /\ \E b : FrontierParts(b)

(* The halves of a range.                                                  *)
LEMMA HalvesAre ==
    ASSUME NEW a \in Nat, NEW e \in Nat, a <= e
    PROVE  /\ Middle(<<a, e>>) \in Nat /\ Middle(<<a, e>>) = (a + e) \div 2
           /\ a <= Middle(<<a, e>>) /\ Middle(<<a, e>>) <= e
           /\ a < e => Middle(<<a, e>>) < e
           /\ LeftHalf(<<a, e>>) = <<a, Middle(<<a, e>>)>>
           /\ RightHalf(<<a, e>>) = <<Middle(<<a, e>>) + 1, e>>
           /\ Halves(<<a, e>>) = IF a = e THEN {} ELSE {LeftHalf(<<a, e>>), RightHalf(<<a, e>>)}
           /\ LeftHalf(<<a, e>>) \in Ranges
           /\ a < e => RightHalf(<<a, e>>) \in Ranges
<1>1. (a + e) \div 2 \in Nat /\ a <= (a + e) \div 2 /\ (a + e) \div 2 <= e
      /\ (a < e => (a + e) \div 2 < e)
    OBVIOUS
<1>2. Middle(<<a, e>>) = (a + e) \div 2
    BY DEF Middle
<1>3. LeftHalf(<<a, e>>) = <<a, Middle(<<a, e>>)>> /\ RightHalf(<<a, e>>) = <<Middle(<<a, e>>) + 1, e>>
    BY DEF LeftHalf, RightHalf
<1>4. Halves(<<a, e>>) = IF a = e THEN {} ELSE {LeftHalf(<<a, e>>), RightHalf(<<a, e>>)}
    BY DEF Halves
<1> QED
    BY <1>1, <1>2, <1>3, <1>4 DEF Ranges

(* A half of a range, by its ends.                                         *)
LEMMA HalfIs ==
    ASSUME NEW node \in Ranges, NEW m \in Halves(node)
    PROVE  \E a \in Nat, e \in Nat, mid \in Nat :
             /\ node = <<a, e>> /\ mid = Middle(node)
             /\ a <= mid /\ mid < e
             /\ m = <<a, mid>> \/ m = <<mid + 1, e>>
<1>1. PICK a \in Nat, e \in Nat : node = <<a, e>> /\ a <= e
    BY DEF Ranges
<1>2. PICK mid \in Nat : mid = Middle(node) /\ a <= mid /\ (a < e => mid < e)
    BY <1>1, HalvesAre
<1>3. /\ Halves(node) = IF a = e THEN {} ELSE {LeftHalf(node), RightHalf(node)}
      /\ LeftHalf(node) = <<a, mid>> /\ RightHalf(node) = <<mid + 1, e>>
    <2>1. /\ Halves(<<a, e>>) = IF a = e THEN {} ELSE {LeftHalf(<<a, e>>), RightHalf(<<a, e>>)}
          /\ LeftHalf(<<a, e>>) = <<a, Middle(<<a, e>>)>>
          /\ RightHalf(<<a, e>>) = <<Middle(<<a, e>>) + 1, e>>
        BY <1>1, HalvesAre
    <2> QED
        BY <1>1, <1>2, <2>1, Zenon
<1>4. a # e /\ (m = <<a, mid>> \/ m = <<mid + 1, e>>)
    BY <1>3
<1> QED
    BY <1>1, <1>2, <1>4

(* g lists the levels of the tree over so many leaves.                     *)
Levels(g, size) ==
    g = [d \in Nat |-> IF d = 0 THEN {<<0, size - 1>>} ELSE UNION {Halves(node) : node \in g[d - 1]}]

LEMMA HalvesInRanges ==
    ASSUME NEW node \in Ranges
    PROVE  Halves(node) \subseteq Ranges
<1>1. PICK a \in Nat, e \in Nat : node = <<a, e>> /\ a <= e
    BY DEF Ranges
<1>2. /\ Halves(node) = IF a = e THEN {} ELSE {LeftHalf(node), RightHalf(node)}
      /\ LeftHalf(node) \in Ranges
      /\ a < e => RightHalf(node) \in Ranges
    BY <1>1, HalvesAre
<1> QED
    BY <1>1, <1>2

LEMMA LevelsExist ==
    ASSUME NEW size \in Nat \ {0}
    PROVE  \E g \in [Nat -> SUBSET Ranges] : Levels(g, size)
<1> DEFINE V == SUBSET Ranges
           G == [S \in V |-> UNION {Halves(node) : node \in S}]
           root == {<<0, size - 1>>}
<1>1. G \in [V -> V] /\ root \in V
    <2>1. \A S \in V : UNION {Halves(node) : node \in S} \in V
        BY HalvesInRanges
    <2>2. <<0, size - 1>> \in Ranges
        BY DEF Ranges
    <2> QED
        BY <2>1, <2>2
<1>2. \A S \in V : G[S] = UNION {Halves(node) : node \in S}
    OBVIOUS
<1> HIDE DEF G, V, root
<1>3. PICK g \in [Nat -> V] : Iterates(g, root, G, Nat)
    BY <1>1, IterationExists
<1>4. ASSUME NEW d \in Nat
      PROVE  g[d] = IF d = 0 THEN {<<0, size - 1>>} ELSE UNION {Halves(node) : node \in g[d - 1]}
    <2>1. g[d] = IF d = 0 THEN root ELSE G[g[d - 1]]
        BY <1>3 DEF Iterates
    <2>2. d # 0 => g[d - 1] \in V
        BY <1>3
    <2> QED
        BY <2>1, <2>2, <1>2 DEF root
<1>5. g = [d \in Nat |-> IF d = 0 THEN {<<0, size - 1>>} ELSE UNION {Halves(node) : node \in g[d - 1]}]
    <2>1. g = [d \in Nat |-> g[d]]
        BY <1>3
    <2> QED
        BY <2>1, <1>4, Zenon
<1>6. Levels(g, size)
    BY <1>5 DEF Levels
<1> QED
    BY <1>3, <1>6 DEF V

(* The levels behind Nodes.                                                *)
LEMMA NodesAre ==
    ASSUME NEW size \in Nat \ {0}
    PROVE  \E g : Levels(g, size) /\ Nodes(size) = UNION {g[d] : d \in 0 .. size - 1}
<1> DEFINE g == CHOOSE g : Levels(g, size)
<1>1. Levels(g, size)
    BY LevelsExist
<1>2. Nodes(size) = UNION {g[d] : d \in 0 .. size - 1}
    BY ZenonT(60) DEF Nodes, Levels
<1> QED
    BY <1>1, <1>2

LEMMA LevelsAre ==
    ASSUME NEW size \in Nat \ {0}, NEW g, Levels(g, size)
    PROVE  /\ g[0] = {<<0, size - 1>>}
           /\ \A d \in Nat : g[d + 1] = UNION {Halves(node) : node \in g[d]}
<1>1. \A d \in Nat :
          g[d] = IF d = 0 THEN {<<0, size - 1>>} ELSE UNION {Halves(node) : node \in g[d - 1]}
    BY DEF Levels
<1>2. ASSUME NEW d \in Nat PROVE g[d + 1] = UNION {Halves(node) : node \in g[d]}
    <2>1. d + 1 \in Nat /\ d + 1 # 0 /\ (d + 1) - 1 = d
        OBVIOUS
    <2> QED
        BY <1>1, <2>1
<1> QED
    BY <1>1, <1>2

(* A node of a deep level covers few leaves.                               *)
LEMMA LevelsNarrow ==
    ASSUME NEW size \in Nat \ {0}, NEW g, Levels(g, size), NEW d \in Nat, NEW node \in g[d]
    PROVE  node \in Ranges /\ node[2] < size /\ node[2] - node[1] + d < size
<1> DEFINE Narrow(k, m) == m \in Ranges /\ m[2] < size /\ m[2] - m[1] + k < size
           W == {k \in Nat : \A m \in g[k] : Narrow(k, m)}
<1>1. 0 \in W
    <2>1. Narrow(0, <<0, size - 1>>)
        BY DEF Ranges
    <2> QED
        BY <2>1, LevelsAre
<1>2. ASSUME NEW k \in Nat, k \in W
      PROVE  k + 1 \in W
    <2> SUFFICES ASSUME NEW m \in g[k + 1] PROVE Narrow(k + 1, m)
        OBVIOUS
    <2>1. PICK q \in g[k] : m \in Halves(q)
        BY LevelsAre
    <2>2. Narrow(k, q)
        BY <1>2
    <2>3. PICK a \in Nat, e \in Nat, mid \in Nat :
              q = <<a, e>> /\ a <= mid /\ mid < e /\ (m = <<a, mid>> \/ m = <<mid + 1, e>>)
        BY <2>1, <2>2, HalfIs
    <2>4. e < size /\ e - a + k < size
        BY <2>2, <2>3
    <2> QED
        BY <2>3, <2>4 DEF Ranges
<1> HIDE DEF W
<1>3. d \in W
    BY <1>1, <1>2, NumberInduction
<1> QED
    BY <1>3 DEF W

(* The nodes of the tree: the whole range, and the halves of nodes.        *)
LEMMA NodesShape ==
    ASSUME NEW size \in Nat \ {0}
    PROVE  /\ <<0, size - 1>> \in Nodes(size)
           /\ \A node \in Nodes(size) : node \in Ranges /\ node[2] < size /\ Halves(node) \subseteq Nodes(size)
<1>1. PICK g : Levels(g, size) /\ Nodes(size) = UNION {g[d] : d \in 0 .. size - 1}
    BY NodesAre
<1>2. <<0, size - 1>> \in Nodes(size)
    <2>1. <<0, size - 1>> \in g[0] /\ 0 \in 0 .. size - 1
        BY <1>1, LevelsAre
    <2> QED
        BY <1>1, <2>1
<1>3. ASSUME NEW node \in Nodes(size)
      PROVE  node \in Ranges /\ node[2] < size /\ Halves(node) \subseteq Nodes(size)
    <2>1. PICK d \in 0 .. size - 1 : node \in g[d]
        BY <1>1
    <2>2. d \in Nat
        OBVIOUS
    <2>3. node \in Ranges /\ node[2] < size /\ node[2] - node[1] + d < size
        BY <1>1, <2>1, <2>2, LevelsNarrow
    <2>4. ASSUME NEW m \in Halves(node) PROVE m \in Nodes(size)
        <3>1. PICK a \in Nat, e \in Nat : node = <<a, e>> /\ a <= e
            BY <2>3 DEF Ranges
        <3>2. a # e
            BY <3>1, HalvesAre
        <3>3. d + 1 \in 0 .. size - 1
            BY <2>1, <2>3, <3>1, <3>2
        <3>4. m \in g[d + 1]
            <4>1. g[d + 1] = UNION {Halves(q) : q \in g[d]}
                BY <1>1, <2>2, LevelsAre
            <4> QED
                BY <2>1, <4>1
        <3> QED
            BY <1>1, <3>3, <3>4
    <2> QED
        BY <2>3, <2>4
<1> QED
    BY <1>2, <1>3

(* What holds of the whole range and of the halves of a node it holds of,  *)
(* holds of every node.                                                    *)
LEMMA NodeInduction ==
    ASSUME NEW size \in Nat \ {0}, NEW W, <<0, size - 1>> \in W,
           \A node \in Nodes(size) : node \in W => Halves(node) \subseteq W,
           NEW m \in Nodes(size)
    PROVE  m \in W
<1>1. PICK g : Levels(g, size) /\ Nodes(size) = UNION {g[d] : d \in 0 .. size - 1}
    BY NodesAre
<1> DEFINE L == {d \in Nat : d < size => g[d] \subseteq W}
<1>2. 0 \in L
    BY <1>1, LevelsAre
<1>3. ASSUME NEW d \in Nat, d \in L
      PROVE  d + 1 \in L
    <2> SUFFICES ASSUME d + 1 < size, NEW node \in g[d + 1] PROVE node \in W
        OBVIOUS
    <2>1. PICK q \in g[d] : node \in Halves(q)
        BY <1>1, LevelsAre
    <2>2. d \in 0 .. size - 1
        OBVIOUS
    <2>3. q \in Nodes(size) /\ q \in W
        BY <1>1, <1>3, <2>2
    <2> QED
        BY <2>1, <2>3
<1>4. PICK d \in 0 .. size - 1 : m \in g[d]
    BY <1>1
<1> HIDE DEF L
<1>5. d \in Nat /\ d \in L
    BY <1>2, <1>3, NumberInduction
<1> QED
    BY <1>4, <1>5 DEF L

(* m lies in a half of n.                                                  *)
Within(m, node) == \E h \in Halves(node) : Inside(m, h)

Laminar(m, node) == Apart(m, node) \/ m = node \/ Within(m, node) \/ Within(node, m)

LEMMA HalvesInside ==
    ASSUME NEW node \in Ranges, NEW m \in Halves(node)
    PROVE  /\ m \in Ranges /\ Inside(m, node)
           /\ \A h \in Halves(node) : h = m \/ Apart(h, m)
<1>1. m \in Ranges
    BY HalvesInRanges
<1>2. PICK a \in Nat, e \in Nat, mid \in Nat :
          node = <<a, e>> /\ mid = Middle(node) /\ a <= mid /\ mid < e
          /\ (m = <<a, mid>> \/ m = <<mid + 1, e>>)
    BY HalfIs
<1>3. ASSUME NEW h \in Halves(node)
      PROVE  h = m \/ Apart(h, m)
    <2>1. PICK a2 \in Nat, e2 \in Nat, mid2 \in Nat :
              node = <<a2, e2>> /\ mid2 = Middle(node)
              /\ (h = <<a2, mid2>> \/ h = <<mid2 + 1, e2>>)
        BY HalfIs
    <2>2. a2 = a /\ e2 = e /\ mid2 = mid
        BY <1>2, <2>1
    <2> QED
        BY <1>2, <2>1, <2>2 DEF Apart
<1> QED
    BY <1>1, <1>2, <1>3 DEF Inside

LEMMA InsideTrans ==
    ASSUME NEW m \in Ranges, NEW node \in Ranges, NEW q \in Ranges, Inside(m, node)
    PROVE  /\ Inside(node, q) => Inside(m, q)
           /\ Apart(node, q) => Apart(m, q) /\ Apart(q, m)
           /\ Inside(node, m) => m = node
           /\ Inside(m, q) => ~Apart(node, q)
<1>1. PICK a \in Nat, e \in Nat : m = <<a, e>> /\ a <= e
    BY DEF Ranges
<1>2. PICK b \in Nat, f \in Nat : node = <<b, f>> /\ b <= f
    BY DEF Ranges
<1>3. PICK c \in Nat, g \in Nat : q = <<c, g>> /\ c <= g
    BY DEF Ranges
<1> QED
    BY <1>1, <1>2, <1>3 DEF Inside, Apart

LEMMA InsideSelf ==
    ASSUME NEW m \in Ranges
    PROVE  Inside(m, m)
<1>1. PICK a \in Nat, e \in Nat : m = <<a, e>>
    BY DEF Ranges
<1> QED
    BY <1>1 DEF Inside

LEMMA WithinOfInside ==
    ASSUME NEW m \in Ranges, NEW node \in Ranges, NEW q \in Ranges, Inside(m, node), Within(node, q)
    PROVE  Within(m, q)
<1>1. PICK h \in Halves(q) : Inside(node, h)
    BY DEF Within
<1>2. Inside(m, h)
    BY <1>1, HalvesInRanges, InsideTrans
<1> QED
    BY <1>1, <1>2 DEF Within

(* Every node but the whole range lies in a half of it.                    *)
LEMMA WithinTheWhole ==
    ASSUME NEW size \in Nat \ {0}, NEW node \in Nodes(size)
    PROVE  node = <<0, size - 1>> \/ Within(node, <<0, size - 1>>)
<1> DEFINE root == <<0, size - 1>>
           W == {m \in Nodes(size) : m = root \/ Within(m, root)}
<1>1. root \in W /\ root \in Ranges
    BY NodesShape
<1>2. ASSUME NEW q \in Nodes(size), q \in W, NEW m \in Halves(q)
      PROVE  m \in W
    <2>1. q \in Ranges /\ m \in Nodes(size) /\ m \in Ranges
        BY NodesShape
    <2>2. Inside(m, q) /\ Inside(m, m)
        BY <2>1, HalvesInside, InsideSelf
    <2>3. CASE q = root
        BY <2>1, <2>2, <2>3 DEF Within
    <2>4. CASE Within(q, root)
        BY <1>1, <2>1, <2>2, <2>4, WithinOfInside
    <2> QED
        BY <1>2, <2>3, <2>4
<1> HIDE DEF W, root
<1>3. node \in W
    <2>1. <<0, size - 1>> \in W
        BY <1>1 DEF root
    <2>2. \A m \in Nodes(size) : m \in W => Halves(m) \subseteq W
        BY <1>2
    <2> QED
        BY <2>1, <2>2, NodeInduction
<1> QED
    BY <1>3 DEF W, root

(* A half of a range is laminar with another half of another range.        *)
LEMMA HalvesLaminar ==
    ASSUME NEW q \in Ranges, NEW m \in Halves(q), NEW p \in Ranges, NEW node \in Halves(p),
           Laminar(q, node), Laminar(m, p)
    PROVE  Laminar(m, node)
<1>1. m \in Ranges /\ Inside(m, q) /\ (\A h \in Halves(q) : h = m \/ Apart(h, m))
    BY HalvesInside
<1>2. node \in Ranges /\ Inside(node, p) /\ (\A h \in Halves(p) : h = node \/ Apart(h, node))
    BY HalvesInside
<1>3. CASE Apart(q, node)
    BY <1>1, <1>2, <1>3, InsideTrans DEF Laminar
<1>4. CASE q = node
    BY <1>1, <1>4, InsideSelf DEF Laminar, Within
<1>5. CASE Within(q, node)
    BY <1>1, <1>2, <1>5, WithinOfInside DEF Laminar
<1>6. CASE Within(node, q)
    <2>1. PICK h \in Halves(q) : Inside(node, h)
        BY <1>6 DEF Within
    <2>2. h \in Ranges
        BY HalvesInRanges
    <2>3. CASE Apart(h, m)
        BY <1>1, <1>2, <2>1, <2>2, <2>3, InsideTrans DEF Laminar
    <2>4. CASE h = m
        <3>1. Inside(node, m)
            BY <2>1, <2>4
        <3>2. ~Apart(m, p)
            BY <1>1, <1>2, <3>1, InsideTrans
        <3>3. CASE m = p
            BY <1>2, <3>3, InsideSelf DEF Laminar, Within
        <3>4. CASE Within(p, m)
            BY <1>1, <1>2, <3>4, WithinOfInside DEF Laminar
        <3>5. CASE Within(m, p)
            <4>1. PICK k \in Halves(p) : Inside(m, k)
                BY <3>5 DEF Within
            <4>2. k \in Ranges
                BY HalvesInRanges
            <4>3. Inside(node, k)
                BY <1>1, <1>2, <3>1, <4>1, <4>2, InsideTrans
            <4>4. Inside(node, node) /\ ~Apart(k, node)
                BY <1>2, <4>2, <4>3, InsideSelf, InsideTrans
            <4>5. m = node
                BY <1>1, <1>2, <3>1, <4>1, <4>4, InsideTrans
            <4> QED
                BY <4>5 DEF Laminar
        <3> QED
            BY <3>2, <3>3, <3>4, <3>5 DEF Laminar
    <2> QED
        BY <1>1, <2>3, <2>4
<1> QED
    BY <1>3, <1>4, <1>5, <1>6 DEF Laminar

(* Two nodes are the same, cover no common leaf, or one lies in a half of  *)
(* the other.                                                              *)
LEMMA NodesLaminar ==
    ASSUME NEW size \in Nat \ {0}, NEW m \in Nodes(size), NEW node \in Nodes(size)
    PROVE  Laminar(m, node)
<1> DEFINE root == <<0, size - 1>>
           W == {q \in Nodes(size) : \A p \in Nodes(size) : Laminar(q, p)}
<1>1. root \in W
    BY NodesShape, WithinTheWhole DEF Laminar
<1>2. ASSUME NEW q \in Nodes(size), q \in W, NEW h \in Halves(q)
      PROVE  h \in W
    <2> DEFINE K == {p \in Nodes(size) : Laminar(h, p)}
    <2>1. q \in Ranges /\ h \in Nodes(size)
        BY NodesShape
    <2>2. root \in K
        BY <2>1, NodesShape, WithinTheWhole DEF Laminar
    <2>3. ASSUME NEW p \in Nodes(size), p \in K, NEW r \in Halves(p)
          PROVE  r \in K
        <3>1. p \in Ranges /\ r \in Nodes(size)
            BY NodesShape
        <3> QED
            BY <1>2, <2>1, <2>3, <3>1, HalvesLaminar
    <2> HIDE DEF K
    <2>4. ASSUME NEW p \in Nodes(size) PROVE p \in K
        <3>1. \A r \in Nodes(size) : r \in K => Halves(r) \subseteq K
            BY <2>3
        <3> QED
            BY <2>2, <3>1, NodeInduction
    <2> QED
        BY <2>1, <2>4 DEF K
<1> HIDE DEF W
<1>3. \A q \in Nodes(size) : q \in W => Halves(q) \subseteq W
    BY <1>2
<1>4. m \in W
    BY <1>1, <1>3, NodeInduction
<1> QED
    BY <1>4 DEF W

(* The ends of a node and of its halves.                                   *)
LEMMA NodeEnds ==
    ASSUME NEW size \in Nat \ {0}, NEW a, NEW e, <<a, e>> \in Nodes(size)
    PROVE  /\ a \in Nat /\ e \in Nat /\ a <= e /\ e < size
           /\ Middle(<<a, e>>) \in Nat /\ a <= Middle(<<a, e>>) /\ Middle(<<a, e>>) <= e
           /\ Middle(<<a, e>>) = (a + e) \div 2
           /\ a < e => /\ Middle(<<a, e>>) < e
                       /\ <<a, Middle(<<a, e>>)>> \in Nodes(size)
                       /\ <<Middle(<<a, e>>) + 1, e>> \in Nodes(size)
<1>1. <<a, e>> \in Ranges /\ e < size /\ Halves(<<a, e>>) \subseteq Nodes(size)
    BY NodesShape
<1>2. a \in Nat /\ e \in Nat /\ a <= e
    BY <1>1 DEF Ranges
<1>3. /\ Middle(<<a, e>>) \in Nat /\ a <= Middle(<<a, e>>) /\ Middle(<<a, e>>) <= e
      /\ Middle(<<a, e>>) = (a + e) \div 2
      /\ a < e => Middle(<<a, e>>) < e
      /\ LeftHalf(<<a, e>>) = <<a, Middle(<<a, e>>)>>
      /\ RightHalf(<<a, e>>) = <<Middle(<<a, e>>) + 1, e>>
      /\ Halves(<<a, e>>) = IF a = e THEN {} ELSE {LeftHalf(<<a, e>>), RightHalf(<<a, e>>)}
    BY <1>2, HalvesAre
<1>4. a < e => /\ <<a, Middle(<<a, e>>)>> \in Nodes(size)
               /\ <<Middle(<<a, e>>) + 1, e>> \in Nodes(size)
    <2> SUFFICES ASSUME a < e
                 PROVE  /\ <<a, Middle(<<a, e>>)>> \in Nodes(size)
                        /\ <<Middle(<<a, e>>) + 1, e>> \in Nodes(size)
        OBVIOUS
    <2>1. LeftHalf(<<a, e>>) \in Halves(<<a, e>>) /\ RightHalf(<<a, e>>) \in Halves(<<a, e>>)
        BY <1>2, <1>3
    <2>2. LeftHalf(<<a, e>>) \in Nodes(size) /\ RightHalf(<<a, e>>) \in Nodes(size)
        BY <1>1, <2>1
    <2> QED
        BY <1>3, <2>2
<1> QED
    BY <1>1, <1>2, <1>3, <1>4

LEMMA WithinEnds ==
    ASSUME NEW a \in Nat, NEW e \in Nat, NEW b \in Nat, NEW f \in Nat, a <= e, b <= f,
           Within(<<a, e>>, <<b, f>>)
    PROVE  /\ b <= a /\ e <= f /\ b < f
           /\ e <= Middle(<<b, f>>) \/ Middle(<<b, f>>) < a
<1>1. PICK h \in Halves(<<b, f>>) : Inside(<<a, e>>, h)
    BY DEF Within
<1>2. PICK c \in Nat, g \in Nat, mid \in Nat :
          <<b, f>> = <<c, g>> /\ mid = Middle(<<b, f>>) /\ c <= mid /\ mid < g
          /\ (h = <<c, mid>> \/ h = <<mid + 1, g>>)
    <2>1. <<b, f>> \in Ranges
        BY DEF Ranges
    <2> QED
        BY <2>1, <1>1, HalfIs
<1>3. c = b /\ g = f
    BY <1>2
<1> QED
    BY <1>1, <1>2, <1>3 DEF Inside

(* Two nodes, by their ends.                                               *)
LEMMA NodesNest ==
    ASSUME NEW size \in Nat \ {0}, NEW a, NEW e, NEW b, NEW f,
           <<a, e>> \in Nodes(size), <<b, f>> \in Nodes(size)
    PROVE  \/ e < b \/ f < a
           \/ a = b /\ e = f
           \/ b <= a /\ e <= f /\ b < f /\ (e <= Middle(<<b, f>>) \/ Middle(<<b, f>>) < a)
           \/ a <= b /\ f <= e /\ a < e /\ (f <= Middle(<<a, e>>) \/ Middle(<<a, e>>) < b)
<1>1. a \in Nat /\ e \in Nat /\ a <= e /\ b \in Nat /\ f \in Nat /\ b <= f
    BY NodeEnds
<1>2. Laminar(<<a, e>>, <<b, f>>)
    BY NodesLaminar
<1>3. CASE Apart(<<a, e>>, <<b, f>>)
    BY <1>1, <1>3 DEF Apart
<1>4. CASE <<a, e>> = <<b, f>>
    BY <1>4
<1>5. CASE Within(<<a, e>>, <<b, f>>)
    BY <1>1, <1>5, WithinEnds
<1>6. CASE Within(<<b, f>>, <<a, e>>)
    BY <1>1, <1>6, WithinEnds
<1> QED
    BY <1>2, <1>3, <1>4, <1>5, <1>6 DEF Laminar

(* ... which start at the same leaf and agree that v is to the right of    *)
(* the middle.                                                             *)
LEMMA NodesOfOneStart ==
    ASSUME NEW size \in Nat \ {0}, NEW a, NEW e, NEW f, NEW v \in Nat,
           <<a, e>> \in Nodes(size), <<a, f>> \in Nodes(size),
           Middle(<<a, e>>) < v, v <= e, Middle(<<a, f>>) < v, v <= f
    PROVE  e = f
<1>1. /\ a \in Nat /\ e \in Nat /\ f \in Nat
      /\ a <= Middle(<<a, e>>) /\ a <= Middle(<<a, f>>)
      /\ Middle(<<a, e>>) \in Nat /\ Middle(<<a, f>>) \in Nat
    BY NodeEnds
<1> QED
    BY <1>1, NodesNest

----------------------------------------------------------------------------
(* The recursive function reduceRange.                                     *)

Narrower(w) == {node \in Ranges : node[2] - node[1] <= w}

(* h groups the ranges of S as balancedReduce does.                        *)
Reduces(h, S) ==
    \A node \in S : h[node] = IF node[1] = node[2] THEN Leaf(node[1])
                        ELSE Combine(h[LeftHalf(node)], h[RightHalf(node)])

LEMMA HalvesNarrower ==
    ASSUME NEW w \in Nat, NEW node \in Narrower(w), node[1] # node[2]
    PROVE  /\ w # 0
           /\ LeftHalf(node) \in Narrower(w - 1) /\ RightHalf(node) \in Narrower(w - 1)
<1>1. PICK a \in Nat, e \in Nat : node = <<a, e>> /\ a <= e /\ e - a <= w
    BY DEF Ranges, Narrower
<1>2. a < e /\ w # 0
    BY <1>1
<1>3. /\ Middle(<<a, e>>) \in Nat /\ a <= Middle(<<a, e>>) /\ Middle(<<a, e>>) < e
      /\ LeftHalf(<<a, e>>) = <<a, Middle(<<a, e>>)>>
      /\ RightHalf(<<a, e>>) = <<Middle(<<a, e>>) + 1, e>>
    BY <1>1, <1>2, HalvesAre
<1>4. LeftHalf(<<a, e>>) \in Narrower(w - 1) /\ RightHalf(<<a, e>>) \in Narrower(w - 1)
    BY <1>1, <1>2, <1>3 DEF Ranges, Narrower
<1> QED
    BY <1>1, <1>2, <1>4

LEMMA ReducesTo ==
    ASSUME NEW w \in Nat
    PROVE  \E h : Reduces(h, Narrower(w))
<1> DEFINE W == {k \in Nat : \E h : Reduces(h, Narrower(k))}
<1>1. 0 \in W
    <2> DEFINE h == [node \in Narrower(0) |-> Leaf(node[1])]
    <2>1. \A node \in Narrower(0) : h[node] = Leaf(node[1]) /\ node[1] = node[2]
        BY HalvesNarrower
    <2> HIDE DEF h
    <2>2. Reduces(h, Narrower(0))
        BY <2>1 DEF Reduces
    <2> QED
        BY <2>2
<1>2. ASSUME NEW k \in Nat, k \in W
      PROVE  k + 1 \in W
    <2>1. PICK g : Reduces(g, Narrower(k))
        BY <1>2
    <2> DEFINE h == [node \in Narrower(k + 1) |->
                       IF node[1] = node[2] THEN Leaf(node[1])
                       ELSE Combine(g[LeftHalf(node)], g[RightHalf(node)])]
    <2>2. \A node \in Narrower(k + 1) :
              h[node] = IF node[1] = node[2] THEN Leaf(node[1])
                     ELSE Combine(g[LeftHalf(node)], g[RightHalf(node)])
        OBVIOUS
    <2> HIDE DEF h
    <2>3. \A node \in Narrower(k) : node \in Narrower(k + 1) /\ h[node] = g[node]
        <3>1. \A node \in Narrower(k) : node \in Narrower(k + 1)
            BY DEF Narrower, Ranges
        <3>2. \A node \in Narrower(k) : g[node] = IF node[1] = node[2] THEN Leaf(node[1])
                        ELSE Combine(g[LeftHalf(node)], g[RightHalf(node)])
            BY <2>1 DEF Reduces
        <3> QED
            BY <2>2, <3>1, <3>2
    <2>4. ASSUME NEW node \in Narrower(k + 1)
          PROVE  h[node] = IF node[1] = node[2] THEN Leaf(node[1])
                        ELSE Combine(h[LeftHalf(node)], h[RightHalf(node)])
        <3>1. CASE node[1] = node[2]
            BY <2>2, <3>1
        <3>2. CASE node[1] # node[2]
            <4>1. (k + 1) - 1 = k /\ k + 1 \in Nat
                OBVIOUS
            <4>2. LeftHalf(node) \in Narrower(k) /\ RightHalf(node) \in Narrower(k)
                BY <3>2, <4>1, HalvesNarrower
            <4> QED
                BY <2>2, <2>3, <3>2, <4>2
        <3> QED
            BY <3>1, <3>2
    <2>5. Reduces(h, Narrower(k + 1))
        BY <2>4 DEF Reduces
    <2> QED
        BY <2>5
<1> HIDE DEF W
<1>3. w \in W
    BY <1>1, <1>2, NumberInduction
<1> QED
    BY <1>3 DEF W

LEMMA ReducesAlike ==
    ASSUME NEW v \in Nat, NEW w \in Nat, NEW g, NEW h,
           Reduces(g, Narrower(v)), Reduces(h, Narrower(w)),
           NEW node \in Narrower(v), node \in Narrower(w)
    PROVE  g[node] = h[node]
<1> DEFINE W == {k \in Nat : \A m \in Narrower(k) :
                     m \in Narrower(v) /\ m \in Narrower(w) => g[m] = h[m]}
<1>1. ASSUME NEW m \in Narrower(v), m \in Narrower(w)
      PROVE  /\ g[m] = IF m[1] = m[2] THEN Leaf(m[1])
                       ELSE Combine(g[LeftHalf(m)], g[RightHalf(m)])
             /\ h[m] = IF m[1] = m[2] THEN Leaf(m[1])
                       ELSE Combine(h[LeftHalf(m)], h[RightHalf(m)])
    BY <1>1 DEF Reduces
<1>2. 0 \in W
    <2>1. \A m \in Narrower(0) : m[1] = m[2]
        BY HalvesNarrower
    <2> QED
        BY <1>1, <2>1
<1>3. ASSUME NEW k \in Nat, k \in W
      PROVE  k + 1 \in W
    <2> SUFFICES ASSUME NEW m \in Narrower(k + 1), m \in Narrower(v), m \in Narrower(w)
                 PROVE  g[m] = h[m]
        OBVIOUS
    <2>1. CASE m[1] = m[2]
        BY <1>1, <2>1
    <2>2. CASE m[1] # m[2]
        <3>1. (k + 1) - 1 = k /\ k + 1 \in Nat
            OBVIOUS
        <3>2. LeftHalf(m) \in Narrower(k) /\ RightHalf(m) \in Narrower(k)
            BY <2>2, <3>1, HalvesNarrower
        <3>3. /\ v # 0 /\ LeftHalf(m) \in Narrower(v - 1) /\ RightHalf(m) \in Narrower(v - 1)
              /\ w # 0 /\ LeftHalf(m) \in Narrower(w - 1) /\ RightHalf(m) \in Narrower(w - 1)
            BY <2>2, HalvesNarrower
        <3>4. Narrower(v - 1) \subseteq Narrower(v) /\ Narrower(w - 1) \subseteq Narrower(w)
            BY DEF Narrower, Ranges
        <3>5. g[LeftHalf(m)] = h[LeftHalf(m)] /\ g[RightHalf(m)] = h[RightHalf(m)]
            BY <1>3, <3>2, <3>3, <3>4
        <3> QED
            BY <1>1, <2>2, <3>5
    <2> QED
        BY <2>1, <2>2
<1> HIDE DEF W
<1>4. v \in W
    BY <1>2, <1>3, NumberInduction
<1> QED
    BY <1>4 DEF W

(* A range is reduced half by half.                                        *)
LEMMA ReduceRangeIs ==
    ASSUME NEW node \in Ranges
    PROVE  reduceRange[node] = IF node[1] = node[2] THEN Leaf(node[1])
                            ELSE Combine(reduceRange[LeftHalf(node)], reduceRange[RightHalf(node)])
<1> DEFINE width(m) == m[2] - m[1]
           G(w) == CHOOSE g : Reduces(g, Narrower(w))
           h == [m \in Ranges |-> G(width(m))[m]]
<1>1. \A w \in Nat : Reduces(G(w), Narrower(w))
    BY ReducesTo
<1>2. \A m \in Ranges : width(m) \in Nat /\ m \in Narrower(width(m))
    BY DEF Ranges, Narrower
<1>3. \A m \in Ranges : h[m] = G(width(m))[m]
    OBVIOUS
<1>4. h = [m \in Ranges |-> h[m]]
    OBVIOUS
<1> HIDE DEF G, h, width
<1>5. ASSUME NEW m \in Ranges
      PROVE  h[m] = IF m[1] = m[2] THEN Leaf(m[1])
                    ELSE Combine(h[LeftHalf(m)], h[RightHalf(m)])
    <2> DEFINE w == width(m)
    <2>1. /\ w \in Nat /\ m \in Narrower(w) /\ Reduces(G(w), Narrower(w)) /\ h[m] = G(w)[m]
        BY <1>1, <1>2, <1>3
    <2> HIDE DEF w
    <2>2. G(w)[m] = IF m[1] = m[2] THEN Leaf(m[1])
                    ELSE Combine(G(w)[LeftHalf(m)], G(w)[RightHalf(m)])
        BY <2>1 DEF Reduces
    <2>3. ASSUME NEW q \in Narrower(w)
          PROVE  G(w)[q] = h[q]
        <3>1. q \in Ranges
            BY DEF Narrower
        <3>2. width(q) \in Nat /\ q \in Narrower(width(q)) /\ Reduces(G(width(q)), Narrower(width(q)))
            BY <1>1, <1>2, <3>1
        <3>3. G(w)[q] = G(width(q))[q]
            BY <2>1, <3>2, ReducesAlike
        <3> QED
            BY <1>3, <3>1, <3>3
    <2>4. CASE m[1] = m[2]
        BY <2>1, <2>2, <2>4
    <2>5. CASE m[1] # m[2]
        <3>1. /\ LeftHalf(m) \in Narrower(w - 1) /\ RightHalf(m) \in Narrower(w - 1)
            BY <2>1, <2>5, HalvesNarrower
        <3>2. Narrower(w - 1) \subseteq Narrower(w)
            BY <2>1 DEF Narrower, Ranges
        <3>3. G(w)[LeftHalf(m)] = h[LeftHalf(m)] /\ G(w)[RightHalf(m)] = h[RightHalf(m)]
            BY <2>3, <3>1, <3>2
        <3> QED
            BY <2>1, <2>2, <2>5, <3>3
    <2> QED
        BY <2>4, <2>5
<1> DEFINE Grouping(g) == g = [m \in Ranges |->
                             IF m[1] = m[2] THEN Leaf(m[1])
                             ELSE Combine(g[LeftHalf(m)], g[RightHalf(m)])]
<1>6. Grouping(h)
    BY <1>4, <1>5, Zenon
<1>7. reduceRange = CHOOSE g : Grouping(g)
    BY ZenonT(60) DEF reduceRange
<1> HIDE DEF Grouping
<1>8. Grouping(reduceRange)
    BY <1>6, <1>7
<1> QED
    BY <1>8 DEF Grouping

----------------------------------------------------------------------------
(* The frontier is kept.                                                   *)

LEMMA TwoToIs ==
    /\ TwoTo[0] = 1
    /\ \A e \in Nat : TwoTo[e] \in Nat \ {0} /\ TwoTo[e + 1] = 2 * TwoTo[e]
<1>1. \E h : PowersOf(h, 2)
    <2>1. PICK x \in Int : x = 2
        OBVIOUS
    <2> QED
        BY <2>1, PowersExist
<1>2. TwoTo = CHOOSE h : PowersOf(h, 2)
    BY ZenonT(60) DEF TwoTo, PowersOf
<1>3. PowersOf(TwoTo, 2)
    BY <1>1, <1>2
<1>4. TwoTo[0] = 1 /\ \A e \in Nat : TwoTo[e] \in Int /\ TwoTo[e + 1] = 2 * TwoTo[e]
    <2>1. PICK x \in Int : x = 2
        OBVIOUS
    <2>2. PowersOf(TwoTo, x)
        BY <1>3, <2>1
    <2>3. TwoTo[0] = 1 /\ \A e \in Nat : TwoTo[e] \in Int /\ TwoTo[e + 1] = x * TwoTo[e]
        BY <2>2, PowersAre
    <2> QED
        BY <2>1, <2>3
<1> DEFINE W == {e \in Nat : TwoTo[e] \in Nat \ {0}}
<1>5. 0 \in W /\ \A e \in Nat : e \in W => e + 1 \in W
    BY <1>4
<1>6. ASSUME NEW e \in Nat PROVE TwoTo[e] \in Nat \ {0}
    <2> HIDE DEF W
    <2>1. e \in W
        BY <1>5, NumberInduction
    <2> QED
        BY <2>1 DEF W
<1> QED
    BY <1>4, <1>6

LEMMA TotalPositive ==
    ASSUME total \in Totals
    PROVE  total \in Nat \ {0}
BY TotalsAssumption

LEMMA ReduceLeaf ==
    ASSUME NEW a \in Nat
    PROVE  reduceRange[<<a, a>>] = Leaf(a) /\ reduceRange[<<a, a>>] \in Values
<1>1. <<a, a>> \in Ranges
    BY DEF Ranges
<1> QED
    BY <1>1, ReduceRangeIs DEF Values

LEMMA ReduceHalves ==
    ASSUME NEW a \in Nat, NEW e \in Nat, NEW mid \in Nat, a < e, mid = Middle(<<a, e>>)
    PROVE  /\ reduceRange[<<a, e>>] = Combine(reduceRange[<<a, mid>>], reduceRange[<<mid + 1, e>>])
           /\ reduceRange[<<a, e>>] \in Values
<1>1. <<a, e>> \in Ranges /\ LeftHalf(<<a, e>>) = <<a, mid>> /\ RightHalf(<<a, e>>) = <<mid + 1, e>>
    <2>1. <<a, e>> \in Ranges
        BY DEF Ranges
    <2>2. /\ LeftHalf(<<a, e>>) = <<a, Middle(<<a, e>>)>>
          /\ RightHalf(<<a, e>>) = <<Middle(<<a, e>>) + 1, e>>
        <3>1. a <= e
            OBVIOUS
        <3> QED
            BY <3>1, HalvesAre
    <2> QED
        BY <2>1, <2>2
<1>2. reduceRange[<<a, e>>] = Combine(reduceRange[LeftHalf(<<a, e>>)], reduceRange[RightHalf(<<a, e>>)])
    BY <1>1, ReduceRangeIs
<1> QED
    BY <1>1, <1>2 DEF Values

LEMMA FrontierAtFirst ==
    ASSUME TreeInit
    PROVE  FrontierInv
<1>1. total \in Nat \ {0} /\ total \in Totals
    BY TotalPositive DEF TreeInit
<1> DEFINE b == [x \in 1 .. 1 |-> 0]
<1>2. b \in [1 .. 1 -> Nat] /\ b[1] = 0
    OBVIOUS
<1> HIDE DEF b
<1>3. frontier \in Seq(Values) /\ Len(frontier) = 0
    BY DEF TreeInit
<1>4. Cuts(b)
    BY <1>2, <1>3 DEF Cuts
<1>5. Idle(b, 0)
    BY <1>1, <1>2, TwoToIs DEF Idle, TreeInit
<1>6. FrontierParts(b)
    BY <1>3, <1>4, <1>5 DEF FrontierParts, TreeInit
<1> QED
    BY <1>1, <1>3, <1>6 DEF FrontierInv, TreeInit

LEMMA PushKeepsFrontier ==
    ASSUME FrontierInv, Push(Leaf(received))
    PROVE  FrontierInv'
<1>0. PICK k : k = Len(frontier)
    OBVIOUS
<1>1. /\ total \in Totals /\ total \in Nat \ {0} /\ received \in Nat /\ received < total
      /\ frontier \in Seq(Values) /\ k \in Nat /\ k = Len(frontier)
      /\ frontier' = Append(frontier, Leaf(received))
      /\ merges' = 0 /\ lo' = 0 /\ hi' = total - 1 /\ pc' = "descend"
      /\ total' = total /\ received' = received /\ pc = "idle"
    BY <1>0, TotalPositive DEF FrontierInv, Push, Expected
<1>2. PICK b : FrontierParts(b)
    BY DEF FrontierInv
<1>3. /\ b \in [1 .. k + 1 -> Nat] /\ b[1] = 0 /\ b[k + 1] = received /\ TwoTo[k] <= total
      /\ \A x \in 1 .. k : Awaits(b, x)
      /\ \A x \in 1 .. k + 1 : \A y \in 1 .. k + 1 : x < y => b[x] < b[y]
      /\ \A x \in 1 .. k + 1 : x - 1 <= b[x]
      /\ \A x \in 1 .. k : frontier[x] = reduceRange[<<b[x], b[x + 1] - 1>>]
    BY <1>1, <1>2 DEF FrontierParts, Cuts, Idle
<1>4. PICK c : /\ c \in [1 .. k + 2 -> Nat] /\ c[k + 2] = received + 1
               /\ \A x \in 1 .. k + 1 : c[x] = b[x]
    <2> DEFINE c == [x \in 1 .. k + 2 |-> IF x = k + 2 THEN received + 1 ELSE b[x]]
    <2>1. /\ c \in [1 .. k + 2 -> Nat] /\ c[k + 2] = received + 1
          /\ \A x \in 1 .. k + 1 : c[x] = b[x]
        BY <1>1, <1>3
    <2> QED
        BY <2>1
<1>5. /\ Leaf(received) \in Values
      /\ Leaf(received) = reduceRange[<<received, received>>]
    BY <1>1, ReduceLeaf
<1>6. /\ frontier' \in Seq(Values) /\ Len(frontier') = k + 1
      /\ frontier'[k + 1] = Leaf(received)
      /\ \A x \in 1 .. k : frontier'[x] = frontier[x]
    BY <1>1, <1>5, AppendProperties
<1>7. Cuts(c)'
    <2>1. c[1] = 0 /\ c[k + 1] = received
        BY <1>1, <1>3, <1>4
    <2>2. \A x \in 1 .. k + 2 : \A y \in 1 .. k + 2 : x < y => c[x] < c[y]
        <3> SUFFICES ASSUME NEW x \in 1 .. k + 2, NEW y \in 1 .. k + 2, x < y
                     PROVE  c[x] < c[y]
            OBVIOUS
        <3>1. x \in 1 .. k + 1 /\ c[x] = b[x]
            BY <1>1, <1>4
        <3>2. CASE y \in 1 .. k + 1
            BY <1>3, <1>4, <3>1, <3>2
        <3>3. CASE y = k + 2
            <4>1. b[x] <= b[k + 1]
                <5>1. k + 1 \in 1 .. k + 1 /\ (x = k + 1 \/ x < k + 1)
                    BY <1>1, <3>1
                <5> QED
                    BY <1>3, <3>1, <5>1
            <4>2. b[x] \in Nat /\ c[y] = received + 1
                BY <1>3, <1>4, <3>1, <3>3
            <4> QED
                BY <1>1, <1>3, <3>1, <4>1, <4>2
        <3> QED
            BY <1>1, <3>2, <3>3
    <2>3. \A x \in 1 .. k + 2 : x - 1 <= c[x]
        <3> SUFFICES ASSUME NEW x \in 1 .. k + 2
                     PROVE  x - 1 <= c[x]
            OBVIOUS
        <3>1. CASE x \in 1 .. k + 1
            BY <1>3, <1>4, <3>1
        <3>2. CASE x = k + 2
            <4>1. k + 1 \in 1 .. k + 1
                BY <1>1
            <4>2. k <= received
                BY <1>1, <1>3, <4>1
            <4> QED
                BY <1>1, <1>4, <3>2, <4>2
        <3> QED
            BY <1>1, <3>1, <3>2
    <2>4. \A x \in 1 .. k + 1 : frontier'[x] = reduceRange[<<c[x], c[x + 1] - 1>>]
        <3> SUFFICES ASSUME NEW x \in 1 .. k + 1
                     PROVE  frontier'[x] = reduceRange[<<c[x], c[x + 1] - 1>>]
            OBVIOUS
        <3>1. CASE x \in 1 .. k
            <4>1. x \in 1 .. k + 1 /\ x + 1 \in 1 .. k + 1
                BY <1>1, <3>1
            <4> QED
                BY <1>3, <1>4, <1>6, <3>1, <4>1
        <3>2. CASE x = k + 1
            <4>1. x + 1 = k + 2 /\ c[x] = received /\ c[x + 1] - 1 = received
                BY <1>1, <1>4, <2>1, <3>2
            <4> QED
                BY <1>5, <1>6, <3>2, <4>1
        <3>3. x \in 1 .. k \/ x = k + 1
            BY <1>1
        <3> QED
            BY <3>1, <3>2, <3>3
    <2>5. Len(frontier') + 1 = k + 2 /\ Len(frontier') = k + 1
        BY <1>1, <1>6
    <2> QED
        BY <1>4, <2>1, <2>2, <2>3, <2>4, <2>5 DEF Cuts
<1>8. Pushed(c, k + 1)'
    <2>1. ASSUME NEW x \in 1 .. k PROVE Awaits(c, x)
        <3>1. c[x] = b[x] /\ c[x + 1] = b[x + 1]
            <4>1. x \in 1 .. k + 1 /\ x + 1 \in 1 .. k + 1
                BY <1>1
            <4> QED
                BY <1>4, <4>1
        <3> QED
            BY <1>3, <3>1 DEF Awaits, Halved
    <2>2. ASSUME NEW x \in 1 .. k PROVE Awaits(c, x)'
        <3>1. Awaits(c, x)
            BY <2>1
        <3> QED
            BY <1>1, <3>1 DEF Awaits, Halved
    <2>3. (k + 1) - 1 = k /\ k + 1 >= 1 /\ (k + 1) + 1 = k + 2
        BY <1>1
    <2>4. received' < total' /\ c[(k + 1) + 1] = received' + 1 /\ TwoTo[(k + 1) - 1] <= total'
        BY <1>1, <1>3, <1>4, <2>3
    <2> QED
        BY <2>2, <2>3, <2>4 DEF Pushed
<1>9. Walking(c, k + 1, 0)'
    <2>1. <<0, total - 1>> \in Nodes(total)
        BY <1>1, NodesShape
    <2>2. TwoTo[0] * ((total - 1) - 0 + 1) <= total
        BY <1>1, TwoToIs
    <2>3. total - 1 = received => (Topmost(c[1]) /\ Room(0))'
        BY <1>1, <1>3, <1>4 DEF Topmost, Room
    <2>4. c[1] = 0 /\ c[k + 1] = received
        BY <1>1, <1>3, <1>4
    <2> QED
        BY <1>1, <2>1, <2>2, <2>3, <2>4 DEF Walking
<1>10. FrontierParts(c)'
    <2>1. Len(frontier') = k + 1 /\ 0 \in 0 .. (k + 1) - 1
        BY <1>1, <1>6
    <2> QED
        BY <1>1, <2>1, <1>7, <1>8, <1>9 DEF FrontierParts
<1> QED
    BY <1>1, <1>6, <1>10 DEF FrontierInv

(* A push is under way, and b cuts the k parts of the frontier.            *)
Underway(b, k) ==
    /\ total \in Totals /\ total \in Nat \ {0} /\ received \in Nat
    /\ received < total /\ merges \in Nat
    /\ frontier \in Seq(Values) /\ k \in Nat \ {0} /\ k = Len(frontier)
    /\ Cuts(b) /\ Pushed(b, k) /\ FrontierParts(b)
    /\ b \in [1 .. k + 1 -> Nat] /\ b[1] = 0 /\ b[k] \in Nat /\ b[k + 1] = received + 1
    /\ \A x \in 1 .. k + 1 : \A y \in 1 .. k + 1 : x < y => b[x] < b[y]
    /\ \A x \in 1 .. k : frontier[x] = reduceRange[<<b[x], b[x + 1] - 1>>]
    /\ \A x \in 1 .. k - 1 : Awaits(b, x)

(* What the invariant says while a push is under way.                      *)
LEMMA DuringAPush ==
    ASSUME FrontierInv, pc # "idle"
    PROVE  \E b, k : Underway(b, k)
<1>1. PICK b : FrontierParts(b)
    BY DEF FrontierInv
<1>2. PICK k : k = Len(frontier)
    OBVIOUS
<1>3. total \in Totals /\ total \in Nat \ {0} /\ received \in Nat /\ merges \in Nat
      /\ frontier \in Seq(Values) /\ k \in Nat
    BY <1>2, TotalPositive DEF FrontierInv
<1>4. Cuts(b) /\ Pushed(b, k)
    BY <1>1, <1>2 DEF FrontierParts
<1>5. k >= 1 /\ received < total /\ b[k + 1] = received + 1
    BY <1>4 DEF Pushed
<1>6. /\ b \in [1 .. k + 1 -> Nat] /\ b[1] = 0
      /\ \A x \in 1 .. k + 1 : \A y \in 1 .. k + 1 : x < y => b[x] < b[y]
      /\ \A x \in 1 .. k : frontier[x] = reduceRange[<<b[x], b[x + 1] - 1>>]
    BY <1>2, <1>4 DEF Cuts
<1>7. k \in Nat \ {0} /\ b[k] \in Nat /\ \A x \in 1 .. k - 1 : Awaits(b, x)
    <2>1. k \in 1 .. k + 1
        BY <1>3, <1>5
    <2> QED
        BY <1>3, <1>4, <1>5, <1>6, <2>1 DEF Pushed
<1>8. Underway(b, k)
    BY <1>1, <1>2, <1>3, <1>4, <1>5, <1>6, <1>7 DEF Underway
<1> QED
    BY <1>8

(* A turn to the right meets the next cut.                                 *)
LEMMA TurnMeetsCut ==
    ASSUME NEW b, NEW k \in Nat, NEW p \in 0 .. k - 1, b \in [1 .. k + 1 -> Nat],
           total \in Nat \ {0}, received \in Nat,
           \A x \in 1 .. k + 1 : \A y \in 1 .. k + 1 : x < y => b[x] < b[y],
           b[k] = received, b[p + 1] = lo,
           <<lo, hi>> \in Nodes(total), Middle(<<lo, hi>>) < received, received <= hi,
           \A x \in 1 .. k - 1 : Awaits(b, x)
    PROVE  p + 1 < k /\ b[p + 2] = Middle(<<lo, hi>>) + 1
<1>1. lo \in Nat /\ hi \in Nat /\ lo <= Middle(<<lo, hi>>) /\ Middle(<<lo, hi>>) \in Nat
    BY NodeEnds
<1>2. p + 1 # k
    BY <1>1
<1>3. p + 1 \in 1 .. k - 1 /\ p + 2 \in 1 .. k /\ p + 2 \in 1 .. k + 1 /\ k \in 1 .. k + 1
    BY <1>2
<1>4. PICK e \in received .. total - 1 : Halved(b, p + 1, e)
    <2>1. Awaits(b, p + 1)
        BY <1>3
    <2> QED
        BY <2>1 DEF Awaits
<1>5. <<lo, e>> \in Nodes(total) /\ Middle(<<lo, e>>) + 1 = b[p + 2] /\ (p + 1) + 1 = p + 2
    <2>1. (p + 1) + 1 = p + 2
        OBVIOUS
    <2> QED
        BY <1>4, <2>1 DEF Halved
<1>6. b[p + 2] <= received
    <2>1. p + 2 = k \/ p + 2 < k
        BY <1>3
    <2> QED
        BY <1>3, <2>1
<1>7. Middle(<<lo, e>>) \in Nat /\ Middle(<<lo, e>>) < received /\ received <= e
    <2>1. Middle(<<lo, e>>) \in Nat
        BY <1>5, NodeEnds
    <2> QED
        BY <1>4, <1>5, <1>6, <2>1
<1>8. e = hi
    BY <1>5, <1>7, NodesOfOneStart
<1> QED
    BY <1>2, <1>3, <1>5, <1>8

LEMMA RightTurn ==
    ASSUME FrontierInv, Descend, Mid < received
    PROVE  FrontierInv'
<1>0. PICK b, k : Underway(b, k)
    BY DuringAPush DEF Descend
<1>1. /\ total \in Totals /\ total \in Nat \ {0} /\ received \in Nat
      /\ received < total /\ merges \in Nat
      /\ frontier \in Seq(Values) /\ k \in Nat \ {0} /\ k = Len(frontier)
      /\ Cuts(b) /\ Pushed(b, k) /\ FrontierParts(b)
      /\ b \in [1 .. k + 1 -> Nat]
      /\ \A x \in 1 .. k + 1 : \A y \in 1 .. k + 1 : x < y => b[x] < b[y]
      /\ \A x \in 1 .. k - 1 : Awaits(b, x)
    BY <1>0 DEF Underway
<1>2. PICK p \in 0 .. k - 1 : Walking(b, k, p)
    BY <1>1 DEF FrontierParts, Descend
<1>3. /\ b[k] = received /\ b[p + 1] = lo /\ p \in Nat
      /\ <<lo, hi>> \in Nodes(total) /\ lo <= received /\ received <= hi
      /\ merges \in 0 .. p
      /\ \A x \in p - merges + 1 .. p : Halved(b, x, received)
      /\ IF hi = received THEN Topmost(b[p - merges + 1]) /\ Room(p - merges) ELSE merges = 0
    BY <1>2 DEF Walking
<1>31. TwoTo[p] * (hi - lo + 1) <= total
    BY <1>2 DEF Walking
<1>4. PICK mid \in Nat : /\ lo \in Nat /\ hi \in Nat /\ lo < hi /\ hi < total
                         /\ mid = Middle(<<lo, hi>>) /\ mid = Mid /\ mid = (lo + hi) \div 2
                         /\ lo <= mid /\ mid < hi /\ <<mid + 1, hi>> \in Nodes(total)
    <2>1. lo \in Nat /\ hi \in Nat /\ lo < hi /\ hi < total
        <3>1. lo < hi
            BY DEF Descend
        <3> QED
            BY <1>1, <1>3, <3>1, NodeEnds
    <2>2. /\ Middle(<<lo, hi>>) \in Nat /\ Middle(<<lo, hi>>) = (lo + hi) \div 2
          /\ lo <= Middle(<<lo, hi>>) /\ Middle(<<lo, hi>>) < hi
          /\ <<Middle(<<lo, hi>>) + 1, hi>> \in Nodes(total)
        BY <1>1, <1>3, <2>1, NodeEnds
    <2> QED
        BY <2>1, <2>2 DEF Mid
<1>5. mid < received
    BY <1>4
<1>6. p + 1 < k /\ b[p + 2] = mid + 1
    <2>1. k \in Nat /\ Middle(<<lo, hi>>) < received
        BY <1>1, <1>4, <1>5
    <2>2. p + 1 < k /\ b[p + 2] = Middle(<<lo, hi>>) + 1
        BY <1>1, <1>3, <2>1, TurnMeetsCut
    <2> QED
        BY <1>4, <2>2
<1>7. /\ total' = total /\ received' = received /\ frontier' = frontier /\ pc' = pc /\ pc = "descend"
      /\ lo' = mid + 1 /\ hi' = hi
      /\ merges' = IF hi = received THEN merges + 1 ELSE merges
    BY <1>1, <1>4, <1>5 DEF Descend, EndsHere
<1>8. PICK q \in Nat : q = p + 1 /\ q \in 0 .. k - 1 /\ b[q + 1] = mid + 1
    BY <1>1, <1>3, <1>6
<1>9. TwoTo[q] * (hi - (mid + 1) + 1) <= total
    <2>1. PICK t \in Nat \ {0} : t = TwoTo[p] /\ TwoTo[q] = 2 * t
        BY <1>3, <1>8, TwoToIs
    <2>2. PICK w \in Nat, v \in Nat : w = hi - lo + 1 /\ v = hi - mid /\ 2 * v <= w
        BY <1>4
    <2>4. (2 * v) * t <= w * t
        <3>1. 2 * v \in Nat
            OBVIOUS
        <3> QED
            BY <2>1, <2>2, <3>1, TimesMonotone
    <2>5. (2 * t) * v = (2 * v) * t /\ w * t = t * w
        OBVIOUS
    <2>6. hi - (mid + 1) + 1 = v
        BY <1>4, <2>2
    <2>7. t * w <= total
        BY <1>31, <2>1, <2>2
    <2>8. (2 * t) * v <= t * w
        BY <2>4, <2>5
    <2>9. TwoTo[q] * (hi - (mid + 1) + 1) = (2 * t) * v
        BY <2>1, <2>6
    <2>10. PICK y \in Nat, z \in Nat : y = t * w /\ z = (2 * t) * v
        BY <2>1, <2>2
    <2>11. z <= total
        <3>1. y <= total /\ z <= y
            BY <2>7, <2>8, <2>10, Zenon
        <3>2. total \in Nat
            BY <1>1
        <3> QED
            BY <3>1, <3>2
    <2> QED
        BY <2>9, <2>10, <2>11, Zenon
<1>10. merges' \in 0 .. q
    BY <1>3, <1>7, <1>8
<1>11. \A x \in q - merges' + 1 .. q : Halved(b, x, received)
    <2> SUFFICES ASSUME NEW x \in q - merges' + 1 .. q
                 PROVE  Halved(b, x, received)
        OBVIOUS
    <2>1. hi = received /\ merges' = merges + 1
        BY <1>3, <1>7, <1>8
    <2>2. x \in p - merges + 1 .. p \/ x = q
        BY <1>3, <1>8, <2>1
    <2>3. CASE x \in p - merges + 1 .. p
        BY <1>3, <2>3
    <2>4. CASE x = q
        <3>1. b[x] = lo /\ b[x + 1] = mid + 1
            BY <1>3, <1>8, <2>4
        <3> QED
            BY <1>3, <1>4, <2>1, <3>1 DEF Halved
    <2> QED
        BY <2>2, <2>3, <2>4
<1>12. IF hi = received THEN Topmost(b[q - merges' + 1]) /\ Room(q - merges') ELSE merges' = 0
    <2>1. CASE hi = received
        <3>1. q - merges' = p - merges
            BY <1>3, <1>7, <1>8, <2>1
        <3> QED
            BY <1>3, <2>1, <3>1
    <2>2. CASE hi # received
        BY <1>3, <1>7, <2>2
    <2> QED
        BY <2>1, <2>2
<1>13. Walking(b, k, q)'
    <2>1. \A x \in q - merges' + 1 .. q : Halved(b, x, received)'
        <3> SUFFICES ASSUME NEW x \in q - merges' + 1 .. q PROVE Halved(b, x, received)'
            OBVIOUS
        <3>1. Halved(b, x, received)
            BY <1>11
        <3> QED
            BY <1>7, <3>1 DEF Halved
    <2>2. IF hi' = received' THEN (Topmost(b[q - merges + 1]) /\ Room(q - merges))' ELSE merges' = 0
        BY <1>7, <1>12 DEF Topmost, Room
    <2>3. /\ b[k] = received' /\ b[q + 1] = lo' /\ <<lo', hi'>> \in Nodes(total')
          /\ lo' <= received' /\ received' <= hi'
        <3>1. b[k] = received' /\ b[q + 1] = lo'
            BY <1>3, <1>7, <1>8, Zenon
        <3>2. <<lo', hi'>> \in Nodes(total')
            BY <1>4, <1>7, Zenon
        <3>3. mid + 1 <= received /\ received <= hi
            BY <1>1, <1>3, <1>5
        <3> QED
            BY <1>7, <3>1, <3>2, <3>3, Zenon
    <2>4. TwoTo[q] * (hi' - lo' + 1) <= total'
        BY <1>7, <1>9, Zenon
    <2> QED
        BY <1>8, <1>10, <2>1, <2>2, <2>3, <2>4 DEF Walking
<1>14. Cuts(b)' /\ Pushed(b, k)'
    BY <1>1, <1>7 DEF Cuts, Pushed, Awaits, Halved
<1>15. FrontierParts(b)'
    BY <1>1, <1>7, <1>8, <1>13, <1>14 DEF FrontierParts
<1>16. merges' \in Nat /\ lo' \in Int /\ hi' \in Int
    BY <1>1, <1>4, <1>7
<1> QED
    BY <1>1, <1>7, <1>15, <1>16 DEF FrontierInv

LEMMA LeftTurn ==
    ASSUME FrontierInv, Descend, ~(Mid < received)
    PROVE  FrontierInv'
<1>0. PICK b, k : Underway(b, k)
    BY DuringAPush DEF Descend
<1>1. /\ total \in Totals /\ total \in Nat \ {0} /\ received \in Nat
      /\ received < total /\ merges \in Nat
      /\ frontier \in Seq(Values) /\ k \in Nat \ {0} /\ k = Len(frontier)
      /\ Cuts(b) /\ Pushed(b, k) /\ FrontierParts(b)
    BY <1>0 DEF Underway
<1>2. PICK p \in 0 .. k - 1 : Walking(b, k, p)
    BY <1>1 DEF FrontierParts, Descend
<1>3. /\ b[k] = received /\ b[p + 1] = lo /\ p \in Nat
      /\ <<lo, hi>> \in Nodes(total) /\ lo <= received /\ received <= hi
      /\ hi # received => merges = 0
    BY <1>2 DEF Walking
<1>31. TwoTo[p] * (hi - lo + 1) <= total
    BY <1>2 DEF Walking
<1>4. PICK mid \in Nat : /\ lo \in Nat /\ hi \in Nat /\ lo < hi /\ hi < total
                         /\ mid = Middle(<<lo, hi>>) /\ mid = Mid
                         /\ lo <= mid /\ mid < hi /\ <<lo, mid>> \in Nodes(total)
    <2>1. lo \in Nat /\ hi \in Nat /\ lo < hi /\ hi < total
        <3>1. lo < hi
            BY DEF Descend
        <3>2. <<lo, hi>> \in Nodes(total) /\ total \in Nat \ {0}
            BY <1>1, <1>3
        <3> QED
            BY <3>1, <3>2, NodeEnds
    <2>2. /\ Middle(<<lo, hi>>) \in Nat /\ Middle(<<lo, hi>>) = (lo + hi) \div 2
          /\ lo <= Middle(<<lo, hi>>) /\ Middle(<<lo, hi>>) < hi
          /\ <<lo, Middle(<<lo, hi>>)>> \in Nodes(total)
        <3>1. <<lo, hi>> \in Nodes(total) /\ total \in Nat \ {0}
            BY <1>1, <1>3
        <3> QED
            BY <2>1, <3>1, NodeEnds
    <2> QED
        BY <2>1, <2>2 DEF Mid
<1>5. received <= mid /\ hi # received
    BY <1>1, <1>4
<1>6. /\ total' = total /\ received' = received /\ frontier' = frontier /\ pc' = pc /\ pc = "descend"
      /\ lo' = lo /\ hi' = mid /\ merges' = 0
    BY <1>1, <1>3, <1>4, <1>5 DEF Descend, EndsHere
<1>7. PICK t \in Nat \ {0}, w \in Nat, v \in Nat :
          t = TwoTo[p] /\ w = hi - lo + 1 /\ v = mid - lo + 1 /\ v <= w /\ 2 <= w
    BY <1>3, <1>4, TwoToIs
<1>8. PICK y \in Nat : y = w * t /\ v * t <= y /\ 2 * t <= y /\ y <= total
    <2>1. v * t <= w * t /\ 2 * t <= w * t /\ w * t \in Nat
        <3>1. v * t <= w * t
            BY <1>7, TimesMonotone
        <3>2. PICK two \in Nat : two = 2
            OBVIOUS
        <3>3. two * t <= w * t
            BY <1>7, <3>2, TimesMonotone
        <3>4. w * t \in Nat
            BY <1>7
        <3> QED
            BY <3>1, <3>2, <3>3, <3>4
    <2>2. w * t = t * w
        BY <1>7
    <2>3. t * w <= total
        BY <1>31, <1>7, Zenon
    <2> QED
        BY <2>1, <2>2, <2>3
<1>9. TwoTo[p] * (mid - lo + 1) <= total
    <2>1. PICK z \in Nat : z = v * t
        BY <1>7
    <2>2. z <= y /\ y <= total
        BY <1>8, <2>1, Zenon
    <2>3. z <= total
        BY <1>1, <2>2
    <2>4. v * t = t * v
        BY <1>7
    <2>5. t * v <= total
        BY <2>1, <2>3, <2>4, Zenon
    <2> QED
        BY <1>7, <2>5, Zenon
<1>10. 2 * TwoTo[p] <= total
    <2>1. PICK z \in Nat : z = 2 * t
        BY <1>7
    <2>2. z <= y /\ y <= total
        BY <1>8, <2>1, Zenon
    <2>3. z <= total
        BY <1>1, <2>2
    <2> QED
        BY <1>7, <2>1, <2>3, Zenon
<1>11. mid = received => Topmost(b[p + 1])
    <2>1. hi \in received + 1 .. total - 1
        BY <1>1, <1>4, <1>5
    <2>2. <<b[p + 1], hi>> \in Nodes(total) /\ Middle(<<b[p + 1], hi>>) = mid
        BY <1>3, <1>4, Zenon
    <2> QED
        BY <2>1, <2>2 DEF Topmost
<1>12. Walking(b, k, p)'
    <2>1. p - merges' = p /\ merges' \in 0 .. p /\ p - merges' + 1 = p + 1
        BY <1>3, <1>6
    <2>2. \A x \in p - merges' + 1 .. p : Halved(b, x, received)'
        BY <1>3, <1>6
    <2>3. mid = received => (Topmost(b[p + 1]) /\ Room(p))'
        BY <1>6, <1>10, <1>11 DEF Topmost, Room
    <2>4. IF hi' = received' THEN (Topmost(b[p - merges + 1]) /\ Room(p - merges))' ELSE merges' = 0
        BY <1>6, <2>1, <2>3
    <2>5. /\ b[k] = received' /\ b[p + 1] = lo' /\ <<lo', hi'>> \in Nodes(total')
          /\ lo' <= received' /\ received' <= hi'
        BY <1>3, <1>4, <1>5, <1>6, Zenon
    <2>6. TwoTo[p] * (hi' - lo' + 1) <= total'
        BY <1>6, <1>9, Zenon
    <2> QED
        BY <2>1, <2>2, <2>4, <2>5, <2>6 DEF Walking
<1>13. Cuts(b)' /\ Pushed(b, k)'
    BY <1>1, <1>6 DEF Cuts, Pushed, Awaits, Halved
<1>14. FrontierParts(b)'
    BY <1>1, <1>6, <1>12, <1>13 DEF FrontierParts
<1>15. merges' \in Nat /\ lo' \in Int /\ hi' \in Int
    BY <1>4, <1>6
<1> QED
    BY <1>1, <1>6, <1>14, <1>15 DEF FrontierInv

LEMMA CountedKeepsFrontier ==
    ASSUME FrontierInv, Counted
    PROVE  FrontierInv'
<1>0. PICK b, k : Underway(b, k)
    BY DuringAPush DEF Counted
<1>1. /\ total \in Totals /\ total \in Nat \ {0} /\ received \in Nat
      /\ received < total /\ merges \in Nat
      /\ frontier \in Seq(Values) /\ k \in Nat \ {0} /\ k = Len(frontier)
      /\ Cuts(b) /\ Pushed(b, k) /\ FrontierParts(b)
      /\ b \in [1 .. k + 1 -> Nat]
      /\ \A x \in 1 .. k + 1 : \A y \in 1 .. k + 1 : x < y => b[x] < b[y]
    BY <1>0 DEF Underway
<1>2. PICK p \in 0 .. k - 1 : Walking(b, k, p)
    BY <1>1 DEF FrontierParts, Counted
<1>3. /\ b[k] = received /\ b[p + 1] = lo /\ p \in Nat
      /\ <<lo, hi>> \in Nodes(total) /\ lo <= received /\ received <= hi
      /\ merges \in 0 .. p
      /\ \A x \in p - merges + 1 .. p : Halved(b, x, received)
      /\ hi = received => Topmost(b[p - merges + 1]) /\ Room(p - merges)
    BY <1>2 DEF Walking
<1>4. lo \in Nat /\ hi \in Nat /\ lo >= hi
    BY <1>1, <1>3, NodeEnds DEF Counted
<1>5. lo = received /\ hi = received
    BY <1>1, <1>3, <1>4
<1>6. p = k - 1
    <2>1. p + 1 \in 1 .. k + 1 /\ k \in 1 .. k + 1
        BY <1>1
    <2>2. ~(p + 1 < k)
        <3>1. p + 1 < k => b[p + 1] < b[k]
            BY <1>1, <2>1
        <3>2. b[p + 1] = received /\ b[k] = received /\ received \in Nat
            BY <1>1, <1>3, <1>5
        <3> QED
            BY <3>1, <3>2
    <2> QED
        BY <1>1, <2>2
<1>7. /\ total' = total /\ received' = received /\ frontier' = frontier /\ pc' = "merge"
      /\ merges' = merges /\ lo' = lo /\ hi' = hi
    BY DEF Counted
<1>8. Merging(b, k)'
    <2>1. <<b[k], received>> \in Nodes(total) /\ merges \in 0 .. k - 1
        BY <1>3, <1>5, <1>6
    <2>2. p - merges + 1 = k - merges /\ p - merges = k - merges - 1
        BY <1>1, <1>6
    <2>3. \A x \in k - merges .. k - 1 : Halved(b, x, received)
        BY <1>3, <1>6, <2>2
    <2>4. Topmost(b[k - merges]) /\ Room(k - merges - 1)
        BY <1>3, <1>5, <2>2
    <2> QED
        BY <1>7, <2>1, <2>3, <2>4 DEF Merging, Halved, Topmost, Room
<1>9. Cuts(b)' /\ Pushed(b, k)'
    BY <1>1, <1>7 DEF Cuts, Pushed, Awaits, Halved
<1>10. FrontierParts(b)'
    BY <1>1, <1>7, <1>8, <1>9 DEF FrontierParts
<1> QED
    BY <1>1, <1>4, <1>7, <1>10 DEF FrontierInv

LEMMA MergeKeepsFrontier ==
    ASSUME FrontierInv, Merge
    PROVE  FrontierInv'
<1>0. PICK b, k : Underway(b, k)
    BY DuringAPush DEF Merge
<1>1. /\ total \in Totals /\ total \in Nat \ {0} /\ received \in Nat
      /\ received < total /\ merges \in Nat
      /\ frontier \in Seq(Values) /\ k \in Nat \ {0} /\ k = Len(frontier)
      /\ Cuts(b) /\ Pushed(b, k) /\ FrontierParts(b)
      /\ b \in [1 .. k + 1 -> Nat] /\ b[1] = 0 /\ b[k + 1] = received + 1
      /\ \A x \in 1 .. k + 1 : \A y \in 1 .. k + 1 : x < y => b[x] < b[y]
      /\ \A x \in 1 .. k : frontier[x] = reduceRange[<<b[x], b[x + 1] - 1>>]
      /\ \A x \in 1 .. k - 1 : Awaits(b, x)
    BY <1>0 DEF Underway
<1>2. /\ merges \in 1 .. k - 1
      /\ \A x \in k - merges .. k - 1 : Halved(b, x, received)
      /\ Topmost(b[k - merges]) /\ Room(k - merges - 1)
    <2>1. Merging(b, k) /\ merges > 0
        BY <1>1 DEF FrontierParts, Merge
    <2> QED
        BY <1>1, <2>1 DEF Merging
<1>3. PICK j \in Nat \ {0} : j = k - 1 /\ j + 1 = k
    <2>1. k \in Nat /\ merges \in Nat /\ merges \in 1 .. k - 1
        BY <1>1, <1>2
    <2>2. k - 1 \in Nat \ {0} /\ (k - 1) + 1 = k
        BY <2>1
    <2> QED
        BY <2>2
<1>4. /\ total' = total /\ received' = received /\ pc' = pc /\ pc = "merge"
      /\ merges' = merges - 1 /\ lo' = lo /\ hi' = hi
      /\ frontier' = Append(SubSeq(frontier, 1, k - 2), Combine(frontier[k - 1], frontier[k]))
    BY <1>1 DEF Merge
<1>5. <<b[j], received>> \in Nodes(total) /\ Middle(<<b[j], received>>) + 1 = b[k]
    <2>1. j \in k - merges .. k - 1
        BY <1>1, <1>2, <1>3
    <2> QED
        BY <1>2, <1>3, <2>1 DEF Halved
<1>6. /\ b[j] \in Nat /\ b[k] \in Nat /\ b[j] < b[k] /\ b[k] < received + 1
    <2>1. j \in 1 .. k + 1 /\ k \in 1 .. k + 1 /\ k + 1 \in 1 .. k + 1 /\ j < k /\ k < k + 1
        BY <1>1, <1>3
    <2> QED
        BY <1>1, <2>1
<1>7. /\ Combine(frontier[k - 1], frontier[k]) = reduceRange[<<b[j], received>>]
      /\ Combine(frontier[k - 1], frontier[k]) \in Values
    <2>1. j \in 1 .. k /\ k \in 1 .. k
        BY <1>1, <1>3
    <2>2. frontier[j] = reduceRange[<<b[j], b[j + 1] - 1>>] /\ frontier[k] = reduceRange[<<b[k], b[k + 1] - 1>>]
        BY <1>1, <2>1
    <2>3. PICK mid \in Nat : mid = Middle(<<b[j], received>>) /\ mid + 1 = b[k] /\ b[j + 1] - 1 = mid
        <3>1. PICK mid \in Nat : mid = Middle(<<b[j], received>>)
            BY <1>1, <1>5, NodeEnds
        <3>2. b[j + 1] = b[k] /\ mid + 1 = b[k]
            BY <1>3, <1>5, <3>1
        <3>3. b[k] - 1 = mid
            BY <3>1, <3>2
        <3> QED
            BY <3>1, <3>2, <3>3
    <2>4. b[j] < received /\ b[k + 1] - 1 = received
        <3>1. received \in Nat /\ b[k + 1] = received + 1
            BY <1>1
        <3> QED
            BY <1>6, <3>1
    <2>5. /\ reduceRange[<<b[j], received>>] = Combine(reduceRange[<<b[j], mid>>], reduceRange[<<mid + 1, received>>])
          /\ reduceRange[<<b[j], received>>] \in Values
        BY <1>1, <1>6, <2>3, <2>4, ReduceHalves
    <2> QED
        BY <1>3, <2>2, <2>3, <2>4, <2>5
<1>8. /\ frontier' \in Seq(Values) /\ Len(frontier') = j
      /\ frontier'[j] = reduceRange[<<b[j], received>>]
      /\ \A x \in 1 .. j - 1 : frontier'[x] = frontier[x]
    <2> DEFINE s == SubSeq(frontier, 1, k - 2)
    <2>1. /\ s \in Seq(Values) /\ Len(s) = j - 1
          /\ \A x \in 1 .. j - 1 : s[x] = frontier[x]
        BY <1>1, <1>3, SubSeqProperties
    <2> HIDE DEF s
    <2>2. /\ frontier' \in Seq(Values) /\ Len(frontier') = Len(s) + 1
          /\ frontier'[Len(s) + 1] = Combine(frontier[k - 1], frontier[k])
          /\ \A x \in 1 .. Len(s) : frontier'[x] = s[x]
        BY <1>4, <1>7, <2>1, AppendProperties DEF s
    <2>3. Len(s) + 1 = j
        BY <1>3, <2>1
    <2> QED
        BY <1>7, <2>1, <2>2, <2>3
<1>9. PICK c : /\ c \in [1 .. j + 1 -> Nat] /\ c[j + 1] = received + 1
               /\ \A x \in 1 .. j : c[x] = b[x]
    <2> DEFINE c == [x \in 1 .. j + 1 |-> IF x = j + 1 THEN received + 1 ELSE b[x]]
    <2>1. \A x \in 1 .. j : x \in 1 .. k + 1
        BY <1>1, <1>3
    <2>2. /\ c \in [1 .. j + 1 -> Nat] /\ c[j + 1] = received + 1
          /\ \A x \in 1 .. j : c[x] = b[x]
        BY <1>1, <1>3, <2>1
    <2> QED
        BY <2>2
<1>91. ASSUME NEW x \in 1 .. j
       PROVE  c[x] = b[x] /\ x \in 1 .. k + 1 /\ b[x] \in Nat
    <2>1. x \in 1 .. k + 1
        BY <1>1, <1>3
    <2> QED
        BY <1>1, <1>9, <2>1
<1>10. c[1] = 0 /\ c[j] = b[j]
    BY <1>1, <1>3, <1>9
<1>11. Cuts(c)'
    <2>1. \A x \in 1 .. j + 1 : \A y \in 1 .. j + 1 : x < y => c[x] < c[y]
        <3> SUFFICES ASSUME NEW x \in 1 .. j + 1, NEW y \in 1 .. j + 1, x < y
                     PROVE  c[x] < c[y]
            OBVIOUS
        <3>1. x \in 1 .. j /\ c[x] = b[x] /\ x \in 1 .. k + 1 /\ b[x] \in Nat
            <4>1. x \in 1 .. j
                BY <1>3
            <4> QED
                BY <1>91, <4>1
        <3>2. CASE y \in 1 .. j
            <4>1. y \in 1 .. k + 1 /\ c[y] = b[y]
                BY <1>91, <3>2
            <4> QED
                BY <1>1, <3>1, <4>1
        <3>3. CASE y = j + 1
            <4>1. x < k /\ k \in 1 .. k + 1
                BY <1>1, <1>3, <3>1
            <4>2. b[x] < b[k]
                BY <1>1, <3>1, <4>1
            <4>3. c[y] = received + 1
                BY <1>9, <3>3
            <4> QED
                BY <1>1, <1>6, <3>1, <4>2, <4>3
        <3>4. y \in 1 .. j \/ y = j + 1
            BY <1>3
        <3> QED
            BY <3>2, <3>3, <3>4
    <2>2. \A x \in 1 .. j + 1 : x - 1 <= c[x]
        <3> SUFFICES ASSUME NEW x \in 1 .. j + 1
                     PROVE  x - 1 <= c[x]
            OBVIOUS
        <3>1. \A z \in 1 .. k + 1 : z - 1 <= b[z]
            BY <1>1 DEF Cuts
        <3>2. CASE x \in 1 .. j
            <4>1. x \in 1 .. k + 1 /\ c[x] = b[x]
                BY <1>91, <3>2
            <4> QED
                BY <3>1, <4>1
        <3>3. CASE x = j + 1
            <4>1. k + 1 \in 1 .. k + 1
                BY <1>1
            <4>2. k <= received + 1
                BY <1>1, <3>1, <4>1
            <4> QED
                BY <1>1, <1>3, <1>9, <3>3, <4>2
        <3>4. x \in 1 .. j \/ x = j + 1
            BY <1>3
        <3> QED
            BY <3>2, <3>3, <3>4
    <2>3. \A x \in 1 .. j : frontier'[x] = reduceRange[<<c[x], c[x + 1] - 1>>]
        <3> SUFFICES ASSUME NEW x \in 1 .. j
                     PROVE  frontier'[x] = reduceRange[<<c[x], c[x + 1] - 1>>]
            OBVIOUS
        <3>1. CASE x \in 1 .. j - 1
            <4>1. x \in 1 .. k /\ x + 1 \in 1 .. j
                BY <1>1, <1>3, <3>1
            <4> QED
                BY <1>1, <1>8, <1>9, <3>1, <4>1
        <3>2. CASE x = j
            <4>1. c[x] = b[j] /\ c[x + 1] - 1 = received
                BY <1>1, <1>9, <1>10, <3>2
            <4> QED
                BY <1>8, <3>2, <4>1
        <3>3. x \in 1 .. j - 1 \/ x = j
            BY <1>3
        <3> QED
            BY <3>1, <3>2, <3>3
    <2> QED
        BY <1>8, <1>9, <1>10, <2>1, <2>2, <2>3 DEF Cuts
<1>12. \A x \in 1 .. j - 1 : c[x] = b[x] /\ c[x + 1] = b[x + 1] /\ x \in 1 .. k - 1
    <2> SUFFICES ASSUME NEW x \in 1 .. j - 1
                 PROVE  c[x] = b[x] /\ c[x + 1] = b[x + 1] /\ x \in 1 .. k - 1
        OBVIOUS
    <2>1. x \in 1 .. j /\ x + 1 \in 1 .. j /\ x \in 1 .. k - 1
        BY <1>1, <1>3
    <2> QED
        BY <1>9, <2>1
<1>13. Pushed(c, j)'
    <2>1. ASSUME NEW x \in 1 .. j - 1 PROVE Awaits(c, x)'
        <3>1. Awaits(b, x) /\ c[x] = b[x] /\ c[x + 1] = b[x + 1]
            BY <1>1, <1>12
        <3> QED
            BY <1>4, <3>1 DEF Awaits, Halved
    <2>2. TwoTo[j - 1] <= total
        <3>1. TwoTo[k - 1] <= total
            BY <1>1 DEF Pushed
        <3>2. PICK u \in Nat : u = j - 1 /\ u + 1 = k - 1
            BY <1>3
        <3>3. TwoTo[u] \in Nat /\ TwoTo[k - 1] = 2 * TwoTo[u]
            BY <3>2, TwoToIs
        <3> QED
            BY <1>1, <3>1, <3>2, <3>3
    <2>3. j >= 1 /\ received' < total' /\ c[j + 1] = received' + 1 /\ TwoTo[j - 1] <= total'
        BY <1>1, <1>3, <1>4, <1>9, <2>2
    <2> QED
        BY <2>1, <2>3 DEF Pushed
<1>14. Merging(c, j)'
    <2>1. merges' \in 0 .. j - 1 /\ j - merges' = k - merges /\ k - merges \in 1 .. j
        <3>1. k \in Nat /\ j \in Nat /\ k = j + 1 /\ merges \in 1 .. k - 1 /\ merges' = merges - 1
            BY <1>1, <1>2, <1>3, <1>4
        <3> QED
            BY <3>1
    <2>2. ASSUME NEW x \in j - merges' .. j - 1 PROVE Halved(c, x, received)'
        <3>1. x \in 1 .. j - 1 /\ x \in k - merges .. k - 1
            <4>1. j \in Nat /\ k = j + 1
                BY <1>3
            <4>2. x \in k - merges .. j - 1 /\ k - merges \in 1 .. j
                BY <2>1
            <4> QED
                BY <4>1, <4>2
        <3>2. Halved(b, x, received) /\ c[x] = b[x] /\ c[x + 1] = b[x + 1]
            BY <1>2, <1>12, <3>1
        <3> QED
            BY <1>4, <3>2 DEF Halved
    <2>3. c[j - merges'] = b[k - merges] /\ j - merges' - 1 = k - merges - 1
        BY <1>9, <2>1
    <2>4. (Topmost(c[j - merges]) /\ Room(j - merges - 1))'
        BY <1>2, <1>4, <2>3 DEF Topmost, Room
    <2>5. <<c[j], received'>> \in Nodes(total')
        BY <1>4, <1>5, <1>10
    <2> QED
        BY <2>1, <2>2, <2>4, <2>5 DEF Merging
<1>15. FrontierParts(c)'
    BY <1>4, <1>8, <1>11, <1>13, <1>14 DEF FrontierParts
<1>16. merges' \in Nat /\ lo' \in Int /\ hi' \in Int
    BY <1>1, <1>2, <1>4 DEF FrontierInv
<1> QED
    BY <1>1, <1>4, <1>8, <1>15, <1>16 DEF FrontierInv

LEMMA ArrivedKeepsFrontier ==
    ASSUME FrontierInv, Arrived
    PROVE  FrontierInv'
<1>0. PICK b, k : Underway(b, k)
    BY DuringAPush DEF Arrived
<1>1. /\ total \in Totals /\ total \in Nat \ {0} /\ received \in Nat
      /\ received < total /\ merges \in Nat
      /\ frontier \in Seq(Values) /\ k \in Nat \ {0} /\ k = Len(frontier)
      /\ Cuts(b) /\ Pushed(b, k) /\ FrontierParts(b)
      /\ b \in [1 .. k + 1 -> Nat] /\ b[1] = 0 /\ b[k] \in Nat /\ b[k + 1] = received + 1
      /\ \A x \in 1 .. k + 1 : \A y \in 1 .. k + 1 : x < y => b[x] < b[y]
      /\ \A x \in 1 .. k - 1 : Awaits(b, x)
    BY <1>0 DEF Underway
<1>2. Topmost(b[k]) /\ Room(k - 1)
    <2>1. Merging(b, k) /\ merges = 0
        BY <1>1 DEF FrontierParts, Arrived
    <2>2. k - merges = k /\ k - merges - 1 = k - 1
        BY <1>1, <2>1
    <2> QED
        BY <2>1, <2>2 DEF Merging
<1>3. /\ total' = total /\ received' = received + 1 /\ pc' = "idle"
      /\ frontier' = frontier /\ merges' = merges /\ lo' = lo /\ hi' = hi
    BY DEF Arrived
<1>4. received + 1 < total => TwoTo[k] <= total
    <2>1. PICK u \in Nat : u = k - 1 /\ u + 1 = k
        <3>1. k - 1 \in Nat /\ (k - 1) + 1 = k
            BY <1>1
        <3> QED
            BY <3>1
    <2>2. TwoTo[k] = 2 * TwoTo[u]
        BY <2>1, TwoToIs
    <2> QED
        BY <1>2, <2>1, <2>2 DEF Room
<1>5. ASSUME received + 1 < total
      PROVE  \E f \in received + 1 .. total - 1 :
                 <<b[k], f>> \in Nodes(total) /\ Middle(<<b[k], f>>) = received
    <2>1. ~(received = total - 1)
        BY <1>1, <1>5
    <2> QED
        BY <1>2, <2>1 DEF Topmost
<1>6. ASSUME received + 1 < total, NEW x \in 1 .. k
      PROVE  Awaits(b, x)'
    <2>1. PICK f \in received + 1 .. total - 1 :
              <<b[k], f>> \in Nodes(total) /\ Middle(<<b[k], f>>) = received
        BY <1>5, <1>6
    <2>2. \E e \in received + 1 .. total - 1 : Halved(b, x, e)
        <3>1. CASE x = k
            <4>1. Halved(b, x, f)
                BY <1>1, <2>1, <3>1 DEF Halved
            <4> QED
                BY <4>1
        <3>2. CASE x # k
            <4>1. x \in 1 .. k - 1 /\ x \in 1 .. k + 1 /\ k \in 1 .. k + 1 /\ x < k
                BY <1>1, <3>2
            <4>2. PICK e \in received .. total - 1 : Halved(b, x, e)
                BY <1>1, <4>1 DEF Awaits
            <4>3. <<b[x], e>> \in Nodes(total)
                BY <4>2 DEF Halved
            <4>4. b[x] \in Nat /\ b[x] < b[k] /\ b[k] <= received /\ received < f /\ f \in Nat
                <5>1. b[x] < b[k]
                    BY <1>1, <4>1
                <5>2. b[k] <= Middle(<<b[k], f>>)
                    BY <1>1, <2>1, NodeEnds
                <5>3. b[x] \in Nat /\ received \in Nat /\ received < f /\ f \in Nat
                    <6>1. b[x] \in Nat
                        BY <1>1, <4>1
                    <6>2. received \in Nat /\ f \in received + 1 .. total - 1
                        BY <1>1, <2>1
                    <6> QED
                        BY <6>1, <6>2
                <5>4. b[k] <= received
                    BY <2>1, <5>2
                <5> QED
                    BY <5>1, <5>3, <5>4
            <4>5. e # received
                <5>1. SUFFICES ASSUME e = received PROVE FALSE
                    OBVIOUS
                <5>2. <<b[x], received>> \in Nodes(total)
                    BY <4>3, <5>1
                <5>3. \/ received < b[k] \/ f < b[x]
                      \/ b[x] = b[k] /\ received = f
                      \/ b[k] <= b[x]
                      \/ f <= received
                    BY <1>1, <2>1, <5>2, NodesNest
                <5> QED
                    BY <1>1, <4>4, <5>3
            <4>6. e \in received + 1 .. total - 1
                BY <1>1, <4>2, <4>5
            <4> QED
                BY <4>2, <4>6
        <3> QED
            BY <3>1, <3>2
    <2> QED
        BY <1>3, <2>2 DEF Awaits, Halved
<1>7. received + 1 = total => k = 1
    <2> SUFFICES ASSUME received + 1 = total PROVE k = 1
        OBVIOUS
    <2>1. received + 1 .. total - 1 = {}
        BY <1>1
    <2>2. b[k] = 0
        BY <1>2, <2>1 DEF Topmost
    <2>3. 1 \in 1 .. k + 1 /\ k \in 1 .. k + 1 /\ (1 < k \/ k = 1)
        BY <1>1
    <2>4. 1 < k => b[1] < b[k]
        BY <1>1, <2>3
    <2> QED
        BY <1>1, <2>2, <2>3, <2>4
<1>8. Idle(b, k)'
    <2>1. received' < total' => TwoTo[k] <= total' /\ \A x \in 1 .. k : Awaits(b, x)'
        BY <1>3, <1>4, <1>6
    <2> QED
        BY <1>1, <1>3, <1>7, <2>1 DEF Idle
<1>9. Cuts(b)'
    BY <1>1, <1>3 DEF Cuts
<1>10. FrontierParts(b)'
    BY <1>1, <1>3, <1>8, <1>9 DEF FrontierParts
<1>11. received' \in 0 .. total' /\ merges' \in Nat /\ lo' \in Int /\ hi' \in Int
    BY <1>1, <1>3 DEF FrontierInv
<1> QED
    BY <1>1, <1>3, <1>10, <1>11 DEF FrontierInv

(* The leaves between a cut and the next.                                  *)
Piece(b, x) == <<b[x], b[x + 1] - 1>>

LEMMA PiecesCounted ==
    ASSUME NEW k \in Nat, NEW b \in [1 .. k + 1 -> Nat],
           \A x \in 1 .. k + 1 : \A y \in 1 .. k + 1 : x < y => b[x] < b[y],
           NEW u \in 0 .. k
    PROVE  Cardinality({Piece(b, x) : x \in 1 .. u}) = u
<1> DEFINE S == {Piece(b, x) : x \in 1 .. u}
           f == [x \in 1 .. u |-> Piece(b, x)]
<1>1. f \in [1 .. u -> S] /\ \A s \in S : \E x \in 1 .. u : f[x] = s
    OBVIOUS
<1>2. ASSUME NEW x \in 1 .. u, NEW y \in 1 .. u, f[x] = f[y]
      PROVE  x = y
    <2>1. b[x] = b[y]
        BY <1>2 DEF Piece
    <2>2. x \in 1 .. k + 1 /\ y \in 1 .. k + 1 /\ b[x] \in Nat /\ b[y] \in Nat
        OBVIOUS
    <2> QED
        BY <2>1, <2>2
<1> HIDE DEF f, S
<1>3. f \in Bijection(1 .. u, S)
    BY <1>1, <1>2 DEF Bijection, Injection, Surjection, IsInjective
<1>4. ExistsBijection(1 .. u, S) /\ u \in Nat
    BY <1>3 DEF ExistsBijection
<1>5. Cardinality(S) = u
    BY <1>4, FS_CountingElements
<1> QED
    BY <1>5 DEF S

(* Every leaf before the last cut lies between two cuts.                   *)
LEMMA LeafIsInAPiece ==
    ASSUME NEW k \in Nat, NEW b \in [1 .. k + 1 -> Nat], b[1] = 0,
           NEW v \in Nat, v < b[k + 1]
    PROVE  \E x \in 1 .. k : b[x] <= v /\ v < b[x + 1]
<1> DEFINE Lies(j) == \E x \in 1 .. j : b[x] <= v /\ v < b[x + 1]
           W == {j \in Nat : j <= k /\ v < b[j + 1] => Lies(j)}
<1>1. 0 \in W
    OBVIOUS
<1>2. ASSUME NEW j \in Nat, j \in W
      PROVE  j + 1 \in W
    <2> SUFFICES ASSUME j + 1 <= k, v < b[j + 2]
                 PROVE  Lies(j + 1)
        <3>1. (j + 1) + 1 = j + 2 /\ j + 1 \in Nat
            OBVIOUS
        <3> QED
            BY <3>1
    <2>1. CASE v < b[j + 1]
        <3>1. Lies(j)
            BY <1>2, <2>1
        <3>2. \A x \in 1 .. j : x \in 1 .. j + 1
            OBVIOUS
        <3> QED
            BY <3>1, <3>2
    <2>2. CASE ~(v < b[j + 1])
        <3>1. b[j + 1] \in Nat /\ j + 1 \in 1 .. j + 1 /\ (j + 1) + 1 = j + 2
            OBVIOUS
        <3>2. b[j + 1] <= v
            BY <2>2, <3>1
        <3> QED
            BY <3>1, <3>2
    <2> QED
        BY <2>1, <2>2
<1> HIDE DEF W
<1>3. k \in W
    BY <1>1, <1>2, NumberInduction
<1> QED
    BY <1>3 DEF W

(* Between two pushes: the pieces are completed nodes, and no other        *)
(* completed node covers one.                                              *)
LEMMA PiecesAreMaximal ==
    ASSUME total \in Nat \ {0}, received \in 0 .. total, NEW k \in Nat, NEW b,
           b \in [1 .. k + 1 -> Nat], b[1] = 0,
           \A x \in 1 .. k + 1 : \A y \in 1 .. k + 1 : x < y => b[x] < b[y],
           Idle(b, k), NEW x \in 1 .. k
    PROVE  /\ Piece(b, x) \in Nodes(total) /\ b[x + 1] - 1 < received
           /\ b[x] \in Nat /\ b[x + 1] - 1 \in Nat /\ b[x] <= b[x + 1] - 1
           /\ \A m \in Nodes(total) :
                 m[2] < received /\ m[1] <= b[x] /\ b[x + 1] - 1 <= m[2] => m = Piece(b, x)
<1>1. x + 1 \in 1 .. k + 1 /\ x \in 1 .. k + 1 /\ k + 1 \in 1 .. k + 1 /\ x < x + 1
    OBVIOUS
<1>2. b[x] \in Nat /\ b[x + 1] \in Nat /\ b[x] < b[x + 1]
    BY <1>1
<1>3. b[k + 1] = received
    BY DEF Idle
<1>4. b[x + 1] <= received
    <2>1. x + 1 = k + 1 \/ x + 1 < k + 1
        BY <1>1
    <2> QED
        BY <1>1, <1>2, <1>3, <2>1
<1>5. CASE received < total
    <2>1. PICK e \in received .. total - 1 : Halved(b, x, e)
        BY <1>5 DEF Idle, Awaits
    <2>2. <<b[x], e>> \in Nodes(total) /\ Middle(<<b[x], e>>) + 1 = b[x + 1]
        BY <2>1 DEF Halved
    <2>3. e \in Nat /\ received <= e /\ b[x] < e
        BY <1>2, <1>4, <2>1
    <2>4. Middle(<<b[x], e>>) \in Nat /\ Middle(<<b[x], e>>) = b[x + 1] - 1
        <3>1. Middle(<<b[x], e>>) \in Nat
            BY <2>2, NodeEnds
        <3> QED
            BY <1>2, <2>2, <3>1
    <2>5. Piece(b, x) \in Nodes(total)
        <3>1. <<b[x], Middle(<<b[x], e>>)>> \in Nodes(total)
            BY <2>2, <2>3, NodeEnds
        <3> QED
            BY <2>4, <3>1 DEF Piece
    <2>6. ASSUME NEW m \in Nodes(total), m[2] < received, m[1] <= b[x], b[x + 1] - 1 <= m[2]
          PROVE  m = Piece(b, x)
        <3>1. PICK c \in Nat, g \in Nat : m = <<c, g>> /\ c <= g
            <4>1. m \in Ranges
                BY NodesShape
            <4> QED
                BY <4>1 DEF Ranges
        <3>2. c <= b[x] /\ b[x + 1] - 1 <= g /\ g < received
            BY <2>6, <3>1
        <3>3. \/ g < b[x] \/ e < c
              \/ c = b[x] /\ g = e
              \/ b[x] <= c /\ (g <= Middle(<<b[x], e>>) \/ Middle(<<b[x], e>>) < c)
              \/ e <= g
            BY <2>2, <3>1, NodesNest
        <3>4. c = b[x] /\ g = b[x + 1] - 1
            <4>1. PICK d \in Nat, f \in Nat :
                      d = b[x] /\ f = b[x + 1] - 1 /\ f = Middle(<<b[x], e>>) /\ d <= f
                BY <1>2, <2>4
            <4>2. c <= d /\ f <= g /\ g < e
                BY <2>3, <3>1, <3>2, <4>1
            <4>3. g < d \/ e < c \/ (c = d /\ g = e) \/ (d <= c /\ (g <= f \/ f < c)) \/ e <= g
                BY <3>3, <4>1
            <4>4. c <= g /\ f < e /\ e \in Nat
                BY <2>3, <3>1, <4>1, <4>2
            <4>5. c = d /\ g = f
                <5>1. d <= f
                    BY <4>1
                <5>2. ~(g < d) /\ ~(e < c) /\ ~(e <= g)
                    BY <4>2, <4>4, <5>1
                <5>3. \/ c = d /\ g = e
                      \/ d <= c /\ (g <= f \/ f < c)
                    BY <4>3, <5>2
                <5> QED
                    BY <4>2, <5>1, <5>2, <5>3
            <4> QED
                BY <4>1, <4>5
        <3> QED
            BY <3>1, <3>4 DEF Piece
    <2> QED
        BY <1>2, <1>4, <2>5, <2>6
<1>6. CASE received = total
    <2>1. k = 1 /\ x = 1
        BY <1>6 DEF Idle
    <2>2. b[x] = 0 /\ b[x + 1] = total
        BY <1>3, <1>6, <2>1
    <2>3. Piece(b, x) = <<0, total - 1>>
        BY <2>2 DEF Piece
    <2>4. ASSUME NEW m \in Nodes(total), m[1] <= b[x], b[x + 1] - 1 <= m[2]
          PROVE  m = Piece(b, x)
        <3>1. PICK c \in Nat, g \in Nat : m = <<c, g>> /\ g < total
            <4>1. m \in Ranges /\ m[2] < total
                BY NodesShape
            <4> QED
                BY <4>1 DEF Ranges
        <3>2. c = 0 /\ g = total - 1
            BY <2>2, <2>4, <3>1
        <3> QED
            BY <2>3, <3>1, <3>2
    <2>5. <<0, total - 1>> \in Nodes(total)
        BY NodesShape
    <2>6. Piece(b, x) \in Nodes(total)
        BY <2>3, <2>5
    <2>7. /\ b[x + 1] - 1 < received /\ b[x] \in Nat
          /\ b[x + 1] - 1 \in Nat /\ b[x] <= b[x + 1] - 1
        BY <1>2, <1>4
    <2> QED
        BY <2>4, <2>6, <2>7
<1> QED
    BY <1>5, <1>6

(* The maximal completed subtrees are the pieces.                          *)
LEMMA PiecesAreThose ==
    ASSUME total \in Nat \ {0}, received \in 0 .. total, NEW k \in Nat, NEW b,
           b \in [1 .. k + 1 -> Nat], b[1] = 0,
           \A x \in 1 .. k + 1 : \A y \in 1 .. k + 1 : x < y => b[x] < b[y],
           Idle(b, k)
    PROVE  MaximalComplete = {Piece(b, x) : x \in 1 .. k}
<1>1. \A x \in 1 .. k :
          /\ Piece(b, x) \in Nodes(total) /\ b[x + 1] - 1 < received
          /\ b[x] \in Nat /\ b[x + 1] - 1 \in Nat /\ b[x] <= b[x + 1] - 1
          /\ \A m \in Nodes(total) :
                m[2] < received /\ m[1] <= b[x] /\ b[x + 1] - 1 <= m[2] => m = Piece(b, x)
    BY PiecesAreMaximal
<1>2. ASSUME NEW x \in 1 .. k
      PROVE  Piece(b, x) \in MaximalComplete
    <2>1. Piece(b, x)[1] = b[x] /\ Piece(b, x)[2] = b[x + 1] - 1
        BY DEF Piece
    <2> QED
        BY <1>1, <2>1 DEF MaximalComplete
<1>3. ASSUME NEW m \in MaximalComplete
      PROVE  \E x \in 1 .. k : m = Piece(b, x)
    <2>1. /\ m \in Nodes(total) /\ m[2] < received
          /\ \A node \in Nodes(total) :
                node[2] < received /\ node[1] <= m[1] /\ m[2] <= node[2] => node = m
        BY DEF MaximalComplete
    <2>2. PICK c \in Nat, g \in Nat : m = <<c, g>> /\ c <= g
        <3>1. m \in Ranges
            BY <2>1, NodesShape
        <3> QED
            BY <3>1 DEF Ranges
    <2>3. g < received /\ c < received
        BY <2>1, <2>2
    <2>4. b[k + 1] = received
        BY DEF Idle
    <2>5. PICK x \in 1 .. k : b[x] <= c /\ c < b[x + 1]
        BY <2>3, <2>4, LeafIsInAPiece
    <2>6. PICK d \in Nat, f \in Nat :
              /\ d = b[x] /\ f = b[x + 1] - 1 /\ d <= f /\ f < received
              /\ Piece(b, x) = <<d, f>> /\ <<d, f>> \in Nodes(total)
              /\ \A node \in Nodes(total) :
                    node[2] < received /\ node[1] <= d /\ f <= node[2] => node = <<d, f>>
        <3>1. /\ b[x] \in Nat /\ b[x + 1] - 1 \in Nat /\ b[x] <= b[x + 1] - 1
              /\ b[x + 1] - 1 < received /\ Piece(b, x) \in Nodes(total)
              /\ \A node \in Nodes(total) :
                    node[2] < received /\ node[1] <= b[x] /\ b[x + 1] - 1 <= node[2] => node = Piece(b, x)
            BY <1>1
        <3>2. Piece(b, x) = <<b[x], b[x + 1] - 1>>
            BY DEF Piece
        <3> QED
            BY <3>1, <3>2
    <2>7. d <= c /\ c <= f
        <3>1. d = b[x] /\ f = b[x + 1] - 1 /\ b[x + 1] \in Nat
            BY <2>6
        <3> QED
            BY <2>5, <3>1
    <2>8. \/ f < c \/ g < d
          \/ d = c /\ f = g
          \/ c <= d /\ f <= g
          \/ d <= c /\ g <= f
        <3>1. <<c, g>> \in Nodes(total) /\ <<d, f>> \in Nodes(total)
            BY <2>1, <2>2, <2>6
        <3> QED
            BY <3>1, NodesNest
    <2>9. CASE c <= d /\ f <= g
        <3>1. m[1] <= d /\ f <= m[2]
            BY <2>2, <2>9
        <3>2. m = <<d, f>>
            BY <2>1, <2>6, <3>1
        <3> QED
            BY <2>6, <3>2
    <2>10. CASE d <= c /\ g <= f
        <3>1. <<d, f>>[1] <= m[1] /\ m[2] <= <<d, f>>[2] /\ <<d, f>>[2] < received
            BY <2>2, <2>6, <2>10
        <3>2. <<d, f>> = m
            BY <2>1, <2>6, <3>1
        <3> QED
            BY <2>6, <3>2
    <2>11. CASE d = c /\ f = g
        BY <2>2, <2>6, <2>11
    <2>12. ~(g < d) /\ ~(f < c)
        <3>1. c <= g
            BY <2>2
        <3> QED
            BY <2>7, <3>1
    <2> QED
        BY <2>8, <2>9, <2>10, <2>11, <2>12
<1> QED
    BY <1>2, <1>3

(* The pieces up to one of them.                                           *)
LEMMA PiecesUpTo ==
    ASSUME NEW k \in Nat, NEW b, b \in [1 .. k + 1 -> Nat],
           \A x \in 1 .. k + 1 : \A y \in 1 .. k + 1 : x < y => b[x] < b[y],
           MaximalComplete = {Piece(b, x) : x \in 1 .. k}, NEW u \in 1 .. k
    PROVE  Cardinality(UpTo(Piece(b, u))) = u
<1>1. ASSUME NEW x \in 1 .. k
      PROVE  Piece(b, x)[1] <= Piece(b, u)[1] <=> x \in 1 .. u
    <2>1. Piece(b, x)[1] = b[x] /\ Piece(b, u)[1] = b[u]
        BY DEF Piece
    <2>2. x \in 1 .. k + 1 /\ u \in 1 .. k + 1 /\ b[x] \in Nat /\ b[u] \in Nat
        OBVIOUS
    <2>3. x < u => b[x] < b[u]
        BY <2>2
    <2>4. u < x => b[u] < b[x]
        BY <2>2
    <2> QED
        BY <2>1, <2>2, <2>3, <2>4
<1>2. UpTo(Piece(b, u)) = {Piece(b, x) : x \in 1 .. u}
    <2>1. \A x \in 1 .. u : x \in 1 .. k
        OBVIOUS
    <2> QED
        BY <1>1, <2>1 DEF UpTo
<1>3. u \in 0 .. k
    OBVIOUS
<1> QED
    BY <1>2, <1>3, PiecesCounted

LEMMA FrontierIsIt ==
    ASSUME FrontierInv
    PROVE  FrontierIsMaximalComplete
<1>1. PICK b : FrontierParts(b)
    BY DEF FrontierInv
<1>2. PICK k : k = Len(frontier)
    OBVIOUS
<1>3. /\ total \in Totals /\ total \in Nat \ {0} /\ received \in 0 .. total
      /\ frontier \in Seq(Values) /\ k \in Nat
    BY <1>2, TotalPositive DEF FrontierInv
<1>4. /\ b \in [1 .. k + 1 -> Nat] /\ b[1] = 0
      /\ \A x \in 1 .. k + 1 : \A y \in 1 .. k + 1 : x < y => b[x] < b[y]
      /\ \A x \in 1 .. k + 1 : x - 1 <= b[x]
      /\ \A x \in 1 .. k : frontier[x] = reduceRange[<<b[x], b[x + 1] - 1>>]
      /\ pc = "idle" => Idle(b, k)
      /\ pc # "idle" => Pushed(b, k)
    BY <1>1, <1>2 DEF FrontierParts, Cuts
<1>5. TreeTypeOK
    <2>1. k + 1 \in 1 .. k + 1
        BY <1>3
    <2>2. k <= b[k + 1]
        BY <1>3, <1>4, <2>1
    <2>3. b[k + 1] = received \/ b[k + 1] = received + 1
        BY <1>4 DEF Idle, Pushed
    <2>4. k \in 0 .. received + 1
        BY <1>3, <2>2, <2>3
    <2> QED
        BY <1>2, <1>3, <2>4 DEF TreeTypeOK, FrontierInv
<1>6. k = 0 \/ TwoTo[k - 1] <= total
    <2>1. CASE pc # "idle"
        BY <1>4, <2>1 DEF Pushed
    <2>2. CASE pc = "idle" /\ received < total
        <3> SUFFICES ASSUME k # 0 PROVE TwoTo[k - 1] <= total
            OBVIOUS
        <3>1. PICK u \in Nat : u = k - 1 /\ u + 1 = k
            <4>1. k - 1 \in Nat /\ (k - 1) + 1 = k
                BY <1>3
            <4> QED
                BY <4>1
        <3>2. TwoTo[u] \in Nat /\ TwoTo[k] = 2 * TwoTo[u]
            BY <3>1, TwoToIs
        <3>3. TwoTo[k] <= total
            BY <1>4, <2>2 DEF Idle
        <3> QED
            BY <1>3, <3>1, <3>2, <3>3
    <2>3. CASE pc = "idle" /\ received = total
        <3>1. k = 1
            BY <1>4, <2>3 DEF Idle
        <3>2. k - 1 = 0
            BY <3>1
        <3>3. TwoTo[k - 1] = 1
            BY <3>2, TwoToIs, Zenon
        <3> QED
            BY <1>3, <3>3
    <2> QED
        BY <1>3, <2>1, <2>2, <2>3
<1>7. frontier = <<>> \/ TwoTo[Len(frontier) - 1] <= total
    <2>1. k = 0 => frontier = <<>>
        BY <1>2, <1>3, EmptySeq
    <2> QED
        BY <1>2, <1>6, <2>1
<1>8. ASSUME pc = "idle"
      PROVE  /\ Len(frontier) = Cardinality(MaximalComplete)
             /\ \A node \in MaximalComplete : frontier[Cardinality(UpTo(node))] = reduceRange[node]
    <2>1. MaximalComplete = {Piece(b, x) : x \in 1 .. k}
        <3>1. Idle(b, k)
            BY <1>4, <1>8
        <3>2. /\ b \in [1 .. k + 1 -> Nat] /\ b[1] = 0
              /\ \A x \in 1 .. k + 1 : \A y \in 1 .. k + 1 : x < y => b[x] < b[y]
            BY <1>4
        <3> QED
            BY <1>3, <3>1, <3>2, PiecesAreThose
    <2>2. Cardinality(MaximalComplete) = k
        <3>1. k \in 0 .. k
            BY <1>3
        <3> QED
            BY <1>3, <1>4, <2>1, <3>1, PiecesCounted
    <2>3. ASSUME NEW node \in MaximalComplete
          PROVE  frontier[Cardinality(UpTo(node))] = reduceRange[node]
        <3>1. PICK x \in 1 .. k : node = Piece(b, x)
            BY <2>1
        <3>2. Cardinality(UpTo(node)) = x
            BY <1>3, <1>4, <2>1, <3>1, PiecesUpTo
        <3> QED
            BY <1>4, <3>1, <3>2 DEF Piece
    <2> QED
        BY <1>2, <2>2, <2>3
<1> QED
    BY <1>5, <1>7, <1>8 DEF FrontierIsMaximalComplete

LEMMA StepKeepsFrontier ==
    ASSUME FrontierInv, [TreeNext]_treeVars
    PROVE  FrontierInv'
<1>1. CASE Push(Leaf(received))
    BY <1>1, PushKeepsFrontier
<1>2. CASE Descend
    BY <1>2, LeftTurn, RightTurn
<1>3. CASE Counted
    BY <1>3, CountedKeepsFrontier
<1>4. CASE Merge
    BY <1>4, MergeKeepsFrontier
<1>5. CASE Arrived
    BY <1>5, ArrivedKeepsFrontier
<1>6. CASE UNCHANGED treeVars
    <2>1. /\ total' = total /\ received' = received /\ frontier' = frontier
          /\ merges' = merges /\ lo' = lo /\ hi' = hi /\ pc' = pc
        BY <1>6 DEF treeVars
    <2>2. PICK b : FrontierParts(b)
        BY DEF FrontierInv
    <2>3. FrontierParts(b)'
        <3>1. Cuts(b) => Cuts(b)'
            BY <2>1 DEF Cuts
        <3>2. ASSUME NEW k, Idle(b, k) PROVE Idle(b, k)'
            BY <2>1, <3>2 DEF Idle, Awaits, Halved
        <3>3. ASSUME NEW k, Pushed(b, k) PROVE Pushed(b, k)'
            BY <2>1, <3>3 DEF Pushed, Awaits, Halved
        <3>4. ASSUME NEW k, NEW p, Walking(b, k, p) PROVE Walking(b, k, p)'
            BY <2>1, <3>4 DEF Walking, Halved, Topmost, Room
        <3>5. ASSUME NEW k, Merging(b, k) PROVE Merging(b, k)'
            BY <2>1, <3>5 DEF Merging, Halved, Topmost, Room
        <3> QED
            BY <2>1, <2>2, <3>1, <3>2, <3>3, <3>4, <3>5 DEF FrontierParts
    <2> QED
        BY <2>1, <2>3 DEF FrontierInv
<1> QED
    BY <1>1, <1>2, <1>3, <1>4, <1>5, <1>6 DEF TreeNext, Step

LEMMA FrontierIsKept == TreeSpec => []FrontierInv
<1>1. TreeInit => FrontierInv
    BY FrontierAtFirst
<1>2. FrontierInv /\ [TreeNext]_treeVars => FrontierInv'
    BY StepKeepsFrontier
<1> QED
    BY <1>1, <1>2, PTL DEF TreeSpec

(* Between two pushes the frontier of the incremental tree is exactly the  *)
(* maximal completed subtrees of the batch tree, grouped as balancedReduce *)
(* groups them, and it never holds more than 1 + log2(total) of them: for  *)
(* every number of leaves, every leaf and every combining function.        *)
THEOREM FrontierAlwaysMatches == TreeSpec => []FrontierIsMaximalComplete
BY FrontierIsKept, FrontierIsIt, PTL

LEMMA ResultIsIt ==
    ASSUME FrontierInv
    PROVE  /\ pc = "merge" /\ merges > 0 => Len(frontier) >= 2
           /\ pc = "idle" /\ received = total =>
                 ResultReady /\ Result = reduceRange[<<0, total - 1>>]
<1>1. PICK b : FrontierParts(b)
    BY DEF FrontierInv
<1>2. PICK k : k = Len(frontier)
    OBVIOUS
<1>3. /\ total \in Nat \ {0} /\ merges \in Nat
      /\ frontier \in Seq(Values) /\ k \in Nat
    BY <1>2, TotalPositive DEF FrontierInv
<1>4. ASSUME pc = "merge", merges > 0
      PROVE  Len(frontier) >= 2
    <2>1. merges \in 0 .. k - 1
        BY <1>1, <1>2, <1>4 DEF FrontierParts, Merging
    <2> QED
        BY <1>2, <1>3, <1>4, <2>1
<1>5. ASSUME pc = "idle", received = total
      PROVE  ResultReady /\ Result = reduceRange[<<0, total - 1>>]
    <2>1. Idle(b, k) /\ Cuts(b)
        BY <1>1, <1>2, <1>5 DEF FrontierParts
    <2>2. k = 1 /\ b[k + 1] = total
        BY <1>5, <2>1 DEF Idle
    <2>3. /\ b[1] = 0 /\ b[2] = total
        BY <2>1, <2>2 DEF Cuts
    <2>4. frontier[1] = reduceRange[<<b[1], b[2] - 1>>]
        <3>1. 1 \in 1 .. Len(frontier) /\ 1 + 1 = 2
            BY <1>2, <2>2
        <3> QED
            BY <2>1, <3>1 DEF Cuts
    <2> QED
        BY <1>2, <1>5, <2>2, <2>3, <2>4 DEF ResultReady, Result
<1> QED
    BY <1>4, <1>5

(* A merge never runs out of subtrees, and once the last leaf has arrived  *)
(* the assertion of Result holds and it returns the whole batch result.    *)
THEOREM ResultIsTheBatchResult ==
    TreeSpec => [](/\ pc = "merge" /\ merges > 0 => Len(frontier) >= 2
                   /\ pc = "idle" /\ received = total =>
                         ResultReady /\ Result = reduceRange[<<0, total - 1>>])
BY FrontierIsKept, ResultIsIt, PTL
=============================================================================
