--------------------------- MODULE MapLayersProofs ---------------------------
(* Proofs about MapLayers, for every value of its constants.               *)
EXTENDS MapLayers, WellFoundedInduction, TLAPS

-----------------------------------------------------------------------------
(* Positions.  The loops of the code end at the first gap, and the last    *)
(* write of a position counts: both exist.                                 *)
LEMMA Least ==
  ASSUME NEW S \in SUBSET Nat, S # {}
  PROVE  \E m \in S : \A k \in S : m <= k
<1>1. \E m \in S : \A k \in S : ~ (k < m)
  <2>1. IsWellFoundedOn(OpToRel(<, Nat), Nat)
    BY NatLessThanWellFounded
  <2>2. PICK m \in S : \A k \in S : ~ (<<k, m>> \in OpToRel(<, Nat))
    BY <2>1, WFMin
  <2>3. \A k \in S : <<k, m>> \in OpToRel(<, Nat) <=> k < m
    BY DEF OpToRel
  <2> QED
    BY <2>2, <2>3
<1>2. \A k, m \in S : ~ (k < m) => m <= k
  OBVIOUS
<1> QED
  BY <1>1, <1>2

LEMMA Greatest ==
  ASSUME NEW n \in Nat, NEW S \in SUBSET (0..n), S # {}
  PROVE  \E m \in S : \A k \in S : k <= m
<1> DEFINE T == {n - k : k \in S}
<1>1. \A k \in S : k \in 0..n /\ n - k \in Nat
  OBVIOUS
<1>2. T \in SUBSET Nat /\ T # {}
  BY <1>1
<1>3. PICK m \in T : \A k \in T : m <= k
  BY <1>2, Least
<1>4. PICK p \in S : m = n - p
  OBVIOUS
<1>5. \A k \in S : m <= n - k
  BY <1>3
<1> QED
  BY <1>1, <1>4, <1>5

LEMMA ConcatEffect ==
  ASSUME NEW S, NEW a \in Seq(S), NEW b \in Seq(S)
  PROVE  /\ a \o b \in Seq(S) /\ Len(a \o b) = Len(a) + Len(b)
         /\ \A j \in 1..(Len(a) + Len(b)) :
              (a \o b)[j] = IF j <= Len(a) THEN a[j] ELSE b[j - Len(a)]
<1>1. a \o b \in Seq(S)
  OBVIOUS
<1>2. Len(a \o b) = Len(a) + Len(b)
  OBVIOUS
<1>3. \A j \in 1..(Len(a) + Len(b)) :
        (a \o b)[j] = IF j <= Len(a) THEN a[j] ELSE b[j - Len(a)]
  OBVIOUS
<1> QED
  BY <1>1, <1>2, <1>3

\* What stands where after an element has been removed, or put in.
LEMMA RemoveAtEffect ==
  ASSUME NEW S, NEW s \in Seq(S), NEW p \in 1..Len(s)
  PROVE  /\ RemoveAt(s, p) \in Seq(S) /\ Len(RemoveAt(s, p)) = Len(s) - 1
         /\ \A j \in 1..(Len(s) - 1) :
              RemoveAt(s, p)[j] = IF j < p THEN s[j] ELSE s[j + 1]
<1> DEFINE a == SubSeq(s, 1, p - 1)
           b == SubSeq(s, p + 1, Len(s))
<1>1. RemoveAt(s, p) = a \o b
  BY DEF RemoveAt
<1>2. Len(s) \in Nat
  OBVIOUS
<1>3. /\ a \in Seq(S) /\ b \in Seq(S) /\ Len(a) = p - 1 /\ Len(b) = Len(s) - p
      /\ \A i \in 1..(p - 1) : a[i] = s[i]
      /\ \A i \in 1..(Len(s) - p) : b[i] = s[p + i]
  BY <1>2
<1> HIDE DEF a, b
<1>4. /\ a \o b \in Seq(S) /\ Len(a \o b) = Len(a) + Len(b)
      /\ \A j \in 1..(Len(a) + Len(b)) :
           (a \o b)[j] = IF j <= Len(a) THEN a[j] ELSE b[j - Len(a)]
  BY <1>3, ConcatEffect
<1>5. ASSUME NEW j \in 1..(Len(s) - 1) PROVE (a \o b)[j] = IF j < p THEN s[j] ELSE s[j + 1]
  <2>1. CASE j < p
    BY <1>2, <1>3, <1>4, <2>1
  <2>2. CASE ~ (j < p)
    <3>1. j - (p - 1) \in 1..(Len(s) - p) /\ p + (j - (p - 1)) = j + 1
      BY <1>2, <2>2
    <3>2. j \in 1..(Len(a) + Len(b)) /\ ~ (j <= Len(a)) /\ j - Len(a) = j - (p - 1)
      BY <1>2, <1>3, <2>2
    <3>3. (a \o b)[j] = b[j - (p - 1)]
      BY <1>4, <3>2
    <3> QED
      BY <1>3, <2>2, <3>1, <3>3
  <2> QED
    BY <2>1, <2>2
<1> QED
  BY <1>1, <1>2, <1>3, <1>4, <1>5

LEMMA InsertAtEffect ==
  ASSUME NEW S, NEW s, NEW p, NEW x, s \in Seq(S), p \in 1..(Len(s) + 1), x \in S
  PROVE  /\ InsertAt(s, p, x) \in Seq(S) /\ Len(InsertAt(s, p, x)) = Len(s) + 1
         /\ \A j \in 1..(Len(s) + 1) :
              InsertAt(s, p, x)[j] = IF j < p THEN s[j] ELSE IF j = p THEN x ELSE s[j - 1]
<1> DEFINE a == SubSeq(s, 1, p - 1)
           b == SubSeq(s, p, Len(s))
           c == a \o <<x>>
<1>1. InsertAt(s, p, x) = c \o b
  BY DEF InsertAt
<1>2. Len(s) \in Nat
  OBVIOUS
<1>3. /\ a \in Seq(S) /\ b \in Seq(S) /\ Len(a) = p - 1 /\ Len(b) = Len(s) + 1 - p
      /\ \A i \in 1..(p - 1) : a[i] = s[i]
      /\ \A i \in 1..(Len(s) + 1 - p) : b[i] = s[p + i - 1]
  BY <1>2
<1> HIDE DEF a, b
<1>4. /\ c \in Seq(S) /\ Len(c) = p /\ c[p] = x
      /\ \A i \in 1..(p - 1) : c[i] = s[i]
  <2>1. <<x>> \in Seq(S) /\ Len(<<x>>) = 1 /\ <<x>>[1] = x
    OBVIOUS
  <2>2. /\ c \in Seq(S) /\ Len(c) = Len(a) + 1
        /\ \A j \in 1..(Len(a) + 1) : c[j] = IF j <= Len(a) THEN a[j] ELSE <<x>>[j - Len(a)]
    BY <1>3, <2>1, ConcatEffect
  <2>3. p \in 1..(Len(a) + 1) /\ ~ (p <= Len(a)) /\ p - Len(a) = 1
    BY <1>2, <1>3
  <2>4. c[p] = x
    BY <2>1, <2>2, <2>3
  <2> QED
    BY <1>2, <1>3, <2>2, <2>4
<1> HIDE DEF c
<1>5. /\ c \o b \in Seq(S) /\ Len(c \o b) = Len(c) + Len(b)
      /\ \A j \in 1..(Len(c) + Len(b)) :
           (c \o b)[j] = IF j <= Len(c) THEN c[j] ELSE b[j - Len(c)]
  BY <1>3, <1>4, ConcatEffect
<1>6. ASSUME NEW j \in 1..(Len(s) + 1)
      PROVE  (c \o b)[j] = IF j < p THEN s[j] ELSE IF j = p THEN x ELSE s[j - 1]
  <2>1. CASE j <= p
    BY <1>2, <1>3, <1>4, <1>5, <2>1
  <2>2. CASE ~ (j <= p)
    <3>1. j - p \in 1..(Len(s) + 1 - p) /\ p + (j - p) - 1 = j - 1
      BY <1>2, <2>2
    <3>2. j \in 1..(Len(c) + Len(b)) /\ ~ (j <= Len(c)) /\ j - Len(c) = j - p
      BY <1>2, <1>3, <1>4, <2>2
    <3>3. (c \o b)[j] = b[j - p]
      BY <1>5, <3>2
    <3> QED
      BY <1>3, <2>2, <3>1, <3>3
  <2> QED
    BY <2>1, <2>2
<1> QED
  BY <1>1, <1>2, <1>3, <1>4, <1>5, <1>6

LEMMA AppendEffect ==
  ASSUME NEW S, NEW s \in Seq(S), NEW x \in S
  PROVE  /\ Append(s, x) \in Seq(S) /\ Len(Append(s, x)) = Len(s) + 1
         /\ \A j \in 1..(Len(s) + 1) :
              Append(s, x)[j] = IF j <= Len(s) THEN s[j] ELSE x
OBVIOUS

-----------------------------------------------------------------------------
(* The helpers of the collection: what they return, and what moves.        *)
Items == Seq(Layers \cup {Null})
Indexes == [Layers -> Nat \cup {Undefined}]
Collections == [layers : Items, index : Indexes]

LEMMA GapEffect ==
  ASSUME NEW items \in Items, NEW i \in Nat
  PROVE  /\ Gap(items, i) \in Nat /\ Gap(items, i) <= Len(items)
         /\ \/ Gap(items, i) = Len(items)
            \/ i <= Gap(items, i) /\ Gap(items, i) < Len(items) /\ items[Gap(items, i) + 1] = Null
         /\ \A j \in i..(Gap(items, i) - 1) : items[j + 1] # Null
<1> DEFINE gaps == {j \in i..(Len(items) - 1) : items[j + 1] = Null}
           g == CHOOSE j \in gaps : \A k \in gaps : j <= k
<1>1. Len(items) \in Nat
  BY DEF Items
<1>2. CASE gaps = {}
  <2>1. Gap(items, i) = Len(items)
    BY <1>2 DEF Gap
  <2>2. \A j \in i..(Len(items) - 1) : items[j + 1] # Null
    BY <1>2
  <2> QED
    BY <1>1, <2>1, <2>2
<1>3. CASE gaps # {}
  <2>1. gaps \in SUBSET Nat
    BY <1>1
  <2>2. \E j \in gaps : \A k \in gaps : j <= k
    BY <1>3, <2>1, Least
  <2>3. g \in gaps /\ \A k \in gaps : g <= k
    BY <2>2
  <2>4. Gap(items, i) = g
    BY <1>3 DEF Gap
  <2> HIDE DEF g
  <2>5. g \in i..(Len(items) - 1) /\ items[g + 1] = Null
    BY <2>3
  <2>6. ASSUME NEW j \in i..(g - 1) PROVE items[j + 1] # Null
    <3>1. j \in i..(Len(items) - 1) /\ ~ (g <= j)
      BY <1>1, <2>5
    <3> QED
      BY <2>3, <3>1
  <2> HIDE DEF gaps
  <2> QED
    BY <1>1, <2>4, <2>5, <2>6
<1> QED
  BY <1>2, <1>3

LEMMA RenumberEffect ==
  ASSUME NEW index0 \in Indexes, NEW items \in Items, NEW from \in Nat, NEW to \in Nat
  PROVE  /\ Renumber(index0, items, from, to) \in Indexes
         /\ \A l \in Layers :
              \/ /\ Renumber(index0, items, from, to)[l] = index0[l]
                 /\ \A j \in from..(to - 1) : items[j + 1] # l
              \/ /\ Renumber(index0, items, from, to)[l] \in from..(to - 1)
                 /\ items[Renumber(index0, items, from, to)[l] + 1] = l
<1> DEFINE places(l) == {j \in from..(to - 1) : items[j + 1] = l}
           last(l) == CHOOSE j \in places(l) : \A k \in places(l) : k <= j
           r == Renumber(index0, items, from, to)
<1>1. /\ DOMAIN r = Layers
      /\ \A l \in Layers : r[l] = IF places(l) = {} THEN index0[l] ELSE last(l)
  BY DEF Renumber, Indexes
<1>2. ASSUME NEW l \in Layers, places(l) # {} PROVE last(l) \in places(l)
  <2>1. places(l) \in SUBSET (0..to)
    OBVIOUS
  <2>2. \E j \in places(l) : \A k \in places(l) : k <= j
    BY <1>2, <2>1, Greatest
  <2> QED
    BY <2>2
<1> HIDE DEF r, last
<1>3. ASSUME NEW l \in Layers
      PROVE  \/ r[l] = index0[l] /\ \A j \in from..(to - 1) : items[j + 1] # l
             \/ r[l] \in from..(to - 1) /\ items[r[l] + 1] = l
  <2>1. CASE places(l) = {}
    BY <1>1, <2>1
  <2>2. CASE places(l) # {}
    BY <1>1, <1>2, <2>2
  <2> QED
    BY <2>1, <2>2
<1>4. \A l \in Layers : r[l] \in Nat \cup {Undefined}
  BY <1>3 DEF Indexes
<1>5. r = [l \in Layers |-> r[l]]
  BY DEF r, Renumber, Indexes
<1>6. r \in Indexes
  BY <1>4, <1>5 DEF Indexes
<1> QED
  BY <1>3, <1>6 DEF r

LEMMA CutEffect ==
  ASSUME NEW items \in Items, NEW i \in Nat \cup {Undefined}
  PROVE  /\ Cut(items, i) \in Items
         /\ i \in Nat /\ i < Len(items) =>
              /\ Len(Cut(items, i)) = Len(items) - 1
              /\ \A j \in 1..(Len(items) - 1) :
                   Cut(items, i)[j] = IF j <= i THEN items[j] ELSE items[j + 1]
<1>1. Len(items) \in Nat /\ Position(i) \in Nat
  BY DEF Items, Position
<1>2. CASE Position(i) < Len(items)
  <2> DEFINE p == Position(i) + 1
  <2>1. p \in 1..Len(items)
    BY <1>1, <1>2
  <2>2. Cut(items, i) = RemoveAt(items, p)
    BY <1>2 DEF Cut
  <2>3. i \in Nat => p = i + 1
    BY UndefinedAssumption DEF Position
  <2>4. p \in Nat
    BY <2>1
  <2> HIDE DEF p
  <2>5. /\ RemoveAt(items, p) \in Items /\ Len(RemoveAt(items, p)) = Len(items) - 1
        /\ \A j \in 1..(Len(items) - 1) :
             RemoveAt(items, p)[j] = IF j < p THEN items[j] ELSE items[j + 1]
    BY <2>1, RemoveAtEffect DEF Items
  <2>6. i \in Nat => \A j \in 1..(Len(items) - 1) : j < p <=> j <= i
    BY <2>3
  <2> QED
    BY <2>2, <2>5, <2>6
<1>3. CASE ~ (Position(i) < Len(items))
  <2>1. Cut(items, i) = items
    BY <1>3 DEF Cut
  <2>2. ~ (i \in Nat /\ i < Len(items))
    BY <1>3, UndefinedAssumption DEF Position
  <2> QED
    BY <2>1, <2>2
<1> QED
  BY <1>2, <1>3

LEMMA PadEffect ==
  ASSUME NEW items \in Items, NEW i \in Nat
  PROVE  /\ Pad(items, i) \in Items
         /\ Len(Pad(items, i)) = IF Len(items) < i THEN i ELSE Len(items)
         /\ \A j \in 1..Len(Pad(items, i)) :
              Pad(items, i)[j] = IF j <= Len(items) THEN items[j] ELSE Null
<1> DEFINE n == IF Len(items) < i THEN i - Len(items) ELSE 0
           nulls == [m \in 1..n |-> Null]
<1>1. Len(items) \in Nat /\ n \in Nat
  BY DEF Items
<1>2. 1..(i - Len(items)) = 1..n
  BY <1>1
<1>3. Pad(items, i) = items \o nulls
  BY <1>2 DEF Pad
<1>4. nulls \in Items /\ Len(nulls) = n /\ \A m \in 1..n : nulls[m] = Null
  BY <1>1 DEF Items
<1>5. Len(items) + n = IF Len(items) < i THEN i ELSE Len(items)
  BY <1>1
<1> HIDE DEF n, nulls
<1>6. /\ items \o nulls \in Items /\ Len(items \o nulls) = Len(items) + n
      /\ \A j \in 1..(Len(items) + n) :
           (items \o nulls)[j] = IF j <= Len(items) THEN items[j] ELSE nulls[j - Len(items)]
  BY <1>4, ConcatEffect DEF Items
<1>7. ASSUME NEW j \in 1..(Len(items) + n), ~ (j <= Len(items))
      PROVE  nulls[j - Len(items)] = Null
  <2>1. j - Len(items) \in 1..n
    BY <1>1, <1>7
  <2> QED
    BY <1>4, <2>1
<1> QED
  BY <1>3, <1>5, <1>6, <1>7

LEMMA RemoveLayerType ==
  ASSUME NEW c \in Collections, NEW i \in Nat \cup {Undefined}
  PROVE  RemoveLayer(c, i) \in Collections
<1> DEFINE rest == Cut(c.layers, i)
           gap == Gap(rest, i)
<1>1. c.layers \in Items /\ c.index \in Indexes /\ DOMAIN c = {"layers", "index"}
  BY DEF Collections
<1>2. rest \in Items /\ Len(rest) \in Nat
  BY <1>1, CutEffect DEF Items
<1> HIDE DEF rest
<1>3. CASE i = Undefined
  <2>1. RemoveLayer(c, i) = [c EXCEPT !.layers = rest]
    BY <1>3 DEF RemoveLayer, rest
  <2> QED
    BY <1>1, <1>2, <2>1 DEF Collections
<1>4. CASE i # Undefined
  <2>0. i \in Nat
    BY <1>4
  <2>1. gap \in Nat /\ (gap < Len(rest) => gap + 1 \in 1..(Len(rest) + 1))
    <3>1. gap \in Nat
      BY <1>2, <2>0, GapEffect
    <3> HIDE DEF gap
    <3> QED
      BY <1>2, <3>1
  <2>2. Renumber(c.index, rest, i, gap) \in Indexes
    BY <1>1, <1>2, <2>0, <2>1, RenumberEffect
  <2>3. gap < Len(rest) => InsertAt(rest, gap + 1, Null) \in Items
    BY <1>2, <2>1, InsertAtEffect DEF Items
  <2>4. RemoveLayer(c, i) =
          [layers |-> IF gap < Len(rest) THEN InsertAt(rest, gap + 1, Null) ELSE rest,
           index |-> Renumber(c.index, rest, i, gap)]
    BY <1>4 DEF RemoveLayer, rest
  <2> HIDE DEF gap
  <2> QED
    BY <1>2, <2>2, <2>3, <2>4 DEF Collections
<1> QED
  BY <1>3, <1>4

\* r is c without the layer at position i: what stood above it has moved down, as far
\* as the gap that was at g + 1 and begins at g now, and knows its position.
Closed(c, r, i, g) ==
  /\ g \in Nat /\ i <= g
  /\ \/ g = Len(c.layers) - 1 /\ Len(r.layers) = g
     \/ g + 1 < Len(c.layers) /\ Len(r.layers) = Len(c.layers) /\ c.layers[g + 2] = Null
  /\ \A j \in 1..Len(r.layers) :
       r.layers[j] = IF j <= i THEN c.layers[j]
                     ELSE IF j <= g THEN c.layers[j + 1]
                     ELSE IF j = g + 1 THEN Null
                     ELSE c.layers[j]
  /\ \A l \in Layers :
       \/ r.index[l] = c.index[l] /\ \A j \in (i + 1)..g : r.layers[j] # l
       \/ \E j \in (i + 1)..g : r.index[l] = j - 1 /\ r.layers[j] = l

LEMMA RemoveLayerEffect ==
  ASSUME NEW c \in Collections, NEW i \in Nat, i < Len(c.layers)
  PROVE  \E g : Closed(c, RemoveLayer(c, i), i, g)
<1> DEFINE rest == Cut(c.layers, i)
           g == Gap(rest, i)
           r == RemoveLayer(c, i)
<1>1. c.layers \in Items /\ c.index \in Indexes /\ Len(c.layers) \in Nat
  BY DEF Collections, Items
<1>2. /\ rest \in Items /\ Len(rest) = Len(c.layers) - 1
      /\ \A j \in 1..(Len(c.layers) - 1) :
           rest[j] = IF j <= i THEN c.layers[j] ELSE c.layers[j + 1]
  BY <1>1, CutEffect
<1>3. /\ g \in Nat /\ g <= Len(rest)
      /\ g = Len(rest) \/ (i <= g /\ g < Len(rest) /\ rest[g + 1] = Null)
  BY <1>2, GapEffect
<1>4. i # Undefined
  BY UndefinedAssumption
<1>5. /\ r.layers = IF g < Len(rest) THEN InsertAt(rest, g + 1, Null) ELSE rest
      /\ r.index = Renumber(c.index, rest, i, g)
  BY <1>4 DEF RemoveLayer
<1>6. \A l \in Layers :
        \/ r.index[l] = c.index[l] /\ \A j \in i..(g - 1) : rest[j + 1] # l
        \/ r.index[l] \in i..(g - 1) /\ rest[r.index[l] + 1] = l
  <2> HIDE DEF rest, g, r
  <2>1. /\ c.index \in Indexes /\ rest \in Items /\ g \in Nat
        /\ r.index = Renumber(c.index, rest, i, g)
    BY <1>1, <1>2, <1>3, <1>5
  <2> QED
    BY <2>1, RenumberEffect
<1> HIDE DEF rest, g, r
<1>7. i <= g
  BY <1>1, <1>2, <1>3
<1>8. /\ \/ g = Len(c.layers) - 1 /\ Len(r.layers) = g
         \/ g + 1 < Len(c.layers) /\ Len(r.layers) = Len(c.layers) /\ c.layers[g + 2] = Null
      /\ \A j \in 1..Len(r.layers) :
           r.layers[j] = IF j <= i THEN c.layers[j]
                         ELSE IF j <= g THEN c.layers[j + 1]
                         ELSE IF j = g + 1 THEN Null
                         ELSE c.layers[j]
  <2>1. CASE g = Len(rest)
    <3>1. r.layers = rest
      BY <1>1, <1>2, <1>5, <2>1
    <3> QED
      BY <1>1, <1>2, <1>3, <2>1, <3>1
  <2>2. CASE g < Len(rest) /\ rest[g + 1] = Null
    <3>1. g + 1 \in 1..(Len(rest) + 1) /\ Null \in Layers \cup {Null}
      BY <1>1, <1>2, <1>3, <2>2
    <3>2. /\ Len(r.layers) = Len(rest) + 1
          /\ \A j \in 1..(Len(rest) + 1) :
               r.layers[j] = IF j < g + 1 THEN rest[j] ELSE IF j = g + 1 THEN Null ELSE rest[j - 1]
      BY <1>2, <1>5, <2>2, <3>1, InsertAtEffect DEF Items
    <3>3. c.layers[g + 2] = Null
      <4>1. g + 1 \in 1..(Len(c.layers) - 1) /\ ~ (g + 1 <= i) /\ (g + 1) + 1 = g + 2
        BY <1>1, <1>2, <1>3, <1>7, <2>2
      <4> QED
        BY <1>2, <2>2, <4>1
    <3>4. ASSUME NEW j \in 1..Len(r.layers)
          PROVE  r.layers[j] = IF j <= i THEN c.layers[j]
                               ELSE IF j <= g THEN c.layers[j + 1]
                               ELSE IF j = g + 1 THEN Null
                               ELSE c.layers[j]
      <4>1. CASE j <= g
        <5>1. j \in 1..(Len(c.layers) - 1) /\ j < g + 1 /\ j \in 1..(Len(rest) + 1)
          BY <1>1, <1>2, <1>3, <2>2, <4>1
        <5> QED
          BY <1>2, <1>3, <3>2, <4>1, <5>1
      <4>2. CASE j = g + 1
        BY <1>1, <1>2, <1>3, <1>7, <3>2, <4>2
      <4>3. CASE j > g + 1
        <5>1. j - 1 \in 1..(Len(c.layers) - 1) /\ ~ (j - 1 <= i) /\ (j - 1) + 1 = j
          BY <1>1, <1>2, <1>3, <1>7, <3>2, <4>3
        <5>2. r.layers[j] = rest[j - 1]
          BY <1>1, <1>2, <1>3, <3>2, <4>3
        <5>3. rest[j - 1] = c.layers[j]
          BY <1>2, <5>1
        <5> QED
          BY <1>1, <1>3, <1>7, <4>3, <5>2, <5>3
      <4> QED
        BY <1>1, <1>2, <1>3, <3>2, <4>1, <4>2, <4>3
    <3> QED
      BY <1>1, <1>2, <1>3, <2>2, <3>2, <3>3, <3>4
  <2> QED
    BY <1>3, <2>1, <2>2
<1>9. \A j \in 1..g : j \in 1..Len(r.layers) /\ j \in 1..(Len(c.layers) - 1)
  BY <1>1, <1>2, <1>3, <1>8
<1>10. \A j \in 1..g : r.layers[j] = rest[j]
  BY <1>2, <1>3, <1>8, <1>9
<1>11. ASSUME NEW l \in Layers
       PROVE  \/ r.index[l] = c.index[l] /\ \A j \in (i + 1)..g : r.layers[j] # l
              \/ \E j \in (i + 1)..g : r.index[l] = j - 1 /\ r.layers[j] = l
  <2>1. CASE r.index[l] = c.index[l] /\ \A j \in i..(g - 1) : rest[j + 1] # l
    <3>1. ASSUME NEW j \in (i + 1)..g PROVE r.layers[j] # l
      <4>1. j - 1 \in i..(g - 1) /\ (j - 1) + 1 = j /\ j \in 1..g
        BY <1>3
      <4> QED
        BY <1>10, <2>1, <4>1
    <3> QED
      BY <2>1, <3>1
  <2>2. CASE r.index[l] \in i..(g - 1) /\ rest[r.index[l] + 1] = l
    <3>1. /\ r.index[l] + 1 \in (i + 1)..g /\ r.index[l] = (r.index[l] + 1) - 1
          /\ r.index[l] + 1 \in 1..g
      BY <1>3, <2>2
    <3> QED
      BY <1>10, <2>2, <3>1
  <2> QED
    BY <1>6, <2>1, <2>2
<1>12. Closed(c, r, i, g)
  BY <1>3, <1>7, <1>8, <1>11 DEF Closed
<1> QED
  BY <1>12 DEF r

LEMMA InsertLayerType ==
  ASSUME NEW c \in Collections, NEW i \in Nat \cup {Undefined}, NEW l \in Layers
  PROVE  InsertLayer(c, i, l) \in Collections
<1> DEFINE moved == InsertAt(c.layers, Position(i) + 1, l)
           gap == Gap(moved, i + 1)
           numbered == [c.index EXCEPT ![l] = i]
<1>1. c.layers \in Items /\ Len(c.layers) \in Nat
  BY DEF Collections, Items
<1>2. numbered \in Indexes
  BY DEF Collections, Indexes
<1>3. CASE i = Undefined
  <2>1. Position(i) + 1 \in 1..(Len(c.layers) + 1)
    BY <1>1, <1>3 DEF Position
  <2>2. moved \in Items
    BY <1>1, <2>1, InsertAtEffect DEF Items
  <2>3. InsertLayer(c, i, l) = [layers |-> moved, index |-> numbered]
    BY <1>3 DEF InsertLayer
  <2> QED
    BY <1>2, <2>2, <2>3 DEF Collections
<1>4. CASE i \in Nat /\ Len(c.layers) < i
  <2>1. Append(Pad(c.layers, i), l) \in Items
    BY <1>1, <1>4, PadEffect, AppendEffect DEF Items
  <2>2. InsertLayer(c, i, l) = [layers |-> Append(Pad(c.layers, i), l), index |-> numbered]
    BY <1>4, UndefinedAssumption DEF InsertLayer
  <2> QED
    BY <1>2, <2>1, <2>2 DEF Collections
<1>5. CASE i \in Nat /\ ~ (Len(c.layers) < i)
  <2>1. i # Undefined /\ Position(i) = i /\ i + 1 \in Nat
    BY <1>5, UndefinedAssumption DEF Position
  <2>2. moved \in Items /\ Len(moved) \in Nat
    <3>1. Position(i) + 1 \in 1..(Len(c.layers) + 1)
      BY <1>1, <1>5, <2>1
    <3> QED
      BY <1>1, <3>1, InsertAtEffect DEF Items
  <2>3. InsertLayer(c, i, l) =
          [layers |-> IF gap < Len(moved) THEN RemoveAt(moved, gap + 1) ELSE moved,
           index |-> Renumber(numbered, moved, i + 1, gap)]
    BY <1>5, <2>1 DEF InsertLayer
  <2> HIDE DEF moved, numbered
  <2>4. gap \in Nat
    BY <2>1, <2>2, GapEffect
  <2>5. gap < Len(moved) => gap + 1 \in 1..Len(moved)
    BY <2>2, <2>4
  <2>6. gap < Len(moved) => RemoveAt(moved, gap + 1) \in Items
    BY <2>2, <2>5, RemoveAtEffect DEF Items
  <2>7. Renumber(numbered, moved, i + 1, gap) \in Indexes
    BY <1>2, <2>1, <2>2, <2>4, RenumberEffect
  <2> HIDE DEF gap
  <2> QED
    BY <2>2, <2>3, <2>6, <2>7 DEF Collections
<1> QED
  BY <1>3, <1>4, <1>5

\* r is c with l at position i: what stood from there on has moved up, as far as the gap
\* that was at g, which is filled, and knows its position.
Opened(c, r, i, l, g) ==
  /\ g \in Nat /\ i + 1 <= g
  /\ \/ g = Len(c.layers) + 1 /\ Len(r.layers) = g
     \/ g <= Len(c.layers) /\ Len(r.layers) = Len(c.layers) /\ c.layers[g] = Null
     \/ g = i + 1 /\ Len(r.layers) = g /\ Len(c.layers) < i
  /\ \A j \in 1..Len(r.layers) :
       r.layers[j] = IF j = i + 1 THEN l
                     ELSE IF j <= i THEN (IF j <= Len(c.layers) THEN c.layers[j] ELSE Null)
                     ELSE IF j <= g THEN c.layers[j - 1]
                     ELSE c.layers[j]
  /\ \A k \in Layers :
       \/ /\ r.index[k] = IF k = l THEN i ELSE c.index[k]
          /\ \A j \in (i + 2)..g : r.layers[j] # k
       \/ \E j \in (i + 2)..g : r.index[k] = j - 1 /\ r.layers[j] = k

LEMMA InsertLayerEffect ==
  ASSUME NEW c \in Collections, NEW i \in Nat, NEW l \in Layers
  PROVE  \E g : Opened(c, InsertLayer(c, i, l), i, l, g)
<1> DEFINE r == InsertLayer(c, i, l)
           numbered == [c.index EXCEPT ![l] = i]
<1>1. c.layers \in Items /\ Len(c.layers) \in Nat
  BY DEF Collections, Items
<1>2. /\ numbered \in Indexes
      /\ \A k \in Layers : numbered[k] = IF k = l THEN i ELSE c.index[k]
  BY DEF Collections, Indexes
<1>3. i # Undefined /\ Position(i) = i /\ i + 1 \in Nat
  BY UndefinedAssumption DEF Position
<1>4. CASE Len(c.layers) < i
  <2>1. /\ r.layers = Append(Pad(c.layers, i), l) /\ r.index = numbered
    BY <1>3, <1>4 DEF InsertLayer
  <2>2. /\ Pad(c.layers, i) \in Items /\ Len(Pad(c.layers, i)) = i
        /\ \A j \in 1..i : Pad(c.layers, i)[j] = IF j <= Len(c.layers) THEN c.layers[j] ELSE Null
    BY <1>1, <1>4, PadEffect
  <2> HIDE DEF r, numbered
  <2>3. /\ Len(r.layers) = i + 1
        /\ \A j \in 1..(i + 1) : r.layers[j] = IF j <= i THEN Pad(c.layers, i)[j] ELSE l
    BY <2>1, <2>2, AppendEffect DEF Items
  <2>4. ASSUME NEW j \in 1..Len(r.layers)
        PROVE  r.layers[j] = IF j = i + 1 THEN l
                             ELSE IF j <= i THEN (IF j <= Len(c.layers) THEN c.layers[j] ELSE Null)
                             ELSE IF j <= i + 1 THEN c.layers[j - 1]
                             ELSE c.layers[j]
    BY <1>1, <2>2, <2>3
  <2>5. (i + 2)..(i + 1) = {}
    OBVIOUS
  <2>6. Opened(c, r, i, l, i + 1)
    BY <1>2, <1>3, <1>4, <2>1, <2>3, <2>4, <2>5 DEF Opened
  <2> QED
    BY <2>6 DEF r
<1>5. CASE ~ (Len(c.layers) < i)
  <2> DEFINE moved == InsertAt(c.layers, i + 1, l)
             g == Gap(moved, i + 1)
  <2>1. /\ r.layers = IF g < Len(moved) THEN RemoveAt(moved, g + 1) ELSE moved
        /\ r.index = Renumber(numbered, moved, i + 1, g)
    BY <1>3, <1>5 DEF InsertLayer
  <2>2. i + 1 \in 1..(Len(c.layers) + 1)
    BY <1>1, <1>5
  <2>3. /\ moved \in Items /\ Len(moved) = Len(c.layers) + 1
        /\ \A j \in 1..(Len(c.layers) + 1) :
             moved[j] = IF j < i + 1 THEN c.layers[j] ELSE IF j = i + 1 THEN l ELSE c.layers[j - 1]
    <3>1. c.layers \in Seq(Layers \cup {Null}) /\ l \in Layers \cup {Null}
      BY <1>1 DEF Items
    <3> QED
      BY <2>2, <3>1, InsertAtEffect DEF Items
  <2> HIDE DEF moved, r, numbered
  <2>4. /\ g \in Nat /\ g <= Len(moved)
        /\ g = Len(moved) \/ (i + 1 <= g /\ g < Len(moved) /\ moved[g + 1] = Null)
    BY <1>3, <2>3, GapEffect
  <2> HIDE DEF g
  <2>5. \A k \in Layers :
          \/ r.index[k] = numbered[k] /\ \A j \in (i + 1)..(g - 1) : moved[j + 1] # k
          \/ r.index[k] \in (i + 1)..(g - 1) /\ moved[r.index[k] + 1] = k
    BY <1>2, <1>3, <2>1, <2>3, <2>4, RenumberEffect
  <2>6. i + 1 <= g
    BY <1>1, <2>2, <2>3, <2>4
  <2>7. /\ \/ g = Len(c.layers) + 1 /\ Len(r.layers) = g
           \/ g <= Len(c.layers) /\ Len(r.layers) = Len(c.layers) /\ c.layers[g] = Null
        /\ \A j \in 1..Len(r.layers) : r.layers[j] = IF j <= g THEN moved[j] ELSE moved[j + 1]
    <3>1. CASE g = Len(moved)
      BY <1>1, <2>1, <2>3, <2>4, <3>1
    <3>2. CASE g < Len(moved) /\ moved[g + 1] = Null
      <4>1. g + 1 \in 1..Len(moved)
        BY <2>3, <2>4, <3>2
      <4>2. /\ Len(r.layers) = Len(moved) - 1
            /\ \A j \in 1..(Len(moved) - 1) :
                 r.layers[j] = IF j < g + 1 THEN moved[j] ELSE moved[j + 1]
        <5>1. r.layers = RemoveAt(moved, g + 1) /\ moved \in Seq(Layers \cup {Null})
          BY <2>1, <2>3, <3>2 DEF Items
        <5> QED
          BY <4>1, <5>1, RemoveAtEffect
      <4>3. c.layers[g] = Null
        <5>1. ~ (g + 1 < i + 1) /\ g + 1 # i + 1 /\ (g + 1) - 1 = g
          BY <2>4, <2>6
        <5> QED
          BY <2>3, <3>2, <4>1, <5>1
      <4>4. \A j \in 1..Len(r.layers) : j < g + 1 <=> j <= g
        BY <2>4
      <4> QED
        BY <1>1, <2>3, <2>4, <3>2, <4>2, <4>3, <4>4
    <3> QED
      BY <2>4, <3>1, <3>2
  <2>8. ASSUME NEW j \in 1..Len(r.layers)
        PROVE  r.layers[j] = IF j = i + 1 THEN l
                             ELSE IF j <= i THEN (IF j <= Len(c.layers) THEN c.layers[j] ELSE Null)
                             ELSE IF j <= g THEN c.layers[j - 1]
                             ELSE c.layers[j]
    <3>1. CASE j <= g
      <4>1. j \in 1..(Len(c.layers) + 1)
        BY <1>1, <2>7, <3>1
      <4>2. r.layers[j] = moved[j]
        BY <2>7, <3>1
      <4> QED
        BY <1>1, <1>5, <2>3, <3>1, <4>1, <4>2
    <3>2. CASE ~ (j <= g)
      <4>1. j + 1 \in 1..(Len(c.layers) + 1) /\ ~ (j + 1 <= i + 1) /\ (j + 1) - 1 = j
        BY <1>1, <2>4, <2>6, <2>7, <3>2
      <4>2. r.layers[j] = moved[j + 1]
        BY <2>7, <3>2
      <4> QED
        BY <1>1, <2>3, <2>4, <2>6, <3>2, <4>1, <4>2
    <3> QED
      BY <3>1, <3>2
  <2>9. \A j \in 1..g : j \in 1..Len(r.layers) => r.layers[j] = moved[j]
    BY <2>4, <2>7
  <2>10. \A j \in 1..g : j \in 1..Len(r.layers)
    BY <1>1, <2>4, <2>7
  <2>11. ASSUME NEW k \in Layers
         PROVE  \/ /\ r.index[k] = IF k = l THEN i ELSE c.index[k]
                   /\ \A j \in (i + 2)..g : r.layers[j] # k
                \/ \E j \in (i + 2)..g : r.index[k] = j - 1 /\ r.layers[j] = k
    <3>1. CASE r.index[k] = numbered[k] /\ \A j \in (i + 1)..(g - 1) : moved[j + 1] # k
      <4>1. ASSUME NEW j \in (i + 2)..g PROVE r.layers[j] # k
        <5>1. j - 1 \in (i + 1)..(g - 1) /\ (j - 1) + 1 = j /\ j \in 1..g
          BY <2>4
        <5> QED
          BY <2>9, <2>10, <3>1, <5>1
      <4> QED
        BY <1>2, <3>1, <4>1
    <3>2. CASE r.index[k] \in (i + 1)..(g - 1) /\ moved[r.index[k] + 1] = k
      <4>1. /\ r.index[k] + 1 \in (i + 2)..g /\ r.index[k] = (r.index[k] + 1) - 1
            /\ r.index[k] + 1 \in 1..g
        BY <2>4, <3>2
      <4> QED
        BY <2>9, <2>10, <3>2, <4>1
    <3> QED
      BY <2>5, <3>1, <3>2
  <2>12. Opened(c, r, i, l, g)
    BY <2>4, <2>6, <2>7, <2>8, <2>11 DEF Opened
  <2> QED
    BY <2>12 DEF r
<1> QED
  BY <1>4, <1>5

-----------------------------------------------------------------------------
(* A collection in order: no layer twice, the positions that are           *)
(* remembered right, layers without an index below the markers, and one    *)
(* markers layer at most.                                                  *)
PlacedIn(items) == {items[j] : j \in 1..Len(items)} \ {Null}
IsStatic(l) == l # Null /\ l[1] \in StaticElements
Ordinary(l) == ~ IsStatic(l) /\ ~ IsMarkers(l)

Ordered(items) ==
  \A j, k \in 1..Len(items) :
    /\ items[j] = items[k] => j = k \/ items[j] = Null
    /\ IsStatic(items[j]) /\ IsMarkers(items[k]) => j < k
    /\ IsMarkers(items[j]) /\ IsMarkers(items[k]) => j = k

Agreed(c) ==
  \A j \in 1..Len(c.layers) :
    c.layers[j] = Null \/ c.index[c.layers[j]] \in {Undefined, j - 1}

Good(c) == Ordered(c.layers) /\ Agreed(c)

\* The layers of rest are those of items in the same order, f says where they were, and
\* perhaps one at p that is new.
Drawn(rest, items, f, p) ==
  /\ \A j \in 1..Len(rest) :
       \/ rest[j] = Null
       \/ j = p /\ rest[j] \notin PlacedIn(items) /\ Ordinary(rest[j])
       \/ j # p /\ f[j] \in 1..Len(items) /\ items[f[j]] = rest[j]
  /\ \A j, k \in 1..Len(rest) :
       j < k /\ j # p /\ k # p /\ rest[j] # Null /\ rest[k] # Null => f[j] < f[k]

LEMMA DrawnOrdered ==
  ASSUME NEW items, NEW rest, NEW f, NEW p, Len(items) \in Nat, Len(rest) \in Nat,
         Ordered(items), Drawn(rest, items, f, p)
  PROVE  Ordered(rest)
<1> SUFFICES ASSUME NEW j \in 1..Len(rest), NEW k \in 1..Len(rest)
             PROVE  /\ rest[j] = rest[k] => j = k \/ rest[j] = Null
                    /\ IsStatic(rest[j]) /\ IsMarkers(rest[k]) => j < k
                    /\ IsMarkers(rest[j]) /\ IsMarkers(rest[k]) => j = k
  BY DEF Ordered
<1>1. CASE rest[j] = Null \/ rest[k] = Null
  BY <1>1 DEF IsStatic, IsMarkers
<1>2. CASE rest[j] # Null /\ rest[k] # Null /\ j # p /\ k # p
  <2>1. /\ f[j] \in 1..Len(items) /\ items[f[j]] = rest[j]
        /\ f[k] \in 1..Len(items) /\ items[f[k]] = rest[k]
    BY <1>2 DEF Drawn
  <2>2. (j < k => f[j] < f[k]) /\ (k < j => f[k] < f[j])
    BY <1>2 DEF Drawn
  <2>3. /\ items[f[j]] = items[f[k]] => f[j] = f[k] \/ items[f[j]] = Null
        /\ IsStatic(items[f[j]]) /\ IsMarkers(items[f[k]]) => f[j] < f[k]
        /\ IsMarkers(items[f[j]]) /\ IsMarkers(items[f[k]]) => f[j] = f[k]
    BY <2>1 DEF Ordered
  <2>4. /\ rest[j] = rest[k] => f[j] = f[k]
        /\ IsStatic(rest[j]) /\ IsMarkers(rest[k]) => f[j] < f[k]
        /\ IsMarkers(rest[j]) /\ IsMarkers(rest[k]) => f[j] = f[k]
    BY <1>2, <2>1, <2>3
  <2>5. f[j] \in Nat /\ f[k] \in Nat /\ j \in Nat /\ k \in Nat
    BY <2>1
  <2>6. (f[j] = f[k] => j = k) /\ (f[j] < f[k] => j < k)
    BY <2>2, <2>5
  <2> QED
    BY <2>4, <2>6
<1>3. CASE rest[j] # Null /\ rest[k] # Null /\ (j = p \/ k = p) /\ j # k
  <2>1. (j = p => Ordinary(rest[j])) /\ (k = p => Ordinary(rest[k]))
    BY <1>3 DEF Drawn
  <2>2. rest[j] # rest[k]
    <3>1. CASE j = p
      <4>1. rest[j] \notin PlacedIn(items) /\ rest[k] \in PlacedIn(items)
        BY <1>3, <3>1 DEF Drawn, PlacedIn
      <4> QED
        BY <4>1
    <3>2. CASE k = p
      <4>1. rest[k] \notin PlacedIn(items) /\ rest[j] \in PlacedIn(items)
        BY <1>3, <3>2 DEF Drawn, PlacedIn
      <4> QED
        BY <4>1
    <3> QED
      BY <1>3, <3>1, <3>2
  <2> QED
    BY <1>3, <2>1, <2>2 DEF Ordinary
<1>4. CASE rest[j] # Null /\ j = p /\ j = k
  BY <1>4 DEF Drawn, Ordinary
<1> QED
  BY <1>1, <1>2, <1>3, <1>4

\* An index that was found is found after the layers above have moved down.
LEMMA RemoveLayerGood ==
  ASSUME NEW c \in Collections, NEW i \in Nat, i < Len(c.layers), Good(c)
  PROVE  /\ Good(RemoveLayer(c, i))
         /\ PlacedIn(RemoveLayer(c, i).layers) = PlacedIn(c.layers) \ {c.layers[i + 1]}
         /\ \A l \in Layers : \/ RemoveLayer(c, i).index[l] = c.index[l]
                              \/ /\ l \in PlacedIn(RemoveLayer(c, i).layers)
                                 /\ RemoveLayer(c, i).index[l] \in Nat
<1> DEFINE r == RemoveLayer(c, i)
<1>1. PICK g : Closed(c, r, i, g)
  BY RemoveLayerEffect
<1>2. r \in Collections
  BY RemoveLayerType
<1> HIDE DEF r
<1>3. /\ Len(c.layers) \in Nat /\ Len(r.layers) \in Nat /\ g \in Nat /\ i <= g
      /\ \A j \in 1..Len(r.layers) : r.layers[j] \in Layers \cup {Null}
      /\ \A j \in 1..Len(c.layers) : c.layers[j] \in Layers \cup {Null}
  BY <1>1, <1>2 DEF Collections, Items, Closed
<1> DEFINE f == [j \in 1..Len(r.layers) |-> IF i < j /\ j <= g THEN j + 1 ELSE j]
<1>4. \A j \in 1..Len(r.layers) :
        \/ r.layers[j] = Null
        \/ f[j] \in 1..Len(c.layers) /\ c.layers[f[j]] = r.layers[j] /\ f[j] # i + 1
  <2> TAKE j \in 1..Len(r.layers)
  <2>1. CASE j <= i
    BY <1>1, <1>3, <2>1 DEF Closed
  <2>2. CASE ~ (j <= i) /\ j <= g
    BY <1>1, <1>3, <2>2 DEF Closed
  <2>3. CASE ~ (j <= i) /\ ~ (j <= g)
    BY <1>1, <1>3, <2>3 DEF Closed
  <2> QED
    BY <2>1, <2>2, <2>3
<1>5. \A j \in 1..Len(r.layers) : j = g + 1 => r.layers[j] = Null
  BY <1>1, <1>3 DEF Closed
<1>6. ASSUME NEW j \in 1..Len(r.layers), NEW k \in 1..Len(r.layers), j < k, k # g + 1
      PROVE  f[j] < f[k]
  BY <1>3, <1>6
<1> HIDE DEF f
<1>7. Drawn(r.layers, c.layers, f, 0)
  BY <1>3, <1>4, <1>5, <1>6 DEF Drawn
<1>8. Ordered(r.layers)
  BY <1>3, <1>7, DrawnOrdered DEF Good
<1>9. Agreed(r)
  <2> SUFFICES ASSUME NEW j \in 1..Len(r.layers), r.layers[j] # Null
               PROVE  r.index[r.layers[j]] \in {Undefined, j - 1}
    BY DEF Agreed
  <2> DEFINE l == r.layers[j]
  <2>1. l \in Layers
    BY <1>3
  <2>2. CASE \E k \in (i + 1)..g : r.index[l] = k - 1 /\ r.layers[k] = l
    <3>1. PICK k \in (i + 1)..g : r.index[l] = k - 1 /\ r.layers[k] = l
      BY <2>2
    <3>2. k \in 1..Len(r.layers)
      BY <1>1, <1>3 DEF Closed
    <3>3. j = k
      BY <1>8, <3>1, <3>2 DEF Ordered
    <3> QED
      BY <3>1, <3>3
  <2>3. CASE r.index[l] = c.index[l] /\ \A k \in (i + 1)..g : r.layers[k] # l
    <3>1. ~ (i < j /\ j <= g)
      BY <1>3, <2>3
    <3>2. j # g + 1
      BY <1>5
    <3>3. j \in 1..Len(c.layers) /\ c.layers[j] = l
      BY <1>1, <1>3, <3>1, <3>2 DEF Closed
    <3> QED
      BY <2>3, <3>3 DEF Good, Agreed
  <2> QED
    BY <1>1, <2>1, <2>2, <2>3 DEF Closed
<1>10. PlacedIn(r.layers) = PlacedIn(c.layers) \ {c.layers[i + 1]}
  <2>1. ASSUME NEW l, l \in PlacedIn(r.layers)
        PROVE  l \in PlacedIn(c.layers) /\ l # c.layers[i + 1]
    <3>1. PICK j \in 1..Len(r.layers) : l = r.layers[j] /\ l # Null
      BY <2>1 DEF PlacedIn
    <3>2. f[j] \in 1..Len(c.layers) /\ c.layers[f[j]] = l /\ f[j] # i + 1
      BY <1>4, <3>1
    <3>3. i + 1 \in 1..Len(c.layers)
      BY <1>3
    <3>4. l # c.layers[i + 1]
      BY <3>1, <3>2, <3>3 DEF Good, Ordered
    <3> QED
      BY <3>1, <3>2, <3>4 DEF PlacedIn
  <2>2. ASSUME NEW l, l \in PlacedIn(c.layers), l # c.layers[i + 1]
        PROVE  l \in PlacedIn(r.layers)
    <3>1. PICK j \in 1..Len(c.layers) : l = c.layers[j] /\ l # Null
      BY <2>2 DEF PlacedIn
    <3>2. j # i + 1
      BY <2>2, <3>1
    <3>3. CASE j <= i
      <4>1. j \in 1..Len(r.layers) /\ r.layers[j] = l
        BY <1>1, <1>3, <3>1, <3>3 DEF Closed
      <4> QED
        BY <3>1, <4>1 DEF PlacedIn
    <3>4. CASE ~ (j <= i) /\ j <= g + 1
      <4>1. /\ j - 1 \in 1..Len(r.layers) /\ ~ (j - 1 <= i) /\ j - 1 <= g /\ (j - 1) + 1 = j
        BY <1>1, <1>3, <3>2, <3>4 DEF Closed
      <4>2. r.layers[j - 1] = l
        BY <1>1, <3>1, <4>1 DEF Closed
      <4> QED
        BY <3>1, <4>1, <4>2 DEF PlacedIn
    <3>5. CASE ~ (j <= g + 1)
      <4>1. j \in 1..Len(r.layers) /\ r.layers[j] = l
        BY <1>1, <1>3, <3>1, <3>5 DEF Closed
      <4> QED
        BY <3>1, <4>1 DEF PlacedIn
    <3> QED
      BY <3>3, <3>4, <3>5
  <2> QED
    BY <2>1, <2>2
<1>11. ASSUME NEW l \in Layers, r.index[l] # c.index[l]
       PROVE  l \in PlacedIn(r.layers) /\ r.index[l] \in Nat
  <2>1. PICK j \in (i + 1)..g : r.index[l] = j - 1 /\ r.layers[j] = l
    BY <1>1, <1>11 DEF Closed
  <2>2. j \in 1..Len(r.layers) /\ j - 1 \in Nat
    BY <1>1, <1>3 DEF Closed
  <2> QED
    BY <2>1, <2>2, UndefinedAssumption DEF PlacedIn
<1> QED
  BY <1>8, <1>9, <1>10, <1>11 DEF Good, r

\* What becomes of a collection in order, and of the positions, when the layers in out
\* leave it and those in come are put in.
Became(c, r, out, come) ==
  /\ Good(r)
  /\ PlacedIn(r.layers) = (PlacedIn(c.layers) \ out) \cup come
  /\ \A l \in Layers : \/ r.index[l] = c.index[l]
                       \/ l \in PlacedIn(r.layers) /\ r.index[l] \in Nat
                       \/ l \in out /\ l \notin PlacedIn(r.layers)

\* An index that was found is found after the layers above have moved up.
LEMMA InsertLayerGood ==
  ASSUME NEW c, NEW i, NEW l, c \in Collections, i \in Nat, l \in Layers, Good(c),
         l \notin PlacedIn(c.layers), Ordinary(l)
  PROVE  Became(c, InsertLayer(c, i, l), {}, {l}) /\ InsertLayer(c, i, l).index[l] = i
<1> DEFINE r == InsertLayer(c, i, l)
<1>1. PICK g : Opened(c, r, i, l, g)
  BY InsertLayerEffect
<1>2. r \in Collections
  BY InsertLayerType
<1> HIDE DEF r
<1>3. /\ Len(c.layers) \in Nat /\ Len(r.layers) \in Nat /\ g \in Nat /\ i + 1 <= g
      /\ \A j \in 1..Len(r.layers) : r.layers[j] \in Layers \cup {Null}
      /\ \A j \in 1..Len(c.layers) : c.layers[j] \in Layers \cup {Null}
  BY <1>1, <1>2 DEF Collections, Items, Opened
<1>4. i + 1 \in 1..Len(r.layers) /\ r.layers[i + 1] = l /\ l # Null
  BY <1>1, <1>3, UndefinedAssumption DEF Opened
<1> DEFINE f == [j \in 1..Len(r.layers) |-> IF i + 1 < j /\ j <= g THEN j - 1 ELSE j]
<1>5. \A j \in 1..Len(r.layers) :
        \/ r.layers[j] = Null
        \/ j = i + 1
        \/ f[j] \in 1..Len(c.layers) /\ c.layers[f[j]] = r.layers[j]
  <2> TAKE j \in 1..Len(r.layers)
  <2>1. CASE j <= i
    BY <1>1, <1>3, <2>1 DEF Opened
  <2>2. CASE i + 1 < j /\ j <= g
    BY <1>1, <1>3, <2>2 DEF Opened
  <2>3. CASE ~ (j <= g)
    <3>1. ~ (j <= i) /\ j # i + 1
      BY <1>3, <2>3
    <3>2. r.layers[j] = c.layers[j]
      BY <1>1, <2>3, <3>1 DEF Opened
    <3>3. j \in 1..Len(c.layers)
      BY <1>1, <1>3, <2>3 DEF Opened
    <3> QED
      BY <2>3, <3>2, <3>3
  <2> QED
    BY <1>3, <2>1, <2>2, <2>3
<1>6. ASSUME NEW j \in 1..Len(r.layers), NEW k \in 1..Len(r.layers), j < k, j # i + 1, k # i + 1
      PROVE  f[j] < f[k]
  BY <1>3, <1>6
<1> HIDE DEF f
<1>7. Drawn(r.layers, c.layers, f, i + 1)
  BY <1>4, <1>5, <1>6 DEF Drawn
<1>8. Ordered(r.layers)
  <2>1. Ordered(c.layers)
    BY DEF Good
  <2> QED
    BY <1>3, <1>7, <2>1, DrawnOrdered
<1>9. Agreed(r)
  <2> SUFFICES ASSUME NEW j \in 1..Len(r.layers), r.layers[j] # Null
               PROVE  r.index[r.layers[j]] \in {Undefined, j - 1}
    BY DEF Agreed
  <2> DEFINE x == r.layers[j]
  <2>1. x \in Layers
    BY <1>3
  <2>2. CASE \E k \in (i + 2)..g : r.index[x] = k - 1 /\ r.layers[k] = x
    <3>1. PICK k \in (i + 2)..g : r.index[x] = k - 1 /\ r.layers[k] = x
      BY <2>2
    <3>2. k \in 1..Len(r.layers)
      BY <1>1, <1>3 DEF Opened
    <3>3. j = k
      BY <1>8, <3>1, <3>2 DEF Ordered
    <3> QED
      BY <3>1, <3>3
  <2>3. CASE /\ r.index[x] = IF x = l THEN i ELSE c.index[x]
             /\ \A k \in (i + 2)..g : r.layers[k] # x
    <3>1. CASE x = l
      <4>1. j = i + 1
        BY <1>4, <1>8, <3>1 DEF Ordered
      <4> QED
        BY <2>3, <3>1, <4>1
    <3>2. CASE x # l
      <4>1. ~ (i + 1 < j /\ j <= g) /\ j # i + 1
        BY <1>3, <1>4, <2>3, <3>2
      <4>2. CASE j <= i
        <5>1. j \in 1..Len(c.layers) /\ c.layers[j] = x
          BY <1>1, <1>3, <4>2 DEF Opened
        <5> QED
          BY <2>3, <3>2, <5>1 DEF Good, Agreed
      <4>3. CASE ~ (j <= i) /\ j # i + 1 /\ ~ (j <= g)
        <5>1. r.layers[j] = c.layers[j]
          BY <1>1, <4>3 DEF Opened
        <5>2. j \in 1..Len(c.layers)
          BY <1>1, <1>3, <4>3 DEF Opened
        <5> QED
          BY <2>3, <3>2, <5>1, <5>2 DEF Good, Agreed
      <4> QED
        BY <1>3, <4>1, <4>2, <4>3
    <3> QED
      BY <3>1, <3>2
  <2> QED
    BY <1>1, <2>1, <2>2, <2>3 DEF Opened
<1>10. PlacedIn(r.layers) = PlacedIn(c.layers) \cup {l}
  <2>1. ASSUME NEW x, x \in PlacedIn(r.layers)
        PROVE  x \in PlacedIn(c.layers) \cup {l}
    <3>1. PICK j \in 1..Len(r.layers) : x = r.layers[j] /\ x # Null
      BY <2>1 DEF PlacedIn
    <3> QED
      BY <1>4, <1>5, <3>1 DEF PlacedIn
  <2>2. ASSUME NEW x, x \in PlacedIn(c.layers)
        PROVE  x \in PlacedIn(r.layers)
    <3>1. PICK j \in 1..Len(c.layers) : x = c.layers[j] /\ x # Null
      BY <2>2 DEF PlacedIn
    <3>2. CASE j <= i
      <4>1. j \in 1..Len(r.layers)
        BY <1>3, <1>4, <3>2
      <4>2. r.layers[j] = x
        BY <1>1, <1>3, <3>1, <3>2, <4>1 DEF Opened
      <4> QED
        BY <3>1, <4>1, <4>2 DEF PlacedIn
    <3>3. CASE ~ (j <= i) /\ j < g
      <4>1. /\ j + 1 \in 1..Len(r.layers) /\ ~ (j + 1 <= i) /\ j + 1 # i + 1 /\ j + 1 <= g
            /\ (j + 1) - 1 = j
        BY <1>1, <1>3, <3>3 DEF Opened
      <4>2. r.layers[j + 1] = x
        BY <1>1, <3>1, <4>1 DEF Opened
      <4> QED
        BY <3>1, <4>1, <4>2 DEF PlacedIn
    <3>4. CASE ~ (j <= i) /\ ~ (j < g)
      <4>1. j # g
        BY <1>1, <1>3, <3>1, <3>4 DEF Opened
      <4>2. /\ j \in 1..Len(r.layers) /\ j # i + 1 /\ ~ (j <= g)
        BY <1>1, <1>3, <3>4, <4>1 DEF Opened
      <4>3. r.layers[j] = x
        BY <1>1, <3>1, <3>4, <4>2 DEF Opened
      <4> QED
        BY <3>1, <4>2, <4>3 DEF PlacedIn
    <3> QED
      BY <3>2, <3>3, <3>4
  <2>3. l \in PlacedIn(r.layers)
    BY <1>4 DEF PlacedIn
  <2> QED
    BY <2>1, <2>2, <2>3
<1>11. r.index[l] = i
  <2>1. r.index[l] \in {Undefined, (i + 1) - 1}
    BY <1>4, <1>9 DEF Agreed
  <2>2. r.index[l] \in Nat
    <3>1. \A k \in (i + 2)..g : k - 1 \in Nat
      OBVIOUS
    <3> QED
      BY <1>1, <3>1 DEF Opened
  <2> QED
    BY <2>1, <2>2, UndefinedAssumption
<1>12. ASSUME NEW x \in Layers, r.index[x] # c.index[x]
       PROVE  x \in PlacedIn(r.layers) /\ r.index[x] \in Nat
  <2>1. CASE x = l
    BY <1>4, <1>11, <2>1 DEF PlacedIn
  <2>2. CASE x # l
    <3>1. PICK j \in (i + 2)..g : r.index[x] = j - 1 /\ r.layers[j] = x
      BY <1>1, <1>12, <2>2 DEF Opened
    <3>2. j \in 1..Len(r.layers) /\ j - 1 \in Nat
      BY <1>1, <1>3 DEF Opened
    <3> QED
      BY <3>1, <3>2, UndefinedAssumption DEF PlacedIn
  <2> QED
    BY <2>1, <2>2
<1>13. Became(c, r, {}, {l})
  BY <1>8, <1>9, <1>10, <1>12 DEF Good, Became
<1> QED
  BY <1>11, <1>13 DEF r

-----------------------------------------------------------------------------
(* The other things that are done to the collection.                       *)
LEMMA FirstEffect ==
  ASSUME NEW n \in Nat, NEW S \in SUBSET (1..n), S # {}
  PROVE  Min(S) \in S /\ \A k \in S : Min(S) <= k
<1>1. \E m \in S : \A k \in S : m <= k
  BY Least
<1> QED
  BY <1>1 DEF Min

LEMMA MarkersAtEffect ==
  ASSUME NEW items \in Items
  PROVE  \/ MarkersAt(items) = 0 /\ \A j \in 1..Len(items) : ~ IsMarkers(items[j])
         \/ MarkersAt(items) \in 1..Len(items) /\ IsMarkers(items[MarkersAt(items)])
<1> DEFINE S == {j \in 1..Len(items) : IsMarkers(items[j])}
<1>1. MarkersAt(items) = IF S # {} THEN Min(S) ELSE 0
  BY DEF MarkersAt, SelectInSeq
<1>2. Len(items) \in Nat
  BY DEF Items
<1>3. S # {} => Min(S) \in S
  BY <1>2, FirstEffect
<1> QED
  BY <1>1, <1>3

LEMMA RemoveFirstEffect ==
  ASSUME NEW items \in Items, NEW l
  PROVE  /\ RemoveFirst(items, l) \in Items
         /\ (\A j \in 1..Len(items) : items[j] # l) => RemoveFirst(items, l) = items
         /\ \A p \in 1..Len(items) :
              (\A j \in 1..Len(items) : items[j] = l <=> j = p) =>
                RemoveFirst(items, l) = RemoveAt(items, p)
<1> DEFINE S == {j \in 1..Len(items) : items[j] = l}
<1>1. RemoveFirst(items, l) = IF S # {} THEN RemoveAt(items, Min(S)) ELSE items
  BY DEF RemoveFirst, SelectInSeq
<1>2. Len(items) \in Nat
  BY DEF Items
<1>3. S # {} => Min(S) \in S
  BY <1>2, FirstEffect
<1>4. S # {} => RemoveAt(items, Min(S)) \in Items
  BY <1>3, RemoveAtEffect DEF Items
<1>5. ASSUME NEW p \in 1..Len(items), \A j \in 1..Len(items) : items[j] = l <=> j = p
      PROVE  RemoveFirst(items, l) = RemoveAt(items, p)
  <2>1. S # {} /\ \A j \in S : j = p
    BY <1>5
  <2>2. Min(S) = p
    BY <1>3, <2>1
  <2> QED
    BY <1>1, <2>1, <2>2
<1> QED
  BY <1>1, <1>4, <1>5

LEMMA AddLayerBeforeMarkersType ==
  ASSUME NEW c, NEW l, c \in Collections, l \in Layers
  PROVE  AddLayerBeforeMarkers(c, l) \in Collections
<1> DEFINE at == MarkersAt(c.layers)
           end == Len(c.layers)
<1>1. c.layers \in Items /\ c.index \in Indexes /\ end \in Nat
  BY DEF Collections, Items
<1>2. at = 0 \/ at \in 1..end
  BY <1>1, MarkersAtEffect
<1> HIDE DEF at
<1>3. CASE at = 0
  <2>1. AddLayerBeforeMarkers(c, l) =
          [layers |-> Append(c.layers, l), index |-> [c.index EXCEPT ![l] = end]]
    BY <1>3 DEF AddLayerBeforeMarkers, at
  <2>2. Append(c.layers, l) \in Items
    BY <1>1 DEF Items
  <2>3. [c.index EXCEPT ![l] = end] \in Indexes
    BY <1>1 DEF Indexes
  <2> QED
    BY <2>1, <2>2, <2>3 DEF Collections
<1>4. CASE at \in 1..end
  <2>1. AddLayerBeforeMarkers(c, l) =
          [layers |-> Append([c.layers EXCEPT ![at] = l], c.layers[at]),
           index |-> [c.index EXCEPT ![l] = at - 1, ![c.layers[at]] = end]]
    BY <1>4 DEF AddLayerBeforeMarkers, at
  <2>2. [c.layers EXCEPT ![at] = l] \in Items /\ c.layers[at] \in Layers \cup {Null}
    BY <1>1, <1>4 DEF Items
  <2>3. Append([c.layers EXCEPT ![at] = l], c.layers[at]) \in Items
    BY <2>2, AppendEffect DEF Items
  <2>4. at - 1 \in Nat
    BY <1>4
  <2>5. [c.index EXCEPT ![l] = at - 1, ![c.layers[at]] = end] \in Indexes
    BY <1>1, <2>2, <2>4 DEF Indexes
  <2> QED
    BY <2>1, <2>3, <2>5 DEF Collections
<1> QED
  BY <1>2, <1>3, <1>4

\* On top goes what is neither, or anything if there are no markers.
LEMMA AppendGood ==
  ASSUME NEW c, NEW r, NEW l, c \in Collections, l \in Layers, Good(c),
         l \notin PlacedIn(c.layers),
         Ordinary(l) \/ \A j \in 1..Len(c.layers) : ~ IsMarkers(c.layers[j]),
         r.layers = Append(c.layers, l),
         \/ r.index = c.index /\ c.index[l] = Undefined
         \/ r.index = [c.index EXCEPT ![l] = Len(c.layers)]
  PROVE  Became(c, r, {}, {l})
<1>1. /\ c.layers \in Items /\ c.index \in Indexes /\ Len(c.layers) \in Nat
      /\ \A j \in 1..Len(c.layers) : c.layers[j] \in Layers \cup {Null}
      /\ l # Null
  BY UndefinedAssumption DEF Collections, Items
<1>2. /\ Len(r.layers) = Len(c.layers) + 1
      /\ \A j \in 1..(Len(c.layers) + 1) :
           r.layers[j] = IF j <= Len(c.layers) THEN c.layers[j] ELSE l
  BY <1>1, AppendEffect DEF Items
<1>3. \A j \in 1..Len(c.layers) : c.layers[j] # l
  BY <1>1 DEF PlacedIn
<1>4. ~ (IsStatic(l) /\ IsMarkers(l))
  BY ElementsAssumption DEF IsStatic, IsMarkers
<1>5. Ordered(r.layers)
  <2> SUFFICES ASSUME NEW j \in 1..Len(r.layers), NEW k \in 1..Len(r.layers)
               PROVE  /\ r.layers[j] = r.layers[k] => j = k \/ r.layers[j] = Null
                      /\ IsStatic(r.layers[j]) /\ IsMarkers(r.layers[k]) => j < k
                      /\ IsMarkers(r.layers[j]) /\ IsMarkers(r.layers[k]) => j = k
    BY DEF Ordered
  <2>1. CASE j <= Len(c.layers) /\ k <= Len(c.layers)
    <3>1. /\ j \in 1..Len(c.layers) /\ k \in 1..Len(c.layers)
          /\ r.layers[j] = c.layers[j] /\ r.layers[k] = c.layers[k]
      BY <1>1, <1>2, <2>1
    <3> QED
      BY <3>1 DEF Good, Ordered
  <2>2. CASE j <= Len(c.layers) /\ k = Len(c.layers) + 1
    <3>1. /\ j \in 1..Len(c.layers) /\ j < k
          /\ r.layers[j] = c.layers[j] /\ r.layers[k] = l
      BY <1>1, <1>2, <2>2
    <3> QED
      BY <1>3, <3>1 DEF Ordinary
  <2>3. CASE j = Len(c.layers) + 1 /\ k <= Len(c.layers)
    <3>1. /\ k \in 1..Len(c.layers) /\ r.layers[k] = c.layers[k] /\ r.layers[j] = l
      BY <1>1, <1>2, <2>3
    <3> QED
      BY <1>3, <3>1 DEF Ordinary
  <2>4. CASE j = Len(c.layers) + 1 /\ k = Len(c.layers) + 1
    <3>1. r.layers[j] = l /\ r.layers[k] = l /\ j = k
      BY <1>1, <1>2, <2>4
    <3> QED
      BY <1>4, <3>1
  <2> QED
    BY <1>1, <1>2, <2>1, <2>2, <2>3, <2>4
<1>6. \A x \in Layers : r.index[x] = c.index[x] \/ (x = l /\ r.index[x] = Len(c.layers))
  BY <1>1 DEF Indexes
<1>7. r.index[l] \in {Undefined, Len(c.layers)}
  BY <1>1 DEF Indexes
<1>8. Agreed(r)
  <2> SUFFICES ASSUME NEW j \in 1..Len(r.layers), r.layers[j] # Null
               PROVE  r.index[r.layers[j]] \in {Undefined, j - 1}
    BY DEF Agreed
  <2>1. CASE j \in 1..Len(c.layers)
    <3>1. r.layers[j] = c.layers[j] /\ c.layers[j] \in Layers /\ c.layers[j] # l
      BY <1>1, <1>2, <1>3, <2>1
    <3> QED
      BY <1>6, <2>1, <3>1 DEF Good, Agreed
  <2>2. CASE j = Len(c.layers) + 1
    <3>1. r.layers[j] = l /\ j - 1 = Len(c.layers)
      BY <1>1, <1>2, <2>2
    <3> QED
      BY <1>7, <3>1
  <2> QED
    BY <1>1, <1>2, <2>1, <2>2
<1>9. l \in PlacedIn(r.layers)
  BY <1>1, <1>2 DEF PlacedIn
<1>10. PlacedIn(r.layers) = PlacedIn(c.layers) \cup {l}
  <2>1. ASSUME NEW x, x \in PlacedIn(r.layers) PROVE x \in PlacedIn(c.layers) \cup {l}
    BY <1>1, <1>2, <2>1 DEF PlacedIn
  <2>2. ASSUME NEW x, x \in PlacedIn(c.layers) PROVE x \in PlacedIn(r.layers)
    <3>1. PICK j \in 1..Len(c.layers) : x = c.layers[j] /\ x # Null
      BY <2>2 DEF PlacedIn
    <3>2. j \in 1..Len(r.layers) /\ r.layers[j] = x
      BY <1>1, <1>2, <3>1
    <3> QED
      BY <3>1, <3>2 DEF PlacedIn
  <2> QED
    BY <1>9, <2>1, <2>2
<1> QED
  BY <1>1, <1>5, <1>6, <1>8, <1>9, <1>10 DEF Became, Good

\* Between the others and the markers, which go back on top.
LEMMA AddLayerBeforeMarkersGood ==
  ASSUME NEW c, NEW l, c \in Collections, l \in Layers, Good(c), l \notin PlacedIn(c.layers),
         ~ IsMarkers(l)
  PROVE  /\ Became(c, AddLayerBeforeMarkers(c, l), {}, {l})
         /\ AddLayerBeforeMarkers(c, l).index[l] \in Nat
<1> DEFINE at == MarkersAt(c.layers)
           end == Len(c.layers)
           m == c.layers[at]
           r == AddLayerBeforeMarkers(c, l)
<1>1. /\ c.layers \in Items /\ c.index \in Indexes /\ end \in Nat
      /\ \A j \in 1..end : c.layers[j] \in Layers \cup {Null}
      /\ l # Null
  BY UndefinedAssumption DEF Collections, Items
<1>2. \/ at = 0 /\ \A j \in 1..end : ~ IsMarkers(c.layers[j])
      \/ at \in 1..end /\ IsMarkers(m)
  BY <1>1, MarkersAtEffect
<1>3. CASE at = 0 /\ \A j \in 1..end : ~ IsMarkers(c.layers[j])
  <2>1. r = [layers |-> Append(c.layers, l), index |-> [c.index EXCEPT ![l] = end]]
    BY <1>3 DEF AddLayerBeforeMarkers
  <2>2. r.layers = Append(c.layers, l) /\ r.index = [c.index EXCEPT ![l] = end]
    BY <2>1
  <2>3. r.index[l] = end
    BY <1>1, <2>2 DEF Indexes
  <2> HIDE DEF r
  <2>4. Became(c, r, {}, {l})
    BY <1>3, <2>2, AppendGood
  <2> QED
    BY <1>1, <2>3, <2>4 DEF r
<1>4. CASE at \in 1..end /\ IsMarkers(m)
  <2> HIDE DEF at
  <2>1. /\ r.layers = Append([c.layers EXCEPT ![at] = l], m)
        /\ r.index = [c.index EXCEPT ![l] = at - 1, ![m] = end]
    BY <1>4 DEF AddLayerBeforeMarkers, at
  <2> HIDE DEF r, end, m
  <2>2. m \in Layers /\ m # l /\ m # Null /\ m = c.layers[at] /\ at \in 1..end
    <3>1. m \in Layers \cup {Null} /\ m # Null
      BY <1>1, <1>4 DEF IsMarkers, m, end
    <3>2. m \in PlacedIn(c.layers)
      BY <1>4, <3>1 DEF PlacedIn, m, end
    <3> QED
      BY <1>4, <3>1, <3>2 DEF m
  <2>3. /\ Len(r.layers) = end + 1
        /\ \A j \in 1..(end + 1) :
             r.layers[j] = IF j = end + 1 THEN m ELSE IF j = at THEN l ELSE c.layers[j]
    <3> DEFINE s == [c.layers EXCEPT ![at] = l]
    <3>1. s \in Items /\ Len(s) = end /\ \A j \in 1..end : s[j] = IF j = at THEN l ELSE c.layers[j]
      BY <1>1, <1>4 DEF Items, end
    <3> HIDE DEF s
    <3>2. /\ Len(Append(s, m)) = end + 1
          /\ \A j \in 1..(end + 1) : Append(s, m)[j] = IF j <= end THEN s[j] ELSE m
      BY <2>2, <3>1, AppendEffect DEF Items
    <3>3. r.layers = Append(s, m)
      BY <2>1 DEF s
    <3> QED
      BY <1>1, <3>1, <3>2, <3>3
  <2>4. \A x \in Layers :
          r.index[x] = IF x = m THEN end ELSE IF x = l THEN at - 1 ELSE c.index[x]
    BY <1>1, <2>1, <2>2 DEF Indexes
  <2>5. ASSUME NEW j \in 1..end PROVE IsMarkers(c.layers[j]) => j = at
    BY <1>4, <2>2 DEF Good, Ordered, end
  <2>6. \A j \in 1..end : c.layers[j] # l
    BY <1>1 DEF PlacedIn, end
  <2>7. ASSUME NEW j \in 1..end PROVE c.layers[j] = m => j = at
    BY <2>2 DEF Good, Ordered, end
  <2>8. ASSUME NEW j \in 1..(end + 1), IsMarkers(r.layers[j]) PROVE j = end + 1
    <3>1. CASE j = at
      <4>1. j = end + 1 \/ r.layers[j] = l
        BY <2>3, <3>1
      <4> QED
        BY <2>8, <4>1
    <3>2. CASE j \in 1..end /\ j # at
      <4>1. r.layers[j] = c.layers[j]
        BY <1>1, <2>3, <3>2
      <4> QED
        BY <2>5, <2>8, <3>2, <4>1
    <3> QED
      BY <1>1, <3>1, <3>2
  <2>9. ASSUME NEW j \in 1..(end + 1), NEW k \in 1..(end + 1), r.layers[j] = r.layers[k]
        PROVE  j = k \/ r.layers[j] = Null
    <3>1. CASE j \in 1..end /\ k \in 1..end /\ j # at /\ k # at
      <4>1. r.layers[j] = c.layers[j] /\ r.layers[k] = c.layers[k]
        BY <1>1, <2>3, <3>1
      <4> QED
        BY <2>9, <3>1, <4>1 DEF Good, Ordered, end
    <3>2. CASE j = end + 1 \/ k = end + 1
      BY <1>1, <2>2, <2>3, <2>7, <2>9, <3>2
    <3>3. CASE j = at \/ k = at
      BY <1>1, <2>2, <2>3, <2>6, <2>9, <3>3
    <3> QED
      BY <1>1, <3>1, <3>2, <3>3
  <2>10. IsMarkers(r.layers[end + 1]) /\ ~ IsStatic(r.layers[end + 1])
    <3>1. r.layers[end + 1] = m
      BY <1>1, <2>3
    <3> QED
      BY <1>4, <3>1, ElementsAssumption DEF IsStatic, IsMarkers
  <2>11. Ordered(r.layers)
    <3>1. ASSUME NEW j \in 1..(end + 1), NEW k \in 1..(end + 1)
          PROVE  /\ IsStatic(r.layers[j]) /\ IsMarkers(r.layers[k]) => j < k
                 /\ IsMarkers(r.layers[j]) /\ IsMarkers(r.layers[k]) => j = k
      BY <1>1, <2>8, <2>10
    <3> QED
      BY <2>3, <2>9, <3>1 DEF Ordered
  <2>12. Agreed(r)
    <3> SUFFICES ASSUME NEW j \in 1..(end + 1), r.layers[j] # Null
                 PROVE  r.index[r.layers[j]] \in {Undefined, j - 1}
      BY <2>3 DEF Agreed
    <3>1. CASE j = end + 1
      BY <1>1, <2>2, <2>3, <2>4, <3>1
    <3>2. CASE j = at
      <4>1. r.layers[j] = l
        BY <1>1, <2>2, <2>3, <3>2
      <4> QED
        BY <2>2, <2>4, <3>2, <4>1
    <3>3. CASE j \in 1..end /\ j # at
      <4>1. r.layers[j] = c.layers[j] /\ c.layers[j] \in Layers
        BY <1>1, <2>3, <3>3 DEF end
      <4>2. c.layers[j] # m /\ c.layers[j] # l
        BY <2>6, <2>7, <3>3
      <4>3. r.index[r.layers[j]] = c.index[c.layers[j]]
        BY <2>4, <4>1, <4>2
      <4>4. c.index[c.layers[j]] \in {Undefined, j - 1}
        BY <3>3, <4>1, UndefinedAssumption DEF Good, Agreed, end
      <4> QED
        BY <4>3, <4>4
    <3> QED
      BY <1>1, <3>1, <3>2, <3>3
  <2>13. l \in PlacedIn(r.layers) /\ m \in PlacedIn(r.layers)
    <3>1. /\ at \in 1..Len(r.layers) /\ r.layers[at] = l
          /\ end + 1 \in 1..Len(r.layers) /\ r.layers[end + 1] = m
      BY <1>1, <2>2, <2>3
    <3> QED
      BY <1>1, <2>2, <3>1 DEF PlacedIn
  <2>14. PlacedIn(r.layers) = PlacedIn(c.layers) \cup {l}
    <3>1. ASSUME NEW x, x \in PlacedIn(r.layers) PROVE x \in PlacedIn(c.layers) \cup {l}
      <4>1. PICK j \in 1..(end + 1) : x = r.layers[j] /\ x # Null
        BY <2>3, <3>1 DEF PlacedIn
      <4>2. x = m \/ x = l \/ (j \in 1..end /\ x = c.layers[j])
        BY <1>1, <2>3, <4>1
      <4> QED
        BY <2>2, <4>1, <4>2 DEF PlacedIn, end
    <3>2. ASSUME NEW x, x \in PlacedIn(c.layers) PROVE x \in PlacedIn(r.layers)
      <4>1. PICK j \in 1..end : x = c.layers[j] /\ x # Null
        BY <3>2 DEF PlacedIn, end
      <4>2. CASE j = at
        BY <2>2, <2>13, <4>1, <4>2
      <4>3. CASE j # at
        <5>1. j \in 1..Len(r.layers) /\ r.layers[j] = x
          BY <1>1, <2>3, <4>1, <4>3
        <5> QED
          BY <4>1, <5>1 DEF PlacedIn
      <4> QED
        BY <4>2, <4>3
    <3> QED
      BY <2>13, <3>1, <3>2
  <2>15. at - 1 \in Nat
    BY <2>2
  <2>16. ASSUME NEW x \in Layers
         PROVE  \/ r.index[x] = c.index[x]
                \/ x \in PlacedIn(r.layers) /\ r.index[x] \in Nat
    BY <1>1, <2>2, <2>4, <2>13, <2>15
  <2>17. Became(c, r, {}, {l}) /\ r.index[l] \in Nat
    BY <2>2, <2>4, <2>11, <2>12, <2>14, <2>15, <2>16 DEF Became, Good
  <2> QED
    BY <2>17 DEF r
<1> QED
  BY <1>2, <1>3, <1>4

LEMMA PadGood ==
  ASSUME NEW c, NEW r, NEW i, c \in Collections, i \in Nat, Good(c),
         r.layers = Pad(c.layers, i), r.index = c.index
  PROVE  Became(c, r, {}, {})
<1>1. /\ c.layers \in Items /\ Len(c.layers) \in Nat
      /\ \A j \in 1..Len(c.layers) : c.layers[j] \in Layers \cup {Null}
  BY DEF Collections, Items
<1>2. /\ Len(r.layers) \in Nat /\ Len(c.layers) <= Len(r.layers)
      /\ \A j \in 1..Len(r.layers) :
           r.layers[j] = IF j <= Len(c.layers) THEN c.layers[j] ELSE Null
  BY <1>1, PadEffect
<1>3. Drawn(r.layers, c.layers, [j \in 1..Len(r.layers) |-> j], 0)
  BY <1>1, <1>2 DEF Drawn
<1>4. Ordered(r.layers)
  <2>1. Ordered(c.layers)
    BY DEF Good
  <2> QED
    BY <1>1, <1>2, <1>3, <2>1, DrawnOrdered
<1>5. Agreed(r)
  BY <1>1, <1>2 DEF Good, Agreed
<1>6. PlacedIn(r.layers) = PlacedIn(c.layers)
  <2>1. ASSUME NEW x, x \in PlacedIn(r.layers) PROVE x \in PlacedIn(c.layers)
    BY <1>1, <1>2, <2>1 DEF PlacedIn
  <2>2. ASSUME NEW x, x \in PlacedIn(c.layers) PROVE x \in PlacedIn(r.layers)
    <3>1. PICK j \in 1..Len(c.layers) : x = c.layers[j] /\ x # Null
      BY <2>2 DEF PlacedIn
    <3>2. j \in 1..Len(r.layers) /\ r.layers[j] = x
      BY <1>1, <1>2, <3>1
    <3> QED
      BY <3>1, <3>2 DEF PlacedIn
  <2> QED
    BY <2>1, <2>2
<1> QED
  BY <1>4, <1>5, <1>6 DEF Became, Good

\* Nothing moves when the topmost layer goes.
LEMMA TopGood ==
  ASSUME NEW c, NEW r, NEW l, c \in Collections, Good(c), l \in Layers,
         c.layers # <<>>, c.layers[Len(c.layers)] = l,
         Len(r.layers) = Len(c.layers) - 1,
         \A j \in 1..(Len(c.layers) - 1) : r.layers[j] = c.layers[j],
         \A x \in Layers : r.index[x] = c.index[x] \/ x = l
  PROVE  Became(c, r, {l}, {})
<1>1. /\ c.layers \in Items /\ Len(c.layers) \in Nat /\ Len(c.layers) > 0
      /\ \A j \in 1..Len(c.layers) : c.layers[j] \in Layers \cup {Null}
      /\ l # Null
  BY UndefinedAssumption DEF Collections, Items
<1>2. Len(r.layers) \in Nat /\ \A j \in 1..Len(r.layers) : j \in 1..Len(c.layers)
  BY <1>1
<1>3. \A j \in 1..Len(r.layers) : r.layers[j] = c.layers[j]
  BY <1>1
<1>4. ASSUME NEW j \in 1..Len(r.layers) PROVE c.layers[j] # l
  <2>1. Len(c.layers) \in 1..Len(c.layers) /\ j \in 1..Len(c.layers) /\ j # Len(c.layers)
    BY <1>1
  <2> QED
    BY <1>1, <2>1 DEF Good, Ordered
<1> DEFINE f == [j \in 1..Len(r.layers) |-> j]
<1>5. Drawn(r.layers, c.layers, f, 0)
  <2>1. \A j \in 1..Len(r.layers) : f[j] = j
    OBVIOUS
  <2> HIDE DEF f
  <2>2. ASSUME NEW j \in 1..Len(r.layers)
        PROVE  j # 0 /\ f[j] \in 1..Len(c.layers) /\ c.layers[f[j]] = r.layers[j]
    BY <1>2, <1>3, <2>1
  <2>3. ASSUME NEW j \in 1..Len(r.layers), NEW k \in 1..Len(r.layers), j < k
        PROVE  f[j] < f[k]
    BY <2>1, <2>3
  <2> QED
    BY <2>2, <2>3 DEF Drawn
<1> HIDE DEF f
<1>6. Ordered(r.layers)
  <2>1. Ordered(c.layers)
    BY DEF Good
  <2> QED
    BY <1>1, <1>2, <1>5, <2>1, DrawnOrdered
<1>7. ASSUME NEW j \in 1..Len(r.layers)
      PROVE  r.layers[j] = Null \/ r.index[r.layers[j]] \in {Undefined, j - 1}
  <2>1. r.layers[j] = c.layers[j] /\ c.layers[j] \in Layers \cup {Null} /\ c.layers[j] # l
    BY <1>1, <1>2, <1>3, <1>4
  <2>2. c.layers[j] = Null \/ c.index[c.layers[j]] \in {Undefined, j - 1}
    BY <1>2 DEF Good, Agreed
  <2> QED
    BY <2>1, <2>2
<1>8. Agreed(r)
  BY <1>7 DEF Agreed
<1>9. PlacedIn(r.layers) = PlacedIn(c.layers) \ {l}
  <2>1. ASSUME NEW x, x \in PlacedIn(r.layers) PROVE x \in PlacedIn(c.layers) /\ x # l
    <3>1. PICK j \in 1..Len(r.layers) : x = r.layers[j] /\ x # Null
      BY <2>1 DEF PlacedIn
    <3>2. j \in 1..Len(c.layers) /\ c.layers[j] = x /\ c.layers[j] # l
      BY <1>2, <1>3, <1>4, <3>1
    <3> QED
      BY <3>1, <3>2 DEF PlacedIn
  <2>2. ASSUME NEW x, x \in PlacedIn(c.layers), x # l PROVE x \in PlacedIn(r.layers)
    <3>1. PICK j \in 1..Len(c.layers) : x = c.layers[j] /\ x # Null
      BY <2>2 DEF PlacedIn
    <3>2. j \in 1..Len(r.layers) /\ r.layers[j] = x
      BY <1>1, <1>3, <2>2, <3>1
    <3> QED
      BY <3>1, <3>2 DEF PlacedIn
  <2> QED
    BY <2>1, <2>2
<1>10. l \notin PlacedIn(r.layers)
  BY <1>9
<1> QED
  BY <1>6, <1>8, <1>9, <1>10 DEF Became, Good

\* Where a layer is that remembers its position.
LEMMA Found ==
  ASSUME NEW c, NEW l, c \in Collections, Good(c), l \in Layers, l \in PlacedIn(c.layers),
         c.index[l] # Undefined
  PROVE  c.index[l] \in Nat /\ c.index[l] < Len(c.layers) /\ c.layers[c.index[l] + 1] = l
<1>1. PICK j \in 1..Len(c.layers) : c.layers[j] = l /\ l # Null
  BY DEF PlacedIn
<1>2. Len(c.layers) \in Nat
  BY DEF Collections, Items
<1>3. c.index[l] = j - 1
  BY <1>1 DEF Good, Agreed
<1> QED
  BY <1>1, <1>2, <1>3

\* The layer of an element that is destroyed goes once, by position.
LEMMA DestroyGood ==
  ASSUME NEW c, NEW l, c \in Collections, Good(c), l \in Layers, l \in PlacedIn(c.layers),
         c.index[l] # Undefined
  PROVE  Became(c, [Forget(RemoveLayer(c, c.index[l]), l) EXCEPT !.layers = RemoveFirst(@, l)],
                {l}, {})
<1> DEFINE i == c.index[l]
           d == RemoveLayer(c, i)
           r == [Forget(d, l) EXCEPT !.layers = RemoveFirst(@, l)]
<1>1. i \in Nat /\ i < Len(c.layers) /\ c.layers[i + 1] = l
  BY Found
<1> HIDE DEF i
<1>2. d \in Collections
  BY <1>1, RemoveLayerType
<1>3. /\ Good(d)
      /\ PlacedIn(d.layers) = PlacedIn(c.layers) \ {l}
      /\ \A x \in Layers : \/ d.index[x] = c.index[x]
                           \/ x \in PlacedIn(d.layers) /\ d.index[x] \in Nat
  BY <1>1, RemoveLayerGood
<1> HIDE DEF d
<1>4. d.layers \in Items /\ d.index \in Indexes
  BY <1>2 DEF Collections
<1>5. \A j \in 1..Len(d.layers) : d.layers[j] # l
  BY <1>3, UndefinedAssumption DEF PlacedIn
<1>6. RemoveFirst(d.layers, l) = d.layers
  BY <1>4, <1>5, RemoveFirstEffect
<1>7. r.layers = d.layers /\ r.index = [d.index EXCEPT ![l] = Undefined]
  BY <1>2, <1>6 DEF Collections, Forget
<1> HIDE DEF r
<1>8. \A x \in Layers : r.index[x] = IF x = l THEN Undefined ELSE d.index[x]
  BY <1>4, <1>7 DEF Indexes
<1>9. Agreed(r)
  BY <1>3, <1>7 DEF Good, Agreed
<1>10. Became(c, r, {l}, {})
  BY <1>3, <1>7, <1>8, <1>9 DEF Became, Good
<1> QED
  BY <1>10 DEF r, d, i

\* What the watch makes of another index.
Moved(c, i, l) ==
  IF i \in {Undefined, c.index[l]} THEN c ELSE InsertLayer(RemoveLayer(c, c.index[l]), i, l)

LEMMA MovedType ==
  ASSUME NEW c, NEW i, NEW l, c \in Collections, i \in Nat \cup {Undefined}, l \in Layers
  PROVE  Moved(c, i, l) \in Collections
<1>1. c.index[l] \in Nat \cup {Undefined}
  BY DEF Collections, Indexes
<1>2. RemoveLayer(c, c.index[l]) \in Collections
  BY <1>1, RemoveLayerType
<1>3. InsertLayer(RemoveLayer(c, c.index[l]), i, l) \in Collections
  BY <1>2, InsertLayerType
<1> QED
  BY <1>3 DEF Moved

LEMMA MovedGood ==
  ASSUME NEW c, NEW i, NEW l, c \in Collections, i \in Nat \cup {Undefined}, l \in Layers,
         Good(c), l \in PlacedIn(c.layers), Ordinary(l), c.index[l] # Undefined
  PROVE  Became(c, Moved(c, i, l), {}, {}) /\ Moved(c, i, l).index[l] \in Nat
<1> DEFINE d == RemoveLayer(c, c.index[l])
           r == InsertLayer(d, i, l)
<1>1. c.index[l] \in Nat /\ c.index[l] < Len(c.layers) /\ c.layers[c.index[l] + 1] = l
  BY Found
<1>2. CASE i \in {Undefined, c.index[l]}
  <2>1. Moved(c, i, l) = c
    BY <1>2 DEF Moved
  <2> QED
    BY <1>1, <2>1 DEF Became
<1>3. CASE i \notin {Undefined, c.index[l]}
  <2>1. Moved(c, i, l) = r
    BY <1>3 DEF Moved
  <2>2. d \in Collections
    BY <1>1, RemoveLayerType
  <2>3. /\ Good(d)
        /\ PlacedIn(d.layers) = PlacedIn(c.layers) \ {l}
        /\ \A x \in Layers : \/ d.index[x] = c.index[x]
                             \/ x \in PlacedIn(d.layers) /\ d.index[x] \in Nat
    BY <1>1, RemoveLayerGood
  <2> HIDE DEF d
  <2>4. i \in Nat
    BY <1>3
  <2>5. Became(d, r, {}, {l}) /\ r.index[l] = i
    BY <2>2, <2>3, <2>4, InsertLayerGood
  <2> HIDE DEF r
  <2>6. PlacedIn(r.layers) = PlacedIn(c.layers)
    BY <2>3, <2>5 DEF Became
  <2>7. ASSUME NEW x \in Layers
        PROVE  \/ r.index[x] = c.index[x]
               \/ x \in PlacedIn(r.layers) /\ r.index[x] \in Nat
    BY <2>3, <2>5, <2>6, <2>7 DEF Became
  <2>8. Became(c, r, {}, {})
    BY <2>5, <2>6, <2>7 DEF Became
  <2> QED
    BY <2>1, <2>4, <2>5, <2>8
<1> QED
  BY <1>2, <1>3

\* The collection without l at i, before another layer is put in its place.
Without(c, i, l) == [Forget(c, l) EXCEPT !.layers = Cut(@, i)]

LEMMA WithoutType ==
  ASSUME NEW c, NEW i, NEW l, c \in Collections, i \in Nat \cup {Undefined}, l \in Layers
  PROVE  /\ Without(c, i, l) \in Collections
         /\ Without(c, i, l).layers = Cut(c.layers, i)
         /\ \A x \in Layers : Without(c, i, l).index[x] = IF x = l THEN Undefined ELSE c.index[x]
<1>1. c.layers \in Items /\ c.index \in Indexes
  BY DEF Collections
<1>2. Cut(c.layers, i) \in Items
  BY <1>1, CutEffect
<1>3. Without(c, i, l) = [layers |-> Cut(c.layers, i), index |-> [c.index EXCEPT ![l] = Undefined]]
  <2>1. Forget(c, l) = [layers |-> c.layers, index |-> [c.index EXCEPT ![l] = Undefined]]
    BY DEF Forget, Collections
  <2> QED
    BY <2>1 DEF Without
<1>4. /\ [c.index EXCEPT ![l] = Undefined] \in Indexes
      /\ \A x \in Layers :
           [c.index EXCEPT ![l] = Undefined][x] = IF x = l THEN Undefined ELSE c.index[x]
  BY <1>1 DEF Indexes
<1> QED
  BY <1>2, <1>3, <1>4 DEF Collections

\* The topmost layer of all, cut out.
LEMMA LostGood ==
  ASSUME NEW c, NEW l, c \in Collections, Good(c), l \in Layers, l \in PlacedIn(c.layers),
         c.index[l] # Undefined, ~ (Position(c.index[l]) + 1 < Len(c.layers))
  PROVE  Became(c, Without(c, c.index[l], l), {l}, {})
<1> DEFINE i == c.index[l]
           r == Without(c, i, l)
<1>1. i \in Nat /\ i < Len(c.layers) /\ c.layers[i + 1] = l
  BY Found
<1>2. Position(i) = i
  BY <1>1, UndefinedAssumption DEF Position
<1>3. ~ (i + 1 < Len(c.layers))
  BY <1>2
<1> HIDE DEF i
<1>4. c.layers \in Items /\ Len(c.layers) \in Nat
  BY DEF Collections, Items
<1>5. i + 1 = Len(c.layers)
  BY <1>1, <1>3, <1>4
<1>6. /\ r.layers = Cut(c.layers, i)
      /\ \A x \in Layers : r.index[x] = IF x = l THEN Undefined ELSE c.index[x]
  BY <1>1, WithoutType
<1>7. /\ Len(Cut(c.layers, i)) = Len(c.layers) - 1
      /\ \A j \in 1..(Len(c.layers) - 1) : Cut(c.layers, i)[j] = c.layers[j]
  <2>1. /\ Len(Cut(c.layers, i)) = Len(c.layers) - 1
        /\ \A j \in 1..(Len(c.layers) - 1) :
             Cut(c.layers, i)[j] = IF j <= i THEN c.layers[j] ELSE c.layers[j + 1]
    BY <1>1, <1>4, CutEffect
  <2>2. \A j \in 1..(Len(c.layers) - 1) : j <= i
    BY <1>1, <1>5
  <2> QED
    BY <2>1, <2>2
<1> HIDE DEF r
<1>8. c.layers # <<>> /\ c.layers[Len(c.layers)] = l
  BY <1>1, <1>4, <1>5
<1>9. /\ Len(r.layers) = Len(c.layers) - 1
      /\ \A j \in 1..(Len(c.layers) - 1) : r.layers[j] = c.layers[j]
      /\ \A x \in Layers : r.index[x] = c.index[x] \/ x = l
  BY <1>6, <1>7
<1>10. Became(c, r, {l}, {})
  BY <1>8, <1>9, TopGood
<1> QED
  BY <1>10 DEF r, i

\* A layer in the place of another, if there is no gap above it for the others to move
\* into.
LEMMA ReplacedGood ==
  ASSUME NEW c, NEW l, NEW n, c \in Collections, Good(c), l \in Layers, n \in Layers,
         l \in PlacedIn(c.layers), c.index[l] # Undefined, n \notin PlacedIn(c.layers),
         Ordinary(n),
         \A j \in 1..Len(c.layers) : j > c.index[l] + 1 => c.layers[j] # Null
  PROVE  LET r == InsertLayer(Without(c, c.index[l], l), c.index[l], n)
         IN  Became(c, r, {l}, {n}) /\ r.index[n] \in Nat
<1> DEFINE i == c.index[l]
           d == Without(c, i, l)
           r == InsertLayer(d, i, n)
<1>1. i \in Nat /\ i < Len(c.layers) /\ c.layers[i + 1] = l
  BY Found
<1>2. \A j \in 1..Len(c.layers) : j > i + 1 => c.layers[j] # Null
  OBVIOUS
<1> HIDE DEF i
<1>3. /\ c.layers \in Items /\ Len(c.layers) \in Nat /\ n # l /\ n # Null /\ l # Null
      /\ \A j \in 1..Len(c.layers) : c.layers[j] \in Layers \cup {Null}
  BY UndefinedAssumption DEF Collections, Items
<1>4. /\ d \in Collections /\ d.layers = Cut(c.layers, i)
      /\ \A x \in Layers : d.index[x] = IF x = l THEN Undefined ELSE c.index[x]
  BY <1>1, WithoutType
<1>5. /\ Len(d.layers) = Len(c.layers) - 1
      /\ \A j \in 1..(Len(c.layers) - 1) :
           d.layers[j] = IF j <= i THEN c.layers[j] ELSE c.layers[j + 1]
  <2>1. /\ Len(Cut(c.layers, i)) = Len(c.layers) - 1
        /\ \A j \in 1..(Len(c.layers) - 1) :
             Cut(c.layers, i)[j] = IF j <= i THEN c.layers[j] ELSE c.layers[j + 1]
    BY <1>1, <1>3, CutEffect
  <2> QED
    BY <1>4, <2>1
<1>6. PICK g : Opened(d, r, i, n, g)
  BY <1>1, <1>4, InsertLayerEffect
<1>7. r \in Collections
  BY <1>1, <1>4, InsertLayerType
<1> HIDE DEF d, r
<1>8. /\ g = Len(c.layers) /\ Len(r.layers) = g
  <2>1. g \in Nat /\ i + 1 <= g
    BY <1>6 DEF Opened
  <2>2. CASE g <= Len(d.layers) /\ d.layers[g] = Null
    <3>1. /\ g \in 1..(Len(c.layers) - 1) /\ ~ (g <= i)
          /\ g + 1 \in 1..Len(c.layers) /\ g + 1 > i + 1
      BY <1>1, <1>3, <1>5, <2>1, <2>2
    <3>2. d.layers[g] = c.layers[g + 1]
      BY <1>5, <3>1
    <3> QED
      BY <1>2, <2>2, <3>1, <3>2
  <2>3. CASE g = Len(d.layers) + 1 /\ Len(r.layers) = g
    BY <1>3, <1>5, <2>3
  <2>4. ~ (Len(d.layers) < i)
    BY <1>1, <1>3, <1>5
  <2> QED
    BY <1>6, <2>2, <2>3, <2>4 DEF Opened
<1>9. ASSUME NEW j \in 1..Len(c.layers)
      PROVE  r.layers[j] = IF j = i + 1 THEN n ELSE c.layers[j]
  <2>1. CASE j = i + 1
    BY <1>6, <1>8, <2>1 DEF Opened
  <2>2. CASE j <= i
    <3>1. j <= Len(d.layers) /\ j \in 1..(Len(c.layers) - 1) /\ j # i + 1
      BY <1>1, <1>3, <1>5, <2>2
    <3>2. r.layers[j] = d.layers[j]
      BY <1>6, <1>8, <2>2, <3>1 DEF Opened
    <3> QED
      BY <1>5, <2>2, <3>1, <3>2
  <2>3. CASE j > i + 1
    <3>1. /\ j - 1 \in 1..(Len(c.layers) - 1) /\ ~ (j - 1 <= i) /\ (j - 1) + 1 = j
          /\ j # i + 1 /\ ~ (j <= i) /\ j <= g
      BY <1>1, <1>3, <1>8, <2>3
    <3>2. r.layers[j] = d.layers[j - 1]
      BY <1>6, <1>8, <3>1 DEF Opened
    <3>3. d.layers[j - 1] = c.layers[(j - 1) + 1]
      BY <1>5, <3>1
    <3> QED
      BY <3>1, <3>2, <3>3
  <2> QED
    BY <1>1, <1>3, <2>1, <2>2, <2>3
<1>10. \A j \in 1..Len(c.layers) : c.layers[j] # n
  BY <1>3 DEF PlacedIn
<1>11. \A j \in 1..Len(c.layers) : c.layers[j] = l <=> j = i + 1
  <2>1. i + 1 \in 1..Len(c.layers)
    BY <1>1, <1>3
  <2> QED
    BY <1>1, <1>3, <2>1 DEF Good, Ordered
<1> DEFINE f == [j \in 1..Len(r.layers) |-> j]
<1>12. Drawn(r.layers, c.layers, f, i + 1)
  <2>1. \A j \in 1..Len(r.layers) : f[j] = j
    OBVIOUS
  <2> HIDE DEF f
  <2>2. ASSUME NEW j \in 1..Len(r.layers), j # i + 1
        PROVE  f[j] \in 1..Len(c.layers) /\ c.layers[f[j]] = r.layers[j]
    BY <1>8, <1>9, <2>1, <2>2
  <2>3. i + 1 \in 1..Len(r.layers) => r.layers[i + 1] = n
    BY <1>8, <1>9
  <2>4. ASSUME NEW j \in 1..Len(r.layers), NEW k \in 1..Len(r.layers), j < k
        PROVE  f[j] < f[k]
    BY <2>1, <2>4
  <2> QED
    BY <2>2, <2>3, <2>4 DEF Drawn
<1> HIDE DEF f
<1>13. Ordered(r.layers)
  <2>1. Ordered(c.layers) /\ Len(r.layers) \in Nat
    BY <1>3, <1>8 DEF Good
  <2> QED
    BY <1>3, <1>12, <2>1, DrawnOrdered
<1>14. ASSUME NEW x \in Layers, r.index[x] # (IF x = n THEN i ELSE d.index[x])
       PROVE  \E j \in (i + 2)..g : r.index[x] = j - 1 /\ r.layers[j] = x
  BY <1>6, <1>14 DEF Opened
<1>15. ASSUME NEW x \in Layers, r.index[x] = (IF x = n THEN i ELSE d.index[x]),
              NEW j \in (i + 2)..g, r.layers[j] = x
       PROVE  r.index[x] = j - 1
  <2>1. \E k \in (i + 2)..g : r.index[x] = k - 1 /\ r.layers[k] = x
    BY <1>6, <1>15 DEF Opened
  <2>2. PICK k \in (i + 2)..g : r.index[x] = k - 1 /\ r.layers[k] = x
    BY <2>1
  <2>3. j \in 1..Len(r.layers) /\ k \in 1..Len(r.layers) /\ r.layers[j] # Null
    BY <1>1, <1>8, <1>15, UndefinedAssumption
  <2>4. j = k
    BY <1>13, <1>15, <2>2, <2>3 DEF Ordered
  <2> QED
    BY <2>2, <2>4
<1>16. ASSUME NEW j \in 1..Len(r.layers), r.layers[j] # Null
       PROVE  r.index[r.layers[j]] \in {Undefined, j - 1}
  <2> DEFINE x == r.layers[j]
  <2>1. x \in Layers /\ j \in 1..Len(c.layers) /\ j \in Nat
    BY <1>7, <1>8, <1>16 DEF Collections, Items
  <2>2. CASE r.index[x] # (IF x = n THEN i ELSE d.index[x])
    <3>1. PICK k \in (i + 2)..g : r.index[x] = k - 1 /\ r.layers[k] = x
      BY <1>14, <2>1, <2>2
    <3>2. k \in 1..Len(r.layers)
      BY <1>1, <1>8
    <3>3. j = k
      BY <1>13, <1>16, <3>1, <3>2 DEF Ordered
    <3> QED
      BY <3>1, <3>3
  <2>3. CASE r.index[x] = (IF x = n THEN i ELSE d.index[x]) /\ j = i + 1
    <3>1. x = n
      BY <1>9, <2>1, <2>3
    <3>2. j - 1 = i
      BY <1>1, <2>3
    <3> QED
      BY <2>3, <3>1, <3>2
  <2>4. CASE r.index[x] = (IF x = n THEN i ELSE d.index[x]) /\ j <= i
    <3>1. j # i + 1
      BY <1>1, <2>4
    <3>2. x = c.layers[j] /\ x # n /\ x # l
      BY <1>9, <1>10, <1>11, <2>1, <3>1
    <3>3. r.index[x] = c.index[x]
      BY <1>4, <2>1, <2>4, <3>2
    <3> QED
      BY <1>16, <2>1, <3>2, <3>3 DEF Good, Agreed
  <2>5. CASE r.index[x] = (IF x = n THEN i ELSE d.index[x]) /\ j > i + 1
    <3>1. j \in (i + 2)..g
      BY <1>1, <1>8, <2>1, <2>5
    <3>2. r.index[x] = j - 1
      BY <1>15, <2>1, <2>5, <3>1
    <3> QED
      BY <3>2
  <2> QED
    BY <1>1, <2>1, <2>2, <2>3, <2>4, <2>5
<1>17. n \in PlacedIn(r.layers) /\ l \notin PlacedIn(r.layers)
  <2>1. i + 1 \in 1..Len(r.layers) /\ r.layers[i + 1] = n
    BY <1>1, <1>3, <1>8, <1>9
  <2>2. \A j \in 1..Len(r.layers) : r.layers[j] # l
    BY <1>3, <1>8, <1>9, <1>11
  <2> QED
    BY <1>3, <2>1, <2>2 DEF PlacedIn
<1>18. PlacedIn(r.layers) = (PlacedIn(c.layers) \ {l}) \cup {n}
  <2>1. ASSUME NEW x, x \in PlacedIn(r.layers), x # n PROVE x \in PlacedIn(c.layers) /\ x # l
    <3>1. PICK j \in 1..Len(c.layers) : x = r.layers[j] /\ x # Null
      BY <1>8, <2>1 DEF PlacedIn
    <3>2. x = c.layers[j]
      BY <1>9, <2>1, <3>1
    <3> QED
      BY <1>17, <2>1, <3>1, <3>2 DEF PlacedIn
  <2>2. ASSUME NEW x, x \in PlacedIn(c.layers), x # l PROVE x \in PlacedIn(r.layers)
    <3>1. PICK j \in 1..Len(c.layers) : x = c.layers[j] /\ x # Null
      BY <2>2 DEF PlacedIn
    <3>2. j \in 1..Len(r.layers) /\ r.layers[j] = x
      BY <1>8, <1>9, <1>11, <2>2, <3>1
    <3> QED
      BY <3>1, <3>2 DEF PlacedIn
  <2> QED
    BY <1>17, <2>1, <2>2
<1>19. r.index[n] \in Nat
  <2>1. CASE r.index[n] = i
    BY <1>1, <2>1
  <2>2. CASE r.index[n] # i
    <3>1. PICK k \in (i + 2)..g : r.index[n] = k - 1
      BY <1>14, <2>2
    <3> QED
      BY <1>1, <3>1
  <2> QED
    BY <2>1, <2>2
<1>20. ASSUME NEW x \in Layers
       PROVE  \/ r.index[x] = c.index[x]
              \/ x \in PlacedIn(r.layers) /\ r.index[x] \in Nat
              \/ x \in {l} /\ x \notin PlacedIn(r.layers)
  <2>1. CASE x = n
    BY <1>17, <1>19, <2>1
  <2>2. CASE x = l
    BY <1>17, <2>2
  <2>3. CASE x # n /\ x # l /\ r.index[x] # d.index[x]
    <3>1. PICK k \in (i + 2)..g : r.index[x] = k - 1 /\ r.layers[k] = x
      BY <1>14, <2>3
    <3>2. k \in 1..Len(r.layers) /\ k - 1 \in Nat /\ x # Null
      BY <1>1, <1>8, UndefinedAssumption
    <3> QED
      BY <3>1, <3>2 DEF PlacedIn
  <2>4. CASE x # n /\ x # l /\ r.index[x] = d.index[x]
    BY <1>4, <2>4
  <2> QED
    BY <2>1, <2>2, <2>3, <2>4
<1>21. Became(c, r, {l}, {n})
  BY <1>13, <1>16, <1>18, <1>20 DEF Became, Good, Agreed
<1> QED
  BY <1>19, <1>21 DEF r, d, i

-----------------------------------------------------------------------------
(* The inductive invariant.  What the variables are.                       *)
Look ==
  [type : {"Image", "Vector", "Tile"}, source : Source \cup {Undefined}, visible : BOOLEAN,
   opacity : {0, 1}, style : Styles \cup {Undefined}]

Typed ==
  /\ stage \in [Elements -> {"absent", "live", "gone"}]
  /\ properties \in [BoundElements -> Property \cup {Undefined}]
  /\ seen \in [BoundElements -> Property \cup {Undefined}]
  /\ olLayer \in [Elements -> Layers \cup {Undefined}]
  /\ created \in [Elements -> Nat]
  /\ Collection \in Collections
  /\ shows \in [Elements -> Look \cup {Undefined}]
  /\ listeners \in [LayerElements -> Nat]
  /\ scopes \subseteq MarkerElements
  /\ markerLayer \in Layers \cup {Undefined}
  /\ changes \in 0..MaxChanges
  /\ shifted \in BOOLEAN

\* The layers a watch that is due may yet make: a bare source is made twice, because the
\* first time changes the properties.
Owed(p, q) ==
  IF p = q THEN 0 ELSE IF p.source # Undefined /\ p.source.bare THEN 2 ELSE 1

\* The layer of an element is the last that was created for it.  An ol-layer element has
\* one only as long as it lives, and has seen the properties of a layer it has.
BoundShape(e) ==
  /\ stage[e] = "live" <=> properties[e] # Undefined
  /\ stage[e] # "live" => seen[e] = Undefined /\ olLayer[e] = Undefined
  /\ stage[e] = "absent" => created[e] = 0
  /\ olLayer[e] # Undefined =>
       olLayer[e] = <<e, created[e]>> /\ shows[e] \in Look /\ seen[e] # Undefined
  /\ listeners[e] <= created[e]
  /\ created[e] + Owed(properties[e], seen[e]) <= 2 * (changes + 1)

StaticShape(e) ==
  /\ stage[e] # "live" => olLayer[e] = Undefined
  /\ stage[e] = "absent" => created[e] = 0 /\ listeners[e] = 0
  /\ olLayer[e] = Undefined \/ olLayer[e] = <<e, created[e]>>
  /\ created[e] <= 1 /\ listeners[e] <= 1

PathShape(e) ==
  /\ stage[e] = "absent" => created[e] = 0 /\ olLayer[e] = Undefined
  /\ olLayer[e] = Undefined \/ olLayer[e] = <<e, created[e]>>
  /\ created[e] <= 1

\* The markers that live are registered, and the layer they share was created for one.
MarkersShape ==
  /\ scopes = {e \in MarkerElements : stage[e] = "live"}
  /\ markerLayer = Undefined <=> scopes = {}
  /\ \A e \in MarkerElements :
       created[e] <= 1 /\ (stage[e] = "absent" => created[e] = 0)
  /\ markerLayer # Undefined =>
       \E e \in MarkerElements : markerLayer = <<e, 1>> /\ created[e] = 1

Shape ==
  /\ \A e \in BoundElements : BoundShape(e)
  /\ \A e \in StaticElements : StaticShape(e)
  /\ \A e \in PathElements : PathShape(e)
  /\ MarkersShape

\* The layers that somebody refers to are on the map, in order, and nothing else but the
\* default layer.  An ol-layer element finds its own by position, and no position is left
\* from before a layer was created.
Mine == ({olLayer[e] : e \in Elements \ MarkerElements} \cup {markerLayer}) \ {Undefined}
DefaultLayer == <<Default, 1>>
InPlace ==
  ~ shifted =>
    /\ Good(Collection)
    /\ PlacedIn(layers) \ {DefaultLayer} = Mine
    /\ \A e \in LayerElements : olLayer[e] # Undefined => index[olLayer[e]] # Undefined
    /\ \A l \in Layers : l[1] # Default /\ l[2] > created[l[1]] => index[l] = Undefined

\* What the layer shows is what the watch has seen, as far as it was there.
Shown(e) ==
  LET q == seen[e]
  IN  olLayer[e] # Undefined /\ q.source # Undefined /\ e \notin swallowed =>
        /\ shows[e].source = q.source
        /\ shows[e].type = "Vector" => listeners[e] > 0
        /\ created[e] = 1 =>
             /\ q.visible # Undefined => shows[e].visible = q.visible
             /\ q.opacity \notin {0, Undefined} => shows[e].opacity = q.opacity
             /\ q.style # Undefined /\ shows[e].type = "Vector" => shows[e].style = q.style
AllShown == \A e \in BoundElements : Shown(e)

LEMMA PropertyFacts ==
  ASSUME NEW p, p \in Property, p.source # Undefined
  PROVE  /\ p.source \in Source
         /\ Project(p) \in Property /\ Project(p).source # Undefined
         /\ ~ Project(p).source.bare /\ (~ p.source.bare => Project(p) = p)
<1>1. p.source \in Source
  BY DEF Property
<1>2. CASE p.source.bare
  <2> DEFINE s == [p.source EXCEPT !.bare = FALSE]
  <2>1. s \in Source /\ ~ s.bare
    BY <1>1 DEF Source
  <2>2. Project(p) = [p EXCEPT !.source = s]
    BY <1>2 DEF Project, Property
  <2> HIDE DEF s
  <2>3. Project(p) \in Property /\ Project(p).source = s
    BY <2>1, <2>2 DEF Property
  <2> QED
    BY <1>1, <1>2, <2>1, <2>3, UndefinedAssumption
<1>3. CASE ~ p.source.bare
  <2>1. Project(p) = p
    BY <1>3 DEF Project
  <2> QED
    BY <1>1, <1>3, <2>1
<1> QED
  BY <1>2, <1>3

LEMMA LookFacts ==
  ASSUME NEW s, s \in Source
  PROVE  /\ CreateSource(s) \in {s, Undefined}
         /\ CreateLayer(s) \in Look /\ CreateLayer(s).source = CreateSource(s)
         /\ CreateLayer(s).type = DetectLayerType(s)
         /\ VectorLayer \in Look
<1>1. CreateSource(s) \in {s, Undefined}
  BY DEF CreateSource
<1>2. DetectLayerType(s) \in {"Image", "Vector", "Tile"}
  BY DEF DetectLayerType
<1>3. CreateLayer(s) =
        [type |-> DetectLayerType(s), source |-> CreateSource(s), visible |-> TRUE,
         opacity |-> 1, style |-> Undefined]
  BY DEF CreateLayer
<1>4. CreateSource(s) \in Source \cup {Undefined}
  BY <1>1
<1>5. VectorLayer \in Look
  BY DEF VectorLayer, Look
<1>6. CreateLayer(s) \in Look
  BY <1>2, <1>3, <1>4 DEF Look
<1> QED
  BY <1>1, <1>3, <1>5, <1>6

LEMMA InitHolds ==
  Init => Typed /\ Shape /\ InPlace /\ AllShown
<1> SUFFICES ASSUME Init PROVE Typed /\ Shape /\ InPlace /\ AllShown
  OBVIOUS
<1> USE DEF Init
<1>1. DefaultLayer \in Layers
  BY ElementsAssumption DEF DefaultLayer, Layers, Elements
<1>2. layers \in Items /\ (layers = <<>> \/ layers = <<DefaultLayer>>)
  <2>1. PICK customLayers \in CustomLayers :
          layers = IF customLayers THEN <<>> ELSE <<<<Default, 1>>>>
    OBVIOUS
  <2>2. layers = <<>> \/ layers = <<DefaultLayer>>
    BY <2>1 DEF DefaultLayer
  <2>3. <<>> \in Items /\ <<DefaultLayer>> \in Items
    BY <1>1 DEF Items
  <2> QED
    BY <2>2, <2>3
<1>3. index \in Indexes /\ \A l \in Layers : index[l] = Undefined
  BY DEF Indexes
<1>4. Typed
  <2>1. Collection \in Collections
    BY <1>2, <1>3 DEF Collection, Collections
  <2>2. changes \in 0..MaxChanges
    BY BoundAssumption
  <2> QED
    BY <2>1, <2>2 DEF Typed
<1>5. \A e \in Elements : stage[e] = "absent" /\ olLayer[e] = Undefined /\ created[e] = 0
  OBVIOUS
<1>6. Mine = {}
  BY <1>5 DEF Mine, Elements
<1>7. Shape
  <2>1. ASSUME NEW e \in BoundElements PROVE BoundShape(e)
    <3>1. e \in Elements /\ e \in LayerElements
      BY DEF Elements, LayerElements
    <3>2. properties[e] = Undefined /\ seen[e] = Undefined /\ listeners[e] = 0
      BY <3>1
    <3>3. stage[e] = "absent" /\ olLayer[e] = Undefined /\ created[e] = 0 /\ changes = 0
      BY <1>5, <3>1
    <3>4. Owed(properties[e], seen[e]) = 0
      BY <3>2 DEF Owed
    <3> QED
      BY <3>2, <3>3, <3>4 DEF BoundShape
  <2>2. ASSUME NEW e \in StaticElements PROVE StaticShape(e)
    BY <1>5 DEF StaticShape, Elements, LayerElements
  <2>3. ASSUME NEW e \in PathElements PROVE PathShape(e)
    BY <1>5 DEF PathShape, Elements
  <2>4. MarkersShape
    BY <1>5 DEF MarkersShape, Elements
  <2> QED
    BY <2>1, <2>2, <2>3, <2>4 DEF Shape
<1>8. InPlace
  <2>1. Good(Collection)
    <3>1. CASE layers = <<>>
      BY <3>1 DEF Good, Ordered, Agreed, Collection
    <3>2. CASE layers = <<DefaultLayer>>
      <4>1. DefaultLayer[1] \notin MarkerElements
        BY ElementsAssumption DEF DefaultLayer, Elements
      <4>2. \A j \in 1..Len(layers) : j = 1 /\ layers[j] = DefaultLayer
        BY <3>2
      <4>3. Ordered(layers)
        BY <4>1, <4>2 DEF Ordered, IsMarkers
      <4>4. Agreed(Collection)
        BY <1>1, <1>3, <4>2 DEF Agreed, Collection
      <4> QED
        BY <4>3, <4>4 DEF Good, Collection
    <3> QED
      BY <1>2, <3>1, <3>2
  <2>2. PlacedIn(layers) \ {DefaultLayer} = {}
    BY <1>2 DEF PlacedIn
  <2>3. \A e \in LayerElements : olLayer[e] = Undefined
    BY <1>5 DEF LayerElements, Elements
  <2> QED
    BY <1>3, <1>6, <2>1, <2>2, <2>3 DEF InPlace
<1>9. AllShown
  BY <1>5 DEF AllShown, Shown, Elements
<1> QED
  BY <1>4, <1>7, <1>8, <1>9

-----------------------------------------------------------------------------
(* What an action of an element may change, and what follows for the       *)
(* others.                                                                 *)
Only(e) ==
  /\ \A x \in Elements \ {e} : /\ stage'[x] = stage[x] /\ olLayer'[x] = olLayer[x]
                               /\ created'[x] = created[x] /\ shows'[x] = shows[x]
  /\ \A x \in BoundElements \ {e} : properties'[x] = properties[x] /\ seen'[x] = seen[x]
  /\ \A x \in LayerElements \ {e} : listeners'[x] = listeners[x]
  /\ \A x \in BoundElements \ {e} : x \in swallowed' <=> x \in swallowed

LEMMA OthersShape ==
  ASSUME Typed, Typed', Shape, NEW e \in Elements, Only(e), changes <= changes'
  PROVE  /\ \A x \in BoundElements \ {e} : BoundShape(x)'
         /\ \A x \in StaticElements \ {e} : StaticShape(x)'
         /\ \A x \in PathElements \ {e} : PathShape(x)'
<1>1. ASSUME NEW x \in BoundElements, x # e PROVE BoundShape(x)'
  <2>1. x \in Elements /\ x \in LayerElements
    BY DEF Elements, LayerElements
  <2>2. /\ stage'[x] = stage[x] /\ olLayer'[x] = olLayer[x]
        /\ created'[x] = created[x] /\ shows'[x] = shows[x]
        /\ properties'[x] = properties[x] /\ seen'[x] = seen[x]
        /\ listeners'[x] = listeners[x]
    BY <1>1, <2>1 DEF Only
  <2>3. BoundShape(x)
    BY DEF Shape
  <2>4. created[x] \in Nat /\ changes \in Nat /\ changes' \in Nat
    BY <2>1 DEF Typed
  <2>5. Owed(properties[x], seen[x]) \in Nat
    BY DEF Owed
  <2>6. created[x] + Owed(properties[x], seen[x]) <= 2 * (changes' + 1)
    BY <2>3, <2>4, <2>5 DEF BoundShape
  <2> QED
    BY <2>2, <2>3, <2>6 DEF BoundShape
<1>2. ASSUME NEW x \in StaticElements, x # e PROVE StaticShape(x)'
  <2>1. x \in Elements /\ x \in LayerElements
    BY DEF Elements, LayerElements
  <2>2. /\ stage'[x] = stage[x] /\ olLayer'[x] = olLayer[x]
        /\ created'[x] = created[x] /\ listeners'[x] = listeners[x]
    BY <1>2, <2>1 DEF Only
  <2>3. StaticShape(x)
    BY DEF Shape
  <2> QED
    BY <2>2, <2>3 DEF StaticShape
<1>3. ASSUME NEW x \in PathElements, x # e PROVE PathShape(x)'
  <2>1. x \in Elements
    BY DEF Elements
  <2>2. /\ stage'[x] = stage[x] /\ olLayer'[x] = olLayer[x]
        /\ created'[x] = created[x]
    BY <1>3, <2>1 DEF Only
  <2>3. PathShape(x)
    BY DEF Shape
  <2> QED
    BY <2>2, <2>3 DEF PathShape
<1> QED
  BY <1>1, <1>2, <1>3

LEMMA MarkersStay ==
  ASSUME Shape, NEW e, Only(e), e \notin MarkerElements, UNCHANGED markerVars
  PROVE  MarkersShape'
<1>1. MarkersShape
  BY DEF Shape
<1>2. \A x \in MarkerElements : stage'[x] = stage[x] /\ created'[x] = created[x]
  BY DEF Only, Elements
<1>3. scopes' = scopes /\ markerLayer' = markerLayer
  BY DEF markerVars
<1> QED
  BY <1>1, <1>2, <1>3 DEF MarkersShape

\* An action of an ol-layer element of the first kind.
LEMMA BoundStepShape ==
  ASSUME Typed, Typed', Shape, NEW e \in BoundElements, Only(e), changes <= changes',
         UNCHANGED markerVars, BoundShape(e)'
  PROVE  Shape'
<1>1. e \in Elements /\ e \notin MarkerElements /\ e \notin StaticElements /\ e \notin PathElements
  BY ElementsAssumption DEF Elements
<1>2. MarkersShape'
  BY <1>1, MarkersStay
<1>3. /\ \A x \in BoundElements \ {e} : BoundShape(x)'
      /\ \A x \in StaticElements \ {e} : StaticShape(x)'
      /\ \A x \in PathElements \ {e} : PathShape(x)'
  BY <1>1, OthersShape
<1>4. /\ \A x \in BoundElements : BoundShape(x)'
      /\ \A x \in StaticElements : StaticShape(x)'
      /\ \A x \in PathElements : PathShape(x)'
  BY <1>1, <1>3
<1> QED
  BY <1>2, <1>4 DEF Shape

\* What there is when a watch is due: properties that have a type, and a layer to make.
LEMMA FiresFacts ==
  ASSUME Typed, Shape, NEW e \in BoundElements, Fires(e)
  PROVE  /\ e \in Elements /\ e \in LayerElements /\ e \notin MarkerElements
         /\ stage[e] = "live" /\ properties[e] \in Property /\ properties[e] # Undefined
         /\ properties[e] # seen[e]
         /\ seen' \in [BoundElements -> Property \cup {Undefined}]
         /\ seen'[e] = properties[e] /\ \A x \in BoundElements \ {e} : seen'[x] = seen[x]
         /\ created[e] \in Nat /\ New(e) \in Layers /\ New(e) = <<e, created[e] + 1>>
<1>1. e \in Elements /\ e \in LayerElements /\ e \notin MarkerElements
  BY ElementsAssumption DEF Elements, LayerElements
<1>2. BoundShape(e)
  BY DEF Shape
<1>3. stage[e] = "live" /\ properties[e] # seen[e] /\ properties[e] # Undefined
  BY <1>2 DEF Fires, BoundShape
<1>4. properties[e] \in Property
  BY <1>3 DEF Typed
<1>5. seen' = [seen EXCEPT ![e] = properties[e]]
  BY DEF Fires
<1>6. /\ seen' \in [BoundElements -> Property \cup {Undefined}]
      /\ seen'[e] = properties[e] /\ \A x \in BoundElements \ {e} : seen'[x] = seen[x]
  BY <1>4, <1>5 DEF Typed
<1>7. created[e] \in Nat /\ changes \in 0..MaxChanges
  BY <1>1 DEF Typed
<1>8. Owed(properties[e], seen[e]) \in {1, 2}
  BY <1>3 DEF Owed
<1>9. created[e] + 1 \in 1..MaxCreated
  <2>1. created[e] + Owed(properties[e], seen[e]) <= 2 * (changes + 1)
    BY <1>2 DEF BoundShape
  <2>2. created[e] + 1 <= 2 * (changes + 1)
    BY <1>7, <1>8, <2>1, BoundAssumption
  <2> QED
    BY <1>7, <2>2, BoundAssumption DEF MaxCreated
<1>10. New(e) = <<e, created[e] + 1>>
  BY DEF New
<1>11. New(e) \in Layers
  BY <1>9, <1>10 DEF Layers
<1> QED
  BY <1>1, <1>3, <1>4, <1>6, <1>7, <1>10, <1>11

LEMMA LinkBoundStep ==
  ASSUME Typed, Shape, NEW e \in BoundElements, LinkBound(e)
  PROVE  Typed' /\ Shape' /\ Only(e)
<1>1. e \in Elements /\ e \in LayerElements
  BY DEF Elements, LayerElements
<1>2. PICK p \in PropertyValues : properties' = [properties EXCEPT ![e] = p]
  BY DEF LinkBound
<1>3. p \in Property /\ p # Undefined
  BY PropertiesAssumption, UndefinedAssumption
<1>4. stage[e] = "absent" /\ stage' = [stage EXCEPT ![e] = "live"]
  BY DEF LinkBound, Appear
<1>5. /\ UNCHANGED <<changes, seen, olLayer, created, shows, listeners, markerVars,
                     shifted, swallowed>>
      /\ Collection' = Collection
  BY DEF LinkBound, collectionVars, Collection
<1>6. Typed'
  BY <1>1, <1>2, <1>3, <1>4, <1>5 DEF Typed, markerVars
<1>7. Only(e)
  BY <1>1, <1>2, <1>4, <1>5 DEF Only, Typed, markerVars
<1>8. BoundShape(e)'
  <2>1. BoundShape(e) /\ created[e] = 0 /\ seen[e] = Undefined /\ olLayer[e] = Undefined
    BY <1>4 DEF Shape, BoundShape
  <2>2. stage'[e] = "live" /\ properties'[e] = p
    BY <1>1, <1>2, <1>4 DEF Typed
  <2>3. Owed(p, Undefined) \in {0, 1, 2} /\ changes \in Nat
    BY DEF Owed, Typed
  <2>4. 0 + Owed(p, Undefined) <= 2 * (changes + 1)
    BY <2>3
  <2> QED
    BY <1>3, <1>5, <2>1, <2>2, <2>4 DEF BoundShape
<1>9. changes <= changes' /\ UNCHANGED markerVars
  BY <1>5 DEF Typed
<1> QED
  BY <1>6, <1>7, <1>8, <1>9, BoundStepShape

LEMMA SetPropertiesStep ==
  ASSUME Typed, Shape, NEW e \in BoundElements, SetProperties(e)
  PROVE  Typed' /\ Shape' /\ Only(e)
<1>1. e \in Elements /\ e \in LayerElements
  BY DEF Elements, LayerElements
<1>2. PICK p \in PropertyValues : properties' = [properties EXCEPT ![e] = p]
  BY DEF SetProperties
<1>3. p \in Property /\ p # Undefined
  BY PropertiesAssumption, UndefinedAssumption
<1>4. /\ stage[e] = "live" /\ properties[e] = seen[e]
      /\ changes < MaxChanges /\ changes' = changes + 1
      /\ UNCHANGED <<stage, seen, olLayer, created, shows, listeners, markerVars, shifted,
                     swallowed>>
      /\ Collection' = Collection
  BY DEF SetProperties, collectionVars, Collection
<1>5. changes \in Nat /\ changes' \in 0..MaxChanges /\ changes <= changes'
  BY <1>4, BoundAssumption DEF Typed
<1>6. Typed'
  BY <1>1, <1>2, <1>3, <1>4, <1>5 DEF Typed, markerVars
<1>7. Only(e)
  BY <1>1, <1>2, <1>4 DEF Only, Typed, markerVars
<1>8. BoundShape(e)'
  <2>1. BoundShape(e) /\ created[e] \in Nat
    BY <1>1 DEF Shape, Typed
  <2>2. created[e] <= 2 * (changes + 1)
    <3>1. Owed(properties[e], seen[e]) = 0
      BY <1>4 DEF Owed
    <3> QED
      BY <1>5, <2>1, <3>1 DEF BoundShape
  <2>3. properties'[e] = p
    BY <1>2 DEF Typed
  <2>4. Owed(p, seen[e]) \in {0, 1, 2}
    BY DEF Owed
  <2>5. created[e] + Owed(p, seen[e]) <= 2 * ((changes + 1) + 1)
    BY <1>5, <2>1, <2>2, <2>4
  <2> QED
    BY <1>3, <1>4, <2>1, <2>3, <2>5 DEF BoundShape
<1>9. UNCHANGED markerVars
  BY <1>4
<1> QED
  BY <1>5, <1>6, <1>7, <1>8, <1>9, BoundStepShape

LEMMA KeepIs ==
  ASSUME NEW c, c \in Collections, Keep(c)
  PROVE  Collection' = c
<1>1. c = [layers |-> c.layers, index |-> c.index]
  BY DEF Collections
<1> QED
  BY <1>1 DEF Keep, Collection

LEMMA WatchWithoutSourceStep ==
  ASSUME Typed, Shape, NEW e \in BoundElements, WatchWithoutSource(e)
  PROVE  Typed' /\ Shape' /\ Only(e) /\ Shown(e)'
<1> DEFINE p == properties[e]
<1>0. Fires(e)
  BY DEF WatchWithoutSource
<1>1. /\ e \in Elements /\ e \in LayerElements
      /\ stage[e] = "live" /\ p \in Property /\ p # Undefined
      /\ seen' \in [BoundElements -> Property \cup {Undefined}]
      /\ seen'[e] = p /\ \A x \in BoundElements \ {e} : seen'[x] = seen[x]
  BY <1>0, FiresFacts
<1>2. /\ UNCHANGED <<stage, properties, changes, olLayer, created, shows, listeners,
                     markerVars, shifted, swallowed>>
      /\ Collection' = Collection /\ p.source = Undefined
  BY DEF WatchWithoutSource, elementVars, collectionVars, Collection
<1>3. Typed'
  BY <1>1, <1>2 DEF Typed, markerVars
<1>4. Only(e)
  BY <1>1, <1>2 DEF Only
<1>5. BoundShape(e)'
  <2>1. BoundShape(e)
    BY DEF Shape
  <2>2. Owed(p, p) = 0 /\ Owed(p, seen[e]) \in {0, 1, 2}
    BY DEF Owed
  <2>3. created[e] \in Nat /\ changes \in Nat
    BY <1>1 DEF Typed
  <2>4. created[e] + 0 <= 2 * (changes + 1)
    BY <2>1, <2>2, <2>3 DEF BoundShape
  <2> QED
    BY <1>1, <1>2, <2>1, <2>2, <2>4 DEF BoundShape
<1>6. Shape'
  <2>1. changes <= changes' /\ UNCHANGED markerVars
    BY <1>2 DEF Typed
  <2> QED
    BY <1>3, <1>4, <1>5, <2>1, BoundStepShape
<1>7. Shown(e)'
  BY <1>1, <1>2 DEF Shown
<1> QED
  BY <1>3, <1>4, <1>6, <1>7

LEMMA WatchFillsInStep ==
  ASSUME Typed, Shape, NEW e \in BoundElements, WatchFillsIn(e), Shown(e)
  PROVE  Typed' /\ Shape' /\ Only(e) /\ Shown(e)'
<1> DEFINE p == properties[e]
           filled == IF p.visible = Undefined THEN [p EXCEPT !.visible = TRUE]
                     ELSE [p EXCEPT !.opacity = 1]
<1>0. Fires(e)
  BY DEF WatchFillsIn
<1>1. /\ e \in Elements /\ e \in LayerElements
      /\ stage[e] = "live" /\ p \in Property /\ p # Undefined /\ p # seen[e]
      /\ seen' \in [BoundElements -> Property \cup {Undefined}]
      /\ seen'[e] = p /\ \A x \in BoundElements \ {e} : seen'[x] = seen[x]
  BY <1>0, FiresFacts
<1>2. /\ UNCHANGED <<stage, changes, olLayer, created, shows, listeners, markerVars, shifted>>
      /\ Collection' = Collection
      /\ p.source # Undefined /\ (p.visible = Undefined \/ p.opacity = Undefined)
      /\ properties' = [properties EXCEPT ![e] = filled]
      /\ swallowed' = IF olLayer[e] # Undefined /\ Otherwise(p, seen[e])
                      THEN swallowed \cup {e} ELSE swallowed
  BY DEF WatchFillsIn, collectionVars, Collection
<1>3. filled \in Property /\ filled.source = p.source /\ filled # Undefined
  <2>1. filled \in Property /\ filled.source = p.source
    BY <1>1 DEF Property
  <2> QED
    BY <2>1, UndefinedAssumption
<1> HIDE DEF filled
<1>4. properties'[e] = filled /\ \A x \in BoundElements \ {e} : properties'[x] = properties[x]
  BY <1>2 DEF Typed
<1>5. Typed'
  BY <1>1, <1>2, <1>3 DEF Typed, markerVars
<1>6. Only(e)
  BY <1>1, <1>2, <1>4 DEF Only
<1>7. BoundShape(e)'
  <2>1. BoundShape(e)
    BY DEF Shape
  <2>2. Owed(filled, p) \in Nat /\ Owed(p, seen[e]) \in Nat /\ Owed(filled, p) <= Owed(p, seen[e])
    BY <1>1, <1>3 DEF Owed
  <2>3. created[e] \in Nat /\ changes \in Nat
    BY <1>1 DEF Typed
  <2>4. created[e] + Owed(filled, p) <= 2 * (changes + 1)
    BY <2>1, <2>2, <2>3 DEF BoundShape
  <2> QED
    BY <1>1, <1>2, <1>3, <1>4, <2>1, <2>4 DEF BoundShape
<1>8. Shape'
  <2>1. changes <= changes' /\ UNCHANGED markerVars
    BY <1>2 DEF Typed
  <2> QED
    BY <1>5, <1>6, <1>7, <2>1, BoundStepShape
<1>9. Shown(e)'
  <2> SUFFICES ASSUME olLayer[e] # Undefined, e \notin swallowed'
               PROVE  /\ shows[e].source = p.source
                      /\ shows[e].type = "Vector" => listeners[e] > 0
                      /\ created[e] = 1 =>
                           /\ p.visible # Undefined => shows[e].visible = p.visible
                           /\ p.opacity \notin {0, Undefined} => shows[e].opacity = p.opacity
                           /\ p.style # Undefined /\ shows[e].type = "Vector" =>
                                shows[e].style = p.style
    BY <1>1, <1>2 DEF Shown
  <2>1. e \notin swallowed /\ ~ Otherwise(p, seen[e])
    BY <1>2
  <2>2. /\ p.source = seen[e].source /\ p.style = seen[e].style
        /\ p.visible \in {Undefined, seen[e].visible}
        /\ p.visible = Undefined => p.opacity = seen[e].opacity
    BY <2>1 DEF Otherwise
  <2> QED
    BY <1>2, <2>1, <2>2 DEF Shown
<1> QED
  BY <1>5, <1>6, <1>8, <1>9

\* A style is set on a vector layer, and nothing on any other.
LEMMA StyledFacts ==
  ASSUME NEW look, look \in Look, NEW style, style \in Styles \cup {Undefined}
  PROVE  /\ Styled(look, style) \in Look
         /\ Styled(look, style).source = look.source /\ Styled(look, style).type = look.type
         /\ Styled(look, style).visible = look.visible
         /\ Styled(look, style).opacity = look.opacity
         /\ look.type = "Vector" => Styled(look, style).style = style
<1>1. CASE look.type = "Vector"
  <2>1. Styled(look, style) = [look EXCEPT !.style = style]
    BY <1>1 DEF Styled
  <2> QED
    BY <2>1 DEF Look
<1>2. CASE look.type # "Vector"
  <2>1. Styled(look, style) = look
    BY <1>2 DEF Styled
  <2> QED
    BY <1>2, <2>1
<1> QED
  BY <1>1, <1>2

\* What the end of the watch does to the collection and the layer.
LEMMA AdjustEffect ==
  ASSUME Typed, NEW e \in BoundElements, NEW c, NEW l, NEW look,
         c \in Collections, l \in Layers, look \in Look,
         properties[e] \in Property, Complete(properties[e]), Adjust(e, c, l, look)
  PROVE  /\ Collection' = Moved(c, properties[e].index, l) /\ Collection' \in Collections
         /\ shows' \in [Elements -> Look \cup {Undefined}]
         /\ \A x \in Elements \ {e} : shows'[x] = shows[x]
         /\ shows'[e] \in Look
         /\ shows'[e].source = look.source /\ shows'[e].type = look.type
         /\ shows'[e].visible = IF properties[e].visible = seen[e].visible THEN look.visible
                                ELSE properties[e].visible
         /\ shows'[e].opacity = IF properties[e].opacity = seen[e].opacity THEN look.opacity
                                ELSE properties[e].opacity
         /\ look.type = "Vector" =>
              shows'[e].style = IF properties[e].style \in {seen[e].style, Undefined}
                                THEN look.style ELSE properties[e].style
<1> DEFINE p == properties[e]
           old == seen[e]
           visible == IF p.visible = old.visible THEN look.visible ELSE p.visible
           opacity == IF p.opacity = old.opacity THEN look.opacity ELSE p.opacity
           style == IF p.style \in {old.style, Undefined} THEN look.style ELSE p.style
           set == [look EXCEPT !.visible = visible, !.opacity = opacity]
           now == Styled(set, style)
<1>1. e \in Elements /\ p.index \in Nat \cup {Undefined}
  BY DEF Elements, Property
<1>2. Moved(c, p.index, l) \in Collections
  BY <1>1, MovedType
<1>3. Keep(Moved(c, p.index, l))
  BY DEF Adjust, Moved
<1>4. Collection' = Moved(c, p.index, l)
  BY <1>2, <1>3, KeepIs
<1>5. visible \in BOOLEAN /\ opacity \in {0, 1} /\ style \in Styles \cup {Undefined}
  <2>1. p.visible \in BOOLEAN /\ p.opacity \in {0, 1} /\ p.style \in Styles \cup {Undefined}
    BY DEF Complete, Property
  <2>2. look.visible \in BOOLEAN /\ look.opacity \in {0, 1} /\ look.style \in Styles \cup {Undefined}
    BY DEF Look
  <2> QED
    BY <2>1, <2>2
<1>6. shows' = [shows EXCEPT ![e] = now]
  BY DEF Adjust
<1> HIDE DEF visible, opacity, style
<1>7. /\ now \in Look /\ now.source = look.source /\ now.type = look.type
      /\ now.visible = visible /\ now.opacity = opacity
      /\ look.type = "Vector" => now.style = style
  <2>1. /\ set \in Look /\ set.source = look.source /\ set.type = look.type
        /\ set.visible = visible /\ set.opacity = opacity
    BY <1>5 DEF Look
  <2> HIDE DEF set
  <2> QED
    BY <1>5, <2>1, StyledFacts
<1> HIDE DEF now
<1>8. /\ shows' \in [Elements -> Look \cup {Undefined}] /\ shows'[e] = now
      /\ \A x \in Elements \ {e} : shows'[x] = shows[x]
  BY <1>1, <1>6, <1>7 DEF Typed
<1> QED
  BY <1>2, <1>4, <1>7, <1>8 DEF visible, opacity, style

LEMMA WatchChangesStep ==
  ASSUME Typed, Shape, NEW e \in BoundElements, WatchChanges(e), Shown(e)
  PROVE  Typed' /\ Shape' /\ Only(e) /\ Shown(e)'
<1> DEFINE p == properties[e]
<1>0. Fires(e)
  BY DEF WatchChanges
<1>1. /\ e \in Elements /\ e \in LayerElements
      /\ stage[e] = "live" /\ p \in Property /\ p # Undefined
      /\ seen' \in [BoundElements -> Property \cup {Undefined}]
      /\ seen'[e] = p /\ \A x \in BoundElements \ {e} : seen'[x] = seen[x]
  BY <1>0, FiresFacts
<1>2. /\ UNCHANGED <<stage, properties, changes, olLayer, created, listeners, markerVars,
                     shifted, swallowed>>
      /\ Complete(p) /\ olLayer[e] # Undefined /\ p.source = seen[e].source
      /\ Adjust(e, Collection, olLayer[e], shows[e])
  BY DEF WatchChanges, elementVars
<1>3. BoundShape(e)
  BY DEF Shape
<1>4. Collection \in Collections /\ olLayer[e] \in Layers /\ shows[e] \in Look
  BY <1>1, <1>2, <1>3 DEF Typed, BoundShape
<1>5. /\ Collection' \in Collections
      /\ shows' \in [Elements -> Look \cup {Undefined}]
      /\ \A x \in Elements \ {e} : shows'[x] = shows[x]
      /\ shows'[e] \in Look
      /\ shows'[e].source = shows[e].source /\ shows'[e].type = shows[e].type
      /\ shows'[e].visible = IF p.visible = seen[e].visible THEN shows[e].visible
                             ELSE p.visible
      /\ shows'[e].opacity = IF p.opacity = seen[e].opacity THEN shows[e].opacity
                             ELSE p.opacity
      /\ shows[e].type = "Vector" =>
           shows'[e].style = IF p.style \in {seen[e].style, Undefined}
                             THEN shows[e].style ELSE p.style
  BY <1>1, <1>2, <1>4, AdjustEffect
<1>6. Typed'
  BY <1>1, <1>2, <1>5 DEF Typed, markerVars
<1>7. Only(e)
  BY <1>1, <1>2, <1>5 DEF Only
<1>8. BoundShape(e)'
  <2>1. Owed(p, p) = 0 /\ Owed(p, seen[e]) \in {0, 1, 2}
    BY DEF Owed
  <2>2. created[e] \in Nat /\ changes \in Nat
    BY <1>1 DEF Typed
  <2>3. created[e] + 0 <= 2 * (changes + 1)
    BY <1>3, <2>1, <2>2 DEF BoundShape
  <2> QED
    BY <1>1, <1>2, <1>3, <1>5, <2>1, <2>3 DEF BoundShape
<1>9. Shape'
  <2>1. changes <= changes' /\ UNCHANGED markerVars
    BY <1>2 DEF Typed
  <2> QED
    BY <1>6, <1>7, <1>8, <2>1, BoundStepShape
<1>10. Shown(e)'
  <2> SUFFICES ASSUME e \notin swallowed
               PROVE  /\ shows'[e].source = p.source
                      /\ shows'[e].type = "Vector" => listeners[e] > 0
                      /\ created[e] = 1 =>
                           /\ p.visible # Undefined => shows'[e].visible = p.visible
                           /\ p.opacity \notin {0, Undefined} => shows'[e].opacity = p.opacity
                           /\ p.style # Undefined /\ shows'[e].type = "Vector" =>
                                shows'[e].style = p.style
    BY <1>1, <1>2 DEF Shown
  <2>1. seen[e].source # Undefined
    BY <1>2 DEF Complete
  <2> QED
    BY <1>2, <1>5, <2>1 DEF Shown
<1> QED
  BY <1>6, <1>7, <1>9, <1>10

LEMMA ListenEffect ==
  ASSUME Typed, NEW e \in LayerElements, NEW source, Listen(e, source)
  PROVE  /\ listeners' \in [LayerElements -> Nat]
         /\ \A x \in LayerElements \ {e} : listeners'[x] = listeners[x]
         /\ listeners'[e] = IF DetectLayerType(source) = "Vector" THEN listeners[e] + 1
                            ELSE listeners[e]
<1>1. listeners \in [LayerElements -> Nat]
  BY DEF Typed
<1>2. CASE DetectLayerType(source) = "Vector"
  <2>1. listeners' = [listeners EXCEPT ![e] = @ + 1]
    BY <1>2 DEF Listen
  <2> QED
    BY <1>1, <1>2, <2>1
<1>3. CASE DetectLayerType(source) # "Vector"
  <2>1. listeners' = listeners
    BY <1>3 DEF Listen
  <2> QED
    BY <1>1, <1>3, <2>1
<1> QED
  BY <1>2, <1>3

LEMMA CreateEffect ==
  ASSUME Typed, NEW e \in Elements, NEW look, Create(e, look), look \in Look, New(e) \in Layers
  PROVE  /\ olLayer' \in [Elements -> Layers \cup {Undefined}]
         /\ created' \in [Elements -> Nat] /\ shows' \in [Elements -> Look \cup {Undefined}]
         /\ \A x \in Elements \ {e} : /\ olLayer'[x] = olLayer[x] /\ created'[x] = created[x]
                                      /\ shows'[x] = shows[x]
         /\ olLayer'[e] = <<e, created'[e]>> /\ olLayer'[e] = New(e)
         /\ created'[e] = created[e] + 1 /\ shows'[e] = look
<1>1. /\ olLayer' = [olLayer EXCEPT ![e] = New(e)]
      /\ created' = [created EXCEPT ![e] = created[e] + 1]
      /\ shows' = [shows EXCEPT ![e] = look]
  BY DEF Create
<1>2. /\ olLayer \in [Elements -> Layers \cup {Undefined}]
      /\ created \in [Elements -> Nat] /\ shows \in [Elements -> Look \cup {Undefined}]
  BY DEF Typed
<1>3. New(e) = <<e, created[e] + 1>>
  BY DEF New
<1> QED
  BY <1>1, <1>2, <1>3

LEMMA CreateNothingEffect ==
  ASSUME Typed, NEW e \in Elements, CreateNothing(e)
  PROVE  /\ olLayer' \in [Elements -> Layers \cup {Undefined}]
         /\ created' = created /\ shows' \in [Elements -> Look \cup {Undefined}]
         /\ \A x \in Elements \ {e} : olLayer'[x] = olLayer[x] /\ shows'[x] = shows[x]
         /\ olLayer'[e] = Undefined
  BY DEF CreateNothing, Typed

\* A source that is bound has a layer or none.  The properties are bare no more.
LEMMA BoundCreates ==
  ASSUME Typed, Shape, NEW e \in BoundElements, NEW p, p = properties[e],
         p \in Property, p.source # Undefined, p # seen[e], stage[e] = "live"
  PROVE  /\ created[e] + 1 + Owed(Project(p), p) <= 2 * (changes + 1)
         /\ created[e] + Owed(Project(p), p) <= 2 * (changes + 1)
         /\ Project(p) \in Property /\ Project(p) # Undefined
<1>1. /\ p.source \in Source /\ Project(p) \in Property /\ Project(p).source # Undefined
      /\ ~ Project(p).source.bare /\ (~ p.source.bare => Project(p) = p)
  BY PropertyFacts
<1>2. Owed(Project(p), p) \in {0, 1} /\ Owed(p, seen[e]) \in {1, 2}
  BY <1>1 DEF Owed
<1>3. Owed(Project(p), p) + 1 <= Owed(p, seen[e])
  <2>1. CASE p.source.bare
    <3>1. Owed(p, seen[e]) = 2
      BY <2>1 DEF Owed
    <3> QED
      BY <1>2, <3>1
  <2>2. CASE ~ p.source.bare
    <3>1. Owed(Project(p), p) = 0
      BY <1>1, <2>2 DEF Owed
    <3> QED
      BY <1>2, <3>1
  <2> QED
    BY <2>1, <2>2
<1>4. created[e] + Owed(p, seen[e]) <= 2 * (changes + 1)
  BY DEF Shape, BoundShape
<1>5. created[e] \in Nat /\ changes \in Nat
  BY DEF Typed, Elements
<1>6. Project(p) # Undefined
  BY <1>1, UndefinedAssumption
<1> QED
  BY <1>1, <1>2, <1>3, <1>4, <1>5, <1>6

\* What the first layer does to the collection.
LEMMA CreatesCollection ==
  ASSUME Typed, Shape, NEW e \in BoundElements, WatchCreates(e)
  PROVE  LET p == properties[e]
             created0 == CreateSource(p.source) # Undefined
             throws == p.index = Undefined /\ LookingThrows(layers)
         IN  /\ Collection' \in Collections
             /\ \/ Collection' = Collection /\ (throws \/ ~ created0)
                \/ created0 /\ ~ throws /\ Collection' = AddLayerBeforeMarkers(Collection, New(e))
                \/ /\ created0 /\ ~ throws /\ p.index \in Nat
                   /\ Collection' = InsertLayer(Collection, p.index, New(e))
                \/ /\ ~ created0 /\ p.index \in Nat /\ layers' = Pad(layers, p.index)
                   /\ index' = index
<1> DEFINE p == properties[e]
           created0 == CreateSource(p.source) # Undefined
           throws == p.index = Undefined /\ LookingThrows(layers)
<1>0. Fires(e)
  BY DEF WatchCreates
<1>1. p \in Property /\ New(e) \in Layers
  BY <1>0, FiresFacts
<1>2. p.index \in Nat \cup {Undefined} /\ Collection \in Collections
  BY <1>1 DEF Property, Typed
<1>3. CASE throws \/ (p.index = Undefined /\ ~ created0)
  <2>1. Collection' = Collection
    BY <1>3 DEF WatchCreates, collectionVars, Collection
  <2> QED
    BY <1>2, <1>3, <2>1
<1>4. CASE ~ throws /\ p.index = Undefined /\ created0
  <2>1. Keep(AddLayerBeforeMarkers(Collection, New(e)))
    BY <1>4 DEF WatchCreates
  <2>2. AddLayerBeforeMarkers(Collection, New(e)) \in Collections
    BY <1>1, <1>2, AddLayerBeforeMarkersType
  <2>3. Collection' = AddLayerBeforeMarkers(Collection, New(e))
    BY <2>1, <2>2, KeepIs
  <2> QED
    BY <1>4, <2>2, <2>3
<1>5. CASE p.index # Undefined /\ created0
  <2>1. Keep(InsertLayer(Collection, p.index, New(e)))
    BY <1>5 DEF WatchCreates
  <2>2. InsertLayer(Collection, p.index, New(e)) \in Collections
    BY <1>1, <1>2, InsertLayerType
  <2>3. Collection' = InsertLayer(Collection, p.index, New(e))
    BY <2>1, <2>2, KeepIs
  <2> QED
    BY <1>2, <1>5, <2>2, <2>3
<1>6. CASE p.index # Undefined /\ ~ created0
  <2>1. layers' = Pad(layers, p.index) /\ index' = index
    BY <1>6 DEF WatchCreates
  <2>2. layers \in Items /\ index \in Indexes /\ p.index \in Nat
    BY <1>2, <1>6 DEF Collection, Collections
  <2>3. Pad(layers, p.index) \in Items
    BY <2>2, PadEffect
  <2>4. Collection' \in Collections
    BY <2>1, <2>2, <2>3 DEF Collection, Collections
  <2> QED
    BY <1>6, <2>1, <2>2, <2>4
<1> QED
  BY <1>3, <1>4, <1>5, <1>6

LEMMA WatchCreatesStep ==
  ASSUME Typed, Shape, NEW e \in BoundElements, WatchCreates(e)
  PROVE  Typed' /\ Shape' /\ Only(e) /\ Shown(e)'
<1> DEFINE p == properties[e]
           created0 == CreateSource(p.source) # Undefined
           set == [CreateLayer(p.source) EXCEPT !.visible = p.visible,
                     !.opacity = IF p.opacity = 0 THEN 1 ELSE p.opacity]
           look == Styled(set, p.style)
           throws == p.index = Undefined /\ LookingThrows(layers)
           shown == IF throws THEN CreateLayer(p.source) ELSE look
<1>0. Fires(e)
  BY DEF WatchCreates
<1>1. /\ e \in Elements /\ e \in LayerElements /\ New(e) \in Layers
      /\ stage[e] = "live" /\ p \in Property /\ p # Undefined /\ p # seen[e]
      /\ seen' \in [BoundElements -> Property \cup {Undefined}]
      /\ seen'[e] = p /\ \A x \in BoundElements \ {e} : seen'[x] = seen[x]
  BY <1>0, FiresFacts
<1>2. /\ Complete(p) /\ olLayer[e] = Undefined
      /\ IF created0 THEN Create(e, shown) ELSE CreateNothing(e)
      /\ swallowed' = IF throws /\ created0 THEN swallowed \cup {e} ELSE swallowed
      /\ IF created0 /\ ~ throws THEN Listen(e, p.source) ELSE UNCHANGED listeners
      /\ properties' = [properties EXCEPT ![e] = Project(p)]
      /\ UNCHANGED <<stage, changes, markerVars>>
      /\ shifted' = (shifted \/ (throws /\ created0))
  BY DEF WatchCreates
<1>3. /\ p.source # Undefined /\ p.source \in Source
      /\ p.visible \in BOOLEAN /\ p.opacity \in {0, 1} /\ p.style \in Styles \cup {Undefined}
  BY <1>1, <1>2, PropertyFacts DEF Complete, Property
<1>4. /\ created[e] + 1 + Owed(Project(p), p) <= 2 * (changes + 1)
      /\ created[e] + Owed(Project(p), p) <= 2 * (changes + 1)
      /\ Project(p) \in Property /\ Project(p) # Undefined
  BY <1>1, <1>3, BoundCreates
<1>5. /\ CreateLayer(p.source) \in Look
      /\ CreateLayer(p.source).source = CreateSource(p.source)
      /\ CreateLayer(p.source).type = DetectLayerType(p.source)
      /\ CreateSource(p.source) \in {p.source, Undefined}
  BY <1>3, LookFacts
<1>6. /\ look \in Look /\ look.source = CreateSource(p.source)
      /\ look.type = DetectLayerType(p.source) /\ look.visible = p.visible
      /\ p.opacity # 0 => look.opacity = p.opacity
      /\ look.type = "Vector" => look.style = p.style
  <2>1. /\ set \in Look /\ set.source = CreateSource(p.source)
        /\ set.type = DetectLayerType(p.source) /\ set.visible = p.visible
        /\ p.opacity # 0 => set.opacity = p.opacity
    BY <1>3, <1>5 DEF Look
  <2> HIDE DEF set
  <2> QED
    BY <1>3, <2>1, StyledFacts
<1> HIDE DEF look
<1>7. shown \in Look /\ (~ throws => shown = look)
  BY <1>5, <1>6
<1> HIDE DEF shown, throws
<1>8. Collection' \in Collections
  BY CreatesCollection
<1>9. properties'[e] = Project(p) /\ \A x \in BoundElements \ {e} : properties'[x] = properties[x]
  BY <1>2 DEF Typed
<1>10. /\ properties' \in [BoundElements -> Property \cup {Undefined}]
       /\ \A x \in BoundElements \ {e} : x \in swallowed' <=> x \in swallowed
       /\ shifted' \in BOOLEAN
  BY <1>2, <1>4 DEF Typed
<1>11. BoundShape(e) /\ created[e] \in Nat /\ listeners[e] \in Nat /\ changes \in Nat
  BY <1>1 DEF Shape, Typed
<1>12. CASE created0
  <2>1. /\ olLayer' \in [Elements -> Layers \cup {Undefined}]
        /\ created' \in [Elements -> Nat] /\ shows' \in [Elements -> Look \cup {Undefined}]
        /\ \A x \in Elements \ {e} : /\ olLayer'[x] = olLayer[x] /\ created'[x] = created[x]
                                     /\ shows'[x] = shows[x]
        /\ olLayer'[e] = <<e, created'[e]>> /\ created'[e] = created[e] + 1 /\ shows'[e] = shown
    BY <1>1, <1>2, <1>7, <1>12, CreateEffect
  <2>2. /\ listeners' \in [LayerElements -> Nat]
        /\ \A x \in LayerElements \ {e} : listeners'[x] = listeners[x]
        /\ listeners'[e] = IF ~ throws /\ DetectLayerType(p.source) = "Vector"
                           THEN listeners[e] + 1 ELSE listeners[e]
    <3>1. CASE throws
      BY <1>2, <1>12, <3>1 DEF Typed
    <3>2. CASE ~ throws
      <4>1. Listen(e, p.source)
        BY <1>2, <1>12, <3>2
      <4> QED
        BY <1>1, <3>2, <4>1, ListenEffect
    <3> QED
      BY <3>1, <3>2
  <2>3. Typed'
    BY <1>1, <1>2, <1>8, <1>10, <2>1, <2>2 DEF Typed, markerVars
  <2>4. Only(e)
    BY <1>1, <1>2, <1>9, <1>10, <2>1, <2>2 DEF Only
  <2>5. listeners'[e] <= created'[e]
    BY <1>11, <2>1, <2>2 DEF BoundShape
  <2>6. BoundShape(e)'
    BY <1>1, <1>2, <1>4, <1>7, <1>9, <1>11, <2>1, <2>5 DEF BoundShape
  <2>7. Shape'
    <3>1. changes <= changes' /\ UNCHANGED markerVars
      BY <1>2, <1>11
    <3> QED
      BY <2>3, <2>4, <2>6, <3>1, BoundStepShape
  <2>8. Shown(e)'
    <3> SUFFICES ASSUME e \notin swallowed'
                 PROVE  /\ shows'[e].source = p.source
                        /\ shows'[e].type = "Vector" => listeners'[e] > 0
                        /\ created'[e] = 1 =>
                             /\ p.visible # Undefined => shows'[e].visible = p.visible
                             /\ p.opacity \notin {0, Undefined} => shows'[e].opacity = p.opacity
                             /\ p.style # Undefined /\ shows'[e].type = "Vector" =>
                                  shows'[e].style = p.style
      BY <1>1, <1>2 DEF Shown
    <3>1. ~ throws
      BY <1>2, <1>12
    <3>2. shows'[e] = look
      BY <1>7, <2>1, <3>1
    <3>3. shows'[e].type = "Vector" => listeners'[e] > 0
      BY <1>6, <1>11, <2>2, <3>1, <3>2
    <3> QED
      BY <1>5, <1>6, <1>12, <3>2, <3>3
  <2> QED
    BY <2>3, <2>4, <2>7, <2>8
<1>13. CASE ~ created0
  <2>1. /\ olLayer' \in [Elements -> Layers \cup {Undefined}]
        /\ created' = created /\ shows' \in [Elements -> Look \cup {Undefined}]
        /\ \A x \in Elements \ {e} : olLayer'[x] = olLayer[x] /\ shows'[x] = shows[x]
        /\ olLayer'[e] = Undefined /\ listeners' = listeners
    BY <1>1, <1>2, <1>13, CreateNothingEffect
  <2>2. Typed'
    BY <1>1, <1>2, <1>8, <1>10, <2>1 DEF Typed, markerVars
  <2>3. Only(e)
    BY <1>1, <1>2, <1>9, <1>10, <2>1 DEF Only
  <2>4. BoundShape(e)'
    BY <1>1, <1>2, <1>4, <1>9, <1>11, <2>1 DEF BoundShape
  <2>5. Shape'
    <3>1. changes <= changes' /\ UNCHANGED markerVars
      BY <1>2, <1>11
    <3> QED
      BY <2>2, <2>3, <2>4, <3>1, BoundStepShape
  <2>6. Shown(e)'
    BY <2>1 DEF Shown
  <2> QED
    BY <2>2, <2>3, <2>5, <2>6
<1> QED
  BY <1>12, <1>13

\* Where the layer goes that replaces another.
Replaced(e) ==
  InsertLayer(Without(Collection, index[olLayer[e]], olLayer[e]), index[olLayer[e]], New(e))

LEMMA ReplacedType ==
  ASSUME Typed, NEW e \in Elements, olLayer[e] \in Layers, New(e) \in Layers
  PROVE  Replaced(e) \in Collections
<1>1. Collection \in Collections /\ index[olLayer[e]] \in Nat \cup {Undefined}
  BY DEF Typed, Collection, Collections, Indexes
<1>2. Without(Collection, index[olLayer[e]], olLayer[e]) \in Collections
  BY <1>1, WithoutType
<1> QED
  BY <1>1, <1>2, InsertLayerType DEF Replaced

LEMMA WatchReplacesStep ==
  ASSUME Typed, Shape, NEW e \in BoundElements, WatchReplaces(e)
  PROVE  Typed' /\ Shape' /\ Only(e) /\ Shown(e)'
<1> DEFINE p == properties[e]
<1>0. Fires(e)
  BY DEF WatchReplaces
<1>1. /\ e \in Elements /\ e \in LayerElements /\ New(e) \in Layers
      /\ New(e) = <<e, created[e] + 1>>
      /\ stage[e] = "live" /\ p \in Property /\ p # Undefined /\ p # seen[e]
      /\ seen' \in [BoundElements -> Property \cup {Undefined}]
      /\ seen'[e] = p /\ \A x \in BoundElements \ {e} : seen'[x] = seen[x]
  BY <1>0, FiresFacts
<1>2. /\ Complete(p) /\ olLayer[e] # Undefined /\ CreateSource(p.source) # Undefined
      /\ olLayer' = [olLayer EXCEPT ![e] = New(e)]
      /\ created' = [created EXCEPT ![e] = created[e] + 1]
      /\ Adjust(e, Replaced(e), New(e), CreateLayer(p.source))
      /\ Listen(e, p.source)
      /\ properties' = [properties EXCEPT ![e] = Project(p)]
      /\ swallowed' = swallowed \ {e}
      /\ UNCHANGED <<stage, changes, markerVars>>
  BY DEF WatchReplaces, Replaced, Without
<1>3. p.source # Undefined /\ p.source \in Source
  BY <1>1, <1>2, PropertyFacts DEF Complete
<1>4. /\ created[e] + 1 + Owed(Project(p), p) <= 2 * (changes + 1)
      /\ Project(p) \in Property /\ Project(p) # Undefined
  BY <1>1, <1>3, BoundCreates
<1>5. /\ CreateLayer(p.source) \in Look
      /\ CreateLayer(p.source).source = p.source
      /\ CreateLayer(p.source).type = DetectLayerType(p.source)
  BY <1>2, <1>3, LookFacts
<1>6. BoundShape(e) /\ created[e] \in Nat /\ listeners[e] \in Nat /\ changes \in Nat
  BY <1>1 DEF Shape, Typed
<1>7. olLayer[e] \in Layers
  BY <1>1, <1>2 DEF Typed
<1>8. Replaced(e) \in Collections
  BY <1>1, <1>7, ReplacedType
<1>9. /\ Collection' \in Collections
      /\ shows' \in [Elements -> Look \cup {Undefined}]
      /\ \A x \in Elements \ {e} : shows'[x] = shows[x]
      /\ shows'[e] \in Look
      /\ shows'[e].source = p.source /\ shows'[e].type = DetectLayerType(p.source)
  BY <1>1, <1>2, <1>5, <1>8, AdjustEffect
<1>10. /\ olLayer' \in [Elements -> Layers \cup {Undefined}] /\ created' \in [Elements -> Nat]
       /\ \A x \in Elements \ {e} : olLayer'[x] = olLayer[x] /\ created'[x] = created[x]
       /\ olLayer'[e] = <<e, created[e] + 1>> /\ created'[e] = created[e] + 1
  BY <1>1, <1>2, <1>6 DEF Typed
<1>11. /\ listeners' \in [LayerElements -> Nat]
       /\ \A x \in LayerElements \ {e} : listeners'[x] = listeners[x]
       /\ listeners'[e] = IF DetectLayerType(p.source) = "Vector"
                          THEN listeners[e] + 1 ELSE listeners[e]
  BY <1>1, <1>2, ListenEffect
<1>12. /\ properties' \in [BoundElements -> Property \cup {Undefined}]
       /\ properties'[e] = Project(p)
       /\ \A x \in BoundElements \ {e} : properties'[x] = properties[x]
  BY <1>2, <1>4 DEF Typed
<1>13. shifted' \in BOOLEAN
  BY DEF WatchReplaces
<1>14. Typed'
  BY <1>1, <1>2, <1>9, <1>10, <1>11, <1>12, <1>13 DEF Typed, markerVars
<1>15. Only(e)
  BY <1>1, <1>2, <1>9, <1>10, <1>11, <1>12 DEF Only
<1>16. BoundShape(e)'
  <2>1. listeners'[e] <= created'[e]
    BY <1>6, <1>10, <1>11 DEF BoundShape
  <2> QED
    BY <1>1, <1>2, <1>4, <1>6, <1>9, <1>10, <1>12, <2>1 DEF BoundShape
<1>17. Shape'
  <2>1. changes <= changes' /\ UNCHANGED markerVars
    BY <1>2, <1>6
  <2> QED
    BY <1>14, <1>15, <1>16, <2>1, BoundStepShape
<1>18. Shown(e)'
  <2>1. created'[e] # 1
    <3>1. created[e] # 0
      BY <1>2, <1>6, <1>7 DEF BoundShape, Layers
    <3> QED
      BY <1>6, <1>10, <3>1
  <2>2. shows'[e].type = "Vector" => listeners'[e] > 0
    BY <1>6, <1>9, <1>11
  <2> QED
    BY <1>1, <1>9, <2>1, <2>2 DEF Shown
<1> QED
  BY <1>14, <1>15, <1>17, <1>18

LEMMA WatchLosesStep ==
  ASSUME Typed, Shape, NEW e \in BoundElements, WatchLoses(e)
  PROVE  /\ Typed' /\ Shape' /\ Only(e) /\ Shown(e)'
         /\ Collection' = Without(Collection, index[olLayer[e]], olLayer[e])
<1> DEFINE p == properties[e]
           i == index[olLayer[e]]
<1>0. Fires(e)
  BY DEF WatchLoses
<1>1. /\ e \in Elements /\ e \in LayerElements
      /\ stage[e] = "live" /\ p \in Property /\ p # Undefined /\ p # seen[e]
      /\ seen' \in [BoundElements -> Property \cup {Undefined}]
      /\ seen'[e] = p /\ \A x \in BoundElements \ {e} : seen'[x] = seen[x]
  BY <1>0, FiresFacts
<1>2. /\ olLayer[e] # Undefined /\ CreateNothing(e)
      /\ Keep(Without(Collection, i, olLayer[e]))
      /\ UNCHANGED <<stage, properties, changes, listeners, markerVars, swallowed>>
  BY DEF WatchLoses, Without, elementVars
<1>3. Collection \in Collections /\ olLayer[e] \in Layers /\ i \in Nat \cup {Undefined}
  BY <1>1, <1>2 DEF Typed, Collection, Collections, Indexes
<1>4. Without(Collection, i, olLayer[e]) \in Collections
  BY <1>3, WithoutType
<1>5. Collection' = Without(Collection, i, olLayer[e])
  BY <1>2, <1>4, KeepIs
<1>6. /\ olLayer' \in [Elements -> Layers \cup {Undefined}]
      /\ created' = created /\ shows' \in [Elements -> Look \cup {Undefined}]
      /\ \A x \in Elements \ {e} : olLayer'[x] = olLayer[x] /\ shows'[x] = shows[x]
      /\ olLayer'[e] = Undefined
  BY <1>1, <1>2, CreateNothingEffect
<1>7. shifted' \in BOOLEAN
  BY DEF WatchLoses
<1>8. Collection' \in Collections
  BY <1>4, <1>5
<1>9. Typed'
  BY <1>1, <1>2, <1>6, <1>7, <1>8 DEF Typed, markerVars
<1>10. Only(e)
  BY <1>1, <1>2, <1>6 DEF Only
<1>11. BoundShape(e)'
  <2>1. BoundShape(e) /\ created[e] \in Nat /\ changes \in Nat
    BY <1>1 DEF Shape, Typed
  <2>2. Owed(p, p) = 0 /\ Owed(p, seen[e]) \in {0, 1, 2}
    BY DEF Owed
  <2>3. created[e] + 0 <= 2 * (changes + 1)
    BY <2>1, <2>2 DEF BoundShape
  <2> QED
    BY <1>1, <1>2, <1>6, <2>1, <2>2, <2>3 DEF BoundShape
<1>12. Shape'
  <2>1. changes <= changes' /\ UNCHANGED markerVars
    BY <1>2 DEF Typed
  <2> QED
    BY <1>9, <1>10, <1>11, <2>1, BoundStepShape
<1>13. Shown(e)'
  BY <1>6 DEF Shown
<1> QED
  BY <1>5, <1>9, <1>10, <1>12, <1>13

LEMMA WatchThrowsStep ==
  ASSUME Typed, Shape, NEW e \in BoundElements, WatchThrows(e)
  PROVE  Typed' /\ Shape' /\ Only(e) /\ Shown(e)'
<1> DEFINE p == properties[e]
<1>0. Fires(e)
  BY DEF WatchThrows
<1>1. /\ e \in Elements /\ e \in LayerElements
      /\ stage[e] = "live" /\ p \in Property /\ p # Undefined /\ p # seen[e]
      /\ seen' \in [BoundElements -> Property \cup {Undefined}]
      /\ seen'[e] = p /\ \A x \in BoundElements \ {e} : seen'[x] = seen[x]
  BY <1>0, FiresFacts
<1>2. /\ UNCHANGED <<stage, properties, changes, olLayer, created, index, shows, listeners,
                     markerVars>>
      /\ \/ olLayer[e] = Undefined /\ UNCHANGED <<layers, shifted, swallowed>>
         \/ /\ olLayer[e] # Undefined /\ layers' = Cut(layers, index[olLayer[e]])
            /\ shifted' = TRUE /\ swallowed' = swallowed \cup {e}
  BY DEF WatchThrows, elementVars
<1>3. /\ Collection \in Collections /\ layers \in Items /\ index \in Indexes
      /\ olLayer[e] # Undefined => index[olLayer[e]] \in Nat \cup {Undefined}
  BY <1>1 DEF Typed, Collection, Collections, Indexes
<1>4. layers' \in Items
  BY <1>2, <1>3, CutEffect
<1>5. Collection' \in Collections
  BY <1>2, <1>3, <1>4 DEF Collection, Collections
<1>6. /\ \A x \in BoundElements \ {e} : x \in swallowed' <=> x \in swallowed
      /\ shifted' \in BOOLEAN
  BY <1>2 DEF Typed
<1>7. Typed'
  BY <1>1, <1>2, <1>5, <1>6 DEF Typed, markerVars
<1>8. Only(e)
  BY <1>1, <1>2, <1>6 DEF Only
<1>9. BoundShape(e)'
  <2>1. BoundShape(e) /\ created[e] \in Nat /\ changes \in Nat
    BY <1>1 DEF Shape, Typed
  <2>2. Owed(p, p) = 0 /\ Owed(p, seen[e]) \in {0, 1, 2}
    BY DEF Owed
  <2>3. created[e] + 0 <= 2 * (changes + 1)
    BY <2>1, <2>2 DEF BoundShape
  <2> QED
    BY <1>1, <1>2, <2>1, <2>2, <2>3 DEF BoundShape
<1>10. Shape'
  <2>1. changes <= changes' /\ UNCHANGED markerVars
    BY <1>2 DEF Typed
  <2> QED
    BY <1>7, <1>8, <1>9, <2>1, BoundStepShape
<1>11. Shown(e)'
  BY <1>2 DEF Shown
<1> QED
  BY <1>7, <1>8, <1>10, <1>11

\* What stays of the collection when an ol-layer element is destroyed.
Destroyed(l) ==
  [Forget(RemoveLayer(Collection, index[l]), l) EXCEPT !.layers = RemoveFirst(@, l)]

LEMMA DestroyedType ==
  ASSUME Typed, NEW l \in Layers
  PROVE  Destroyed(l) \in Collections
<1> DEFINE d == RemoveLayer(Collection, index[l])
<1>1. Collection \in Collections /\ index[l] \in Nat \cup {Undefined}
  BY DEF Typed, Collection, Collections, Indexes
<1>2. d \in Collections
  BY <1>1, RemoveLayerType
<1> HIDE DEF d
<1>3. d.layers \in Items /\ d.index \in Indexes
  BY <1>2 DEF Collections
<1>4. RemoveFirst(d.layers, l) \in Items
  BY <1>3, RemoveFirstEffect
<1>5. [d.index EXCEPT ![l] = Undefined] \in Indexes
  BY <1>3 DEF Indexes
<1>6. Forget(d, l) = [layers |-> d.layers, index |-> [d.index EXCEPT ![l] = Undefined]]
  BY <1>2 DEF Forget, Collections
<1>7. [Forget(d, l) EXCEPT !.layers = RemoveFirst(@, l)] =
        [layers |-> RemoveFirst(d.layers, l), index |-> [d.index EXCEPT ![l] = Undefined]]
  BY <1>6
<1>8. [Forget(d, l) EXCEPT !.layers = RemoveFirst(@, l)] \in Collections
  BY <1>4, <1>5, <1>7 DEF Collections
<1> QED
  BY <1>8 DEF Destroyed, d

LEMMA DestroyLayerStep ==
  ASSUME Typed, Shape, NEW e \in LayerElements, DestroyLayer(e)
  PROVE  /\ Typed' /\ Only(e) /\ olLayer'[e] = Undefined /\ stage'[e] = "gone"
         /\ created' = created
         /\ UNCHANGED <<changes, listeners, markerVars, shifted>>
         /\ e \in BoundElements => properties'[e] = Undefined /\ seen'[e] = Undefined
         /\ IF olLayer[e] = Undefined THEN Collection' = Collection
            ELSE Collection' = Destroyed(olLayer[e])
<1> DEFINE l == olLayer[e]
<1>1. e \in Elements
  BY DEF LayerElements, Elements
<1>2. /\ stage[e] = "live" /\ stage' = [stage EXCEPT ![e] = "gone"]
      /\ CreateNothing(e)
      /\ properties' = [x \in BoundElements |-> IF x = e THEN Undefined ELSE properties[x]]
      /\ seen' = [x \in BoundElements |-> IF x = e THEN Undefined ELSE seen[x]]
      /\ UNCHANGED <<changes, listeners, markerVars, shifted, swallowed>>
      /\ IF l = Undefined THEN UNCHANGED collectionVars ELSE Keep(Destroyed(l))
  BY DEF DestroyLayer, Disappear, Destroyed
<1>3. /\ olLayer' \in [Elements -> Layers \cup {Undefined}]
      /\ created' = created /\ shows' \in [Elements -> Look \cup {Undefined}]
      /\ \A x \in Elements \ {e} : olLayer'[x] = olLayer[x] /\ shows'[x] = shows[x]
      /\ olLayer'[e] = Undefined
  BY <1>1, <1>2, CreateNothingEffect
<1>4. /\ Collection' \in Collections
      /\ IF l = Undefined THEN Collection' = Collection ELSE Collection' = Destroyed(l)
  <2>1. CASE l = Undefined
    BY <1>2, <2>1 DEF Typed, Collection, collectionVars
  <2>2. CASE l # Undefined
    <3>1. l \in Layers
      BY <1>1, <2>2 DEF Typed
    <3>2. Destroyed(l) \in Collections
      BY <3>1, DestroyedType
    <3> QED
      BY <1>2, <2>2, <3>2, KeepIs
  <2> QED
    BY <2>1, <2>2
<1>5. /\ properties' \in [BoundElements -> Property \cup {Undefined}]
      /\ seen' \in [BoundElements -> Property \cup {Undefined}]
      /\ \A x \in BoundElements \ {e} : properties'[x] = properties[x] /\ seen'[x] = seen[x]
      /\ e \in BoundElements => properties'[e] = Undefined /\ seen'[e] = Undefined
  BY <1>2 DEF Typed
<1>6. /\ stage' \in [Elements -> {"absent", "live", "gone"}] /\ stage'[e] = "gone"
      /\ \A x \in Elements \ {e} : stage'[x] = stage[x]
  BY <1>1, <1>2 DEF Typed
<1>7. Typed'
  BY <1>2, <1>3, <1>4, <1>5, <1>6 DEF Typed, markerVars
<1>8. Only(e)
  BY <1>2, <1>3, <1>5, <1>6 DEF Only
<1> QED
  BY <1>2, <1>3, <1>4, <1>5, <1>6, <1>7, <1>8

LEMMA DestroyLayerShape ==
  ASSUME Typed, Shape, NEW e \in LayerElements, DestroyLayer(e)
  PROVE  Shape'
<1>1. /\ Typed' /\ Only(e) /\ olLayer'[e] = Undefined /\ stage'[e] = "gone"
      /\ created' = created
      /\ UNCHANGED <<changes, listeners, markerVars, shifted>>
      /\ e \in BoundElements => properties'[e] = Undefined /\ seen'[e] = Undefined
  BY DestroyLayerStep
<1>2. e \in Elements /\ e \notin MarkerElements /\ e \notin PathElements
  BY ElementsAssumption DEF LayerElements, Elements
<1>3. changes \in Nat /\ changes <= changes' /\ created[e] \in Nat
  BY <1>1, <1>2 DEF Typed
<1>4. MarkersShape'
  <2>1. UNCHANGED markerVars
    BY <1>1
  <2> QED
    BY <1>1, <1>2, <2>1, MarkersStay
<1>5. /\ \A x \in BoundElements \ {e} : BoundShape(x)'
      /\ \A x \in StaticElements \ {e} : StaticShape(x)'
      /\ \A x \in PathElements \ {e} : PathShape(x)'
  BY <1>1, <1>2, <1>3, OthersShape
<1>6. CASE e \in BoundElements
  <2>1. BoundShape(e)
    BY <1>6 DEF Shape
  <2>2. Owed(Undefined, Undefined) = 0 /\ Owed(properties[e], seen[e]) \in {0, 1, 2}
    BY DEF Owed
  <2>3. created[e] + 0 <= 2 * (changes + 1)
    BY <1>3, <2>1, <2>2 DEF BoundShape
  <2>4. BoundShape(e)'
    BY <1>1, <1>6, <2>1, <2>2, <2>3 DEF BoundShape
  <2>5. e \notin StaticElements
    BY <1>6, ElementsAssumption
  <2> QED
    BY <1>2, <1>4, <1>5, <2>4, <2>5 DEF Shape
<1>7. CASE e \in StaticElements
  <2>1. StaticShape(e)
    BY <1>7 DEF Shape
  <2>2. StaticShape(e)'
    BY <1>1, <2>1 DEF StaticShape
  <2>3. e \notin BoundElements
    BY <1>7, ElementsAssumption
  <2> QED
    BY <1>2, <1>4, <1>5, <2>2, <2>3 DEF Shape
<1> QED
  BY <1>6, <1>7 DEF LayerElements

\* The only layer of an element that is not bound.
LEMMA NewFacts ==
  ASSUME Typed, Shape, NEW e \in Elements, e \notin BoundElements, stage[e] = "absent"
  PROVE  created[e] = 0 /\ New(e) \in Layers /\ New(e) = <<e, 1>>
<1>1. created[e] = 0
  <2>1. CASE e \in StaticElements
    BY <2>1 DEF Shape, StaticShape
  <2>2. CASE e \in PathElements
    BY <2>2 DEF Shape, PathShape
  <2>3. CASE e \in MarkerElements
    BY <2>3 DEF Shape, MarkersShape
  <2> QED
    BY <2>1, <2>2, <2>3 DEF Elements
<1>2. New(e) = <<e, 1>>
  BY <1>1 DEF New
<1> QED
  BY <1>1, <1>2 DEF Layers

LEMMA LinkStaticStep ==
  ASSUME Typed, Shape, NEW e \in StaticElements, LinkStatic(e)
  PROVE  /\ Typed' /\ Shape' /\ Only(e) /\ UNCHANGED markerVars
         /\ \/ olLayer'[e] = Undefined /\ Collection' = Collection
            \/ olLayer'[e] = New(e) /\ Collection' = Collection /\ shifted'
            \/ olLayer'[e] = New(e) /\ Collection' = AddLayerBeforeMarkers(Collection, New(e))
<1>0. PICK p \in PropertyValues :
        /\ p.source # Undefined
        /\ IF CreateSource(p.source) = Undefined
           THEN CreateNothing(e) /\ UNCHANGED collectionVars
           ELSE /\ Create(e, CreateLayer(p.source))
                /\ IF LookingThrows(layers) THEN UNCHANGED collectionVars
                   ELSE Keep(AddLayerBeforeMarkers(Collection, New(e)))
        /\ shifted' = (shifted \/ (CreateSource(p.source) # Undefined /\ LookingThrows(layers)))
        /\ Listen(e, p.source)
  BY DEF LinkStatic
<1>1. /\ e \in Elements /\ e \in LayerElements /\ e \notin BoundElements
      /\ e \notin MarkerElements /\ e \notin PathElements
  BY ElementsAssumption DEF Elements, LayerElements
<1>2. /\ stage[e] = "absent" /\ stage' = [stage EXCEPT ![e] = "live"]
      /\ UNCHANGED <<properties, changes, seen, markerVars, swallowed>>
  BY DEF LinkStatic, Appear
<1>3. created[e] = 0 /\ New(e) \in Layers /\ New(e) = <<e, 1>>
  BY <1>1, <1>2, NewFacts
<1>4. p.source \in Source
  BY <1>0, PropertiesAssumption, PropertyFacts
<1>5. CreateLayer(p.source) \in Look
  BY <1>4, LookFacts
<1>6. /\ listeners' \in [LayerElements -> Nat]
      /\ \A x \in LayerElements \ {e} : listeners'[x] = listeners[x]
      /\ listeners'[e] \in {listeners[e], listeners[e] + 1}
  BY <1>0, <1>1, ListenEffect
<1>7. /\ stage' \in [Elements -> {"absent", "live", "gone"}] /\ stage'[e] = "live"
      /\ \A x \in Elements \ {e} : stage'[x] = stage[x]
  BY <1>1, <1>2 DEF Typed
<1>8. /\ olLayer' \in [Elements -> Layers \cup {Undefined}]
      /\ created' \in [Elements -> Nat] /\ shows' \in [Elements -> Look \cup {Undefined}]
      /\ \A x \in Elements \ {e} : /\ olLayer'[x] = olLayer[x] /\ created'[x] = created[x]
                                   /\ shows'[x] = shows[x]
      /\ olLayer'[e] \in {Undefined, <<e, created'[e]>>} /\ created'[e] <= 1
      /\ Collection' \in Collections
      /\ \/ olLayer'[e] = Undefined /\ Collection' = Collection
         \/ olLayer'[e] = New(e) /\ Collection' = Collection /\ shifted'
         \/ olLayer'[e] = New(e) /\ Collection' = AddLayerBeforeMarkers(Collection, New(e))
  <2>0. Collection \in Collections
    BY DEF Typed
  <2>1. CASE CreateSource(p.source) = Undefined
    <3>1. CreateNothing(e)
      BY <1>0, <2>1
    <3>2. Collection' = Collection
      BY <1>0, <2>1 DEF collectionVars, Collection
    <3>3. /\ olLayer' \in [Elements -> Layers \cup {Undefined}]
          /\ created' = created /\ shows' \in [Elements -> Look \cup {Undefined}]
          /\ \A x \in Elements \ {e} : olLayer'[x] = olLayer[x] /\ shows'[x] = shows[x]
          /\ olLayer'[e] = Undefined
      BY <1>1, <3>1, CreateNothingEffect
    <3>4. created \in [Elements -> Nat] /\ created[e] <= 1
      BY <1>3 DEF Typed
    <3> QED
      BY <2>0, <3>2, <3>3, <3>4
  <2>2. CASE CreateSource(p.source) # Undefined
    <3>1. Create(e, CreateLayer(p.source))
      BY <1>0, <2>2
    <3>2. /\ olLayer' \in [Elements -> Layers \cup {Undefined}]
          /\ created' \in [Elements -> Nat] /\ shows' \in [Elements -> Look \cup {Undefined}]
          /\ \A x \in Elements \ {e} : /\ olLayer'[x] = olLayer[x] /\ created'[x] = created[x]
                                       /\ shows'[x] = shows[x]
          /\ olLayer'[e] = <<e, created'[e]>> /\ olLayer'[e] = New(e)
          /\ created'[e] = created[e] + 1
      BY <1>1, <1>3, <1>5, <3>1, CreateEffect
    <3>3. created'[e] <= 1
      BY <1>3, <3>2
    <3>4. CASE LookingThrows(layers)
      <4>1. Collection' = Collection
        BY <1>0, <2>2, <3>4 DEF collectionVars, Collection
      <4>2. shifted'
        BY <1>0, <2>2, <3>4
      <4> QED
        BY <2>0, <3>2, <3>3, <4>1, <4>2
    <3>5. CASE ~ LookingThrows(layers)
      <4>1. Keep(AddLayerBeforeMarkers(Collection, New(e)))
        BY <1>0, <2>2, <3>5
      <4>2. AddLayerBeforeMarkers(Collection, New(e)) \in Collections
        BY <1>3, <2>0, AddLayerBeforeMarkersType
      <4>3. Collection' = AddLayerBeforeMarkers(Collection, New(e))
        BY <4>1, <4>2, KeepIs
      <4> QED
        BY <3>2, <3>3, <4>2, <4>3
    <3> QED
      BY <3>4, <3>5
  <2> QED
    BY <2>1, <2>2
<1>9. shifted' \in BOOLEAN
  BY <1>0
<1>10. Typed'
  BY <1>2, <1>6, <1>7, <1>8, <1>9 DEF Typed, markerVars
<1>11. Only(e)
  BY <1>2, <1>6, <1>7, <1>8 DEF Only
<1>12. StaticShape(e)'
  <2>1. listeners[e] = 0
    BY <1>2 DEF Shape, StaticShape
  <2>2. listeners'[e] <= 1
    BY <1>6, <2>1
  <2> QED
    BY <1>7, <1>8, <2>2 DEF StaticShape
<1>13. Shape'
  <2>1. changes <= changes'
    BY <1>2 DEF Typed
  <2>2. MarkersShape'
    BY <1>1, <1>2, <1>11, MarkersStay
  <2>3. /\ \A x \in BoundElements \ {e} : BoundShape(x)'
        /\ \A x \in StaticElements \ {e} : StaticShape(x)'
        /\ \A x \in PathElements \ {e} : PathShape(x)'
    BY <1>1, <1>10, <1>11, <2>1, OthersShape
  <2> QED
    BY <1>1, <1>12, <2>2, <2>3 DEF Shape
<1> QED
  BY <1>2, <1>8, <1>10, <1>11, <1>13

LEMMA PathStep ==
  ASSUME Typed, Shape, NEW e \in PathElements, LinkPath(e) \/ DestroyPath(e)
  PROVE  /\ Typed' /\ Shape' /\ Only(e) /\ UNCHANGED <<markerVars, shifted>>
         /\ \/ UNCHANGED <<olLayer, created, collectionVars>>
            \/ /\ stage[e] = "absent" /\ olLayer'[e] = New(e)
               /\ layers' = Append(layers, New(e)) /\ index' = index
<1>1. /\ e \in Elements /\ e \notin BoundElements /\ e \notin MarkerElements
      /\ e \notin StaticElements /\ e \notin LayerElements
  BY ElementsAssumption DEF Elements, LayerElements
<1>2. Typed' /\ Only(e) /\ PathShape(e)' /\ UNCHANGED <<changes, markerVars, shifted>>
      /\ \/ UNCHANGED <<olLayer, created, collectionVars>>
         \/ /\ stage[e] = "absent" /\ olLayer'[e] = New(e)
            /\ layers' = Append(layers, New(e)) /\ index' = index
  <2>1. CASE LinkPath(e)
    <3>1. /\ stage[e] = "absent" /\ stage' = [stage EXCEPT ![e] = "live"]
          /\ Create(e, VectorLayer) /\ layers' = Append(layers, New(e))
          /\ UNCHANGED <<properties, changes, seen, index, listeners, markerVars, shifted,
                         swallowed>>
      BY <2>1 DEF LinkPath, Appear
    <3>2. created[e] = 0 /\ New(e) \in Layers
      BY <1>1, <3>1, NewFacts
    <3>3. VectorLayer \in Look
      BY DEF VectorLayer, Look
    <3>4. /\ olLayer' \in [Elements -> Layers \cup {Undefined}]
          /\ created' \in [Elements -> Nat] /\ shows' \in [Elements -> Look \cup {Undefined}]
          /\ \A x \in Elements \ {e} : /\ olLayer'[x] = olLayer[x] /\ created'[x] = created[x]
                                       /\ shows'[x] = shows[x]
          /\ olLayer'[e] = <<e, created'[e]>> /\ olLayer'[e] = New(e)
          /\ created'[e] = created[e] + 1
      BY <1>1, <3>1, <3>2, <3>3, CreateEffect
    <3>5. Collection' \in Collections
      <4>1. layers \in Items /\ index \in Indexes
        BY DEF Typed, Collection, Collections
      <4>2. Append(layers, New(e)) \in Items
        BY <3>2, <4>1 DEF Items
      <4> QED
        BY <3>1, <4>1, <4>2 DEF Collection, Collections
    <3>6. /\ stage' \in [Elements -> {"absent", "live", "gone"}] /\ stage'[e] = "live"
          /\ \A x \in Elements \ {e} : stage'[x] = stage[x]
      BY <1>1, <3>1 DEF Typed
    <3>7. Typed'
      BY <3>1, <3>4, <3>5, <3>6 DEF Typed, markerVars
    <3>8. Only(e)
      BY <3>1, <3>4, <3>6 DEF Only
    <3>9. PathShape(e)'
      <4>1. created'[e] <= 1
        BY <3>2, <3>4
      <4> QED
        BY <3>4, <3>6, <4>1 DEF PathShape
    <3> QED
      BY <3>1, <3>4, <3>7, <3>8, <3>9
  <2>2. CASE DestroyPath(e)
    <3>1. /\ stage[e] = "live" /\ stage' = [stage EXCEPT ![e] = "gone"]
          /\ UNCHANGED <<properties, changes, seen, olLayer, created, shows, listeners,
                         markerVars, shifted, swallowed>>
          /\ UNCHANGED collectionVars
      BY <2>2 DEF DestroyPath, Disappear
    <3>2. /\ stage' \in [Elements -> {"absent", "live", "gone"}] /\ stage'[e] = "gone"
          /\ \A x \in Elements \ {e} : stage'[x] = stage[x]
      BY <1>1, <3>1 DEF Typed
    <3>3. Collection' = Collection
      BY <3>1 DEF collectionVars, Collection
    <3>4. Typed'
      BY <3>1, <3>2, <3>3 DEF Typed, markerVars
    <3>5. Only(e)
      BY <3>1, <3>2 DEF Only
    <3>6. PathShape(e)'
      BY <3>1, <3>2 DEF Shape, PathShape
    <3> QED
      BY <3>1, <3>4, <3>5, <3>6
  <2> QED
    BY <2>1, <2>2
<1>3. Shape'
  <2>1. changes <= changes' /\ UNCHANGED markerVars
    BY <1>2 DEF Typed
  <2>2. MarkersShape'
    BY <1>1, <1>2, <2>1, MarkersStay
  <2>3. /\ \A x \in BoundElements \ {e} : BoundShape(x)'
        /\ \A x \in StaticElements \ {e} : StaticShape(x)'
        /\ \A x \in PathElements \ {e} : PathShape(x)'
    BY <1>1, <1>2, <2>1, OthersShape
  <2> QED
    BY <1>1, <1>2, <2>2, <2>3 DEF Shape
<1> QED
  BY <1>2, <1>3

LEMMA LinkMarkerStep ==
  ASSUME Typed, Shape, NEW e \in MarkerElements, LinkMarker(e)
  PROVE  /\ Typed' /\ Shape' /\ Only(e) /\ UNCHANGED <<index, shifted>>
         /\ \/ markerLayer # Undefined /\ UNCHANGED <<layers, markerLayer>>
            \/ /\ markerLayer = Undefined /\ markerLayer' = New(e) /\ stage[e] = "absent"
               /\ layers' = Append(layers, New(e))
<1>1. /\ e \in Elements /\ e \notin BoundElements /\ e \notin PathElements
      /\ e \notin StaticElements /\ e \notin LayerElements
  BY ElementsAssumption DEF Elements, LayerElements
<1>2. /\ stage[e] = "absent" /\ stage' = [stage EXCEPT ![e] = "live"]
      /\ scopes' = scopes \cup {e}
      /\ UNCHANGED <<properties, changes, seen, index, listeners, shifted, swallowed>>
  BY DEF LinkMarker, Appear
<1>3. created[e] = 0 /\ New(e) \in Layers /\ New(e) = <<e, 1>> /\ New(e) # Undefined
  BY <1>1, <1>2, NewFacts, UndefinedAssumption
<1>4. /\ stage' \in [Elements -> {"absent", "live", "gone"}] /\ stage'[e] = "live"
      /\ \A x \in Elements \ {e} : stage'[x] = stage[x]
  BY <1>1, <1>2 DEF Typed
<1>5. layers \in Items /\ index \in Indexes
  BY DEF Typed, Collection, Collections
<1>6. MarkersShape
  BY DEF Shape
<1>7. \A x \in MarkerElements : x \in Elements
  BY DEF Elements
<1>8. scopes' = {x \in MarkerElements : stage'[x] = "live"}
  <2>1. \A x \in MarkerElements : stage'[x] = "live" <=> x = e \/ stage[x] = "live"
    BY <1>4, <1>7
  <2> QED
    BY <1>2, <1>6, <2>1 DEF MarkersShape
<1>9. /\ Typed' /\ Only(e) /\ MarkersShape'
      /\ \/ markerLayer # Undefined /\ UNCHANGED <<layers, markerLayer>>
         \/ /\ markerLayer = Undefined /\ markerLayer' = New(e)
            /\ layers' = Append(layers, New(e))
  <2>1. CASE markerLayer = Undefined
    <3>1. /\ Create(e, VectorLayer) /\ layers' = Append(layers, New(e))
          /\ markerLayer' = New(e)
      BY <2>1 DEF LinkMarker
    <3>2. VectorLayer \in Look
      BY DEF VectorLayer, Look
    <3>3. /\ olLayer' \in [Elements -> Layers \cup {Undefined}]
          /\ created' \in [Elements -> Nat] /\ shows' \in [Elements -> Look \cup {Undefined}]
          /\ \A x \in Elements \ {e} : /\ olLayer'[x] = olLayer[x] /\ created'[x] = created[x]
                                       /\ shows'[x] = shows[x]
          /\ created'[e] = created[e] + 1
      BY <1>1, <1>3, <3>1, <3>2, CreateEffect
    <3>4. Collection' \in Collections
      <4>1. Append(layers, New(e)) \in Items
        BY <1>3, <1>5 DEF Items
      <4> QED
        BY <1>2, <1>5, <3>1, <4>1 DEF Collection, Collections
    <3>5. scopes' \subseteq MarkerElements /\ markerLayer' \in Layers
      BY <1>2, <1>3, <3>1 DEF Typed
    <3>6. Typed'
      BY <1>2, <1>4, <3>3, <3>4, <3>5 DEF Typed
    <3>7. Only(e)
      BY <1>2, <1>4, <3>3 DEF Only
    <3>8. created'[e] = 1
      BY <1>3, <3>3
    <3>9. ASSUME NEW x \in MarkerElements
          PROVE  created'[x] <= 1 /\ (stage'[x] = "absent" => created'[x] = 0)
      BY <1>4, <1>6, <1>7, <3>3, <3>8 DEF MarkersShape
    <3>10. MarkersShape'
      BY <1>2, <1>3, <1>8, <3>1, <3>8, <3>9 DEF MarkersShape
    <3> QED
      BY <2>1, <3>1, <3>6, <3>7, <3>10
  <2>2. CASE markerLayer # Undefined
    <3>1. /\ olLayer' = [olLayer EXCEPT ![e] = markerLayer]
          /\ UNCHANGED <<created, shows, layers, markerLayer>>
      BY <2>2 DEF LinkMarker
    <3>2. /\ olLayer' \in [Elements -> Layers \cup {Undefined}]
          /\ \A x \in Elements \ {e} : olLayer'[x] = olLayer[x]
      BY <1>1, <3>1 DEF Typed
    <3>3. Collection' = Collection /\ scopes' \subseteq MarkerElements
      BY <1>2, <3>1 DEF Collection, Typed
    <3>4. Typed'
      BY <1>2, <1>4, <3>1, <3>2, <3>3 DEF Typed
    <3>5. Only(e)
      BY <1>2, <1>4, <3>1, <3>2 DEF Only
    <3>6. ASSUME NEW x \in MarkerElements
          PROVE  created'[x] <= 1 /\ (stage'[x] = "absent" => created'[x] = 0)
      BY <1>4, <1>6, <1>7, <3>1 DEF MarkersShape
    <3>7. PICK m \in MarkerElements : markerLayer = <<m, 1>> /\ created[m] = 1
      BY <1>6, <2>2 DEF MarkersShape
    <3>8. \E x \in MarkerElements : markerLayer' = <<x, 1>> /\ created'[x] = 1
      BY <3>1, <3>7
    <3>9. markerLayer' # Undefined /\ scopes' # {}
      BY <1>2, <2>2, <3>1
    <3>10. MarkersShape'
      BY <1>8, <3>6, <3>8, <3>9 DEF MarkersShape
    <3> QED
      BY <2>2, <3>1, <3>4, <3>5, <3>10
  <2> QED
    BY <2>1, <2>2
<1>10. Shape'
  <2>1. changes <= changes'
    BY <1>2 DEF Typed
  <2>2. /\ \A x \in BoundElements \ {e} : BoundShape(x)'
        /\ \A x \in StaticElements \ {e} : StaticShape(x)'
        /\ \A x \in PathElements \ {e} : PathShape(x)'
    BY <1>1, <1>9, <2>1, OthersShape
  <2> QED
    BY <1>1, <1>9, <2>2 DEF Shape
<1> QED
  BY <1>2, <1>9, <1>10

LEMMA DestroyMarkerStep ==
  ASSUME Typed, Shape, NEW e \in MarkerElements, DestroyMarker(e)
  PROVE  /\ Typed' /\ Shape' /\ Only(e) /\ UNCHANGED <<olLayer, created, index>>
         /\ \/ UNCHANGED <<layers, markerLayer, shifted>>
            \/ /\ markerLayer # Undefined /\ markerLayer' = Undefined
               /\ layers' = RemoveFirst(layers, markerLayer)
               /\ shifted' = (shifted \/ Last(layers) # markerLayer)
<1>1. /\ e \in Elements /\ e \notin BoundElements /\ e \notin PathElements
      /\ e \notin StaticElements /\ e \notin LayerElements
  BY ElementsAssumption DEF Elements, LayerElements
<1>2. /\ stage[e] = "live" /\ stage' = [stage EXCEPT ![e] = "gone"]
      /\ scopes' = scopes \ {e}
      /\ UNCHANGED <<properties, changes, seen, olLayer, created, index, shows, listeners,
                     swallowed>>
      /\ \/ /\ scopes' = {} /\ markerLayer' = Undefined
            /\ layers' = RemoveFirst(layers, markerLayer)
            /\ shifted' = (shifted \/ Last(layers) # markerLayer)
         \/ scopes' # {} /\ UNCHANGED <<layers, markerLayer, shifted>>
  BY DEF DestroyMarker, Disappear
<1>3. /\ stage' \in [Elements -> {"absent", "live", "gone"}] /\ stage'[e] = "gone"
      /\ \A x \in Elements \ {e} : stage'[x] = stage[x]
  BY <1>1, <1>2 DEF Typed
<1>4. layers \in Items /\ index \in Indexes
  BY DEF Typed, Collection, Collections
<1>5. MarkersShape
  BY DEF Shape
<1>6. \A x \in MarkerElements : x \in Elements
  BY DEF Elements
<1>7. e \in scopes /\ markerLayer # Undefined
  BY <1>2, <1>5 DEF MarkersShape
<1>8. scopes' = {x \in MarkerElements : stage'[x] = "live"}
  <2>1. \A x \in MarkerElements : stage'[x] = "live" <=> x # e /\ stage[x] = "live"
    BY <1>3, <1>6
  <2> QED
    BY <1>2, <1>5, <2>1 DEF MarkersShape
<1>9. /\ Collection' \in Collections /\ shifted' \in BOOLEAN
      /\ scopes' \subseteq MarkerElements /\ markerLayer' \in Layers \cup {Undefined}
  <2>1. RemoveFirst(layers, markerLayer) \in Items
    BY <1>4, RemoveFirstEffect
  <2>2. layers' \in Items
    BY <1>2, <1>4, <2>1
  <2> QED
    BY <1>2, <1>4, <2>2 DEF Typed, Collection, Collections
<1>10. Typed'
  BY <1>2, <1>3, <1>9 DEF Typed
<1>11. Only(e)
  BY <1>2, <1>3 DEF Only
<1>12. MarkersShape'
  <2>1. ASSUME NEW x \in MarkerElements
        PROVE  created'[x] <= 1 /\ (stage'[x] = "absent" => created'[x] = 0)
    BY <1>2, <1>3, <1>5, <1>6 DEF MarkersShape
  <2>2. markerLayer' = Undefined <=> scopes' = {}
    BY <1>2, <1>7
  <2>3. markerLayer' # Undefined => \E m \in MarkerElements : markerLayer' = <<m, 1>> /\ created'[m] = 1
    BY <1>2, <1>5 DEF MarkersShape
  <2> QED
    BY <1>8, <2>1, <2>2, <2>3 DEF MarkersShape
<1>13. Shape'
  <2>1. changes <= changes'
    BY <1>2 DEF Typed
  <2>2. /\ \A x \in BoundElements \ {e} : BoundShape(x)'
        /\ \A x \in StaticElements \ {e} : StaticShape(x)'
        /\ \A x \in PathElements \ {e} : PathShape(x)'
    BY <1>1, <1>10, <1>11, <2>1, OthersShape
  <2> QED
    BY <1>1, <1>12, <2>2 DEF Shape
<1> QED
  BY <1>2, <1>7, <1>10, <1>11, <1>13

-----------------------------------------------------------------------------
(* Every step: the types, the shape, and what is shown.                    *)
LEMMA OthersShown ==
  ASSUME AllShown, NEW e \in Elements, Only(e), NEW x \in BoundElements, x # e
  PROVE  Shown(x)'
<1>1. x \in Elements /\ x \in LayerElements
  BY DEF Elements, LayerElements
<1>2. /\ olLayer'[x] = olLayer[x] /\ created'[x] = created[x] /\ shows'[x] = shows[x]
      /\ seen'[x] = seen[x] /\ listeners'[x] = listeners[x]
      /\ x \in swallowed' <=> x \in swallowed
  BY <1>1 DEF Only
<1>3. Shown(x)
  BY DEF AllShown
<1> QED
  BY <1>2, <1>3 DEF Shown

LEMMA StutterHolds ==
  ASSUME Typed, Shape, AllShown, UNCHANGED vars
  PROVE  Typed' /\ Shape' /\ AllShown'
<1>1. UNCHANGED <<stage, properties, changes, seen, olLayer, created, layers, index, shows,
                  listeners, scopes, markerLayer, shifted, swallowed>>
  BY DEF vars, elementVars, collectionVars, markerVars
<1>2. Typed'
  BY <1>1 DEF Typed, Collection
<1>3. Shape'
  BY <1>1 DEF Shape, BoundShape, StaticShape, PathShape, MarkersShape
<1>4. AllShown'
  BY <1>1 DEF AllShown, Shown
<1> QED
  BY <1>2, <1>3, <1>4

LEMMA StepHolds ==
  ASSUME Typed, Shape, AllShown, Next
  PROVE  Typed' /\ Shape' /\ AllShown'
<1>1. ASSUME NEW e \in Elements, Only(e), e \notin BoundElements
      PROVE  AllShown'
  BY <1>1, OthersShown DEF AllShown
<1>2. ASSUME NEW e \in BoundElements, Only(e), Shown(e)'
      PROVE  AllShown'
  <2>1. e \in Elements
    BY DEF Elements
  <2> QED
    BY <1>2, <2>1, OthersShown DEF AllShown
<1>3. ASSUME NEW e \in BoundElements, LinkBound(e)
      PROVE  Typed' /\ Shape' /\ AllShown'
  <2>1. Typed' /\ Shape' /\ Only(e)
    BY <1>3, LinkBoundStep
  <2>2. Shown(e)'
    <3>1. olLayer[e] = Undefined /\ olLayer' = olLayer
      BY <1>3 DEF Shape, BoundShape, LinkBound, Appear
    <3> QED
      BY <3>1 DEF Shown
  <2> QED
    BY <1>2, <2>1, <2>2
<1>4. ASSUME NEW e \in BoundElements, SetProperties(e)
      PROVE  Typed' /\ Shape' /\ AllShown'
  <2>1. Typed' /\ Shape' /\ Only(e)
    BY <1>4, SetPropertiesStep
  <2>2. Shown(e)'
    <3>1. UNCHANGED <<seen, olLayer, created, shows, listeners, swallowed>>
      BY <1>4 DEF SetProperties
    <3>2. Shown(e)
      BY DEF AllShown
    <3> QED
      BY <3>1, <3>2 DEF Shown
  <2> QED
    BY <1>2, <2>1, <2>2
<1>5. ASSUME NEW e \in BoundElements, Watch(e)
      PROVE  Typed' /\ Shape' /\ AllShown'
  <2>1. Shown(e)
    BY DEF AllShown
  <2>2. Typed' /\ Shape' /\ Only(e) /\ Shown(e)'
    BY <1>5, <2>1, WatchWithoutSourceStep, WatchFillsInStep, WatchThrowsStep,
       WatchCreatesStep, WatchChangesStep, WatchReplacesStep, WatchLosesStep DEF Watch
  <2> QED
    BY <1>2, <2>2
<1>6. ASSUME NEW e \in LayerElements, DestroyLayer(e)
      PROVE  Typed' /\ Shape' /\ AllShown'
  <2>1. Typed' /\ Only(e) /\ olLayer'[e] = Undefined
    BY <1>6, DestroyLayerStep
  <2>2. Shape'
    BY <1>6, DestroyLayerShape
  <2>3. Shown(e)'
    BY <2>1 DEF Shown
  <2>4. CASE e \in BoundElements
    BY <1>2, <2>1, <2>2, <2>3, <2>4
  <2>5. CASE e \notin BoundElements
    <3>1. e \in Elements
      BY DEF LayerElements, Elements
    <3> QED
      BY <1>1, <2>1, <2>2, <2>5, <3>1
  <2> QED
    BY <2>4, <2>5
<1>7. ASSUME NEW e \in StaticElements, LinkStatic(e)
      PROVE  Typed' /\ Shape' /\ AllShown'
  <2>1. Typed' /\ Shape' /\ Only(e)
    BY <1>7, LinkStaticStep
  <2>2. e \in Elements /\ e \notin BoundElements
    BY ElementsAssumption DEF Elements
  <2> QED
    BY <1>1, <2>1, <2>2
<1>8. ASSUME NEW e \in PathElements, LinkPath(e) \/ DestroyPath(e)
      PROVE  Typed' /\ Shape' /\ AllShown'
  <2>1. Typed' /\ Shape' /\ Only(e)
    BY <1>8, PathStep
  <2>2. e \in Elements /\ e \notin BoundElements
    BY ElementsAssumption DEF Elements
  <2> QED
    BY <1>1, <2>1, <2>2
<1>9. ASSUME NEW e \in MarkerElements, LinkMarker(e) \/ DestroyMarker(e)
      PROVE  Typed' /\ Shape' /\ AllShown'
  <2>1. Typed' /\ Shape' /\ Only(e)
    <3>1. CASE LinkMarker(e)
      BY <3>1, LinkMarkerStep
    <3>2. CASE DestroyMarker(e)
      BY <3>2, DestroyMarkerStep
    <3> QED
      BY <1>9, <3>1, <3>2
  <2>2. e \in Elements /\ e \notin BoundElements
    BY ElementsAssumption DEF Elements
  <2> QED
    BY <1>1, <2>1, <2>2
<1>10. ASSUME UNCHANGED vars PROVE Typed' /\ Shape' /\ AllShown'
  BY <1>10, StutterHolds
<1>11. CASE \E e \in BoundElements :
              LinkBound(e) \/ SetProperties(e) \/ Watch(e) \/ DestroyLayer(e)
  BY <1>3, <1>4, <1>5, <1>6, <1>11 DEF LayerElements
<1>12. CASE \E e \in StaticElements : LinkStatic(e) \/ DestroyLayer(e)
  BY <1>6, <1>7, <1>12 DEF LayerElements
<1> QED
  BY <1>8, <1>9, <1>10, <1>11, <1>12 DEF Next, Wait

LEMMA TypesFollow ==
  Typed /\ Shape => TypeOK
<1> SUFFICES ASSUME Typed, Shape PROVE TypeOK
  OBVIOUS
<1>1. /\ \A e \in BoundElements : BoundShape(e)
      /\ \A e \in StaticElements : StaticShape(e)
      /\ \A e \in PathElements : PathShape(e)
      /\ MarkersShape
  BY DEF Shape
<1>2. changes \in 0..MaxChanges /\ MaxChanges \in Nat /\ MaxCreated \in Nat /\ 2 <= MaxCreated
  BY BoundAssumption DEF Typed, MaxCreated
<1>3. created \in [Elements -> Nat] /\ listeners \in [LayerElements -> Nat]
  BY DEF Typed
<1>4. ASSUME NEW e \in BoundElements PROVE created[e] <= MaxCreated /\ listeners[e] <= MaxCreated
  <2>1. e \in Elements /\ e \in LayerElements
    BY DEF Elements, LayerElements
  <2>2. created[e] \in Nat /\ listeners[e] \in Nat
    BY <1>3, <2>1
  <2>3. Owed(properties[e], seen[e]) \in {0, 1, 2}
    BY DEF Owed
  <2>4. /\ created[e] + Owed(properties[e], seen[e]) <= 2 * (changes + 1)
        /\ listeners[e] <= created[e]
    BY <1>1 DEF BoundShape
  <2>5. created[e] <= 2 * (changes + 1)
    BY <1>2, <2>2, <2>3, <2>4
  <2>6. 2 * (changes + 1) <= MaxCreated
    BY <1>2 DEF MaxCreated
  <2> QED
    BY <1>2, <2>2, <2>4, <2>5, <2>6
<1>5. ASSUME NEW e \in StaticElements PROVE created[e] <= MaxCreated /\ listeners[e] <= MaxCreated
  <2>1. e \in Elements /\ e \in LayerElements
    BY DEF Elements, LayerElements
  <2> QED
    BY <1>1, <1>2, <1>3, <2>1 DEF StaticShape
<1>6. ASSUME NEW e \in PathElements \cup MarkerElements PROVE created[e] <= MaxCreated
  <2>1. created[e] <= 1 /\ created[e] \in Nat
    BY <1>1, <1>3 DEF PathShape, MarkersShape, Elements
  <2> QED
    BY <1>2, <2>1
<1>7. \A e \in Elements : created[e] \in 0..MaxCreated
  BY <1>2, <1>3, <1>4, <1>5, <1>6 DEF Elements
<1>8. \A e \in LayerElements : listeners[e] \in 0..MaxCreated
  BY <1>2, <1>3, <1>4, <1>5 DEF LayerElements
<1>9. created \in [Elements -> 0..MaxCreated] /\ listeners \in [LayerElements -> 0..MaxCreated]
  BY <1>3, <1>7, <1>8
<1>10. layers \in Seq(Layers \cup {Null}) /\ index \in [Layers -> Nat \cup {Undefined}]
  BY DEF Typed, Collection, Collections, Items, Indexes
<1> QED
  BY <1>1, <1>9, <1>10 DEF TypeOK, Typed, MarkersShape, BoundShape

\* The types of the variables: no element makes more layers or listeners than its changes
\* account for, the record of the markers is there as long as a marker is, and an ol-layer
\* element is bound as long as it lives.
THEOREM LayersTypeCorrect == Spec => []TypeOK
<1>1. Init => Typed /\ Shape /\ AllShown
  BY InitHolds
<1>2. Typed /\ Shape /\ AllShown /\ [Next]_vars => (Typed /\ Shape /\ AllShown)'
  BY StepHolds, StutterHolds
<1>3. Typed /\ Shape => TypeOK
  BY TypesFollow
<1> QED
  BY <1>1, <1>2, <1>3, PTL DEF Spec

\* Once its watch has run an ol-layer element shows what is bound, as far as ShownAsBound
\* says, whatever else was bound before and whoever else moved the layers.
THEOREM LayersShownAsBound == Spec => []ShownAsBound
<1>1. Init => Typed /\ Shape /\ AllShown
  BY InitHolds
<1>2. Typed /\ Shape /\ AllShown /\ [Next]_vars => (Typed /\ Shape /\ AllShown)'
  BY StepHolds, StutterHolds
<1>3. Typed /\ Shape /\ AllShown => ShownAsBound
  <2> SUFFICES ASSUME Typed, Shape, AllShown, NEW e \in BoundElements,
                      properties[e] = seen[e], Complete(properties[e]), e \notin swallowed,
                      olLayer[e] # Undefined
               PROVE  LET p == properties[e]
                      IN  /\ shows[e].source = p.source
                          /\ shows[e].type = "Vector" => listeners[e] \in 1..created[e]
                          /\ created[e] = 1 =>
                               /\ shows[e].visible = p.visible
                               /\ p.opacity # 0 => shows[e].opacity = p.opacity
                               /\ p.style # Undefined /\ shows[e].type = "Vector" =>
                                    shows[e].style = p.style
    BY DEF ShownAsBound
  <2>1. Shown(e) /\ BoundShape(e)
    BY DEF AllShown, Shape
  <2>2. /\ properties[e].source # Undefined /\ properties[e].visible # Undefined
        /\ properties[e].opacity # Undefined
    BY DEF Complete
  <2>3. listeners[e] \in Nat /\ created[e] \in Nat /\ listeners[e] <= created[e]
    BY <2>1 DEF Typed, BoundShape, Elements, LayerElements
  <2>4. shows[e].type = "Vector" => listeners[e] \in 1..created[e]
    BY <2>1, <2>2, <2>3 DEF Shown
  <2> QED
    BY <2>1, <2>2, <2>4 DEF Shown
<1> QED
  BY <1>1, <1>2, <1>3, PTL DEF Spec

-----------------------------------------------------------------------------
(* Every step: the layers stay in place.                                   *)
LEMMA MineNamed ==
  ASSUME Typed, Shape, NEW l, l \in Mine
  PROVE  /\ l \in Layers /\ l[1] \in Elements /\ l[2] <= created[l[1]] /\ l # DefaultLayer
         /\ IsMarkers(l) => l = markerLayer
<1>1. CASE \E e \in Elements \ MarkerElements : l = olLayer[e] /\ l # Undefined
  <2>1. PICK e \in Elements \ MarkerElements : l = olLayer[e] /\ l # Undefined
    BY <1>1
  <2>2. l = <<e, created[e]>>
    <3>1. CASE e \in BoundElements
      BY <2>1, <3>1 DEF Shape, BoundShape
    <3>2. CASE e \in StaticElements
      BY <2>1, <3>2 DEF Shape, StaticShape
    <3>3. CASE e \in PathElements
      BY <2>1, <3>3 DEF Shape, PathShape
    <3> QED
      BY <3>1, <3>2, <3>3 DEF Elements
  <2>3. l \in Layers /\ created[e] \in Nat
    BY <2>1 DEF Typed
  <2> QED
    BY <2>1, <2>2, <2>3, ElementsAssumption DEF DefaultLayer, IsMarkers
<1>2. CASE l = markerLayer /\ l # Undefined
  <2>1. PICK e \in MarkerElements : l = <<e, 1>> /\ created[e] = 1
    BY <1>2 DEF Shape, MarkersShape
  <2>2. l \in Layers /\ e \in Elements
    BY <1>2 DEF Typed, Elements
  <2> QED
    BY <1>2, <2>1, <2>2, ElementsAssumption DEF DefaultLayer, IsMarkers
<1> QED
  BY <1>1, <1>2 DEF Mine

LEMMA MineCreatedNext ==
  (Typed /\ Shape => \A l : l \in Mine => l[2] <= created[l[1]])'
<1>1. Typed /\ Shape => \A l : l \in Mine => l[2] <= created[l[1]]
  BY MineNamed
<1> QED
  BY <1>1, PTL

\* Who is on the map is the default layer or somebody's.
LEMMA PlacedNamed ==
  ASSUME Typed, Shape, InPlace, ~ shifted, NEW l, l \in PlacedIn(layers)
  PROVE  l = DefaultLayer \/ l \in Mine
  BY DEF InPlace

LEMMA NewIsNew ==
  ASSUME Typed, Shape, InPlace, ~ shifted, NEW e \in Elements, New(e) \in Layers
  PROVE  /\ New(e) \notin PlacedIn(layers) /\ New(e) # DefaultLayer
         /\ index[New(e)] = Undefined /\ New(e) # Undefined
<1>1. New(e) = <<e, created[e] + 1>> /\ created[e] \in Nat /\ e # Default
  BY ElementsAssumption DEF New, Typed
<1>2. New(e) # DefaultLayer
  BY <1>1 DEF DefaultLayer
<1>3. New(e) \notin Mine
  <2>1. ASSUME New(e) \in Mine PROVE FALSE
    <3>1. New(e)[2] <= created[New(e)[1]]
      BY <2>1, MineNamed
    <3> QED
      BY <1>1, <3>1
  <2> QED
    BY <2>1
<1>4. New(e) \notin PlacedIn(layers)
  BY <1>2, <1>3, PlacedNamed
<1>5. index[New(e)] = Undefined
  <2>1. New(e)[1] # Default /\ New(e)[2] > created[New(e)[1]]
    BY <1>1
  <2> QED
    BY <2>1 DEF InPlace
<1> QED
  BY <1>2, <1>4, <1>5, UndefinedAssumption

LEMMA MineStep ==
  ASSUME Typed, Shape, NEW e \in Elements, e \notin MarkerElements, Only(e),
         markerLayer' = markerLayer
  PROVE  Mine' = (Mine \ {olLayer[e]}) \cup ({olLayer'[e]} \ {Undefined})
<1>1. \A x \in Elements \ MarkerElements : x # e => olLayer'[x] = olLayer[x]
  BY DEF Only
<1>2. ASSUME NEW x \in Elements \ MarkerElements, x # e, olLayer[x] # Undefined
      PROVE  olLayer[x] # olLayer[e]
  <2>1. ASSUME NEW y \in Elements \ MarkerElements, olLayer[y] # Undefined
        PROVE  olLayer[y] = <<y, created[y]>>
    BY <2>1 DEF Shape, BoundShape, StaticShape, PathShape, Elements
  <2> QED
    BY <1>2, <2>1
<1>3. markerLayer # Undefined => markerLayer # olLayer[e]
  <2>1. ASSUME markerLayer # Undefined, markerLayer = olLayer[e] PROVE FALSE
    <3>1. PICK m \in MarkerElements : markerLayer = <<m, 1>>
      BY <2>1 DEF Shape, MarkersShape
    <3>2. olLayer[e] = <<e, created[e]>>
      BY <2>1 DEF Shape, BoundShape, StaticShape, PathShape, Elements
    <3>3. m # e
      OBVIOUS
    <3>4. <<m, 1>>[1] = m /\ <<e, created[e]>>[1] = e
      OBVIOUS
    <3>5. <<m, 1>> = <<e, created[e]>>
      BY <2>1, <3>1, <3>2
    <3> QED
      BY <3>3, <3>4, <3>5
  <2> QED
    BY <2>1
<1>4. ASSUME NEW l, l \in Mine'
      PROVE  l \in (Mine \ {olLayer[e]}) \cup ({olLayer'[e]} \ {Undefined})
  BY <1>1, <1>2, <1>3, <1>4 DEF Mine
<1>5. ASSUME NEW l, l \in (Mine \ {olLayer[e]}) \cup ({olLayer'[e]} \ {Undefined})
      PROVE  l \in Mine'
  BY <1>1, <1>5 DEF Mine
<1> QED
  BY <1>4, <1>5

LEMMA MarkersMineStep ==
  ASSUME Typed, Shape, NEW e \in MarkerElements, Only(e)
  PROVE  Mine' = (Mine \ {markerLayer}) \cup ({markerLayer'} \ {Undefined})
<1>1. \A x \in Elements \ MarkerElements : olLayer'[x] = olLayer[x]
  BY DEF Only
<1>2. ASSUME NEW x \in Elements \ MarkerElements, olLayer[x] # Undefined
      PROVE  olLayer[x] # markerLayer
  <2>1. olLayer[x] = <<x, created[x]>>
    BY <1>2 DEF Shape, BoundShape, StaticShape, PathShape, Elements
  <2>2. markerLayer # Undefined => \E m \in MarkerElements : markerLayer = <<m, 1>>
    BY DEF Shape, MarkersShape
  <2> QED
    BY <1>2, <2>1, <2>2
<1>3. ASSUME NEW l, l \in Mine'
      PROVE  l \in (Mine \ {markerLayer}) \cup ({markerLayer'} \ {Undefined})
  BY <1>1, <1>2, <1>3 DEF Mine
<1>4. ASSUME NEW l, l \in (Mine \ {markerLayer}) \cup ({markerLayer'} \ {Undefined})
      PROVE  l \in Mine'
  BY <1>1, <1>4 DEF Mine
<1> QED
  BY <1>3, <1>4

\* If the collection becomes what becomes of the elements, everything is in place.
LEMMA Arranged ==
  ASSUME Typed, Typed', Shape, Shape', InPlace, ~ shifted, NEW out, NEW come,
         Became(Collection, Collection', out, come), out \subseteq Mine,
         Mine' = (Mine \ out) \cup come, DefaultLayer \notin come,
         \A x \in Elements : created[x] <= created'[x],
         \A x \in LayerElements : \/ olLayer'[x] = olLayer[x]
                                  \/ olLayer'[x] # Undefined => index'[olLayer'[x]] # Undefined
  PROVE  InPlace'
<1>1. /\ Good(Collection')
      /\ PlacedIn(layers') = (PlacedIn(layers) \ out) \cup come
      /\ \A l \in Layers : \/ index'[l] = index[l]
                           \/ l \in PlacedIn(layers') /\ index'[l] \in Nat
                           \/ l \in out /\ l \notin PlacedIn(layers')
  BY DEF Became, Collection
<1>2. DefaultLayer \notin Mine
  BY MineNamed
<1>3. PlacedIn(layers') \ {DefaultLayer} = Mine'
  <2>1. PlacedIn(layers) \ {DefaultLayer} = Mine
    BY DEF InPlace
  <2> QED
    BY <1>1, <1>2, <2>1
<1>4. ASSUME NEW x \in LayerElements, olLayer'[x] # Undefined
      PROVE  index'[olLayer'[x]] # Undefined
  <2>1. x \in Elements \ MarkerElements
    BY ElementsAssumption DEF LayerElements, Elements
  <2>2. olLayer'[x] \in Mine' /\ olLayer'[x] \in Layers
    BY <1>4, <2>1 DEF Mine, Typed
  <2>3. olLayer'[x] \in PlacedIn(layers')
    BY <1>3, <2>2
  <2>4. CASE olLayer'[x] = olLayer[x]
    <3>1. index[olLayer[x]] # Undefined
      BY <1>4, <2>4 DEF InPlace
    <3> QED
      BY <1>1, <2>2, <2>3, <2>4, <3>1, UndefinedAssumption
  <2> QED
    BY <1>4, <2>4
<1>5. ASSUME NEW l \in Layers, l[1] # Default, l[2] > created'[l[1]]
      PROVE  index'[l] = Undefined
  <2>1. l[1] \in Elements /\ l[2] \in Nat
    <3>1. MaxCreated \in Nat
      BY BoundAssumption DEF MaxCreated
    <3> QED
      BY <1>5, <3>1 DEF Layers, Elements
  <2>2. created[l[1]] \in Nat /\ created'[l[1]] \in Nat
    BY <2>1 DEF Typed
  <2>3. l[2] > created[l[1]]
    BY <1>5, <2>1, <2>2
  <2>4. index[l] = Undefined
    BY <1>5, <2>3 DEF InPlace
  <2>5. l \notin out
    <3>1. ASSUME l \in Mine PROVE FALSE
      <4>1. l[2] <= created[l[1]]
        BY <3>1, MineNamed
      <4> QED
        BY <2>1, <2>2, <2>3, <4>1
    <3> QED
      BY <3>1
  <2>6. l \notin PlacedIn(layers')
    <3>1. ASSUME l \in Mine' PROVE FALSE
      <4>1. \A k : k \in Mine' => k[2] <= created'[k[1]]
        BY MineCreatedNext
      <4>2. l[2] <= created'[l[1]]
        BY <3>1, <4>1
      <4> QED
        BY <1>5, <2>1, <2>2, <4>2
    <3>2. l # DefaultLayer
      BY <1>5 DEF DefaultLayer
    <3> QED
      BY <1>3, <3>1, <3>2
  <2> QED
    BY <1>1, <2>4, <2>5, <2>6
<1> QED
  BY <1>1, <1>3, <1>4, <1>5 DEF InPlace

LEMMA BecameThen ==
  ASSUME NEW c, NEW d, NEW r, NEW out, NEW come, Became(c, d, out, come), Became(d, r, {}, {})
  PROVE  Became(c, r, out, come)
<1>1. PlacedIn(r.layers) = PlacedIn(d.layers)
  BY DEF Became
<1>2. ASSUME NEW x \in Layers
      PROVE  \/ r.index[x] = c.index[x]
             \/ x \in PlacedIn(r.layers) /\ r.index[x] \in Nat
             \/ x \in out /\ x \notin PlacedIn(r.layers)
  BY <1>1, <1>2 DEF Became
<1> QED
  BY <1>1, <1>2 DEF Became

\* Nothing happens to the collection or to who refers to what.
LEMMA StayInPlace ==
  ASSUME InPlace, UNCHANGED <<olLayer, created, layers, index, markerLayer, shifted>>
  PROVE  InPlace'
<1>1. Mine' = Mine /\ Collection' = Collection
  BY DEF Mine, Collection
<1> QED
  BY <1>1 DEF InPlace

LEMMA CreatesInPlace ==
  ASSUME Typed, Shape, InPlace, ~ shifted, ~ shifted', NEW e \in BoundElements, WatchCreates(e)
  PROVE  InPlace'
<1> DEFINE p == properties[e]
           created0 == CreateSource(p.source) # Undefined
           throws == p.index = Undefined /\ LookingThrows(layers)
           shown == IF throws THEN CreateLayer(p.source)
                    ELSE Styled([CreateLayer(p.source) EXCEPT !.visible = p.visible,
                                   !.opacity = IF p.opacity = 0 THEN 1 ELSE p.opacity], p.style)
<1>0. Typed' /\ Shape' /\ Only(e)
  BY WatchCreatesStep
<1>1. /\ e \in Elements /\ e \in LayerElements /\ e \notin MarkerElements
      /\ e \notin StaticElements /\ New(e) \in Layers /\ New(e) = <<e, created[e] + 1>>
      /\ created[e] \in Nat
  BY FiresFacts, ElementsAssumption DEF WatchCreates
<1>2. /\ olLayer[e] = Undefined /\ ~ (throws /\ created0) /\ markerLayer' = markerLayer
      /\ IF created0 THEN Create(e, shown) ELSE CreateNothing(e)
  BY DEF WatchCreates, markerVars
<1>3. /\ Collection' \in Collections
      /\ \/ Collection' = Collection /\ (throws \/ ~ created0)
         \/ created0 /\ ~ throws /\ Collection' = AddLayerBeforeMarkers(Collection, New(e))
         \/ /\ created0 /\ ~ throws /\ p.index \in Nat
            /\ Collection' = InsertLayer(Collection, p.index, New(e))
         \/ /\ ~ created0 /\ p.index \in Nat /\ layers' = Pad(layers, p.index)
            /\ index' = index
  BY CreatesCollection
<1>4. Mine' = (Mine \ {olLayer[e]}) \cup ({olLayer'[e]} \ {Undefined})
  BY <1>0, <1>1, <1>2, MineStep
<1>5. Mine \ {Undefined} = Mine
  BY DEF Mine
<1>6. Collection \in Collections /\ Good(Collection)
  BY DEF Typed, InPlace
<1>7. /\ New(e) \notin PlacedIn(layers) /\ New(e) # DefaultLayer /\ New(e) # Undefined
  BY <1>1, NewIsNew
<1>8. Ordinary(New(e)) /\ ~ IsMarkers(New(e))
  BY <1>1 DEF Ordinary, IsStatic, IsMarkers
<1>9. Collection.layers = layers /\ Collection.index = index
      /\ Collection'.layers = layers' /\ Collection'.index = index'
  BY DEF Collection
<1> HIDE DEF created0, throws, shown
<1>10. CASE created0
  <2>1. olLayer' = [olLayer EXCEPT ![e] = New(e)] /\ created' = [created EXCEPT ![e] = @ + 1]
    BY <1>2, <1>10 DEF Create
  <2>2. olLayer'[e] = New(e) /\ \A x \in LayerElements : x # e => olLayer'[x] = olLayer[x]
    BY <1>1, <2>1 DEF Typed, LayerElements, Elements
  <2>3. \A x \in Elements : created[x] <= created'[x]
    BY <2>1 DEF Typed
  <2>4. Mine' = (Mine \ {}) \cup {New(e)}
    BY <1>2, <1>4, <1>5, <1>7, <2>2
  <2>5. Became(Collection, Collection', {}, {New(e)}) /\ index'[New(e)] \in Nat
    <3>1. CASE Collection' = AddLayerBeforeMarkers(Collection, New(e))
      BY <1>1, <1>6, <1>7, <1>8, <1>9, <3>1, AddLayerBeforeMarkersGood
    <3>2. CASE p.index \in Nat /\ Collection' = InsertLayer(Collection, p.index, New(e))
      <4> DEFINE r == InsertLayer(Collection, p.index, New(e))
      <4>0. /\ Collection \in Collections /\ p.index \in Nat /\ New(e) \in Layers
            /\ Good(Collection) /\ New(e) \notin PlacedIn(Collection.layers)
            /\ Ordinary(New(e))
        BY <1>1, <1>6, <1>7, <1>8, <1>9, <3>2
      <4>1. Became(Collection, r, {}, {New(e)}) /\ r.index[New(e)] = p.index
        <5> HIDE DEF p
        <5> QED
          BY <4>0, InsertLayerGood
      <4>2. Collection' = r
        BY <3>2
      <4> HIDE DEF r
      <4> QED
        BY <1>9, <3>2, <4>1, <4>2
    <3> QED
      BY <1>2, <1>3, <1>10, <3>1, <3>2
  <2>6. \A x \in LayerElements : \/ olLayer'[x] = olLayer[x]
                                 \/ olLayer'[x] # Undefined => index'[olLayer'[x]] # Undefined
    BY <2>2, <2>5, UndefinedAssumption
  <2> QED
    BY <1>0, <1>7, <2>3, <2>4, <2>5, <2>6, Arranged
<1>11. CASE ~ created0
  <2>1. created' = created /\ olLayer' = [olLayer EXCEPT ![e] = Undefined]
    BY <1>2, <1>11 DEF CreateNothing
  <2>2. olLayer' = olLayer
    BY <1>1, <1>2, <2>1 DEF Typed
  <2>3. Mine' = (Mine \ {}) \cup {}
    BY <1>2, <1>4, <1>5, <2>2
  <2>4. Became(Collection, Collection', {}, {})
    <3>1. CASE Collection' = Collection
      BY <1>6, <3>1 DEF Became
    <3>2. CASE p.index \in Nat /\ layers' = Pad(layers, p.index) /\ index' = index
      BY <1>6, <1>9, <3>2, PadGood
    <3> QED
      BY <1>3, <1>11, <3>1, <3>2
  <2>5. \A x \in Elements : created[x] <= created'[x]
    BY <2>1 DEF Typed
  <2> QED
    BY <1>0, <2>2, <2>3, <2>4, <2>5, Arranged
<1> QED
  BY <1>10, <1>11

LEMMA ChangesInPlace ==
  ASSUME Typed, Shape, InPlace, ~ shifted, AllShown, NEW e \in BoundElements, WatchChanges(e)
  PROVE  InPlace'
<1> DEFINE p == properties[e]
           l == olLayer[e]
<1>0. Typed' /\ Shape' /\ Only(e)
  BY WatchChangesStep DEF AllShown
<1>1. /\ e \in Elements /\ e \in LayerElements /\ e \notin MarkerElements
      /\ e \notin StaticElements /\ p \in Property
  BY FiresFacts, ElementsAssumption DEF WatchChanges
<1>2. /\ Complete(p) /\ l # Undefined /\ Adjust(e, Collection, l, shows[e])
      /\ UNCHANGED <<olLayer, created, markerLayer>>
  BY DEF WatchChanges, markerVars
<1>3. /\ Collection \in Collections /\ l \in Layers /\ shows[e] \in Look
      /\ l = <<e, created[e]>> /\ Good(Collection)
  BY <1>1, <1>2 DEF Typed, Shape, BoundShape, InPlace
<1>4. Collection' = Moved(Collection, p.index, l)
  BY <1>1, <1>2, <1>3, AdjustEffect
<1>5. l \in PlacedIn(layers) /\ index[l] # Undefined
  <2>1. l \in Mine
    BY <1>1, <1>2 DEF Mine
  <2> QED
    BY <1>1, <1>2, <2>1 DEF InPlace
<1>6. Ordinary(l) /\ p.index \in Nat \cup {Undefined}
  BY <1>1, <1>3 DEF Ordinary, IsStatic, IsMarkers, Property
<1>7. Collection.layers = layers /\ Collection.index = index
  BY DEF Collection
<1>8. Became(Collection, Collection', {}, {})
  BY <1>3, <1>4, <1>5, <1>6, <1>7, MovedGood
<1>9. Mine' = (Mine \ {}) \cup {}
  BY <1>2 DEF Mine
<1>10. \A x \in Elements : created[x] <= created'[x]
  BY <1>2 DEF Typed
<1> QED
  BY <1>0, <1>2, <1>8, <1>9, <1>10, Arranged

LEMMA ReplacesInPlace ==
  ASSUME Typed, Shape, InPlace, ~ shifted, ~ shifted', NEW e \in BoundElements, WatchReplaces(e)
  PROVE  InPlace'
<1> DEFINE p == properties[e]
           l == olLayer[e]
<1>0. Typed' /\ Shape' /\ Only(e)
  BY WatchReplacesStep
<1>1. /\ e \in Elements /\ e \in LayerElements /\ e \notin MarkerElements
      /\ e \notin StaticElements /\ p \in Property /\ New(e) \in Layers
      /\ New(e) = <<e, created[e] + 1>> /\ created[e] \in Nat
  BY FiresFacts, ElementsAssumption DEF WatchReplaces
<1>2. /\ Complete(p) /\ l # Undefined
      /\ Adjust(e, Replaced(e), New(e), CreateLayer(p.source))
      /\ olLayer' = [olLayer EXCEPT ![e] = New(e)]
      /\ created' = [created EXCEPT ![e] = @ + 1]
      /\ markerLayer' = markerLayer
      /\ ~ \E j \in 1..Len(layers) : j > index[l] + 1 /\ layers[j] = Null
  BY DEF WatchReplaces, Replaced, Without, markerVars
<1>3. /\ Collection \in Collections /\ l \in Layers
      /\ l = <<e, created[e]>> /\ Good(Collection)
  BY <1>1, <1>2 DEF Typed, Shape, BoundShape, InPlace
<1>4. Replaced(e) \in Collections
  BY <1>1, <1>3, ReplacedType
<1>5. Collection' = Moved(Replaced(e), p.index, New(e))
  <2>1. p.source \in Source
    BY <1>1, <1>2, PropertyFacts DEF Complete
  <2>2. CreateLayer(p.source) \in Look
    BY <2>1, LookFacts
  <2> QED
    BY <1>1, <1>2, <1>4, <2>2, AdjustEffect
<1>6. l \in PlacedIn(layers) /\ index[l] # Undefined /\ l \in Mine
  <2>1. l \in Mine
    BY <1>1, <1>2 DEF Mine
  <2> QED
    BY <1>1, <1>2, <2>1 DEF InPlace
<1>7. New(e) \notin PlacedIn(layers) /\ New(e) # DefaultLayer /\ New(e) # Undefined
  BY <1>1, NewIsNew
<1>8. Ordinary(New(e)) /\ p.index \in Nat \cup {Undefined}
  BY <1>1 DEF Ordinary, IsStatic, IsMarkers, Property
<1>9. Collection.layers = layers /\ Collection.index = index /\ Collection'.index = index'
  BY DEF Collection
<1>10. Became(Collection, Replaced(e), {l}, {New(e)}) /\ Replaced(e).index[New(e)] \in Nat
  <2>1. \A j \in 1..Len(layers) : j > index[l] + 1 => layers[j] # Null
    BY <1>2
  <2> QED
    BY <1>1, <1>3, <1>6, <1>7, <1>8, <1>9, <2>1, ReplacedGood DEF Replaced
<1>11. Became(Replaced(e), Collection', {}, {}) /\ index'[New(e)] \in Nat
  <2>1. Good(Replaced(e)) /\ New(e) \in PlacedIn(Replaced(e).layers)
    BY <1>10 DEF Became
  <2>2. Replaced(e).index[New(e)] # Undefined
    BY <1>10, UndefinedAssumption
  <2> QED
    BY <1>1, <1>4, <1>5, <1>8, <1>9, <2>1, <2>2, MovedGood
<1>12. Became(Collection, Collection', {l}, {New(e)})
  BY <1>10, <1>11, BecameThen
<1>13. olLayer'[e] = New(e) /\ \A x \in LayerElements : x # e => olLayer'[x] = olLayer[x]
  BY <1>1, <1>2 DEF Typed, LayerElements, Elements
<1>14. Mine' = (Mine \ {l}) \cup {New(e)}
  <2>1. Mine' = (Mine \ {olLayer[e]}) \cup ({olLayer'[e]} \ {Undefined})
    BY <1>0, <1>1, <1>2, MineStep
  <2> QED
    BY <1>7, <1>13, <2>1
<1>15. \A x \in Elements : created[x] <= created'[x]
  BY <1>2 DEF Typed
<1>16. \A x \in LayerElements : \/ olLayer'[x] = olLayer[x]
                                \/ olLayer'[x] # Undefined => index'[olLayer'[x]] # Undefined
  BY <1>11, <1>13, UndefinedAssumption
<1> QED
  BY <1>0, <1>6, <1>7, <1>12, <1>14, <1>15, <1>16, Arranged

LEMMA LosesInPlace ==
  ASSUME Typed, Shape, InPlace, ~ shifted, ~ shifted', NEW e \in BoundElements, WatchLoses(e)
  PROVE  InPlace'
<1> DEFINE l == olLayer[e]
<1>0. /\ Typed' /\ Shape' /\ Only(e)
      /\ Collection' = Without(Collection, index[l], l)
  BY WatchLosesStep
<1>1. e \in Elements /\ e \in LayerElements /\ e \notin MarkerElements
  BY FiresFacts DEF WatchLoses
<1>2. /\ l # Undefined /\ CreateNothing(e) /\ markerLayer' = markerLayer
      /\ ~ (Position(index[l]) + 1 < Len(layers))
  BY DEF WatchLoses, markerVars
<1>3. Collection \in Collections /\ l \in Layers /\ Good(Collection)
  BY <1>1, <1>2 DEF Typed, InPlace
<1>4. l \in PlacedIn(layers) /\ index[l] # Undefined /\ l \in Mine
  <2>1. l \in Mine
    BY <1>1, <1>2 DEF Mine
  <2> QED
    BY <1>1, <1>2, <2>1 DEF InPlace
<1>5. Collection.layers = layers /\ Collection.index = index
  BY DEF Collection
<1>6. Became(Collection, Collection', {l}, {})
  BY <1>0, <1>2, <1>3, <1>4, <1>5, LostGood
<1>7. created' = created /\ olLayer' = [olLayer EXCEPT ![e] = Undefined]
  BY <1>2 DEF CreateNothing
<1>8. olLayer'[e] = Undefined /\ \A x \in LayerElements : x # e => olLayer'[x] = olLayer[x]
  BY <1>1, <1>7 DEF Typed, LayerElements, Elements
<1>9. Mine' = (Mine \ {l}) \cup {}
  <2>1. Mine' = (Mine \ {olLayer[e]}) \cup ({olLayer'[e]} \ {Undefined})
    BY <1>0, <1>1, <1>2, MineStep
  <2> QED
    BY <1>8, <2>1
<1>10. \A x \in Elements : created[x] <= created'[x]
  BY <1>7 DEF Typed
<1> QED
  BY <1>0, <1>4, <1>6, <1>8, <1>9, <1>10, Arranged

LEMMA DestroysInPlace ==
  ASSUME Typed, Shape, InPlace, ~ shifted, NEW e \in LayerElements, DestroyLayer(e)
  PROVE  InPlace'
<1> DEFINE l == olLayer[e]
<1>0. /\ Typed' /\ Only(e) /\ olLayer'[e] = Undefined /\ created' = created
      /\ UNCHANGED markerVars
      /\ IF l = Undefined THEN Collection' = Collection ELSE Collection' = Destroyed(l)
  BY DestroyLayerStep
<1>1. Shape' /\ markerLayer' = markerLayer
  BY <1>0, DestroyLayerShape DEF markerVars
<1>2. e \in Elements /\ e \notin MarkerElements
  BY ElementsAssumption DEF LayerElements, Elements
<1>3. \A x \in LayerElements : \/ olLayer'[x] = olLayer[x]
                               \/ olLayer'[x] # Undefined => index'[olLayer'[x]] # Undefined
  BY <1>0 DEF Only, LayerElements, Elements
<1>4. \A x \in Elements : created[x] <= created'[x]
  BY <1>0 DEF Typed
<1>5. Mine' = (Mine \ {l}) \cup {}
  <2>1. Mine' = (Mine \ {olLayer[e]}) \cup ({olLayer'[e]} \ {Undefined})
    BY <1>0, <1>1, <1>2, MineStep
  <2> QED
    BY <1>0, <2>1
<1>6. Collection \in Collections /\ Good(Collection)
  BY DEF Typed, InPlace
<1>7. CASE l = Undefined
  <2>1. Became(Collection, Collection', {}, {})
    BY <1>0, <1>6, <1>7 DEF Became
  <2>2. Mine' = (Mine \ {}) \cup {}
    BY <1>5, <1>7 DEF Mine
  <2> QED
    BY <1>0, <1>1, <1>3, <1>4, <2>1, <2>2, Arranged
<1>8. CASE l # Undefined
  <2>1. l \in Layers /\ l \in Mine
    BY <1>2, <1>8 DEF Typed, Mine
  <2>2. l \in PlacedIn(layers) /\ index[l] # Undefined
    BY <1>8, <2>1 DEF InPlace
  <2>3. Collection.layers = layers /\ Collection.index = index
    BY DEF Collection
  <2>4. Became(Collection, Destroyed(l), {l}, {})
    BY <1>6, <2>1, <2>2, <2>3, DestroyGood DEF Destroyed
  <2>5. Became(Collection, Collection', {l}, {})
    BY <1>0, <1>8, <2>4
  <2> QED
    BY <1>0, <1>1, <1>3, <1>4, <1>5, <2>1, <2>5, Arranged
<1> QED
  BY <1>7, <1>8

LEMMA StaticInPlace ==
  ASSUME Typed, Shape, InPlace, ~ shifted, ~ shifted', NEW e \in StaticElements, LinkStatic(e)
  PROVE  InPlace'
<1>0. /\ Typed' /\ Shape' /\ Only(e) /\ markerLayer' = markerLayer
      /\ \/ olLayer'[e] = Undefined /\ Collection' = Collection
         \/ olLayer'[e] = New(e) /\ Collection' = AddLayerBeforeMarkers(Collection, New(e))
  BY LinkStaticStep DEF markerVars
<1>1. /\ e \in Elements /\ e \in LayerElements /\ e \notin BoundElements
      /\ e \notin MarkerElements /\ stage[e] = "absent"
  BY ElementsAssumption DEF Elements, LayerElements, LinkStatic, Appear
<1>2. created[e] = 0 /\ New(e) \in Layers /\ New(e) = <<e, 1>>
  BY <1>1, NewFacts
<1>3. olLayer[e] = Undefined
  BY <1>1 DEF Shape, StaticShape
<1>4. Mine' = Mine \cup ({olLayer'[e]} \ {Undefined})
  <2>1. Mine' = (Mine \ {olLayer[e]}) \cup ({olLayer'[e]} \ {Undefined})
    BY <1>0, <1>1, MineStep
  <2> QED
    BY <1>3, <2>1 DEF Mine
<1>5. \A x \in Elements : created[x] <= created'[x]
  <2>1. ASSUME NEW x \in Elements PROVE created[x] <= created'[x]
    <3>1. created[x] \in Nat /\ created'[x] \in Nat
      BY <1>0 DEF Typed
    <3>2. x # e => created'[x] = created[x]
      BY <1>0 DEF Only
    <3> QED
      BY <1>2, <3>1, <3>2
  <2> QED
    BY <2>1
<1>6. /\ New(e) \notin PlacedIn(layers) /\ New(e) # DefaultLayer /\ New(e) # Undefined
  BY <1>1, <1>2, NewIsNew
<1>7. Collection \in Collections /\ Good(Collection) /\ ~ IsMarkers(New(e))
  BY <1>1, <1>2 DEF Typed, InPlace, IsMarkers
<1>8. Collection.layers = layers /\ Collection'.index = index'
  BY DEF Collection
<1>9. \A x \in LayerElements : x # e => olLayer'[x] = olLayer[x]
  BY <1>0 DEF Only, LayerElements, Elements
<1>10. CASE olLayer'[e] = Undefined /\ Collection' = Collection
  <2>1. Became(Collection, Collection', {}, {})
    BY <1>7, <1>10 DEF Became
  <2>2. Mine' = (Mine \ {}) \cup {}
    BY <1>4, <1>10
  <2>3. \A x \in LayerElements : olLayer'[x] = olLayer[x]
    BY <1>3, <1>9, <1>10
  <2> QED
    BY <1>0, <1>5, <2>1, <2>2, <2>3, Arranged
<1>11. CASE olLayer'[e] = New(e) /\ Collection' = AddLayerBeforeMarkers(Collection, New(e))
  <2>1. /\ Became(Collection, Collection', {}, {New(e)}) /\ index'[New(e)] \in Nat
    BY <1>2, <1>6, <1>7, <1>8, <1>11, AddLayerBeforeMarkersGood
  <2>2. Mine' = (Mine \ {}) \cup {New(e)}
    BY <1>4, <1>6, <1>11
  <2>3. \A x \in LayerElements : \/ olLayer'[x] = olLayer[x]
                                 \/ olLayer'[x] # Undefined => index'[olLayer'[x]] # Undefined
    BY <1>9, <1>11, <2>1, UndefinedAssumption
  <2> QED
    BY <1>0, <1>5, <1>6, <2>1, <2>2, <2>3, Arranged
<1> QED
  BY <1>0, <1>10, <1>11

LEMMA PathInPlace ==
  ASSUME Typed, Shape, InPlace, ~ shifted, NEW e \in PathElements, LinkPath(e) \/ DestroyPath(e)
  PROVE  InPlace'
<1>0. /\ Typed' /\ Shape' /\ Only(e) /\ UNCHANGED <<markerLayer, shifted>>
      /\ \/ UNCHANGED <<olLayer, created, collectionVars>>
         \/ /\ stage[e] = "absent" /\ olLayer'[e] = New(e)
            /\ layers' = Append(layers, New(e)) /\ index' = index
  BY PathStep DEF markerVars
<1>1. /\ e \in Elements /\ e \notin BoundElements /\ e \notin LayerElements
      /\ e \notin MarkerElements /\ e \notin StaticElements
  BY ElementsAssumption DEF Elements, LayerElements
<1>2. CASE UNCHANGED <<olLayer, created, collectionVars>>
  BY <1>0, <1>2, StayInPlace DEF collectionVars
<1>3. CASE /\ stage[e] = "absent" /\ olLayer'[e] = New(e)
           /\ layers' = Append(layers, New(e)) /\ index' = index
  <2>1. created[e] = 0 /\ New(e) \in Layers /\ New(e) = <<e, 1>>
    BY <1>1, <1>3, NewFacts
  <2>2. olLayer[e] = Undefined
    BY <1>3 DEF Shape, PathShape
  <2>3. /\ New(e) \notin PlacedIn(layers) /\ New(e) # DefaultLayer /\ New(e) # Undefined
        /\ index[New(e)] = Undefined
    BY <1>1, <2>1, NewIsNew
  <2>4. Mine' = (Mine \ {}) \cup {New(e)}
    <3>1. Mine' = (Mine \ {olLayer[e]}) \cup ({olLayer'[e]} \ {Undefined})
      BY <1>0, <1>1, MineStep
    <3> QED
      BY <1>3, <2>2, <2>3, <3>1 DEF Mine
  <2>5. ASSUME NEW x \in Elements PROVE created[x] <= created'[x]
    <3>1. created[x] \in Nat /\ created'[x] \in Nat
      BY <1>0 DEF Typed
    <3>2. x # e => created'[x] = created[x]
      BY <1>0 DEF Only
    <3> QED
      BY <2>1, <3>1, <3>2
  <2>6. \A x \in LayerElements : olLayer'[x] = olLayer[x]
    BY <1>0, <1>1 DEF Only, LayerElements, Elements
  <2>7. Collection \in Collections /\ Good(Collection) /\ Ordinary(New(e))
    BY <1>1, <2>1 DEF Typed, InPlace, Ordinary, IsStatic, IsMarkers
  <2>8. /\ Collection.layers = layers /\ Collection.index = index
        /\ Collection'.layers = layers' /\ Collection'.index = index'
    BY DEF Collection
  <2>9. Became(Collection, Collection', {}, {New(e)})
    BY <1>3, <2>1, <2>3, <2>7, <2>8, AppendGood
  <2> QED
    BY <1>0, <2>3, <2>4, <2>5, <2>6, <2>9, Arranged
<1> QED
  BY <1>0, <1>2, <1>3

LEMMA LinksMarkerInPlace ==
  ASSUME Typed, Shape, InPlace, ~ shifted, NEW e \in MarkerElements, LinkMarker(e)
  PROVE  InPlace'
<1>0. /\ Typed' /\ Shape' /\ Only(e) /\ UNCHANGED <<index, shifted>>
      /\ \/ markerLayer # Undefined /\ UNCHANGED <<layers, markerLayer>>
         \/ /\ markerLayer = Undefined /\ markerLayer' = New(e) /\ stage[e] = "absent"
            /\ layers' = Append(layers, New(e))
  BY LinkMarkerStep
<1>1. e \in Elements /\ e \notin BoundElements /\ e \notin LayerElements
  BY ElementsAssumption DEF Elements, LayerElements
<1>2. stage[e] = "absent"
  BY DEF LinkMarker, Appear
<1>3. created[e] = 0 /\ New(e) \in Layers /\ New(e) = <<e, 1>>
  BY <1>1, <1>2, NewFacts
<1>4. ASSUME NEW x \in Elements PROVE created[x] <= created'[x]
  <2>1. created[x] \in Nat /\ created'[x] \in Nat
    BY <1>0 DEF Typed
  <2>2. x # e => created'[x] = created[x]
    BY <1>0 DEF Only
  <2> QED
    BY <1>3, <2>1, <2>2
<1>5. \A x \in LayerElements : olLayer'[x] = olLayer[x]
  BY <1>0, <1>1 DEF Only, LayerElements, Elements
<1>6. Mine' = (Mine \ {markerLayer}) \cup ({markerLayer'} \ {Undefined})
  BY <1>0, MarkersMineStep
<1>7. /\ New(e) \notin PlacedIn(layers) /\ New(e) # DefaultLayer /\ New(e) # Undefined
      /\ index[New(e)] = Undefined
  BY <1>1, <1>3, NewIsNew
<1>8. Collection \in Collections /\ Good(Collection)
  BY DEF Typed, InPlace
<1>9. /\ Collection.layers = layers /\ Collection.index = index
      /\ Collection'.layers = layers' /\ Collection'.index = index'
  BY DEF Collection
<1>10. CASE markerLayer # Undefined /\ UNCHANGED <<layers, markerLayer>>
  <2>1. Mine' = (Mine \ {}) \cup {}
    BY <1>6, <1>10 DEF Mine
  <2>2. Collection' = Collection
    BY <1>0, <1>10 DEF Collection
  <2>3. Became(Collection, Collection', {}, {})
    BY <1>8, <2>2 DEF Became
  <2> QED
    BY <1>0, <1>4, <1>5, <2>1, <2>3, Arranged
<1>11. CASE /\ markerLayer = Undefined /\ markerLayer' = New(e)
            /\ layers' = Append(layers, New(e))
  <2>1. Mine' = (Mine \ {}) \cup {New(e)}
    BY <1>6, <1>7, <1>11 DEF Mine
  <2>2. ASSUME NEW j \in 1..Len(layers), IsMarkers(layers[j]) PROVE FALSE
    <3>1. layers[j] \in PlacedIn(layers) /\ layers[j] # DefaultLayer
      BY <2>2, ElementsAssumption DEF PlacedIn, IsMarkers, DefaultLayer, Elements
    <3>2. layers[j] \in Mine
      BY <3>1, PlacedNamed
    <3>3. layers[j] = markerLayer
      BY <2>2, <3>2, MineNamed
    <3> QED
      BY <1>11, <3>2, <3>3 DEF Mine
  <2>3. Became(Collection, Collection', {}, {New(e)})
    BY <1>0, <1>3, <1>7, <1>8, <1>9, <1>11, <2>2, AppendGood
  <2> QED
    BY <1>0, <1>4, <1>5, <1>7, <2>1, <2>3, Arranged
<1> QED
  BY <1>0, <1>10, <1>11

LEMMA DestroysMarkerInPlace ==
  ASSUME Typed, Shape, InPlace, ~ shifted, ~ shifted', NEW e \in MarkerElements, DestroyMarker(e)
  PROVE  InPlace'
<1> DEFINE l == markerLayer
<1>0. /\ Typed' /\ Shape' /\ Only(e) /\ UNCHANGED <<olLayer, created, index>>
      /\ \/ UNCHANGED <<layers, markerLayer>>
         \/ /\ l # Undefined /\ markerLayer' = Undefined
            /\ layers' = RemoveFirst(layers, l) /\ Last(layers) = l
  BY DestroyMarkerStep
<1>1. CASE UNCHANGED <<layers, markerLayer>>
  <2>1. Mine' = (Mine \ {}) \cup {}
    <3>1. Mine' = (Mine \ {markerLayer}) \cup ({markerLayer'} \ {Undefined})
      BY <1>0, MarkersMineStep
    <3> QED
      BY <1>1, <3>1 DEF Mine
  <2>2. Collection' = Collection
    BY <1>0, <1>1 DEF Collection
  <2>3. Became(Collection, Collection', {}, {})
    BY <2>2 DEF Became, Typed, InPlace
  <2>4. \A x \in Elements : created[x] <= created'[x]
    BY <1>0 DEF Typed
  <2>5. \A x \in LayerElements : olLayer'[x] = olLayer[x]
    BY <1>0
  <2> QED
    BY <1>0, <2>1, <2>3, <2>4, <2>5, Arranged
<1>2. CASE /\ l # Undefined /\ markerLayer' = Undefined
           /\ layers' = RemoveFirst(layers, l) /\ Last(layers) = l
  <2>1. l \in Layers /\ l \in Mine /\ l \in PlacedIn(layers)
    BY <1>2 DEF Typed, Mine, InPlace
  <2>2. /\ Collection \in Collections /\ Good(Collection)
        /\ layers \in Items /\ Len(layers) \in Nat
        /\ Collection.layers = layers /\ Collection.index = index
        /\ Collection'.layers = layers' /\ Collection'.index = index'
    BY DEF Typed, InPlace, Collection, Collections, Items
  <2>3. Len(layers) > 0 /\ layers # <<>>
    <3>1. PICK j \in 1..Len(layers) : layers[j] = l
      BY <2>1 DEF PlacedIn
    <3> QED
      BY <2>2, <3>1
  <2>4. layers[Len(layers)] = l /\ Len(layers) \in 1..Len(layers)
    BY <1>2, <2>2, <2>3 DEF Last
  <2>5. \A j \in 1..Len(layers) : layers[j] = l <=> j = Len(layers)
    BY <2>1, <2>2, <2>4, UndefinedAssumption DEF Good, Ordered
  <2>6. layers' = RemoveAt(layers, Len(layers))
    BY <1>2, <2>2, <2>4, <2>5, RemoveFirstEffect
  <2>7. /\ Len(RemoveAt(layers, Len(layers))) = Len(layers) - 1
        /\ \A j \in 1..(Len(layers) - 1) : RemoveAt(layers, Len(layers))[j] = layers[j]
    <3>1. /\ Len(RemoveAt(layers, Len(layers))) = Len(layers) - 1
          /\ \A j \in 1..(Len(layers) - 1) :
               RemoveAt(layers, Len(layers))[j] = IF j < Len(layers) THEN layers[j]
                                                  ELSE layers[j + 1]
      BY <2>2, <2>4, RemoveAtEffect DEF Items
    <3>2. \A j \in 1..(Len(layers) - 1) : j < Len(layers)
      BY <2>2
    <3> QED
      BY <3>1, <3>2
  <2>8. Became(Collection, Collection', {l}, {})
    <3>1. /\ Len(layers') = Len(layers) - 1
          /\ \A j \in 1..(Len(layers) - 1) : layers'[j] = layers[j]
      BY <2>6, <2>7
    <3> QED
      BY <1>0, <2>1, <2>2, <2>3, <2>4, <3>1, TopGood
  <2>9. Mine' = (Mine \ {l}) \cup {}
    <3>1. Mine' = (Mine \ {markerLayer}) \cup ({markerLayer'} \ {Undefined})
      BY <1>0, MarkersMineStep
    <3> QED
      BY <1>2, <3>1
  <2>10. \A x \in Elements : created[x] <= created'[x]
    BY <1>0 DEF Typed
  <2>11. \A x \in LayerElements : olLayer'[x] = olLayer[x]
    BY <1>0
  <2> QED
    BY <1>0, <2>1, <2>8, <2>9, <2>10, <2>11, Arranged
<1> QED
  BY <1>0, <1>1, <1>2

\* Once layers have moved without their index, that does not change.
LEMMA ShiftedStays ==
  ASSUME Typed, Next, shifted
  PROVE  shifted'
<1>1. ASSUME NEW e \in BoundElements, Watch(e) PROVE shifted'
  BY <1>1 DEF Watch, WatchWithoutSource, WatchFillsIn, WatchThrows, WatchCreates,
              WatchChanges, WatchReplaces, WatchLoses
<1>2. ASSUME NEW e \in BoundElements, LinkBound(e) \/ SetProperties(e) PROVE shifted'
  BY <1>2 DEF LinkBound, SetProperties
<1>3. ASSUME NEW e \in LayerElements, DestroyLayer(e) PROVE shifted'
  BY <1>3 DEF DestroyLayer
<1>4. ASSUME NEW e \in StaticElements, LinkStatic(e) PROVE shifted'
  BY <1>4 DEF LinkStatic
<1>5. ASSUME NEW e \in PathElements, LinkPath(e) \/ DestroyPath(e) PROVE shifted'
  BY <1>5 DEF LinkPath, DestroyPath
<1>6. ASSUME NEW e \in MarkerElements, LinkMarker(e) \/ DestroyMarker(e) PROVE shifted'
  BY <1>6 DEF LinkMarker, DestroyMarker
<1>7. ASSUME Wait PROVE shifted'
  BY <1>7 DEF Wait, vars
<1>8. CASE \E e \in BoundElements :
             LinkBound(e) \/ SetProperties(e) \/ Watch(e) \/ DestroyLayer(e)
  BY <1>1, <1>2, <1>3, <1>8 DEF LayerElements
<1>9. CASE \E e \in StaticElements : LinkStatic(e) \/ DestroyLayer(e)
  BY <1>3, <1>4, <1>9 DEF LayerElements
<1> QED
  BY <1>5, <1>6, <1>7, <1>8, <1>9 DEF Next

LEMMA NextInPlace ==
  ASSUME Typed, Shape, AllShown, InPlace, Next
  PROVE  InPlace'
<1>1. CASE shifted'
  BY <1>1 DEF InPlace
<1>2. CASE ~ shifted'
  <2>0. ~ shifted
    BY <1>2, ShiftedStays
  <2>1. ASSUME NEW e \in BoundElements, LinkBound(e) \/ SetProperties(e) PROVE InPlace'
    BY <2>1, StayInPlace DEF LinkBound, SetProperties, collectionVars, markerVars
  <2>2. ASSUME NEW e \in BoundElements, Watch(e) PROVE InPlace'
    <3>1. CASE WatchWithoutSource(e) \/ WatchFillsIn(e)
      BY <3>1, StayInPlace DEF WatchWithoutSource, WatchFillsIn, collectionVars, markerVars
    <3>2. CASE WatchCreates(e)
      BY <1>2, <2>0, <3>2, CreatesInPlace
    <3>3. CASE WatchChanges(e)
      BY <2>0, <3>3, ChangesInPlace
    <3>4. CASE WatchReplaces(e)
      BY <1>2, <2>0, <3>4, ReplacesInPlace
    <3>5. CASE WatchLoses(e)
      BY <1>2, <2>0, <3>5, LosesInPlace
    <3>6. CASE WatchThrows(e)
      BY <1>2, <3>6, StayInPlace DEF WatchThrows, markerVars
    <3> QED
      BY <2>2, <3>1, <3>2, <3>3, <3>4, <3>5, <3>6 DEF Watch
  <2>3. ASSUME NEW e \in LayerElements, DestroyLayer(e) PROVE InPlace'
    BY <2>0, <2>3, DestroysInPlace
  <2>4. ASSUME NEW e \in StaticElements, LinkStatic(e) PROVE InPlace'
    BY <1>2, <2>0, <2>4, StaticInPlace
  <2>5. ASSUME NEW e \in PathElements, LinkPath(e) \/ DestroyPath(e) PROVE InPlace'
    BY <2>0, <2>5, PathInPlace
  <2>6. ASSUME NEW e \in MarkerElements, LinkMarker(e) PROVE InPlace'
    BY <2>0, <2>6, LinksMarkerInPlace
  <2>7. ASSUME NEW e \in MarkerElements, DestroyMarker(e) PROVE InPlace'
    BY <1>2, <2>0, <2>7, DestroysMarkerInPlace
  <2>8. ASSUME Wait PROVE InPlace'
    BY <2>8, StayInPlace DEF Wait, vars, collectionVars, markerVars
  <2>9. CASE \E e \in BoundElements :
               LinkBound(e) \/ SetProperties(e) \/ Watch(e) \/ DestroyLayer(e)
    BY <2>1, <2>2, <2>3, <2>9 DEF LayerElements
  <2>10. CASE \E e \in StaticElements : LinkStatic(e) \/ DestroyLayer(e)
    BY <2>3, <2>4, <2>10 DEF LayerElements
  <2> QED
    BY <2>5, <2>6, <2>7, <2>8, <2>9, <2>10 DEF Next
<1> QED
  BY <1>1, <1>2

LEMMA InitInPlace ==
  Init => InPlace
<1> SUFFICES ASSUME Init PROVE InPlace
  OBVIOUS
<1>1. /\ layers = <<>> \/ layers = <<DefaultLayer>>
      /\ index = [l \in Layers |-> Undefined]
  BY BoundAssumption DEF Init, DefaultLayer
<1>2. /\ markerLayer = Undefined /\ olLayer = [e \in Elements |-> Undefined]
      /\ created = [e \in Elements |-> 0]
  BY DEF Init
<1>3. Mine = {}
  BY <1>2 DEF Mine
<1>4. DefaultLayer \in Layers /\ Default \notin Elements
  BY ElementsAssumption DEF Layers, DefaultLayer, Elements
<1>5. /\ Collection.layers = layers /\ Collection.index = index
  BY DEF Collection
<1>6. CASE layers = <<>>
  <2>1. Good(Collection)
    BY <1>5, <1>6 DEF Good, Ordered, Agreed
  <2>2. PlacedIn(layers) = {}
    BY <1>6 DEF PlacedIn
  <2> QED
    BY <1>1, <1>2, <1>3, <2>1, <2>2 DEF InPlace, LayerElements, Elements
<1>7. CASE layers = <<DefaultLayer>>
  <2>1. Len(layers) = 1 /\ layers[1] = DefaultLayer
    BY <1>7
  <2>2. ~ IsStatic(DefaultLayer) /\ ~ IsMarkers(DefaultLayer)
    BY <1>4 DEF DefaultLayer, IsStatic, IsMarkers, Elements
  <2>3. Ordered(layers)
    BY <2>1, <2>2 DEF Ordered
  <2>4. Agreed(Collection)
    BY <1>1, <1>4, <1>5, <2>1 DEF Agreed
  <2>5. PlacedIn(layers) \ {DefaultLayer} = {}
    BY <2>1 DEF PlacedIn
  <2> QED
    BY <1>1, <1>2, <1>3, <1>5, <2>3, <2>4, <2>5 DEF Good, InPlace, LayerElements, Elements
<1> QED
  BY <1>1, <1>6, <1>7

LEMMA SpecInPlace ==
  Spec => [](Typed /\ Shape /\ InPlace)
<1>1. Init => Typed /\ Shape /\ AllShown /\ InPlace
  BY InitHolds, InitInPlace
<1>2. Typed /\ Shape /\ AllShown /\ InPlace /\ [Next]_vars =>
        (Typed /\ Shape /\ AllShown /\ InPlace)'
  <2>1. CASE Next
    BY <2>1, StepHolds, NextInPlace
  <2>2. CASE UNCHANGED vars
    BY <2>2, StutterHolds, StayInPlace DEF vars, collectionVars, markerVars
  <2> QED
    BY <2>1, <2>2
<1> QED
  BY <1>1, <1>2, PTL DEF Spec

\* An index that a layer remembers leads to the layer, through every removal, insertion and
\* replacement of any element, as long as no layers have moved without theirs.
THEOREM LayersIndexFinds == Spec => []IndexFinds
<1>1. Typed /\ InPlace => IndexFinds
  <2> SUFFICES ASSUME Typed, InPlace, ~ shifted, NEW l \in Placed, index[l] # Undefined
               PROVE  index[l] < Len(layers) /\ layers[index[l] + 1] = l
    BY DEF IndexFinds
  <2>1. /\ Collection \in Collections /\ Good(Collection)
        /\ Collection.layers = layers /\ Collection.index = index
    BY DEF Typed, InPlace, Collection
  <2>2. l \in PlacedIn(layers) /\ l \in Layers
    <3>1. PICK j \in 1..Len(layers) : l = layers[j] /\ l # Null
      BY DEF Placed
    <3>2. layers \in Seq(Layers \cup {Null})
      BY <2>1 DEF Collections, Items
    <3> QED
      BY <3>1, <3>2 DEF PlacedIn
  <2> QED
    BY <2>1, <2>2, Found
<1> QED
  BY <1>1, SpecInPlace, PTL

LEMMA MineIs ==
  ASSUME Typed, Shape
  PROVE  Mine = ({Current(e) : e \in {x \in Elements : stage[x] = "live"}}
                 \cup {olLayer[e] : e \in {x \in PathElements : stage[x] = "gone"}})
                \ {Undefined}
<1>0. stage \in [Elements -> {"absent", "live", "gone"}]
  BY DEF Typed
<1>1. ASSUME NEW l, l \in Mine
      PROVE  \/ \E e \in Elements : stage[e] = "live" /\ l = Current(e)
             \/ \E e \in PathElements : stage[e] = "gone" /\ l = olLayer[e]
  <2>1. CASE \E e \in Elements \ MarkerElements : l = olLayer[e] /\ l # Undefined
    <3>1. PICK e \in Elements \ MarkerElements : l = olLayer[e] /\ l # Undefined
      BY <2>1
    <3>2. CASE e \in LayerElements
      <4>1. stage[e] = "live"
        BY <3>1, <3>2 DEF Shape, BoundShape, StaticShape, LayerElements
      <4> QED
        BY <3>1, <4>1 DEF Current
    <3>3. CASE e \in PathElements
      <4>1. stage[e] # "absent"
        BY <3>1, <3>3 DEF Shape, PathShape
      <4> QED
        BY <1>0, <3>1, <3>3, <4>1 DEF Current
    <3> QED
      BY <3>1, <3>2, <3>3 DEF Elements, LayerElements
  <2>2. CASE l = markerLayer /\ l # Undefined
    <3>1. PICK e \in MarkerElements : stage[e] = "live"
      BY <2>2 DEF Shape, MarkersShape
    <3> QED
      BY <2>2, <3>1 DEF Current, Elements
  <2> QED
    BY <1>1, <2>1, <2>2 DEF Mine
<1>2. ASSUME NEW e \in Elements, Current(e) # Undefined PROVE Current(e) \in Mine
  BY <1>2 DEF Mine, Current
<1>3. ASSUME NEW e \in PathElements, olLayer[e] # Undefined PROVE olLayer[e] \in Mine
  BY <1>3, ElementsAssumption DEF Mine, Elements
<1>4. \A l \in Mine : l # Undefined
  BY DEF Mine
<1> QED
  BY <1>1, <1>2, <1>3, <1>4

\* The map has the layers of the elements that live, once each, and of nothing else but the
\* default layer and the ol-path elements that are gone; and the markers are above every
\* layer of an ol-layer that was put before them.
THEOREM LayersStayInPlace == Spec => []LayersInPlace
<1>1. Typed /\ Shape /\ InPlace => LayersAreElements
  <2> SUFFICES ASSUME Typed, Shape, InPlace, ~ shifted
               PROVE  /\ Placed \ {<<Default, 1>>} = Mine
                      /\ \A j, k \in 1..Len(layers) :
                           layers[j] = layers[k] => j = k \/ layers[j] = Null
    BY MineIs DEF LayersAreElements
  <2>1. Placed \ {<<Default, 1>>} = Mine
    BY DEF InPlace, Placed, PlacedIn, DefaultLayer
  <2>2. Ordered(layers)
    BY DEF InPlace, Good, Collection
  <2> QED
    BY <2>1, <2>2 DEF Ordered
<1>2. Typed /\ Shape /\ InPlace => MarkersAbove
  <2> SUFFICES ASSUME Typed, Shape, InPlace, ~ shifted, NEW e \in StaticElements,
                      NEW j \in 1..Len(layers), NEW k \in 1..Len(layers),
                      layers[j] # Null, layers[j] = olLayer[e], IsMarkers(layers[k])
               PROVE  j < k
    BY DEF MarkersAbove
  <2>1. Ordered(layers)
    BY DEF InPlace, Good, Collection
  <2>2. layers[j] # Undefined
    <3>1. layers[j] \in PlacedIn(layers)
      BY DEF PlacedIn
    <3>2. layers[j] \in Mine \/ layers[j] = DefaultLayer
      BY <3>1, PlacedNamed
    <3>3. DefaultLayer # Undefined
      BY UndefinedAssumption, ElementsAssumption DEF Layers, DefaultLayer, Elements
    <3> QED
      BY <3>2, <3>3 DEF Mine
  <2>3. layers[j] = <<e, created[e]>>
    BY <2>2 DEF Shape, StaticShape
  <2>4. IsStatic(layers[j])
    BY <2>3 DEF IsStatic
  <2> QED
    BY <2>1, <2>4 DEF Ordered
<1> QED
  BY <1>1, <1>2, SpecInPlace, PTL DEF LayersInPlace
=============================================================================
