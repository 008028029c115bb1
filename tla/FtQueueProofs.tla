--------------------------- MODULE FtQueueProofs ---------------------------
(***************************************************************************)
(* What the operations of FtQueue preserve, for any number of members: the *)
(* cached ranks stay right whatever the order, and moving only the member  *)
(* whose state changed keeps the whole queue ranked.                       *)
(***************************************************************************)
EXTENDS FtQueue, FiniteSetTheorems, TLAPS

View == [Node -> FtState]

----------------------------------------------------------------------------
(* Sets of naturals have a least and, if bounded, a greatest element.  (The *)
(* induction theorems of the library take an operator, this takes a set.)   *)

\* < is well-founded on the naturals.
LEMMA LessWellFounded == IsWellFoundedOn({ss \in Nat \X Nat : ss[1] < ss[2]}, Nat)
  BY NatLessThanWellFounded DEF OpToRel

\* A set of naturals that is not empty has a least element.
LEMMA LeastExists ==
    ASSUME NEW S \in SUBSET Nat, S # {}
    PROVE  \E m \in S : \A i \in S : m <= i
<1> DEFINE R == {ss \in Nat \X Nat : ss[1] < ss[2]}
<1>1. \E x \in S : \A y \in S : ~ (<<y, x>> \in R)
  <2>1. IsWellFoundedOn(R, Nat)
    BY LessWellFounded
  <2> HIDE DEF R
  <2> QED  BY WFMin, <2>1
<1>2. PICK x \in S : \A y \in S : ~ (<<y, x>> \in R)
  BY <1>1
<1>3. ASSUME NEW y \in S, y < x PROVE FALSE
  <2>1. <<y, x>> \in R
    BY <1>3
  <2> QED  BY <2>1, <1>2
<1> QED  BY <1>3

\* A bounded one has a greatest element.
LEMMA GreatestExists ==
    ASSUME NEW S \in SUBSET Nat, S # {}, NEW n \in Nat, \A i \in S : i <= n
    PROVE  \E m \in S : \A i \in S : i <= m
<1> DEFINE D == {n - i : i \in S}
<1>0. \A i \in S : n - i \in Nat
  OBVIOUS
<1>1. D \in SUBSET Nat /\ D # {}
  BY <1>0
<1>2. PICK d \in D : \A e \in D : d <= e
  <2> HIDE DEF D
  <2> QED  BY <1>1, LeastExists
<1>3. PICK m \in S : d = n - m
  OBVIOUS
<1>4. \A i \in S : i <= m
  BY <1>2, <1>3
<1> QED  BY <1>4

----------------------------------------------------------------------------
(* The rank order is a strict total order. *)

\* Of two different members one outranks the other, and only that one.
LEMMA GreaterTotal ==
    ASSUME NEW v \in View, NEW x \in Node, NEW y \in Node, x # y
    PROVE  is_greater(v, x, y) <=> ~ is_greater(v, y, x)
  BY NodeAssumption
     DEF is_greater, is_greater_weight, View, FtState, STATE_JOIN

\* To outrank is transitive.
LEMMA GreaterTransitive ==
    ASSUME NEW v \in View, NEW x \in Node, NEW y \in Node, NEW z \in Node,
           is_greater(v, x, y), is_greater(v, y, z)
    PROVE  is_greater(v, x, z)
  BY NodeAssumption
     DEF is_greater, is_greater_weight, View, FtState, STATE_JOIN

----------------------------------------------------------------------------
(* reorder: the last element moves to its place. *)

\* The place where the last element stops exists.
LEMMA StopAtExists ==
    ASSUME NEW v \in View, NEW ptr \in Seq(Node), Len(ptr) > 0
    PROVE  LET j == StopAt(v, ptr) IN
           /\ j \in 0 .. Len(ptr) - 1
           /\ j = 0 \/ is_greater(v, ptr[j], ptr[Len(ptr)])
           /\ \A i \in j + 1 .. Len(ptr) - 1 : ~ is_greater(v, ptr[i], ptr[Len(ptr)])
<1> DEFINE n == Len(ptr)
           G == {i \in 1 .. n - 1 : is_greater(v, ptr[i], ptr[n])}
           Stop(j) == /\ j = 0 \/ is_greater(v, ptr[j], ptr[n])
                      /\ \A i \in j + 1 .. n - 1 : ~ is_greater(v, ptr[i], ptr[n])
<1>1. n \in Nat /\ n > 0
  OBVIOUS
<1>2. \E j \in 0 .. n - 1 : Stop(j)
  <2>1. CASE G = {}
    <3>1. Stop(0)
      BY <2>1, <1>1
    <3> QED  BY <3>1, <1>1
  <2>2. CASE G # {}
    <3>1. G \in SUBSET Nat /\ \A i \in G : i <= n
      BY <1>1
    <3>2. PICK m \in G : \A i \in G : i <= m
      <4> HIDE DEF G
      <4> QED  BY <2>2, <3>1, <1>1, GreatestExists
    <3>3. Stop(m)
      BY <3>2, <1>1
    <3> QED  BY <3>3, <1>1
  <2> QED  BY <2>1, <2>2
<1> QED  BY <1>2 DEF StopAt

\* Where the element that reorder puts at index i comes from.
From(n, j, i) == IF i <= j THEN i ELSE IF i = j + 1 THEN n ELSE i - 1

\* b is a with its last element moved to behind index j.
Shifted(b, a, j) ==
    Len(b) = Len(a) /\ \A i \in 1 .. Len(a) : b[i] = a[From(Len(a), j, i)]

FromIsPermutation(n, j) ==
    /\ \A i \in 1 .. n : From(n, j, i) \in 1 .. n
    /\ \A i, k \in 1 .. n : From(n, j, i) = From(n, j, k) => i = k
    /\ \A k \in 1 .. n : \E i \in 1 .. n : From(n, j, i) = k

\* From is a permutation of 1 .. n.
LEMMA FromPermutes ==
    ASSUME NEW n \in Nat, NEW j \in 0 .. n - 1
    PROVE  FromIsPermutation(n, j)
<1>1. ASSUME NEW k \in 1 .. n PROVE \E i \in 1 .. n : From(n, j, i) = k
  <2>1. CASE k <= j
    BY <2>1 DEF From
  <2>2. CASE k = n
    <3>1. j + 1 \in 1 .. n /\ From(n, j, j + 1) = n
      BY DEF From
    <3> QED  BY <3>1, <2>2
  <2>3. CASE k > j /\ k < n
    <3>1. k + 1 \in 1 .. n /\ From(n, j, k + 1) = k
      BY <2>3 DEF From
    <3> QED  BY <3>1
  <2> QED  BY <2>1, <2>2, <2>3
<1>2. \A i \in 1 .. n : From(n, j, i) \in 1 .. n
  BY DEF From
<1>3. \A i, k \in 1 .. n : From(n, j, i) = From(n, j, k) => i = k
  BY DEF From
<1> QED  BY <1>1, <1>2, <1>3 DEF FromIsPermutation

\* What reorder does to the array.
LEMMA ReorderPtr ==
    ASSUME NEW v \in View, NEW q \in Queue, Len(q.ptr) > 0
    PROVE  LET n == Len(q.ptr)
               j == StopAt(v, q.ptr)
               r == reorder(v, q)
           IN  /\ j \in 0 .. n - 1
               /\ r.ptr \in Seq(Node)
               /\ Len(r.ptr) = n
               /\ Shifted(r.ptr, q.ptr, j)
               /\ r.pos = Renumbered(q.pos, r.ptr, j + 1)
               /\ r = [ptr |-> r.ptr, pos |-> r.pos, news |-> q.news]
<1> DEFINE n == Len(q.ptr)
           j == StopAt(v, q.ptr)
           p == [i \in 1 .. n |-> IF i <= j THEN q.ptr[i]
                                  ELSE IF i = j + 1 THEN q.ptr[n]
                                  ELSE q.ptr[i - 1]]
<1>1. q.ptr \in Seq(Node) /\ n \in Nat /\ n > 0 /\ j \in 0 .. n - 1
  BY StopAtExists DEF Queue
<1>2. p \in [1 .. n -> Node]
  BY <1>1
<1>3. p \in Seq(Node) /\ Len(p) = n
  BY <1>1, <1>2
<1>4. \A i \in 1 .. n : p[i] = q.ptr[From(n, j, i)]
  BY <1>1 DEF From
<1>5. reorder(v, q) = [ptr |-> p, pos |-> Renumbered(q.pos, p, j + 1), news |-> q.news]
  BY DEF reorder
<1>6. Shifted(p, q.ptr, j)
  BY <1>3, <1>4 DEF Shifted
<1> HIDE DEF p
<1> QED  BY <1>1, <1>3, <1>5, <1>6

----------------------------------------------------------------------------
(* The parts of PosAgrees, so that they can be moved about as wholes. *)

Distinct(s) == \A i, k \in 1 .. Len(s) : s[i] = s[k] => i = k

Numbered(pos, s, lo, hi) == \A i \in lo .. hi : pos[s[i]] = i

NilOutside(pos, S) == \A p \in Node : pos[p] # 0 => p \in S

SameOutside(f, g, S) == \A p \in Node : p \notin S => f[p] = g[p]

\* PosAgrees by its parts; right positions are different ones.
LEMMA PosAgreesParts ==
    ASSUME NEW ptr \in Seq(Node), NEW pos \in [Node -> Nat], NEW news \in BOOLEAN
    PROVE  /\ PosAgrees([ptr |-> ptr, pos |-> pos, news |-> news])
                <=> Numbered(pos, ptr, 1, Len(ptr)) /\ NilOutside(pos, Elements(ptr))
           /\ Numbered(pos, ptr, 1, Len(ptr)) => Distinct(ptr)
           /\ [ptr |-> ptr, pos |-> pos, news |-> news] \in Queue
           /\ Members([ptr |-> ptr, pos |-> pos, news |-> news]) = Elements(ptr)
<1>1. Numbered(pos, ptr, 1, Len(ptr)) => Distinct(ptr)
  BY DEF Numbered, Distinct
<1>2. /\ PosAgrees([ptr |-> ptr, pos |-> pos, news |-> news])
           <=> Numbered(pos, ptr, 1, Len(ptr)) /\ NilOutside(pos, Elements(ptr))
      /\ [ptr |-> ptr, pos |-> pos, news |-> news] \in Queue
      /\ Members([ptr |-> ptr, pos |-> pos, news |-> news]) = Elements(ptr)
  BY DEF PosAgrees, Numbered, NilOutside, Members, Queue
<1> QED  BY <1>1, <1>2

\* A queue is the record of its fields.
LEMMA QueueFields ==
    ASSUME NEW q \in Queue
    PROVE  /\ q.ptr \in Seq(Node) /\ q.pos \in [Node -> Nat] /\ q.news \in BOOLEAN
           /\ q = [ptr |-> q.ptr, pos |-> q.pos, news |-> q.news]
  BY DEF Queue

\* Renumbering gives an element at an index from j on that index, and leaves
\* the rest as it was.
LEMMA RenumberedPos ==
    ASSUME NEW ptr \in Seq(Node), NEW pos \in [Node -> Nat], NEW j \in Nat, j > 0,
           Distinct(ptr)
    PROVE  /\ Renumbered(pos, ptr, j) \in [Node -> Nat]
           /\ Numbered(Renumbered(pos, ptr, j), ptr, j, Len(ptr))
           /\ SameOutside(Renumbered(pos, ptr, j), pos, {ptr[i] : i \in j .. Len(ptr)})
<1> DEFINE r == Renumbered(pos, ptr, j)
<1>1. ASSUME NEW i \in j .. Len(ptr) PROVE ptr[i] \in Node /\ r[ptr[i]] = i
  <2>1. i \in 1 .. Len(ptr) /\ j .. Len(ptr) \subseteq 1 .. Len(ptr)
    OBVIOUS
  <2>2. ptr[i] \in Node
    BY <2>1
  <2>3. r[ptr[i]] = CHOOSE k \in j .. Len(ptr) : ptr[k] = ptr[i]
    BY <2>2 DEF Renumbered
  <2>4. \A k \in j .. Len(ptr) : ptr[k] = ptr[i] => k = i
    BY <2>1 DEF Distinct
  <2> QED  BY <2>2, <2>3, <2>4
<1>2. \A p \in Node : (\A i \in j .. Len(ptr) : ptr[i] # p) => r[p] = pos[p]
  BY DEF Renumbered
<1>3. r \in [Node -> Nat]
  <2>1. ASSUME NEW p \in Node PROVE r[p] \in Nat
    <3>1. CASE \E i \in j .. Len(ptr) : ptr[i] = p
      BY <3>1, <1>1
    <3>2. CASE \A i \in j .. Len(ptr) : ptr[i] # p
      BY <3>2, <1>2
    <3> QED  BY <3>1, <3>2
  <2>2. r = [p \in Node |-> r[p]]
    BY DEF Renumbered
  <2> QED  BY <2>1, <2>2
<1> QED  BY <1>1, <1>2, <1>3 DEF Numbered, SameOutside

\* Renumbering from behind a prefix that has its numbers makes every number
\* right.
LEMMA RenumberedAgrees ==
    ASSUME NEW b \in Seq(Node), NEW pos \in [Node -> Nat], NEW h \in Nat, h > 0,
           h - 1 <= Len(b), Distinct(b), Numbered(pos, b, 1, h - 1)
    PROVE  /\ Renumbered(pos, b, h) \in [Node -> Nat]
           /\ Numbered(Renumbered(pos, b, h), b, 1, Len(b))
           /\ SameOutside(Renumbered(pos, b, h), pos, Elements(b))
<1> DEFINE r == Renumbered(pos, b, h)
<1>1. /\ r \in [Node -> Nat]
      /\ Numbered(r, b, h, Len(b))
      /\ SameOutside(r, pos, {b[i] : i \in h .. Len(b)})
  BY RenumberedPos
<1> HIDE DEF r
<1>2. ASSUME NEW i \in 1 .. h - 1 PROVE r[b[i]] = i
  <2>1. b[i] \in Node /\ i \in 1 .. Len(b)
    BY <1>2
  <2>2. \A k \in h .. Len(b) : b[k] # b[i]
    BY <1>2, <2>1 DEF Distinct
  <2>3. r[b[i]] = pos[b[i]]
    BY <2>1, <2>2, <1>1 DEF SameOutside
  <2> QED  BY <2>3, <1>2 DEF Numbered
<1>3. Numbered(r, b, 1, Len(b))
  BY <1>1, <1>2 DEF Numbered
<1>4. SameOutside(r, pos, Elements(b))
  BY <1>1 DEF SameOutside, Elements
<1> QED  BY <1>1, <1>3, <1>4 DEF r

\* Shifting keeps the elements, each once, and the ones before the gap.
LEMMA ShiftedSame ==
    ASSUME NEW a \in Seq(Node), NEW b \in Seq(Node), NEW j \in 0 .. Len(a) - 1,
           Shifted(b, a, j)
    PROVE  /\ Len(b) = Len(a)
           /\ Elements(b) = Elements(a)
           /\ Distinct(a) => Distinct(b)
           /\ \A i \in 1 .. j : b[i] = a[i]
<1> DEFINE n == Len(a)
           f(i) == From(n, j, i)
<1>1. /\ \A i \in 1 .. n : f(i) \in 1 .. n
      /\ \A i, k \in 1 .. n : f(i) = f(k) => i = k
      /\ \A k \in 1 .. n : \E i \in 1 .. n : f(i) = k
  <2>1. n \in Nat /\ j \in 0 .. n - 1
    OBVIOUS
  <2>2. FromIsPermutation(n, j)
    BY <2>1, FromPermutes
  <2> QED  BY <2>2 DEF FromIsPermutation
<1>2. \A i \in 1 .. j : f(i) = i /\ i \in 1 .. n
  BY DEF From
<1>3. Len(b) = n /\ \A i \in 1 .. n : b[i] = a[f(i)]
  BY DEF Shifted
<1> HIDE DEF f
<1>4. Elements(b) = Elements(a)
  <2>1. \A i \in 1 .. n : \E k \in 1 .. n : b[i] = a[k]
    BY <1>1, <1>3
  <2>2. \A k \in 1 .. n : \E i \in 1 .. n : b[i] = a[k]
    BY <1>1, <1>3
  <2>3. Elements(b) = {b[i] : i \in 1 .. n} /\ Elements(a) = {a[i] : i \in 1 .. n}
    BY <1>3 DEF Elements
  <2> HIDE DEF n
  <2> QED  BY <2>1, <2>2, <2>3
<1>5. ASSUME Distinct(a), NEW i \in 1 .. n, NEW k \in 1 .. n, b[i] = b[k]
      PROVE  i = k
  <2>1. a[f(i)] = a[f(k)] /\ f(i) \in 1 .. n /\ f(k) \in 1 .. n
    BY <1>1, <1>3, <1>5
  <2>2. f(i) = f(k)
    BY <2>1, <1>5 DEF Distinct
  <2> QED  BY <2>2, <1>1
<1>6. \A i \in 1 .. j : b[i] = a[i]
  BY <1>2, <1>3
<1> QED  BY <1>3, <1>4, <1>5, <1>6 DEF Distinct

\* reorder keeps the members and, if every member but the last has its number,
\* gives every member its number.
LEMMA ReorderPos ==
    ASSUME NEW v \in View, NEW a \in Seq(Node), NEW pos \in [Node -> Nat],
           NEW news \in BOOLEAN, Len(a) > 0, Distinct(a),
           Numbered(pos, a, 1, Len(a) - 1), NilOutside(pos, Elements(a))
    PROVE  LET q == [ptr |-> a, pos |-> pos, news |-> news]
               r == reorder(v, q)
           IN  /\ r \in Queue /\ r.news = news
               /\ Members(r) = Elements(a)
               /\ PosAgrees(r)
<1> DEFINE q == [ptr |-> a, pos |-> pos, news |-> news]
<1>1. q \in Queue /\ q.ptr = a /\ q.pos = pos /\ q.news = news
  BY DEF Queue
<1>2. PICK b, j, h, ps :
        /\ j = StopAt(v, a) /\ b = reorder(v, q).ptr /\ h = j + 1 /\ ps = Renumbered(pos, b, h)
        /\ reorder(v, q) = [ptr |-> b, pos |-> ps, news |-> news]
        /\ j \in 0 .. Len(a) - 1
        /\ b \in Seq(Node)
        /\ Shifted(b, a, j)
  <2> HIDE DEF q
  <2> QED  BY <1>1, ReorderPtr
<1>3. /\ Len(b) = Len(a) /\ Elements(b) = Elements(a) /\ Distinct(b)
      /\ \A i \in 1 .. j : b[i] = a[i]
  BY <1>2, ShiftedSame
<1>4. h \in Nat /\ h > 0 /\ h - 1 <= Len(b) /\ Numbered(pos, b, 1, h - 1)
  <2>1. h \in Nat /\ h > 0 /\ h - 1 <= Len(b) /\ h - 1 = j
    BY <1>2, <1>3
  <2>2. \A i \in 1 .. j : b[i] = a[i] /\ pos[a[i]] = i
    BY <1>2, <1>3 DEF Numbered
  <2> QED  BY <2>1, <2>2 DEF Numbered
<1>5. /\ ps \in [Node -> Nat]
      /\ Numbered(ps, b, 1, Len(b))
      /\ SameOutside(ps, pos, Elements(b))
  BY <1>2, <1>3, <1>4, RenumberedAgrees
<1>6. NilOutside(ps, Elements(b))
  BY <1>3, <1>5 DEF NilOutside, SameOutside
<1> QED  BY <1>2, <1>3, <1>5, <1>6, PosAgreesParts

----------------------------------------------------------------------------
(* The same for the order. *)

InOrder(v, s) == \A i, k \in 1 .. Len(s) : i < k => is_greater(v, s[i], s[k])

\* s is in order but for p, which may stand anywhere.
InOrderBut(v, s, p) ==
    \A i, k \in 1 .. Len(s) :
        i < k /\ s[i] # p /\ s[k] # p => is_greater(v, s[i], s[k])

\* If all but the last are in order, reorder puts all in order.
LEMMA ShiftedInOrder ==
    ASSUME NEW v \in View, NEW a \in Seq(Node), NEW b \in Seq(Node), Len(a) > 0,
           Distinct(a), Shifted(b, a, StopAt(v, a)),
           \A i, k \in 1 .. Len(a) - 1 : i < k => is_greater(v, a[i], a[k])
    PROVE  InOrder(v, b)
<1> DEFINE n == Len(a)
<1>1. PICK j \in 0 .. n - 1 :
        /\ j = StopAt(v, a)
        /\ j = 0 \/ is_greater(v, a[j], a[n])
        /\ \A i \in j + 1 .. n - 1 : ~ is_greater(v, a[i], a[n])
  BY StopAtExists
<1>2. Len(b) = n /\ n \in Nat /\ n > 0 /\ \A i \in 1 .. n : b[i] = a[From(n, j, i)]
  BY <1>1 DEF Shifted
<1>3. \A i \in 1 .. n : a[i] \in Node
  OBVIOUS
<1>4. ASSUME NEW i \in 1 .. n, NEW k \in 1 .. n, i < k PROVE is_greater(v, b[i], b[k])
  <2>1. CASE i # j + 1 /\ k # j + 1
    <3>1. /\ From(n, j, i) \in 1 .. n - 1 /\ From(n, j, k) \in 1 .. n - 1
          /\ From(n, j, i) < From(n, j, k)
      BY <1>4, <2>1, <1>1, <1>2 DEF From
    <3> QED  BY <3>1, <1>2
  <2>2. CASE k = j + 1
    <3>1. b[k] = a[n] /\ b[i] = a[i] /\ i <= j /\ j # 0
      BY <1>4, <2>2, <1>1, <1>2 DEF From
    <3>2. CASE i = j
      BY <3>1, <3>2, <1>1
    <3>3. CASE i < j
      <4>1. is_greater(v, a[i], a[j]) /\ is_greater(v, a[j], a[n])
        BY <3>1, <3>3, <1>1, <1>2
      <4>2. a[i] \in Node /\ a[j] \in Node /\ a[n] \in Node
        BY <1>3, <3>1, <1>1, <1>2
      <4> QED  BY <4>1, <4>2, <3>1, GreaterTransitive
    <3> QED  BY <3>1, <3>2, <3>3, <1>1
  <2>3. CASE i = j + 1
    <3>1. b[i] = a[n] /\ b[k] = a[k - 1] /\ k - 1 \in j + 1 .. n - 1
      BY <1>4, <2>3, <1>1, <1>2 DEF From
    <3>2. ~ is_greater(v, a[k - 1], a[n]) /\ k - 1 \in 1 .. n /\ n \in 1 .. n /\ k - 1 # n
      BY <3>1, <1>1, <1>2
    <3>3. a[k - 1] # a[n] /\ a[k - 1] \in Node /\ a[n] \in Node
      BY <3>2, <1>3 DEF Distinct
    <3> QED  BY <3>1, <3>2, <3>3, GreaterTotal
  <2> QED  BY <2>1, <2>2, <2>3
<1> QED  BY <1>2, <1>4 DEF InOrder

----------------------------------------------------------------------------
(* Taking one element out. *)

\* What is left when the element at index j is taken out.
LEMMA WithoutOne ==
    ASSUME NEW a \in Seq(Node), NEW j \in 1 .. Len(a), Distinct(a)
    PROVE  /\ Without(a, j) \in Seq(Node)
           /\ Len(Without(a, j)) = Len(a) - 1
           /\ Distinct(Without(a, j))
           /\ Elements(Without(a, j)) = Elements(a) \ {a[j]}
           /\ \A i \in 1 .. j - 1 : Without(a, j)[i] = a[i]
<1> DEFINE n == Len(a)
           w == Without(a, j)
           f(i) == IF i < j THEN i ELSE i + 1
<1>1. n \in Nat /\ n > 0 /\ n - 1 \in Nat /\ j \in 1 .. n
  OBVIOUS
<1>2. w \in [1 .. n - 1 -> Node]
  BY <1>1 DEF Without
<1>3. w \in Seq(Node) /\ Len(w) = n - 1
  <2> HIDE DEF w, n
  <2> QED  BY <1>1, <1>2
<1>4. \A i \in 1 .. n - 1 : w[i] = a[f(i)]
  BY <1>1 DEF Without
<1>5. /\ \A i \in 1 .. n - 1 : f(i) \in 1 .. n /\ f(i) # j
      /\ \A i, k \in 1 .. n - 1 : f(i) = f(k) => i = k
  BY <1>1
<1>6. ASSUME NEW k \in 1 .. n, k # j PROVE \E i \in 1 .. n - 1 : f(i) = k
  <2>1. CASE k < j
    BY <2>1, <1>1
  <2>2. CASE k > j
    <3>1. k - 1 \in 1 .. n - 1 /\ f(k - 1) = k
      BY <2>2, <1>1, <1>6
    <3> QED  BY <3>1
  <2> QED  BY <2>1, <2>2, <1>6, <1>1
<1>7. \A i \in 1 .. j - 1 : f(i) = i /\ i \in 1 .. n - 1
  BY <1>1
<1> HIDE DEF f, w
<1>8. ASSUME NEW i \in 1 .. n - 1, NEW k \in 1 .. n - 1, w[i] = w[k] PROVE i = k
  <2>1. a[f(i)] = a[f(k)] /\ f(i) \in 1 .. n /\ f(k) \in 1 .. n
    BY <1>4, <1>5, <1>8
  <2>2. f(i) = f(k)
    BY <2>1 DEF Distinct
  <2> QED  BY <2>2, <1>5
<1>9. Elements(w) = Elements(a) \ {a[j]}
  <2>1. \A i \in 1 .. n - 1 : \E k \in 1 .. n : k # j /\ w[i] = a[k]
    BY <1>4, <1>5
  <2>2. \A k \in 1 .. n : k # j => \E i \in 1 .. n - 1 : w[i] = a[k]
    BY <1>4, <1>6
  <2>3. Elements(w) = {w[i] : i \in 1 .. n - 1} /\ Elements(a) = {a[i] : i \in 1 .. n}
    BY <1>3 DEF Elements
  <2>4. \A k \in 1 .. n : a[k] = a[j] => k = j
    BY <1>1 DEF Distinct
  <2> HIDE DEF n
  <2>5. ASSUME NEW x \in Elements(w) PROVE x \in Elements(a) \ {a[j]}
    <3>1. PICK i \in 1 .. n - 1 : x = w[i]
      BY <2>3
    <3>2. PICK k \in 1 .. n : k # j /\ x = a[k]
      BY <2>1, <3>1
    <3> QED  BY <3>2, <2>3, <2>4
  <2>6. ASSUME NEW x \in Elements(a) \ {a[j]} PROVE x \in Elements(w)
    <3>1. PICK k \in 1 .. n : k # j /\ x = a[k]
      BY <2>3
    <3>2. PICK i \in 1 .. n - 1 : x = w[i]
      BY <2>2, <3>1
    <3> QED  BY <3>2, <2>3
  <2> QED  BY <2>5, <2>6
<1>10. \A i \in 1 .. j - 1 : w[i] = a[i]
  BY <1>4, <1>7
<1>11. Distinct(w)
  BY <1>3, <1>8 DEF Distinct
<1> QED  BY <1>3, <1>9, <1>10, <1>11 DEF w

\* It leaves the others in order.
LEMMA WithoutInOrder ==
    ASSUME NEW v \in View, NEW a \in Seq(Node), NEW j \in 1 .. Len(a), Distinct(a),
           InOrderBut(v, a, a[j])
    PROVE  InOrder(v, Without(a, j))
<1> DEFINE n == Len(a)
           w == Without(a, j)
           f(i) == IF i < j THEN i ELSE i + 1
<1>1. n \in Nat /\ n > 0 /\ n - 1 \in Nat /\ j \in 1 .. n /\ Len(w) = n - 1
  BY WithoutOne
<1>2. \A i \in 1 .. n - 1 : w[i] = a[f(i)]
  BY <1>1 DEF Without
<1>3. /\ \A i \in 1 .. n - 1 : f(i) \in 1 .. n /\ f(i) # j
      /\ \A i, k \in 1 .. n - 1 : i < k => f(i) < f(k)
  BY <1>1
<1> HIDE DEF f, w
<1>4. ASSUME NEW i \in 1 .. n - 1, NEW k \in 1 .. n - 1, i < k
      PROVE  is_greater(v, w[i], w[k])
  <2>1. f(i) \in 1 .. n /\ f(k) \in 1 .. n /\ f(i) < f(k) /\ f(i) # j /\ f(k) # j
    BY <1>3, <1>4
  <2>2. a[f(i)] # a[j] /\ a[f(k)] # a[j]
    BY <2>1, <1>1 DEF Distinct
  <2>3. is_greater(v, a[f(i)], a[f(k)])
    BY <2>1, <2>2 DEF InOrderBut
  <2> QED  BY <2>3, <1>2
<1>5. InOrder(v, w)
  BY <1>1, <1>4 DEF InOrder
<1> QED  BY <1>5 DEF w

\* Adding an element at the end that was not there.
LEMMA AppendOne ==
    ASSUME NEW a \in Seq(Node), NEW p \in Node, p \notin Elements(a), Distinct(a)
    PROVE  /\ Append(a, p) \in Seq(Node)
           /\ Len(Append(a, p)) = Len(a) + 1
           /\ Distinct(Append(a, p))
           /\ Elements(Append(a, p)) = Elements(a) \cup {p}
           /\ \A i \in 1 .. Len(a) : Append(a, p)[i] = a[i]
           /\ Append(a, p)[Len(a) + 1] = p
<1> DEFINE n == Len(a)
           b == Append(a, p)
<1>1. /\ b \in Seq(Node) /\ Len(b) = n + 1 /\ n \in Nat
      /\ \A i \in 1 .. n : b[i] = a[i]
      /\ b[n + 1] = p
  OBVIOUS
<1> HIDE DEF b
<1>2. \A i \in 1 .. n : a[i] # p
  BY DEF Elements
<1>3. Distinct(b)
  <2>1. ASSUME NEW i \in 1 .. n + 1, NEW k \in 1 .. n + 1, b[i] = b[k] PROVE i = k
    <3>1. CASE i = n + 1 /\ k # n + 1
      BY <3>1, <2>1, <1>1, <1>2
    <3>2. CASE k = n + 1 /\ i # n + 1
      BY <3>2, <2>1, <1>1, <1>2
    <3>3. CASE i \in 1 .. n /\ k \in 1 .. n
      BY <3>3, <2>1, <1>1 DEF Distinct
    <3> QED  BY <3>1, <3>2, <3>3, <1>1
  <2> QED  BY <2>1, <1>1 DEF Distinct
<1>4. Elements(b) = Elements(a) \cup {p}
  <2>1. Elements(b) = {b[i] : i \in 1 .. n + 1} /\ Elements(a) = {a[i] : i \in 1 .. n}
    BY <1>1 DEF Elements
  <2>2. ASSUME NEW x \in Elements(b) PROVE x \in Elements(a) \cup {p}
    <3>1. PICK i \in 1 .. n + 1 : x = b[i]
      BY <2>1
    <3>2. CASE i = n + 1
      BY <3>1, <3>2, <1>1
    <3>3. CASE i \in 1 .. n
      BY <3>1, <3>3, <1>1, <2>1
    <3> QED  BY <3>2, <3>3, <1>1
  <2>3. ASSUME NEW x \in Elements(a) PROVE x \in Elements(b)
    <3>1. PICK i \in 1 .. n : x = a[i]
      BY <2>1
    <3>2. i \in 1 .. n + 1 /\ x = b[i]
      BY <3>1, <1>1
    <3> QED  BY <3>2, <2>1
  <2>4. p \in Elements(b)
    BY <2>1, <1>1
  <2> QED  BY <2>2, <2>3, <2>4
<1> QED  BY <1>1, <1>3, <1>4 DEF b

----------------------------------------------------------------------------
(* The operations of the queue. *)

\* A queue whose numbers are right, by its parts.
LEMMA QueueParts ==
    ASSUME NEW q \in Queue, PosAgrees(q)
    PROVE  /\ q.ptr \in Seq(Node) /\ q.pos \in [Node -> Nat] /\ q.news \in BOOLEAN
           /\ q = [ptr |-> q.ptr, pos |-> q.pos, news |-> q.news]
           /\ Numbered(q.pos, q.ptr, 1, Len(q.ptr))
           /\ NilOutside(q.pos, Elements(q.ptr))
           /\ Distinct(q.ptr)
           /\ Members(q) = Elements(q.ptr)
<1>1. PICK ptr, pos, news : ptr = q.ptr /\ pos = q.pos /\ news = q.news
  OBVIOUS
<1>2. /\ ptr \in Seq(Node) /\ pos \in [Node -> Nat] /\ news \in BOOLEAN
      /\ q = [ptr |-> ptr, pos |-> pos, news |-> news]
  BY <1>1, QueueFields
<1>3. PosAgrees([ptr |-> ptr, pos |-> pos, news |-> news])
  BY <1>2
<1>4. /\ Numbered(pos, ptr, 1, Len(ptr)) /\ NilOutside(pos, Elements(ptr))
      /\ Distinct(ptr)
  BY <1>2, <1>3, PosAgreesParts
<1> QED  BY <1>1, <1>2, <1>4 DEF Members

\* The cached number of a member is its index, and get_pos returns it.
LEMMA GetPos ==
    ASSUME NEW q \in Queue, PosAgrees(q), NEW p \in Members(q)
    PROVE  /\ p \in Node /\ InQueue(q, p)
           /\ q.pos[p] \in 1 .. Len(q.ptr)
           /\ q.ptr[q.pos[p]] = p
           /\ get_pos(q, p) = q.pos[p]
<1>1. q.ptr \in Seq(Node) /\ Numbered(q.pos, q.ptr, 1, Len(q.ptr))
        /\ p \in Elements(q.ptr)
  BY QueueParts
<1>2. PICK i \in 1 .. Len(q.ptr) : q.ptr[i] = p
  BY <1>1 DEF Elements
<1>3. q.pos[p] = i /\ p \in Node /\ i # 0
  BY <1>1, <1>2 DEF Numbered
<1> QED  BY <1>2, <1>3 DEF InQueue, get_pos

\* insert adds a member, numbers everybody and keeps the order.
LEMMA InsertCorrect ==
    ASSUME NEW v \in View, NEW q \in Queue, PosAgrees(q), NEW p \in Node,
           p \notin Members(q)
    PROVE  /\ insert(v, q, p) \in Queue
           /\ PosAgrees(insert(v, q, p))
           /\ Members(insert(v, q, p)) = Members(q) \cup {p}
           /\ InOrder(v, q.ptr) => InOrder(v, insert(v, q, p).ptr)
<1>1. PICK a, pos : a = q.ptr /\ pos = q.pos
  OBVIOUS
<1>2. /\ a \in Seq(Node) /\ pos \in [Node -> Nat] /\ Distinct(a)
      /\ Numbered(pos, a, 1, Len(a)) /\ NilOutside(pos, Elements(a))
      /\ Members(q) = Elements(a)
  BY <1>1, QueueParts
<1>3. PICK b : b = Append(a, p)
  OBVIOUS
<1>4. /\ b \in Seq(Node) /\ Len(b) = Len(a) + 1 /\ Distinct(b)
      /\ Elements(b) = Elements(a) \cup {p}
      /\ \A i \in 1 .. Len(a) : b[i] = a[i]
  BY <1>2, <1>3, AppendOne
<1>5. Len(b) > 0 /\ Numbered(pos, b, 1, Len(b) - 1) /\ NilOutside(pos, Elements(b))
  <2>1. Len(b) > 0 /\ Len(b) - 1 = Len(a)
    BY <1>2, <1>4
  <2>2. Numbered(pos, b, 1, Len(a))
    BY <1>2, <1>4 DEF Numbered
  <2>3. NilOutside(pos, Elements(b))
    BY <1>2, <1>4 DEF NilOutside
  <2> QED  BY <2>1, <2>2, <2>3
<1>6. PICK r : r = insert(v, q, p)
  OBVIOUS
<1>7. r = reorder(v, [ptr |-> b, pos |-> pos, news |-> TRUE])
  BY <1>1, <1>3, <1>6 DEF insert
<1>8. r \in Queue /\ PosAgrees(r) /\ Members(r) = Elements(b)
  BY <1>2, <1>4, <1>5, <1>7, ReorderPos
<1>9. ASSUME InOrder(v, a) PROVE InOrder(v, r.ptr)
  <2>1. \A i, k \in 1 .. Len(b) - 1 : i < k => is_greater(v, b[i], b[k])
    BY <1>2, <1>4, <1>9 DEF InOrder
  <2>2. r.ptr \in Seq(Node) /\ Shifted(r.ptr, b, StopAt(v, b))
    <3>1. PICK q2 : q2 = [ptr |-> b, pos |-> pos, news |-> TRUE]
      OBVIOUS
    <3>2. q2 \in Queue /\ q2.ptr = b
      BY <3>1, <1>2, <1>4 DEF Queue
    <3> QED  BY <3>1, <3>2, <1>5, <1>7, ReorderPtr
  <2> QED  BY <2>1, <2>2, <1>4, <1>5, ShiftedInOrder
<1> QED  BY <1>1, <1>2, <1>4, <1>6, <1>8, <1>9

\* Taking a member out of the array and numbering those behind it.
LEMMA TakenOut ==
    ASSUME NEW q \in Queue, PosAgrees(q), NEW p \in Members(q)
    PROVE  LET w  == Without(q.ptr, get_pos(q, p))
               ps == Renumbered(q.pos, w, get_pos(q, p))
           IN  /\ w \in Seq(Node) /\ Distinct(w) /\ Elements(w) = Members(q) \ {p}
               /\ ps \in [Node -> Nat] /\ Numbered(ps, w, 1, Len(w))
               /\ NilOutside(ps, Elements(w) \cup {p})
               /\ \A v \in View : InOrderBut(v, q.ptr, p) => InOrder(v, w)
<1>1. PICK a, pos : a = q.ptr /\ pos = q.pos
  OBVIOUS
<1>2. /\ a \in Seq(Node) /\ pos \in [Node -> Nat] /\ Distinct(a)
      /\ Numbered(pos, a, 1, Len(a)) /\ NilOutside(pos, Elements(a))
      /\ Members(q) = Elements(a)
  BY <1>1, QueueParts
<1>3. PICK j \in 1 .. Len(a) : j = pos[p] /\ p = a[j] /\ get_pos(q, p) = j
  BY <1>1, <1>2, GetPos
<1>4. PICK w : w = Without(a, j)
  OBVIOUS
<1>5. /\ w \in Seq(Node) /\ Len(w) = Len(a) - 1 /\ Distinct(w)
      /\ Elements(w) = Elements(a) \ {a[j]}
      /\ \A i \in 1 .. j - 1 : w[i] = a[i]
  BY <1>2, <1>3, <1>4, WithoutOne
<1>6. j \in Nat /\ j > 0 /\ j - 1 <= Len(w) /\ Numbered(pos, w, 1, j - 1)
  <2>1. Len(a) \in Nat /\ j \in Nat /\ j > 0 /\ j - 1 <= Len(a) - 1
    BY <1>2, <1>3
  <2>2. \A i \in 1 .. j - 1 : i \in 1 .. Len(a)
    BY <2>1
  <2>3. Numbered(pos, w, 1, j - 1)
    BY <1>2, <1>5, <2>2 DEF Numbered
  <2> QED  BY <2>1, <2>3, <1>5
<1>7. PICK ps : ps = Renumbered(pos, w, j)
  OBVIOUS
<1>8. /\ ps \in [Node -> Nat] /\ Numbered(ps, w, 1, Len(w))
      /\ SameOutside(ps, pos, Elements(w))
  BY <1>2, <1>5, <1>6, <1>7, RenumberedAgrees
<1>9. Elements(w) = Members(q) \ {p}
  BY <1>2, <1>3, <1>5
<1>10. NilOutside(ps, Elements(w) \cup {p})
  BY <1>2, <1>8, <1>9 DEF NilOutside, SameOutside
<1>11. \A v \in View : InOrderBut(v, a, p) => InOrder(v, w)
  BY <1>2, <1>3, <1>4, WithoutInOrder
<1> QED  BY <1>1, <1>3, <1>4, <1>5, <1>7, <1>8, <1>9, <1>10, <1>11

\* Who is not there is in nobody's way.
LEMMA InOrderButNobody ==
    ASSUME NEW v \in View, NEW a \in Seq(Node), NEW p, p \notin Elements(a)
    PROVE  InOrderBut(v, a, p) <=> InOrder(v, a)
<1>1. \A i \in 1 .. Len(a) : a[i] # p
  BY DEF Elements
<1> QED  BY <1>1 DEF InOrderBut, InOrder

\* remove takes a member out, numbers everybody and keeps the others' order.
LEMMA RemoveCorrect ==
    ASSUME NEW q \in Queue, PosAgrees(q), NEW p \in Node
    PROVE  /\ remove(q, p) \in Queue
           /\ PosAgrees(remove(q, p))
           /\ Members(remove(q, p)) = Members(q) \ {p}
           /\ \A v \in View : InOrderBut(v, q.ptr, p) => InOrder(v, remove(q, p).ptr)
<1>1. CASE p \notin Members(q)
  <2>1. remove(q, p) = q
    BY <1>1 DEF remove, InQueue
  <2>2. \A v \in View : InOrderBut(v, q.ptr, p) => InOrder(v, q.ptr)
    BY <1>1, QueueParts, InOrderButNobody
  <2> QED  BY <1>1, <2>1, <2>2
<1>2. CASE p \in Members(q)
  <2>1. PICK j, w, ps : /\ j = get_pos(q, p) /\ w = Without(q.ptr, j)
                        /\ ps = Renumbered(q.pos, w, j)
    OBVIOUS
  <2>2. /\ w \in Seq(Node) /\ Distinct(w) /\ Elements(w) = Members(q) \ {p}
        /\ ps \in [Node -> Nat] /\ Numbered(ps, w, 1, Len(w))
        /\ NilOutside(ps, Elements(w) \cup {p})
        /\ \A v \in View : InOrderBut(v, q.ptr, p) => InOrder(v, w)
    BY <1>2, <2>1, TakenOut
  <2>3. PICK pz : pz = [ps EXCEPT ![p] = 0]
    OBVIOUS
  <2>4. pz \in [Node -> Nat] /\ pz[p] = 0 /\ \A x \in Node : x # p => pz[x] = ps[x]
    BY <2>2, <2>3
  <2>5. Numbered(pz, w, 1, Len(w))
    <3>1. w \in Seq(Node) /\ p \notin Elements(w)
      BY <2>2
    <3>2. \A i \in 1 .. Len(w) : w[i] \in Node /\ w[i] # p
      BY <3>1 DEF Elements
    <3> QED  BY <3>2, <2>2, <2>4 DEF Numbered
  <2>6. NilOutside(pz, Elements(w))
    BY <2>2, <2>4 DEF NilOutside
  <2>7. PICK r : r = [ptr |-> w, pos |-> pz, news |-> TRUE]
    OBVIOUS
  <2>8. r = remove(q, p)
    BY <1>2, <2>1, <2>3, <2>7, GetPos DEF remove
  <2>9. r \in Queue /\ PosAgrees(r) /\ Members(r) = Elements(w) /\ r.ptr = w
    BY <2>2, <2>4, <2>5, <2>6, <2>7, PosAgreesParts
  <2> QED  BY <2>2, <2>8, <2>9
<1> QED  BY <1>1, <1>2

\* A member between neighbours it is in order with is in order with all, if
\* the others are.
LEMMA NeighboursSuffice ==
    ASSUME NEW v \in View, NEW a \in Seq(Node), NEW j \in 1 .. Len(a), Distinct(a),
           InOrderBut(v, a, a[j]),
           j = 1 \/ is_greater(v, a[j - 1], a[j]),
           j = Len(a) \/ is_greater(v, a[j], a[j + 1])
    PROVE  InOrder(v, a)
<1>1. \A i \in 1 .. Len(a) : a[i] \in Node /\ (i # j => a[i] # a[j])
  BY DEF Distinct
<1>2. \A i, k \in 1 .. Len(a) : i < k /\ i # j /\ k # j => is_greater(v, a[i], a[k])
  BY <1>1 DEF InOrderBut
<1>3. ASSUME NEW i \in 1 .. Len(a), i < j PROVE is_greater(v, a[i], a[j])
  <2>1. CASE i = j - 1
    BY <2>1, <1>3
  <2>2. CASE i < j - 1
    <3>1. j - 1 \in 1 .. Len(a)
      BY <1>3
    <3>2. is_greater(v, a[i], a[j - 1]) /\ is_greater(v, a[j - 1], a[j])
      BY <1>2, <2>2, <3>1
    <3> QED  BY <3>1, <3>2, <1>1, GreaterTransitive
  <2> QED  BY <1>3, <2>1, <2>2
<1>4. ASSUME NEW k \in 1 .. Len(a), j < k PROVE is_greater(v, a[j], a[k])
  <2>1. CASE k = j + 1
    BY <2>1, <1>4
  <2>2. CASE k > j + 1
    <3>1. j + 1 \in 1 .. Len(a)
      BY <1>4
    <3>2. is_greater(v, a[j], a[j + 1]) /\ is_greater(v, a[j + 1], a[k])
      BY <1>2, <2>2, <3>1
    <3> QED  BY <3>1, <3>2, <1>1, GreaterTransitive
  <2> QED  BY <1>4, <2>1, <2>2
<1> QED  BY <1>2, <1>3, <1>4 DEF InOrder

\* update puts a member whose state changed, or a new one, where it belongs:
\* the queue is in order if the others were.
LEMMA UpdateCorrect ==
    ASSUME NEW v \in View, NEW q \in Queue, PosAgrees(q), NEW p \in Node
    PROVE  /\ update(v, q, p) \in Queue
           /\ PosAgrees(update(v, q, p))
           /\ Members(update(v, q, p)) = Members(q) \cup {p}
           /\ InOrderBut(v, q.ptr, p) => InOrder(v, update(v, q, p).ptr)
<1>1. CASE p \notin Members(q)
  <2>1. update(v, q, p) = insert(v, q, p)
    BY <1>1 DEF update, InQueue
  <2>2. InOrderBut(v, q.ptr, p) => InOrder(v, q.ptr)
    BY <1>1, QueueParts, InOrderButNobody
  <2> QED  BY <1>1, <2>1, <2>2, InsertCorrect
<1>2. CASE p \in Members(q) /\ in_order2(v, q, p)
  <2>1. InQueue(q, p) /\ q.pos[p] \in 1 .. Len(q.ptr) /\ q.ptr[q.pos[p]] = p
    BY <1>2, GetPos
  <2>2. update(v, q, p) = q
    BY <1>2, <2>1 DEF update
  <2>3. ASSUME InOrderBut(v, q.ptr, p) PROVE InOrder(v, q.ptr)
    <3>1. PICK a, j : a = q.ptr /\ j = q.pos[p]
      OBVIOUS
    <3>2. /\ a \in Seq(Node) /\ Distinct(a) /\ j \in 1 .. Len(a) /\ a[j] = p
          /\ InOrderBut(v, a, a[j])
      BY <2>1, <2>3, <3>1, QueueParts
    <3>3. /\ j = 1 \/ is_greater(v, a[j - 1], a[j])
          /\ j = Len(a) \/ is_greater(v, a[j], a[j + 1])
      BY <1>2, <3>1, <3>2 DEF in_order2
    <3>4. InOrder(v, a)
      BY <3>2, <3>3, NeighboursSuffice
    <3> QED  BY <3>1, <3>4
  <2> QED  BY <1>2, <2>2, <2>3
<1>3. CASE p \in Members(q) /\ ~ in_order2(v, q, p)
  <2>1. PICK j, w, ps, b : /\ j = get_pos(q, p) /\ w = Without(q.ptr, j)
                           /\ ps = Renumbered(q.pos, w, j) /\ b = Append(w, p)
    OBVIOUS
  <2>2. /\ w \in Seq(Node) /\ Distinct(w) /\ Elements(w) = Members(q) \ {p}
        /\ ps \in [Node -> Nat] /\ Numbered(ps, w, 1, Len(w))
        /\ NilOutside(ps, Elements(w) \cup {p})
        /\ \A u \in View : InOrderBut(u, q.ptr, p) => InOrder(u, w)
    BY <1>3, <2>1, TakenOut
  <2>3. p \notin Elements(w)
    BY <2>2
  <2>4. /\ b \in Seq(Node) /\ Len(b) = Len(w) + 1 /\ Distinct(b)
        /\ Elements(b) = Elements(w) \cup {p}
        /\ \A i \in 1 .. Len(w) : b[i] = w[i]
    BY <2>1, <2>2, <2>3, AppendOne
  <2>5. Len(b) > 0 /\ Numbered(ps, b, 1, Len(b) - 1) /\ NilOutside(ps, Elements(b))
    <3>1. Len(b) > 0 /\ Len(b) - 1 = Len(w)
      BY <2>2, <2>4
    <3>2. Numbered(ps, b, 1, Len(w))
      BY <2>2, <2>4 DEF Numbered
    <3> QED  BY <3>1, <3>2, <2>2, <2>4
  <2>6. PICK r : r = update(v, q, p)
    OBVIOUS
  <2>7. r = reorder(v, [ptr |-> b, pos |-> ps, news |-> TRUE])
    BY <1>3, <2>1, <2>6, GetPos DEF update
  <2>8. r \in Queue /\ PosAgrees(r) /\ Members(r) = Elements(b)
    BY <2>2, <2>4, <2>5, <2>7, ReorderPos
  <2>9. ASSUME InOrderBut(v, q.ptr, p) PROVE InOrder(v, r.ptr)
    <3>1. InOrder(v, w)
      BY <2>2, <2>9
    <3>2. \A i, k \in 1 .. Len(b) - 1 : i < k => is_greater(v, b[i], b[k])
      BY <2>2, <2>4, <3>1 DEF InOrder
    <3>3. r.ptr \in Seq(Node) /\ Shifted(r.ptr, b, StopAt(v, b))
      <4>1. PICK q2 : q2 = [ptr |-> b, pos |-> ps, news |-> TRUE]
        OBVIOUS
      <4>2. q2 \in Queue /\ q2.ptr = b
        BY <4>1, <2>2, <2>4 DEF Queue
      <4> QED  BY <4>1, <4>2, <2>5, <2>7, ReorderPtr
    <3> QED  BY <3>2, <3>3, <2>4, <2>5, ShiftedInOrder
  <2> QED  BY <1>3, <2>2, <2>4, <2>6, <2>8, <2>9
<1> QED  BY <1>1, <1>2, <1>3

----------------------------------------------------------------------------
(* remove_all numbers whom it keeps by how many of them come no later. *)

Upto(q, kept, p) == {x \in kept : q.pos[x] <= q.pos[p]}

Count(q, kept, p) == Cardinality(Upto(q, kept, p))

CountsAreNumbers(q, kept, N) ==
    /\ N \in Nat
    /\ \A p \in kept : Count(q, kept, p) \in 1 .. N
    /\ \A x, y \in kept : q.pos[x] < q.pos[y] <=> Count(q, kept, x) < Count(q, kept, y)
    /\ \A x, y \in kept : Count(q, kept, x) = Count(q, kept, y) => x = y
    /\ \A i \in 1 .. N : \E p \in kept : Count(q, kept, p) = i

\* Those counts number the kept members from 1 on, in the order of q.
LEMMA CountsNumber ==
    ASSUME NEW q \in Queue, PosAgrees(q), NEW kept, kept \subseteq Members(q)
    PROVE  CountsAreNumbers(q, kept, Cardinality(kept))
<1> DEFINE N == Cardinality(kept)
           A(p) == Upto(q, kept, p)
           C(p) == Count(q, kept, p)
<1>1. \A p \in kept : p \in Node /\ q.pos[p] \in Nat /\ q.ptr[q.pos[p]] = p
  <2>1. ASSUME NEW p \in kept PROVE p \in Node /\ q.pos[p] \in Nat /\ q.ptr[q.pos[p]] = p
    <3>1. p \in Members(q)
      OBVIOUS
    <3>2. p \in Node /\ q.ptr[q.pos[p]] = p
      BY <3>1, GetPos
    <3> QED  BY <3>2, QueueParts
  <2> QED  BY <2>1
<1>2. IsFiniteSet(kept) /\ N \in Nat
  <2>1. kept \in SUBSET Node
    BY <1>1
  <2>2. IsFiniteSet(kept)
    BY <2>1, NodeAssumption, FS_Subset
  <2> QED  BY <2>2, FS_CardinalityType
<1>3. ASSUME NEW p \in kept
      PROVE  IsFiniteSet(A(p)) /\ C(p) \in Nat /\ C(p) <= N /\ C(p) # 0
  <2>1. A(p) \in SUBSET kept /\ p \in A(p)
    BY <1>1 DEF Upto
  <2>2. IsFiniteSet(A(p)) /\ Cardinality(A(p)) <= N
    BY <2>1, <1>2, FS_Subset
  <2>3. Cardinality(A(p)) \in Nat /\ Cardinality(A(p)) # 0
    BY <2>1, <2>2, FS_CardinalityType, FS_EmptySet
  <2> QED  BY <2>2, <2>3 DEF Count
<1>4. ASSUME NEW x \in kept, NEW y \in kept, q.pos[x] < q.pos[y] PROVE C(x) < C(y)
  <2>1. A(x) \in SUBSET A(y) /\ y \in A(y) /\ y \notin A(x)
    BY <1>1, <1>4 DEF Upto
  <2>2. Cardinality(A(x)) <= Cardinality(A(y)) /\ Cardinality(A(x)) # Cardinality(A(y))
    BY <2>1, <1>3, FS_Subset
  <2> QED  BY <2>2, <1>3 DEF Count
<1>5. ASSUME NEW x \in kept, NEW y \in kept, C(x) = C(y) PROVE x = y
  <2>1. C(x) \in Nat /\ C(y) \in Nat
    BY <1>3
  <2>2. ~ (q.pos[x] < q.pos[y]) /\ ~ (q.pos[y] < q.pos[x])
    BY <1>4, <1>5, <2>1
  <2> QED  BY <2>2, <1>1
<1>6. ASSUME NEW x \in kept, NEW y \in kept, C(x) < C(y) PROVE q.pos[x] < q.pos[y]
  <2>1. C(x) \in Nat /\ C(y) \in Nat
    BY <1>3
  <2>2. ~ (q.pos[y] < q.pos[x])
    BY <1>4, <1>6, <2>1
  <2>3. x # y
    BY <1>6, <2>1
  <2> QED  BY <2>2, <2>3, <1>1
<1>7. \A p \in kept : C(p) \in 1 .. N
  BY <1>2, <1>3
<1>8. \A i \in 1 .. N : \E p \in kept : C(p) = i
  <2> DEFINE f == [p \in kept |-> C(p)]
  <2> HIDE DEF C
  <2>1. f \in [kept -> 1 .. N] /\ \A x, y \in kept : f[x] = f[y] => x = y
    BY <1>5, <1>7
  <2>2. f \in Injection(kept, 1 .. N)
    BY <2>1 DEF Injection, IsInjective
  <2>3. IsFiniteSet(1 .. N) /\ Cardinality(1 .. N) = N
    BY <1>2, FS_Interval
  <2>4. f \in Surjection(kept, 1 .. N)
    BY <2>2, <2>3, FS_Injection
  <2> QED  BY <2>4 DEF Surjection
<1> QED  BY <1>2, <1>4, <1>5, <1>6, <1>7, <1>8 DEF CountsAreNumbers

\* s is in order but for the members of gone.
InOrderButAll(v, s, gone) ==
    \A i, k \in 1 .. Len(s) :
        i < k /\ s[i] \notin gone /\ s[k] \notin gone => is_greater(v, s[i], s[k])

\* remove_all keeps everybody else, numbered and in their order.
LEMMA RemoveAllCorrect ==
    ASSUME NEW q \in Queue, PosAgrees(q), NEW gone
    PROVE  /\ remove_all(q, gone) \in Queue
           /\ PosAgrees(remove_all(q, gone))
           /\ Members(remove_all(q, gone)) = Members(q) \ gone
           /\ \A v \in View :
                InOrderButAll(v, q.ptr, gone) => InOrder(v, remove_all(q, gone).ptr)
<1>1. /\ q.ptr \in Seq(Node) /\ q.pos \in [Node -> Nat]
      /\ Members(q) = Elements(q.ptr) /\ NilOutside(q.pos, Elements(q.ptr))
  BY QueueParts
<1>2. CASE gone \cap Members(q) = {}
  <2>1. remove_all(q, gone) = q
    BY <1>2 DEF remove_all
  <2>2. \A i \in 1 .. Len(q.ptr) : q.ptr[i] \notin gone
    BY <1>1, <1>2 DEF Elements
  <2>3. \A v \in View : InOrderButAll(v, q.ptr, gone) => InOrder(v, q.ptr)
    BY <2>2 DEF InOrderButAll, InOrder
  <2> QED  BY <1>2, <2>1, <2>3
<1>3. CASE gone \cap Members(q) # {}
  <2>1. PICK kept : kept = Members(q) \ gone
    OBVIOUS
  <2>2. PICK N : N = Cardinality(kept)
    OBVIOUS
  <2>3. /\ N \in Nat
        /\ \A p \in kept : Count(q, kept, p) \in 1 .. N
        /\ \A x, y \in kept : q.pos[x] < q.pos[y] <=> Count(q, kept, x) < Count(q, kept, y)
        /\ \A x, y \in kept : Count(q, kept, x) = Count(q, kept, y) => x = y
        /\ \A i \in 1 .. N : \E p \in kept : Count(q, kept, p) = i
    <3>1. kept \subseteq Members(q)
      BY <2>1
    <3>2. CountsAreNumbers(q, kept, N)
      BY <2>2, <3>1, CountsNumber
    <3> QED  BY <3>2 DEF CountsAreNumbers
  <2>4. kept \subseteq Node /\ kept \subseteq Members(q)
    BY <2>1, GetPos
  <2>5. PICK ptr : ptr = [i \in 1 .. N |-> CHOOSE p \in kept : Count(q, kept, p) = i]
    OBVIOUS
  <2>6. PICK pos : pos = [p \in Node |-> IF p \in kept THEN Count(q, kept, p) ELSE 0]
    OBVIOUS
  <2>7. PICK r : r = [ptr |-> ptr, pos |-> pos, news |-> TRUE]
    OBVIOUS
  <2>8. r = remove_all(q, gone)
    BY <1>3, <2>1, <2>2, <2>5, <2>6, <2>7 DEF remove_all, Count, Upto
  <2>9. ASSUME NEW i \in 1 .. N PROVE ptr[i] \in kept /\ Count(q, kept, ptr[i]) = i
    BY <2>3, <2>5
  <2>10. ptr \in Seq(Node) /\ Len(ptr) = N
    <3>1. ptr \in [1 .. N -> Node]
      BY <2>4, <2>5, <2>9
    <3> QED  BY <3>1, <2>3
  <2>11. pos \in [Node -> Nat] /\ \A p \in kept : pos[p] = Count(q, kept, p)
    BY <2>3, <2>4, <2>6
  <2>12. Elements(ptr) = kept
    <3>1. ASSUME NEW p \in kept PROVE p \in Elements(ptr)
      <4>1. PICK i \in 1 .. N : i = Count(q, kept, p)
        BY <2>3
      <4>2. ptr[i] = p
        BY <4>1, <2>3, <2>9
      <4> QED  BY <4>2, <2>10 DEF Elements
    <3>2. ASSUME NEW p \in Elements(ptr) PROVE p \in kept
      BY <2>9, <2>10 DEF Elements
    <3> QED  BY <3>1, <3>2
  <2>13. Numbered(pos, ptr, 1, Len(ptr))
    BY <2>9, <2>10, <2>11 DEF Numbered
  <2>14. NilOutside(pos, Elements(ptr))
    BY <2>6, <2>12 DEF NilOutside
  <2>15. r \in Queue /\ PosAgrees(r) /\ Members(r) = kept /\ r.ptr = ptr
    BY <2>7, <2>10, <2>11, <2>12, <2>13, <2>14, PosAgreesParts
  <2>16. ASSUME NEW v \in View, InOrderButAll(v, q.ptr, gone) PROVE InOrder(v, ptr)
    <3>1. ASSUME NEW i \in 1 .. N, NEW k \in 1 .. N, i < k
          PROVE  is_greater(v, ptr[i], ptr[k])
      <4>1. PICK x \in kept, y \in kept : x = ptr[i] /\ y = ptr[k]
        BY <2>9
      <4>2. q.pos[x] < q.pos[y]
        BY <4>1, <3>1, <2>3, <2>9
      <4>3. /\ q.pos[x] \in 1 .. Len(q.ptr) /\ q.ptr[q.pos[x]] = x
            /\ q.pos[y] \in 1 .. Len(q.ptr) /\ q.ptr[q.pos[y]] = y
        BY <2>4, GetPos
      <4>4. x \notin gone /\ y \notin gone
        BY <2>1
      <4>5. is_greater(v, x, y)
        BY <4>2, <4>3, <4>4, <2>16 DEF InOrderButAll
      <4> QED  BY <4>1, <4>5
    <3> QED  BY <3>1, <2>10 DEF InOrder
  <2> QED  BY <2>1, <2>8, <2>15, <2>16
<1> QED  BY <1>2, <1>3

----------------------------------------------------------------------------
(* How the order depends on the states. *)

\* The ranks of two members depend on nobody else's state.
LEMMA InOrderSameView ==
    ASSUME NEW v, NEW u, NEW s \in Seq(Node), NEW gone,
           \A p \in Elements(s) : p \notin gone =>
                (v[p] > STATE_JOIN <=> u[p] > STATE_JOIN),
           InOrder(v, s)
    PROVE  InOrderButAll(u, s, gone)
<1>1. \A i \in 1 .. Len(s) : s[i] \in Elements(s)
  BY DEF Elements
<1> QED  BY <1>1 DEF InOrder, InOrderButAll, is_greater

\* InOrder and InOrderBut as cases of InOrderButAll; and InOrder is Ranked.
LEMMA InOrderCases ==
    ASSUME NEW v, NEW s, NEW p
    PROVE  /\ InOrderButAll(v, s, {}) => InOrder(v, s)
           /\ InOrderButAll(v, s, {p}) => InOrderBut(v, s, p)
           /\ \A q : InOrder(v, q.ptr) <=> Ranked(v, q)
  BY DEF InOrder, InOrderBut, InOrderButAll, Ranked

============================================================================
