-------------------------- MODULE ChunkTreeProofs --------------------------
(***************************************************************************)
(* Every pointer update of ChunkTree keeps a well-linked tree well linked. *)
(* One lemma per update; each is proved by looking at the place that every *)
(* child has in the new child list of the container that was changed.      *)
(***************************************************************************)
EXTENDS ChunkTree, TLAPS

\* The i-th of n children after x was inserted as number k: the children from
\* k on have moved up by one.
LEMMA InsertChildFacts ==
  ASSUME NEW S, NEW s \in Seq(S), NEW x \in S, NEW k \in 1..(Len(s) + 1)
  PROVE  /\ InsertChild(s, k, x) \in Seq(S)
         /\ Len(InsertChild(s, k, x)) = Len(s) + 1
         /\ \A j \in 1..(Len(s) + 1) :
              InsertChild(s, k, x)[j] =
                (IF j < k THEN s[j] ELSE IF j = k THEN x ELSE s[j - 1])
BY DEF InsertChild

\* What erasing the k-th element leaves (ChunkListImpl::remove).
LEMMA EraseChildFacts ==
  ASSUME NEW S, NEW s \in Seq(S), NEW k \in 1..Len(s)
  PROVE  /\ EraseChild(s, k) \in Seq(S)
         /\ Len(EraseChild(s, k)) = Len(s) - 1
         /\ \A j \in 1..(Len(s) - 1) :
              EraseChild(s, k)[j] = (IF j < k THEN s[j] ELSE s[j + 1])
BY DEF EraseChild

\* The index of a child is a place where the child is.
LEMMA IndexOfChild ==
  ASSUME NEW t, NEW c, NEW x \in Children(t, c)
  PROVE  /\ IndexOf(t, c, x) \in 1..Len(t.kids[c])
         /\ t.kids[c][IndexOf(t, c, x)] = x
BY DEF Children, IndexOf

\* What the lemmas below use of a tree: the types of its fields, and that a
\* chunk can be told from its place in a child list.
LEMMA TreeFacts ==
  ASSUME NEW t \in Trees
  PROVE  /\ \A c \in Containers : t.kids[c] \in Seq(Chunks) /\ Len(t.kids[c]) \in Nat
         /\ \A c \in Containers : \A i \in 1..Len(t.kids[c]) : t.kids[c][i] \in Chunks
         /\ t.parent \in [Chunks -> Containers \cup {NULL}]
         /\ t.prev \in [Chunks -> Chunks \cup {NULL}]
         /\ t.next \in [Chunks -> Chunks \cup {NULL}]
         /\ t.kids \in [Containers -> Seq(Chunks)]
BY DEF Trees

\* No container is a child of itself, and the Function is nobody's child.
LEMMA ChildFacts ==
  ASSUME NEW c \in Containers
  PROVE  ChildType(c) \subseteq Chunks \ {Function, NULL, c}
BY DistinctChunks DEF ChildType, Containers, Chunks

\* No chunk is a child twice, or of two containers, and a chunk that was never
\* inserted is nobody's child.
LEMMA PlaceFacts ==
  ASSUME NEW t, t \in Trees, WellLinked(t), NEW c \in Containers,
         NEW i \in 1..Len(t.kids[c])
  PROVE  /\ t.kids[c][i] \in ChildType(c)
         /\ t.kids[c][i] \in Chunks \ {Function, NULL}
         /\ t.parent[t.kids[c][i]] = c
         /\ t.prev[t.kids[c][i]] = (IF i = 1 THEN NULL ELSE t.kids[c][i - 1])
         /\ t.next[t.kids[c][i]] =
              (IF i = Len(t.kids[c]) THEN NULL ELSE t.kids[c][i + 1])
         /\ t.kids[c][i] \notin Fresh(t)
         /\ \A j \in 1..Len(t.kids[c]) : t.kids[c][i] = t.kids[c][j] => i = j
<1>1. LinkedUnder(t, c)
  BY DEF WellLinked
<1>2. t.kids[c][i] \in ChildType(c) /\ t.parent[t.kids[c][i]] = c
  BY <1>1 DEF LinkedUnder
<1>3. c # NULL
  BY DistinctChunks DEF Chunks
<1> QED
  BY <1>1, <1>2, <1>3, ChildFacts DEF LinkedUnder, Fresh

\* The same for a chunk that is known to be a child of c.
LEMMA ChildPlace ==
  ASSUME NEW t, t \in Trees, WellLinked(t), NEW c \in Containers,
         NEW x \in Children(t, c)
  PROVE  x \in ChildType(c) /\ x \notin Fresh(t) /\ x # NULL
<1>1. PICK i \in 1..Len(t.kids[c]) : x = t.kids[c][i]
  BY DEF Children
<1> QED
  BY <1>1, PlaceFacts

\* The step from t to u changes the child list of c only, and pointers only of
\* the chunks in T, which are no other container's children.
TouchesOnly(t, u, c, T) ==
  /\ \A d \in Containers : d # c => u.kids[d] = t.kids[d]
  /\ \A y \in Chunks \ T : /\ u.parent[y] = t.parent[y]
                           /\ u.prev[y] = t.prev[y]
                           /\ u.next[y] = t.next[y]
  /\ \A d \in Containers : d # c =>
       \A i \in 1..Len(t.kids[d]) : t.kids[d][i] \notin T

\* Such a step has to be examined at c only.
LEMMA OnlyAt ==
  ASSUME NEW t, t \in Trees, WellLinked(t), NEW u, NEW c \in Containers,
         NEW T, TouchesOnly(t, u, c, T), LinkedUnder(u, c)
  PROVE  WellLinked(u)
<1> SUFFICES ASSUME NEW d \in Containers, d # c
             PROVE  LinkedUnder(u, d)
  BY DEF WellLinked
<1>1. u.kids[d] = t.kids[d] /\ d # NULL
  BY DistinctChunks DEF Chunks, TouchesOnly
<1>2. ASSUME NEW i \in 1..Len(t.kids[d])
      PROVE  t.kids[d][i] \in Chunks \ T
  BY <1>2, PlaceFacts DEF TouchesOnly
<1>3. LinkedUnder(t, d)
  BY DEF WellLinked
<1> QED
  BY SMTT(40), <1>1, <1>2, <1>3 DEF LinkedUnder, TouchesOnly

\* The same facts about a list on its own.
Distinct(s, n) == \A i, j \in 1..n : s[i] = s[j] => i = j

Chained(s, n, prev, next) ==
  \A i \in 1..n : /\ prev[s[i]] = (IF i = 1 THEN NULL ELSE s[i - 1])
                  /\ next[s[i]] = (IF i = n THEN NULL ELSE s[i + 1])

\* r is the list s with x as its k-th element, and the new pointers differ from
\* the old ones at x and its two neighbours.
Inserted(s, n, x, k, r, prev, next, prev2, next2) ==
  /\ n \in Nat /\ k \in 1..(n + 1)
  /\ \A i \in 1..n : s[i] # x
  /\ \A j \in 1..(n + 1) :
       r[j] = (IF j < k THEN s[j] ELSE IF j = k THEN x ELSE s[j - 1])
  /\ prev2[x] = (IF k = 1 THEN NULL ELSE s[k - 1])
  /\ next2[x] = (IF k = n + 1 THEN NULL ELSE s[k])
  /\ \A i \in 1..n : prev2[s[i]] = (IF i = k THEN x ELSE prev[s[i]])
  /\ \A i \in 1..n : next2[s[i]] = (IF i = k - 1 THEN x ELSE next[s[i]])

\* Putting x in at place k of a distinct, chained sequence and fixing the
\* pointers on both sides of it keeps the sequence distinct and chained.
LEMMA ChainInsert ==
  ASSUME NEW s, NEW n, NEW x, NEW k, NEW r,
         NEW prev, NEW next, NEW prev2, NEW next2,
         Distinct(s, n), Chained(s, n, prev, next),
         Inserted(s, n, x, k, r, prev, next, prev2, next2)
  PROVE  Distinct(r, n + 1) /\ Chained(r, n + 1, prev2, next2)
<1> USE DEF Inserted
<1>1. Distinct(r, n + 1)
  BY DEF Distinct
<1>2. ASSUME NEW i \in 1..(n + 1)
      PROVE  prev2[r[i]] = (IF i = 1 THEN NULL ELSE r[i - 1])
  <2>1. CASE i < k
    BY <2>1 DEF Chained
  <2>2. CASE i = k
    BY <2>2
  <2>3. CASE i = k + 1
    BY <2>3
  <2>4. CASE i > k + 1
    BY <2>4 DEF Chained
  <2> QED
    BY <2>1, <2>2, <2>3, <2>4
<1>3. ASSUME NEW i \in 1..(n + 1)
      PROVE  next2[r[i]] = (IF i = n + 1 THEN NULL ELSE r[i + 1])
  <2>1. CASE i < k - 1
    BY <2>1 DEF Chained
  <2>2. CASE i = k - 1
    BY <2>2
  <2>3. CASE i = k
    BY <2>3
  <2>4. CASE i > k
    BY <2>4 DEF Chained
  <2> QED
    BY <2>1, <2>2, <2>3, <2>4
<1> QED
  BY <1>1, <1>2, <1>3 DEF Chained

\* LinkedUnder in terms of Distinct and Chained.
LEMMA LinkedMeans ==
  ASSUME NEW t, NEW c
  PROVE  LinkedUnder(t, c) <=>
           /\ Distinct(t.kids[c], Len(t.kids[c]))
           /\ Chained(t.kids[c], Len(t.kids[c]), t.prev, t.next)
           /\ \A i \in 1..Len(t.kids[c]) : /\ t.kids[c][i] \in ChildType(c)
                                           /\ t.parent[t.kids[c][i]] = c
BY DEF LinkedUnder, Distinct, Chained

\* u is t after x has become the k-th child of c.
InsertedAs(t, u, c, x, k) ==
  LET s == t.kids[c]
      n == Len(s)
  IN  /\ u \in Trees
      /\ k \in 1..(n + 1)
      /\ u.kids = [t.kids EXCEPT ![c] = InsertChild(s, k, x)]
      /\ u.parent = [t.parent EXCEPT ![x] = c]
      /\ u.prev[x] = (IF k = 1 THEN NULL ELSE s[k - 1])
      /\ u.next[x] = (IF k = n + 1 THEN NULL ELSE s[k])
      /\ \A y \in Chunks \ {x} :
            u.prev[y] = (IF k # n + 1 /\ y = s[k] THEN x ELSE t.prev[y])
      /\ \A y \in Chunks \ {x} :
            u.next[y] = (IF k # 1 /\ y = s[k - 1] THEN x ELSE t.next[y])

\* u has the children of t, and x is one more child of c.
Grown(t, u, c, x) ==
  /\ GoodTree(u)
  /\ x \in Children(u, c)
  /\ Children(t, c) \subseteq Children(u, c)
  /\ Fresh(t) \ {x} \subseteq Fresh(u)

\* A fresh chunk put in at any place, with the pointers of InsertedAs, leaves
\* a good tree in which only that chunk has stopped being fresh.
LEMMA InsertGood ==
  ASSUME NEW t, GoodTree(t), NEW c \in Containers,
         NEW x \in Fresh(t) \cap ChildType(c),
         NEW u, NEW k, InsertedAs(t, u, c, x, k)
  PROVE  Grown(t, u, c, x)
<1> DEFINE s == t.kids[c]
           n == Len(s)
<1>0. /\ u \in Trees
      /\ k \in 1..(n + 1)
      /\ u.kids = [t.kids EXCEPT ![c] = InsertChild(s, k, x)]
      /\ u.parent = [t.parent EXCEPT ![x] = c]
      /\ u.prev[x] = (IF k = 1 THEN NULL ELSE s[k - 1])
      /\ u.next[x] = (IF k = n + 1 THEN NULL ELSE s[k])
      /\ \A y \in Chunks \ {x} :
            u.prev[y] = (IF k # n + 1 /\ y = s[k] THEN x ELSE t.prev[y])
      /\ \A y \in Chunks \ {x} :
            u.next[y] = (IF k # 1 /\ y = s[k - 1] THEN x ELSE t.next[y])
  BY DEF InsertedAs
<1>1. t \in Trees /\ WellLinked(t) /\ FreshAlone(t)
  BY DEF GoodTree
<1>2. /\ s \in Seq(Chunks) /\ n \in Nat /\ x \in Chunks /\ x # NULL /\ x # Function
      /\ x \in ChildType(c) /\ t.parent[x] = NULL
  BY <1>1, TreeFacts, ChildFacts DEF Fresh
<1>3. \A i \in 1..n : /\ s[i] \in Chunks \ {x} /\ s[i] \in ChildType(c)
                      /\ t.parent[s[i]] = c
  BY SMTT(40), <1>1, <1>2, PlaceFacts
<1>4. Distinct(s, n) /\ Chained(s, n, t.prev, t.next)
  BY <1>1, LinkedMeans DEF WellLinked
<1>5. /\ k \in Nat
      /\ k # 1 => k - 1 \in 1..n
      /\ k # n + 1 => k \in 1..n
  BY <1>0, <1>2
<1> DEFINE r == InsertChild(s, k, x)
<1>6. /\ Len(r) = n + 1
      /\ \A j \in 1..(n + 1) :
           r[j] = (IF j < k THEN s[j] ELSE IF j = k THEN x ELSE s[j - 1])
  BY <1>0, <1>2 DEF InsertChild
<1>7. u.kids[c] = r /\ \A d \in Containers : d # c => u.kids[d] = t.kids[d]
  BY <1>0, <1>1, TreeFacts
<1>8. u.parent[x] = c /\ \A y \in Chunks \ {x} : u.parent[y] = t.parent[y]
  BY <1>0, <1>1, <1>2, TreeFacts
<1> HIDE DEF s, n
<1> HIDE DEF r
<1>9. LinkedUnder(u, c)
  <2>1. \A i \in 1..n : u.prev[s[i]] = (IF i = k THEN x ELSE t.prev[s[i]])
    BY <1>0, <1>2, <1>3, <1>4, <1>5 DEF Distinct
  <2>2. \A i \in 1..n : u.next[s[i]] = (IF i = k - 1 THEN x ELSE t.next[s[i]])
    BY <1>0, <1>2, <1>3, <1>4, <1>5 DEF Distinct
  <2>3. \A i \in 1..n : s[i] # x
    BY <1>3
  <2>4. Inserted(s, n, x, k, r, t.prev, t.next, u.prev, u.next)
    BY <1>0, <1>2, <1>6, <2>1, <2>2, <2>3 DEF Inserted
  <2>5. Distinct(r, n + 1) /\ Chained(r, n + 1, u.prev, u.next)
    BY <1>4, <2>4, ChainInsert
  <2>6. \A i \in 1..(n + 1) : r[i] \in ChildType(c) /\ u.parent[r[i]] = c
    <3> SUFFICES ASSUME NEW i \in 1..(n + 1)
                 PROVE  r[i] \in ChildType(c) /\ u.parent[r[i]] = c
      OBVIOUS
    <3>1. r[i] = x \/ \E j \in 1..n : r[i] = s[j]
      BY <1>2, <1>5, <1>6
    <3> QED
      BY <1>2, <1>3, <1>8, <3>1
  <2> QED
    BY <1>6, <1>7, <2>5, <2>6, LinkedMeans
<1> DEFINE Touched == {x} \cup {s[i] : i \in 1..n}
<1>10. WellLinked(u)
  <2>1. \A y \in Touched : t.parent[y] \in {c, NULL}
    BY <1>2, <1>3
  <2>2. (k # 1 => s[k - 1] \in Touched) /\ (k # n + 1 => s[k] \in Touched)
    BY <1>5
  <2>3. \A y \in Chunks \ Touched :
          u.parent[y] = t.parent[y] /\ u.prev[y] = t.prev[y] /\ u.next[y] = t.next[y]
    BY <1>0, <1>8, <2>2
  <2>4. \A d \in Containers : d # c =>
          \A i \in 1..Len(t.kids[d]) : t.kids[d][i] \notin Touched
    BY SMTT(40), <1>1, <2>1, PlaceFacts, DistinctChunks DEF Chunks
  <2>5. TouchesOnly(t, u, c, Touched)
    BY <1>7, <2>3, <2>4 DEF TouchesOnly
  <2> HIDE DEF Touched
  <2> QED
    BY <1>1, <1>9, <2>5, OnlyAt
<1>11. FreshAlone(u)
  <2> SUFFICES ASSUME NEW y \in Fresh(u)
               PROVE  u.prev[y] = NULL /\ u.next[y] = NULL
    BY DEF FreshAlone
  <2>1. y \in Chunks \ {x} /\ y \in Fresh(t) /\ t.parent[y] = NULL /\ c # NULL
    BY <1>8, DistinctChunks DEF Fresh, Chunks
  <2>2. (k # 1 => s[k - 1] # y) /\ (k # n + 1 => s[k] # y)
    BY <1>3, <1>5, <2>1
  <2> QED
    BY <1>0, <1>1, <2>1, <2>2 DEF FreshAlone
<1>12. GoodTree(u)
  BY <1>0, <1>10, <1>11 DEF GoodTree
<1>13. Children(u, c) = {r[i] : i \in 1..(n + 1)} /\ Children(t, c) = {s[i] : i \in 1..n}
  BY <1>6, <1>7 DEF Children, s, n
<1>14. x \in Children(u, c)
  <2>1. k \in 1..(n + 1) /\ r[k] = x
    BY <1>0, <1>5, <1>6
  <2> QED
    BY <1>13, <2>1
<1>15. Children(t, c) \subseteq Children(u, c)
  <2> SUFFICES ASSUME NEW i \in 1..n
               PROVE  \E j \in 1..(n + 1) : r[j] = s[i]
    BY <1>13
  <2>1. CASE i < k
    <3>1. i \in 1..(n + 1) /\ r[i] = s[i]
      BY <1>2, <1>6, <2>1
    <3> QED
      BY <3>1
  <2>2. CASE i >= k
    <3>1. i + 1 \in 1..(n + 1) /\ r[i + 1] = s[i]
      BY <1>2, <1>5, <1>6, <2>2
    <3> QED
      BY <3>1
  <2> QED
    BY <1>2, <1>5, <2>1, <2>2
<1>16. Fresh(t) \ {x} \subseteq Fresh(u)
  BY <1>8 DEF Fresh
<1> QED
  BY <1>12, <1>14, <1>15, <1>16 DEF Grown

\* The pointer update of ChunkMutator::append keeps the tree well linked.
LEMMA AppendGood ==
  ASSUME NEW t, GoodTree(t), NEW c \in Containers,
         NEW x \in Fresh(t) \cap ChildType(c)
  PROVE  Grown(t, LinkAppend(t, c, x), c, x)
<1> DEFINE u == LinkAppend(t, c, x)
           s == t.kids[c]
           n == Len(s)
           last == GetLast(t, c)
<1>1. t \in Trees /\ WellLinked(t) /\ FreshAlone(t)
  BY DEF GoodTree
<1>2. /\ s \in Seq(Chunks) /\ n \in Nat
      /\ x \in Chunks /\ x # NULL /\ x # Function
      /\ t.prev[x] = NULL /\ t.next[x] = NULL
  BY <1>1, TreeFacts, ChildFacts DEF Fresh, FreshAlone
<1>3. /\ n = 0 => last = NULL
      /\ n # 0 => last = s[n] /\ last \in Chunks /\ last # NULL /\ last # x
  BY SMTT(40), <1>1, <1>2, PlaceFacts DEF GetLast
<1>4. Append(s, x) = InsertChild(s, n + 1, x) /\ Append(s, x) \in Seq(Chunks)
  BY <1>2 DEF InsertChild
<1>5. u \in Trees
  BY <1>1, <1>2, <1>3, <1>4, TreeFacts DEF LinkAppend, Trees
<1>6. /\ u.kids = [t.kids EXCEPT ![c] = InsertChild(s, n + 1, x)]
      /\ u.parent = [t.parent EXCEPT ![x] = c]
      /\ u.prev[x] = last /\ u.next[x] = NULL
      /\ \A y \in Chunks \ {x} : u.prev[y] = t.prev[y]
      /\ \A y \in Chunks \ {x} :
            u.next[y] = (IF last # NULL /\ y = last THEN x ELSE t.next[y])
  BY <1>1, <1>2, <1>3, <1>4, TreeFacts DEF LinkAppend
<1> HIDE DEF u
<1>7. /\ u.prev[x] = (IF n + 1 = 1 THEN NULL ELSE s[(n + 1) - 1])
      /\ \A y \in Chunks \ {x} :
            u.next[y] = (IF n + 1 # 1 /\ y = s[(n + 1) - 1] THEN x ELSE t.next[y])
  BY <1>2, <1>3, <1>6
<1> HIDE DEF s, n, last
<1>8. n + 1 \in 1..(n + 1)
  BY <1>2
<1>9. InsertedAs(t, u, c, x, n + 1)
  BY <1>5, <1>6, <1>7, <1>8 DEF InsertedAs, s, n
<1> QED
  BY <1>9, InsertGood DEF u

\* ChunkMutator::insertAfter keeps the tree well linked when insertPoint is a
\* child of c, and also when it is null and c has no children yet.
LEMMA InsertAfterGood ==
  ASSUME NEW t, GoodTree(t), NEW c \in Containers,
         NEW x \in Fresh(t) \cap ChildType(c),
         NEW point, point \in Children(t, c) \/ (point = NULL /\ t.kids[c] = << >>)
  PROVE  Grown(t, LinkInsertAfter(t, c, point, x), c, x)
<1> DEFINE u == LinkInsertAfter(t, c, point, x)
           s == t.kids[c]
           n == Len(s)
           k == IF point = NULL THEN 1 ELSE IndexOf(t, c, point) + 1
           after == IF point = NULL THEN NULL ELSE t.next[point]
<1>1. t \in Trees /\ WellLinked(t)
  BY DEF GoodTree
<1>2. s \in Seq(Chunks) /\ n \in Nat /\ x \in Chunks /\ x # NULL
  BY <1>1, TreeFacts, ChildFacts DEF Fresh
<1>3. CASE point \in Children(t, c)
  <2>1. PICK i \in 1..n : i = IndexOf(t, c, point) /\ s[i] = point
    BY <1>3, IndexOfChild
  <2>2. /\ point \in Chunks /\ point # NULL /\ point # x
        /\ after = (IF i = n THEN NULL ELSE s[i + 1])
    BY SMTT(40), <1>1, <2>1, PlaceFacts
  <2>3. i # n => s[i + 1] \in Chunks /\ s[i + 1] # NULL /\ s[i + 1] # x
    BY SMTT(40), <1>1, <1>2, <2>1, PlaceFacts
  <2>4. after \in Chunks \cup {NULL} /\ after # x
    BY <1>2, <2>2, <2>3
  <2>5. k = i + 1 /\ k \in 1..(n + 1) /\ k - 1 = i /\ k # 1 /\ (k = n + 1 <=> i = n)
    BY <1>2, <2>1, <2>2
  <2>6. InsertChild(s, k, x) \in Seq(Chunks)
    BY <1>2, <2>5, InsertChildFacts
  <2>7. u \in Trees
    BY <1>1, <1>2, <2>2, <2>4, <2>6, TreeFacts DEF LinkInsertAfter, SetIfAny, Trees
  <2>8. /\ u.kids = [t.kids EXCEPT ![c] = InsertChild(s, k, x)]
        /\ u.parent = [t.parent EXCEPT ![x] = c]
        /\ u.prev[x] = point /\ u.next[x] = after
        /\ \A y \in Chunks \ {x} :
              u.prev[y] = (IF after # NULL /\ y = after THEN x ELSE t.prev[y])
        /\ \A y \in Chunks \ {x} : u.next[y] = (IF y = point THEN x ELSE t.next[y])
    BY <1>1, <1>2, <2>2, <2>4, TreeFacts DEF LinkInsertAfter, SetIfAny
  <2> HIDE DEF u, k, after, s, n
  <2>9. InsertedAs(t, u, c, x, k)
    <3>1. /\ (IF k = 1 THEN NULL ELSE s[k - 1]) = point
          /\ (IF k = n + 1 THEN NULL ELSE s[k]) = after
      BY <2>1, <2>2, <2>5
    <3>2. \A y : (after # NULL /\ y = after) <=> (k # n + 1 /\ y = s[k])
      BY <2>2, <2>3, <2>5
    <3>3. \A y : y = point <=> (k # 1 /\ y = s[k - 1])
      BY <2>1, <2>5
    <3> QED
      BY <2>5, <2>7, <2>8, <3>1, <3>2, <3>3 DEF InsertedAs, s, n
  <2> QED
    BY <2>9, InsertGood DEF u
<1>4. CASE point = NULL /\ s = << >>
  <2>1. n = 0 /\ k = 1 /\ after = NULL
    BY <1>4
  <2>2. InsertChild(s, k, x) \in Seq(Chunks)
    BY <1>2, <2>1, InsertChildFacts
  <2>3. u \in Trees
    BY <1>1, <1>2, <1>4, <2>1, <2>2, TreeFacts DEF LinkInsertAfter, SetIfAny, Trees
  <2>4. /\ u.kids = [t.kids EXCEPT ![c] = InsertChild(s, k, x)]
        /\ u.parent = [t.parent EXCEPT ![x] = c]
        /\ u.prev[x] = NULL /\ u.next[x] = NULL
        /\ \A y \in Chunks \ {x} : u.prev[y] = t.prev[y] /\ u.next[y] = t.next[y]
    BY <1>1, <1>2, <1>4, <2>1, TreeFacts DEF LinkInsertAfter, SetIfAny
  <2> HIDE DEF u, k, after, s, n
  <2>5. InsertedAs(t, u, c, x, k)
    BY SMTT(40), <2>1, <2>3, <2>4 DEF InsertedAs, s, n
  <2> QED
    BY <2>5, InsertGood DEF u
<1> QED
  BY <1>3, <1>4

\* ChunkMutator::insertBefore keeps the tree well linked.
LEMMA InsertBeforeGood ==
  ASSUME NEW t, GoodTree(t), NEW c \in Containers,
         NEW x \in Fresh(t) \cap ChildType(c), NEW point \in Children(t, c)
  PROVE  Grown(t, LinkInsertBefore(t, c, point, x), c, x)
<1> DEFINE u == LinkInsertBefore(t, c, point, x)
           s == t.kids[c]
           n == Len(s)
           before == t.prev[point]
<1>1. t \in Trees /\ WellLinked(t)
  BY DEF GoodTree
<1>2. s \in Seq(Chunks) /\ n \in Nat /\ x \in Chunks /\ x # NULL
  BY <1>1, TreeFacts, ChildFacts DEF Fresh
<1>3. PICK k \in 1..n : k = IndexOf(t, c, point) /\ s[k] = point
  BY ONLY point \in Children(t, c), IndexOfChild
<1>4. /\ point \in Chunks /\ point # NULL /\ point # x
      /\ before = (IF k = 1 THEN NULL ELSE s[k - 1])
  <2>1. /\ s[k] \in Chunks \ {Function, NULL} /\ s[k] \notin Fresh(t)
        /\ t.prev[s[k]] = (IF k = 1 THEN NULL ELSE s[k - 1])
    BY ONLY <1>1, c \in Containers, k \in 1..n, PlaceFacts
  <2> QED
    BY <1>3, <2>1
<1>5. k # 1 => s[k - 1] \in Chunks /\ s[k - 1] # NULL /\ s[k - 1] # x
  <2> SUFFICES ASSUME k # 1
               PROVE  s[k - 1] \in Chunks /\ s[k - 1] # NULL /\ s[k - 1] # x
    OBVIOUS
  <2>1. k - 1 \in 1..n
    BY ONLY <1>2, k \in 1..n, k # 1
  <2>2. s[k - 1] \in Chunks \ {Function, NULL} /\ s[k - 1] \notin Fresh(t)
    BY ONLY <1>1, <2>1, c \in Containers, PlaceFacts
  <2> QED
    BY <2>2
<1>6. before \in Chunks \cup {NULL} /\ before # x
  BY <1>2, <1>4, <1>5
<1>7. k \in 1..(n + 1) /\ k # n + 1
  BY <1>2, <1>3
<1>8. InsertChild(s, k, x) \in Seq(Chunks)
  BY <1>2, <1>7, InsertChildFacts
<1>9. u \in Trees
  BY <1>1, <1>2, <1>3, <1>4, <1>6, <1>8, TreeFacts DEF LinkInsertBefore, SetIfAny, Trees
<1>10. /\ u.kids = [t.kids EXCEPT ![c] = InsertChild(s, k, x)]
       /\ u.parent = [t.parent EXCEPT ![x] = c]
       /\ u.prev[x] = before /\ u.next[x] = point
       /\ \A y \in Chunks \ {x} : u.prev[y] = (IF y = point THEN x ELSE t.prev[y])
       /\ \A y \in Chunks \ {x} :
             u.next[y] = (IF before # NULL /\ y = before THEN x ELSE t.next[y])
  BY <1>1, <1>2, <1>3, <1>4, <1>6, TreeFacts DEF LinkInsertBefore, SetIfAny
<1> HIDE DEF u, before, s, n
<1>11. InsertedAs(t, u, c, x, k)
  BY <1>2, <1>3, <1>4, <1>5, <1>7, <1>9, <1>10 DEF InsertedAs, s, n
<1> QED
  BY <1>11, InsertGood DEF u

\* r is the list s without its k-th element, whose neighbours point to each
\* other afterwards.
Erased(s, n, k, r, prev, next, prev2, next2) ==
  /\ n \in Nat /\ k \in 1..n
  /\ \A j \in 1..(n - 1) : r[j] = (IF j < k THEN s[j] ELSE s[j + 1])
  /\ \A i \in 1..n : i # k =>
       prev2[s[i]] = (IF i = k + 1 THEN (IF k = 1 THEN NULL ELSE s[k - 1])
                                   ELSE prev[s[i]])
  /\ \A i \in 1..n : i # k =>
       next2[s[i]] = (IF i = k - 1 THEN (IF k = n THEN NULL ELSE s[k + 1])
                                   ELSE next[s[i]])

\* Taking out the k-th element and joining its neighbours keeps the sequence
\* distinct and chained.
LEMMA ChainErase ==
  ASSUME NEW s, NEW n, NEW k, NEW r, NEW prev, NEW next, NEW prev2, NEW next2,
         Distinct(s, n), Chained(s, n, prev, next),
         Erased(s, n, k, r, prev, next, prev2, next2)
  PROVE  Distinct(r, n - 1) /\ Chained(r, n - 1, prev2, next2)
<1> USE DEF Erased
<1>1. Distinct(r, n - 1)
  BY SMTT(40) DEF Distinct
<1>2. ASSUME NEW i \in 1..(n - 1)
      PROVE  prev2[r[i]] = (IF i = 1 THEN NULL ELSE r[i - 1])
  <2>1. CASE i < k
    BY SMTT(40), <2>1 DEF Chained
  <2>2. CASE i = k
    BY <2>2
  <2>3. CASE i > k
    BY SMTT(40), <2>3 DEF Chained
  <2> QED
    BY SMTT(40), <2>1, <2>2, <2>3
<1>3. ASSUME NEW i \in 1..(n - 1)
      PROVE  next2[r[i]] = (IF i = n - 1 THEN NULL ELSE r[i + 1])
  <2>1. CASE i < k - 1
    BY <2>1 DEF Chained
  <2>2. CASE i = k - 1
    BY <2>2
  <2>3. CASE i >= k
    BY SMTT(40), <2>3 DEF Chained
  <2> QED
    BY <2>1, <2>2, <2>3
<1> QED
  BY <1>1, <1>2, <1>3 DEF Chained

\* ChunkMutator::remove keeps the tree well linked.
LEMMA RemoveGood ==
  ASSUME NEW t, GoodTree(t), NEW c \in Containers, NEW x \in Children(t, c)
  PROVE  GoodTree(LinkRemove(t, c, x))
<1> DEFINE u == LinkRemove(t, c, x)
           s == t.kids[c]
           n == Len(s)
           before == t.prev[x]
           after == t.next[x]
<1>1. t \in Trees /\ WellLinked(t) /\ FreshAlone(t)
  BY DEF GoodTree
<1>2. s \in Seq(Chunks) /\ n \in Nat
  BY <1>1, TreeFacts
<1>3. PICK k \in 1..n : k = IndexOf(t, c, x) /\ s[k] = x
  BY IndexOfChild
<1>4. /\ x \in Chunks /\ x # NULL
      /\ before = (IF k = 1 THEN NULL ELSE s[k - 1])
      /\ after = (IF k = n THEN NULL ELSE s[k + 1])
  BY SMTT(40), <1>1, <1>3, PlaceFacts
<1>5. \A i \in 1..n : s[i] \in Chunks \ {NULL} /\ s[i] \in ChildType(c) /\ t.parent[s[i]] = c
  BY SMTT(40), <1>1, PlaceFacts
<1>6. Distinct(s, n) /\ Chained(s, n, t.prev, t.next)
  BY <1>1, LinkedMeans DEF WellLinked
<1>7. /\ k \in Nat
      /\ k # 1 => k - 1 \in 1..n
      /\ k # n => k + 1 \in 1..n
  BY <1>2, <1>3
<1>8. before \in Chunks \cup {NULL} /\ after \in Chunks \cup {NULL}
  BY <1>4, <1>5, <1>7
<1> DEFINE r == EraseChild(s, k)
<1>9. r \in Seq(Chunks) /\ Len(r) = n - 1
      /\ \A j \in 1..(n - 1) : r[j] = (IF j < k THEN s[j] ELSE s[j + 1])
  BY <1>2, <1>3, EraseChildFacts
<1>10. /\ u.kids = [t.kids EXCEPT ![c] = r]
       /\ u.parent = t.parent
       /\ u.next = SetIfAny(t.next, before, after)
       /\ u.prev = SetIfAny(t.prev, after, before)
       /\ u = [t EXCEPT !.kids = u.kids, !.next = u.next, !.prev = u.prev]
  BY <1>1, <1>3 DEF LinkRemove, Trees
<1> HIDE DEF u, r
<1>11. /\ \A y \in Chunks :
             u.next[y] = (IF before # NULL /\ y = before THEN after ELSE t.next[y])
       /\ \A y \in Chunks :
             u.prev[y] = (IF after # NULL /\ y = after THEN before ELSE t.prev[y])
       /\ u.next \in [Chunks -> Chunks \cup {NULL}]
       /\ u.prev \in [Chunks -> Chunks \cup {NULL}]
  BY SMTT(40), <1>1, <1>8, <1>10, TreeFacts DEF SetIfAny
<1>12. u \in Trees
  BY <1>1, <1>9, <1>10, <1>11 DEF Trees
<1>13. u.kids[c] = r /\ \A d \in Containers : d # c => u.kids[d] = t.kids[d]
  BY <1>1, <1>10, TreeFacts
<1> HIDE DEF s, n, before, after
<1>14. LinkedUnder(u, c)
  <2>1. \A i \in 1..n :
          u.prev[s[i]] = (IF i = k + 1 THEN (IF k = 1 THEN NULL ELSE s[k - 1])
                                       ELSE t.prev[s[i]])
    BY <1>2, <1>4, <1>5, <1>6, <1>7, <1>11 DEF Distinct
  <2>2. \A i \in 1..n :
          u.next[s[i]] = (IF i = k - 1 THEN (IF k = n THEN NULL ELSE s[k + 1])
                                       ELSE t.next[s[i]])
    BY <1>2, <1>4, <1>5, <1>6, <1>7, <1>11 DEF Distinct
  <2>3. Erased(s, n, k, r, t.prev, t.next, u.prev, u.next)
    BY <1>2, <1>9, <2>1, <2>2 DEF Erased
  <2>4. Distinct(r, n - 1) /\ Chained(r, n - 1, u.prev, u.next)
    BY <1>6, <2>3, ChainErase
  <2>5. \A i \in 1..(n - 1) : r[i] \in ChildType(c) /\ u.parent[r[i]] = c
    <3> SUFFICES ASSUME NEW i \in 1..(n - 1)
                 PROVE  r[i] \in ChildType(c) /\ u.parent[r[i]] = c
      OBVIOUS
    <3>1. \E j \in 1..n : r[i] = s[j]
      BY <1>2, <1>7, <1>9
    <3> QED
      BY <1>5, <1>10, <3>1
  <2> QED
    BY <1>9, <1>13, <2>4, <2>5, LinkedMeans
<1> DEFINE Touched == {s[i] : i \in 1..n}
<1>15. WellLinked(u)
  <2>1. (before # NULL => before \in Touched) /\ (after # NULL => after \in Touched)
    BY <1>4, <1>7
  <2>2. \A d \in Containers : d # c =>
          \A i \in 1..Len(t.kids[d]) : t.kids[d][i] \notin Touched
    BY SMTT(40), <1>1, <1>5, PlaceFacts
  <2>3. \A y \in Chunks \ Touched :
          u.parent[y] = t.parent[y] /\ u.prev[y] = t.prev[y] /\ u.next[y] = t.next[y]
    BY <1>10, <1>11, <2>1
  <2>4. TouchesOnly(t, u, c, Touched)
    BY <1>13, <2>2, <2>3 DEF TouchesOnly
  <2> HIDE DEF Touched
  <2> QED
    BY <1>1, <1>14, <2>4, OnlyAt
<1>16. FreshAlone(u)
  <2> SUFFICES ASSUME NEW y \in Fresh(u)
               PROVE  u.prev[y] = NULL /\ u.next[y] = NULL
    BY DEF FreshAlone
  <2>1. y \in Chunks /\ y \in Fresh(t) /\ t.parent[y] = NULL /\ c # NULL
    BY <1>10, DistinctChunks DEF Fresh, Chunks
  <2>2. (before # NULL => before # y) /\ (after # NULL => after # y)
    BY <1>4, <1>5, <1>7, <2>1
  <2> QED
    BY <1>1, <1>11, <2>1, <2>2 DEF FreshAlone
<1> QED
  BY <1>12, <1>15, <1>16 DEF GoodTree, u

\* ChunkMutator::removeLast keeps the tree well linked, and what it removes is
\* nobody's child afterwards.
LEMMA RemoveLastGood ==
  ASSUME NEW t, GoodTree(t), NEW c \in Containers,
         NEW keep \in 0..Len(t.kids[c])
  PROVE  /\ GoodTree(LinkRemoveLast(t, c, keep))
         /\ \A d \in Containers : \A j \in 1..Len(LinkRemoveLast(t, c, keep).kids[d]) :
              \A i \in (keep + 1)..Len(t.kids[c]) :
                 LinkRemoveLast(t, c, keep).kids[d][j] # t.kids[c][i]
<1> DEFINE u == LinkRemoveLast(t, c, keep)
           s == t.kids[c]
           n == Len(s)
           r == SubSeq(s, 1, keep)
           gone == {s[i] : i \in (keep + 1)..n}
<1>1. t \in Trees /\ WellLinked(t) /\ FreshAlone(t)
  BY DEF GoodTree
<1>2. s \in Seq(Chunks) /\ n \in Nat /\ keep \in Nat /\ keep <= n
  BY <1>1, TreeFacts
<1>3. \A i \in 1..n : /\ s[i] \in Chunks \ {NULL} /\ s[i] \in ChildType(c)
                      /\ t.parent[s[i]] = c
                      /\ t.prev[s[i]] = (IF i = 1 THEN NULL ELSE s[i - 1])
                      /\ t.next[s[i]] = (IF i = n THEN NULL ELSE s[i + 1])
  <2> SUFFICES ASSUME NEW i \in 1..n
               PROVE  /\ s[i] \in Chunks \ {NULL} /\ s[i] \in ChildType(c)
                      /\ t.parent[s[i]] = c
                      /\ t.prev[s[i]] = (IF i = 1 THEN NULL ELSE s[i - 1])
                      /\ t.next[s[i]] = (IF i = n THEN NULL ELSE s[i + 1])
    BY Zenon
  <2>1. s[i] \in Chunks \ {Function, NULL}
    BY <1>1, PlaceFacts
  <2>2. s[i] \in ChildType(c) /\ t.parent[s[i]] = c
    BY <1>1, PlaceFacts
  <2>3. /\ t.prev[s[i]] = (IF i = 1 THEN NULL ELSE s[i - 1])
        /\ t.next[s[i]] = (IF i = n THEN NULL ELSE s[i + 1])
    BY <1>1, PlaceFacts
  <2> QED
    BY <2>1, <2>2, <2>3, Zenon
<1>4. \A i, j \in 1..n : s[i] = s[j] => i = j
  BY <1>1, PlaceFacts
<1>5. r \in Seq(Chunks) /\ Len(r) = keep /\ \A i \in 1..keep : r[i] = s[i]
  BY <1>2
<1> DEFINE next2 == [y \in Chunks |->
                       IF \E g \in gone : t.prev[g] = y THEN NULL ELSE t.next[y]]
<1>6. u = [t EXCEPT !.kids[c] = r, !.next = next2]
  BY DEF LinkRemoveLast
<1>7. next2 \in [Chunks -> Chunks \cup {NULL}]
  BY <1>1, TreeFacts
<1> HIDE DEF u, r, next2
<1>8. /\ u.kids = [t.kids EXCEPT ![c] = r]
      /\ u.parent = t.parent /\ u.prev = t.prev /\ u.next = next2
      /\ u \in Trees
  BY <1>1, <1>5, <1>6, <1>7 DEF Trees
<1>9. u.kids[c] = r /\ \A d \in Containers : d # c => u.kids[d] = t.kids[d]
  BY <1>1, <1>8, TreeFacts
<1>10. \A y \in Chunks :
         u.next[y] = (IF \E i \in (keep + 1)..n : t.prev[s[i]] = y
                      THEN NULL ELSE t.next[y])
  BY <1>8 DEF next2
<1> HIDE DEF s, n, gone
<1>11. \A y \in Chunks : (\E i \in (keep + 1)..n : t.prev[s[i]] = y) =>
                        \E i \in 1..n : i >= keep /\ i # n /\ y = s[i]
  <2> SUFFICES ASSUME NEW y \in Chunks, NEW i \in (keep + 1)..n, t.prev[s[i]] = y
               PROVE  \E j \in 1..n : j >= keep /\ j # n /\ y = s[j]
    OBVIOUS
  <2>1. i \in 1..n /\ i # 1
    BY <1>2, <1>3, DistinctChunks
  <2>2. i - 1 \in 1..n /\ i - 1 >= keep /\ i - 1 # n /\ y = s[i - 1]
    BY <1>2, <1>3, <2>1
  <2> QED
    BY <2>2
<1>12. ASSUME NEW i \in 1..keep
       PROVE  u.next[s[i]] = (IF i = keep THEN NULL ELSE s[i + 1])
  <2>0. i \in 1..n /\ s[i] \in Chunks
    BY <1>2, <1>3
  <2>1. CASE i = n
    BY <1>2, <1>3, <1>10, <2>0, <2>1
  <2>2. CASE i = keep /\ i # n
    <3>1. i + 1 \in (keep + 1)..n /\ t.prev[s[i + 1]] = s[i]
      BY <1>2, <1>3, <2>2
    <3> QED
      BY <1>10, <2>0, <2>2, <3>1
  <2>3. CASE i < keep
    <3>1. \A j \in 1..n : j >= keep => s[j] # s[i]
      BY <1>2, <1>4, <2>0, <2>3
    <3>2. u.next[s[i]] = t.next[s[i]]
      BY <1>10, <1>11, <2>0, <3>1
    <3> QED
      BY <1>2, <1>3, <2>0, <2>3, <3>2
  <2> QED
    BY <1>2, <2>1, <2>2, <2>3
<1>13. LinkedUnder(u, c)
  <2>1. Distinct(r, keep)
    BY <1>2, <1>4, <1>5 DEF Distinct
  <2>2. ASSUME NEW i \in 1..keep
        PROVE  /\ u.prev[r[i]] = (IF i = 1 THEN NULL ELSE r[i - 1])
               /\ u.next[r[i]] = (IF i = keep THEN NULL ELSE r[i + 1])
    <3>1. i \in 1..n /\ r[i] = s[i]
      BY <1>2, <1>5
    <3>2. (i # 1 => r[i - 1] = s[i - 1]) /\ (i # keep => r[i + 1] = s[i + 1])
      BY <1>2, <1>5
    <3> QED
      BY SMTT(40), <1>3, <1>8, <1>12, <3>1, <3>2
  <2>3. Chained(r, keep, u.prev, u.next)
    BY <2>2 DEF Chained
  <2>4. \A i \in 1..keep : r[i] \in ChildType(c) /\ u.parent[r[i]] = c
    BY SMTT(40), <1>2, <1>3, <1>5, <1>8
  <2> QED
    BY <1>5, <1>9, <2>1, <2>3, <2>4, LinkedMeans
<1> DEFINE Touched == {s[i] : i \in 1..n}
<1>14. \A y \in Chunks \ Touched : u.next[y] = t.next[y]
  BY <1>10, <1>11
<1>15. \A y \in Touched : t.parent[y] = c
  BY <1>3
<1> HIDE DEF Touched
<1>16. WellLinked(u)
  <2>1. \A d \in Containers : d # c =>
          \A i \in 1..Len(t.kids[d]) : t.kids[d][i] \notin Touched
    <3> SUFFICES ASSUME NEW d \in Containers, d # c, NEW i \in 1..Len(t.kids[d])
                 PROVE  t.kids[d][i] \notin Touched
      OBVIOUS
    <3>1. t.parent[t.kids[d][i]] = d
      BY SMTT(40), <1>1, PlaceFacts
    <3> QED
      BY <1>15, <3>1
  <2>2. TouchesOnly(t, u, c, Touched)
    BY <1>8, <1>9, <1>14, <2>1 DEF TouchesOnly
  <2> QED
    BY <1>1, <1>13, <2>2, OnlyAt
<1>17. FreshAlone(u)
  BY <1>1, <1>8, <1>10 DEF FreshAlone, Fresh
<1>18. ASSUME NEW d \in Containers, NEW j \in 1..Len(u.kids[d]),
              NEW i \in (keep + 1)..n
       PROVE  u.kids[d][j] # s[i]
  <2>1. i \in 1..n
    BY <1>2
  <2>2. CASE d = c
    BY <1>2, <1>4, <1>5, <1>9, <2>1, <2>2
  <2>3. CASE d # c
    <3>1. u.kids[d] = t.kids[d]
      BY <1>1, <1>9, <2>3
    <3>2. t.parent[t.kids[d][j]] = d
      BY <1>1, <3>1, PlaceFacts
    <3> QED
      BY <1>3, <2>1, <2>3, <3>1, <3>2
  <2> QED
    BY <2>2, <2>3
<1>19. GoodTree(u)
  BY <1>8, <1>16, <1>17 DEF GoodTree
<1> QED
  BY <1>18, <1>19 DEF u, s, n

\* The chunks of s are nobody's children in t.
Loose(t, s) ==
  \A d \in Containers : \A j \in 1..Len(t.kids[d]) :
    \A i \in 1..Len(s) : t.kids[d][j] # s[i]

\* The second half of splitBlockBefore: Instructions that are nobody's children
\* are appended to an empty Block.
LEMMA MoveToGood ==
  ASSUME NEW t, GoodTree(t), NEW b \in Blocks, t.kids[b] = << >>,
         NEW s \in Seq(Instrs), Distinct(s, Len(s)), Loose(t, s)
  PROVE  /\ GoodTree(LinkMoveTo(t, b, s))
         /\ \A d \in Containers : d # b => LinkMoveTo(t, b, s).kids[d] = t.kids[d]
         /\ \A y \in Chunks \ Instrs : LinkMoveTo(t, b, s).parent[y] = t.parent[y]
<1> DEFINE u == LinkMoveTo(t, b, s)
           n == Len(s)
           moved == {s[i] : i \in 1..n}
           at(x) == CHOOSE i \in 1..n : s[i] = x
<1>1. t \in Trees /\ WellLinked(t) /\ FreshAlone(t)
  BY DEF GoodTree
<1>2. /\ n \in Nat /\ s \in Seq(Chunks) /\ b \in Containers /\ Instrs \subseteq Chunks
      /\ \A i \in 1..n : s[i] \in Instrs /\ s[i] \in moved
      /\ ChildType(b) = Instrs
  BY DistinctChunks DEF Chunks, Containers, ChildType
<1>3. \A i \in 1..n : at(s[i]) = i
  BY DEF Distinct
<1>4. \A x \in moved : at(x) \in 1..n
  OBVIOUS
<1>5. /\ u.kids = [t.kids EXCEPT ![b] = s]
      /\ u.parent = [x \in Chunks |-> IF x \in moved THEN b ELSE t.parent[x]]
      /\ u.prev = [x \in Chunks |->
                     IF x \notin moved THEN t.prev[x]
                     ELSE IF at(x) = 1 THEN NULL ELSE s[at(x) - 1]]
      /\ u.next = [x \in Chunks |->
                     IF x \notin moved THEN t.next[x]
                     ELSE IF at(x) = n THEN NULL ELSE s[at(x) + 1]]
      /\ u = [kids |-> u.kids, parent |-> u.parent, prev |-> u.prev, next |-> u.next]
  BY DEF LinkMoveTo
<1> HIDE DEF u, at, moved, n
<1>6. u \in Trees
  <2>0. \A x \in moved : /\ at(x) # 1 => s[at(x) - 1] \in Chunks
                         /\ at(x) # n => s[at(x) + 1] \in Chunks
    <3> SUFFICES ASSUME NEW i \in 1..n
                 PROVE  /\ i # 1 => s[i - 1] \in Chunks
                        /\ i # n => s[i + 1] \in Chunks
      BY <1>4
    <3>1. (i # 1 => i - 1 \in 1..n) /\ (i # n => i + 1 \in 1..n)
      BY SMTT(40), <1>2
    <3> QED
      BY <1>2, <3>1
  <2>1. u.prev \in [Chunks -> Chunks \cup {NULL}]
    BY <1>1, <1>5, <2>0, TreeFacts
  <2>2. u.next \in [Chunks -> Chunks \cup {NULL}]
    BY <1>1, <1>5, <2>0, TreeFacts
  <2>3. u.parent \in [Chunks -> Containers \cup {NULL}]
    BY <1>1, <1>2, <1>5, TreeFacts
  <2>4. u.kids \in [Containers -> Seq(Chunks)]
    BY <1>1, <1>2, <1>5, TreeFacts
  <2> QED
    BY <1>5, <2>1, <2>2, <2>3, <2>4 DEF Trees
<1>7. u.kids[b] = s /\ \A d \in Containers : d # b => u.kids[d] = t.kids[d]
  BY <1>1, <1>2, <1>5, TreeFacts
<1>8. \A y \in Chunks \ moved :
        u.parent[y] = t.parent[y] /\ u.prev[y] = t.prev[y] /\ u.next[y] = t.next[y]
  BY <1>5
<1>9. LinkedUnder(u, b)
  <2>1. Chained(s, n, u.prev, u.next)
    BY <1>2, <1>3, <1>5 DEF Chained
  <2>2. \A i \in 1..n : s[i] \in ChildType(b) /\ u.parent[s[i]] = b
    BY <1>2, <1>5
  <2> QED
    BY <1>7, <2>1, <2>2, LinkedMeans DEF n
<1>10. WellLinked(u)
  <2>1. \A d \in Containers : d # b =>
          \A i \in 1..Len(t.kids[d]) : t.kids[d][i] \notin moved
    BY DEF moved, n, Loose
  <2>2. TouchesOnly(t, u, b, moved)
    BY <1>7, <1>8, <2>1 DEF TouchesOnly
  <2> QED
    BY <1>1, <1>2, <1>9, <2>2, OnlyAt
<1>11. FreshAlone(u)
  <2>1. b # NULL
    BY <1>2, DistinctChunks DEF Chunks
  <2> QED
    BY <1>1, <1>5, <1>8, <2>1 DEF FreshAlone, Fresh
<1>12. \A y \in Chunks \ Instrs : y \notin moved
  BY <1>2 DEF moved
<1> QED
  BY <1>6, <1>7, <1>8, <1>10, <1>11, <1>12 DEF GoodTree, u

\* ChunkMutator::splitBlockBefore keeps the tree well linked: it is removeLast,
\* the move of what was removed, and insertAfter of the new Block.
LEMMA SplitGood ==
  ASSUME NEW t, GoodTree(t), NEW block \in Children(t, Function),
         NEW keep \in 0..Len(t.kids[block]),
         NEW b \in Fresh(t) \cap Blocks, t.kids[b] = << >>
  PROVE  GoodTree(LinkInsertAfter(
           LinkMoveTo(LinkRemoveLast(t, block, keep), b,
                      SubSeq(t.kids[block], keep + 1, Len(t.kids[block]))),
           Function, block, b))
<1> DEFINE s == t.kids[block]
           n == Len(s)
           moving == SubSeq(s, keep + 1, n)
           v == LinkRemoveLast(t, block, keep)
           w == LinkMoveTo(v, b, moving)
<1>1. t \in Trees /\ WellLinked(t) /\ FreshAlone(t)
  BY DEF GoodTree
<1>2. Function \in Containers /\ ChildType(Function) = Blocks
  BY DEF Containers, ChildType
<1>3. PICK k \in 1..Len(t.kids[Function]) : t.kids[Function][k] = block
  BY DEF Children
<1>4. block \in Blocks /\ t.parent[block] = Function /\ block # Function /\ b # block
  <2>1. block \in Blocks /\ t.parent[block] = Function /\ block \notin Fresh(t)
    <3>1. /\ t.kids[Function][k] \in ChildType(Function)
          /\ t.parent[t.kids[Function][k]] = Function
          /\ t.kids[Function][k] \notin Fresh(t)
      BY ONLY <1>1, <1>2, k \in 1..Len(t.kids[Function]), PlaceFacts
    <3> QED
      BY <1>2, <1>3, <3>1, Zenon
  <2> QED
    BY <2>1, DistinctChunks
<1>5. /\ block \in Containers /\ b \in Containers /\ b # Function /\ b \in Chunks
      /\ ChildType(block) = Instrs
  BY <1>4, DistinctChunks DEF Containers, Chunks, ChildType
<1>6. /\ s \in Seq(Chunks) /\ n \in Nat /\ keep \in Nat /\ keep <= n
      /\ \A i \in 1..n : s[i] \in Instrs
      /\ \A i, j \in 1..n : s[i] = s[j] => i = j
  BY SMTT(40), <1>1, <1>5, TreeFacts, PlaceFacts
<1>7. /\ GoodTree(v)
      /\ \A d \in Containers : \A j \in 1..Len(v.kids[d]) :
           \A i \in (keep + 1)..n : v.kids[d][j] # s[i]
  BY <1>5, RemoveLastGood
<1>8. /\ v.kids[Function] = t.kids[Function] /\ v.kids[b] = << >>
      /\ v.parent = t.parent
  BY <1>1, <1>2, <1>4, <1>5, TreeFacts DEF LinkRemoveLast, Trees
<1>9. /\ moving \in Seq(Instrs) /\ Len(moving) = n - keep
      /\ \A i \in 1..(n - keep) : moving[i] = s[keep + i]
  <2>1. Len(moving) = n - keep /\ \A i \in 1..(n - keep) : moving[i] = s[keep + i]
    BY <1>6
  <2>2. moving \in Seq(Chunks)
    BY <1>6
  <2>3. \A i \in 1..Len(moving) : moving[i] \in Instrs
    BY <1>6, <2>1
  <2> HIDE DEF moving
  <2>4. moving \in Seq(Instrs)
    BY <2>2, <2>3
  <2> QED
    BY <2>1, <2>4
<1> HIDE DEF v, moving, s, n
<1>10. \A i \in 1..Len(moving) : keep + i \in (keep + 1)..n /\ keep + i \in 1..n
  BY <1>6, <1>9
<1>11. Distinct(moving, Len(moving))
  <2> SUFFICES ASSUME NEW i \in 1..Len(moving), NEW j \in 1..Len(moving),
                      moving[i] = moving[j]
               PROVE  i = j
    BY DEF Distinct
  <2>1. keep + i = keep + j
    BY <1>6, <1>9, <1>10
  <2> QED
    BY <1>6, <1>9, <2>1
<1>12. Loose(v, moving)
  BY <1>7, <1>9, <1>10 DEF Loose
<1>13. /\ GoodTree(w)
       /\ w.kids[Function] = t.kids[Function]
       /\ w.parent[b] = NULL
  <2>1. b \in Chunks \ Instrs /\ t.parent[b] = NULL /\ b \in Blocks
    BY <1>5, DistinctChunks DEF Fresh
  <2>2. /\ GoodTree(w)
        /\ \A d \in Containers : d # b => w.kids[d] = v.kids[d]
        /\ \A y \in Chunks \ Instrs : w.parent[y] = v.parent[y]
    BY <1>7, <1>8, <1>9, <1>11, <1>12, <2>1, MoveToGood
  <2> HIDE DEF w
  <2> QED
    BY <1>2, <1>5, <1>8, <2>1, <2>2
<1> HIDE DEF w
<1>14. b \in Fresh(w) \cap ChildType(Function) /\ block \in Children(w, Function)
  BY <1>2, <1>3, <1>5, <1>13 DEF Fresh, Children
<1>15. GoodTree(LinkInsertAfter(w, Function, block, b))
  BY <1>2, <1>13, <1>14, InsertAfterGood DEF Grown
<1> QED
  BY <1>15 DEF w, v, moving, s, n
=============================================================================
