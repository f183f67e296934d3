---------------------------- MODULE QueueLemmas ----------------------------
(***************************************************************************)
(* Facts about the linked lists of the kernel (glue-ucore/libs/list.h): a  *)
(* list holds each of its elements once.  The run queues, wait queues and  *)
(* process lists of the other modules are sequences for which IsQueueOf    *)
(* holds.                                                                  *)
(***************************************************************************)
EXTENDS List, FiniteSetTheorems, SequenceTheorems, TLAPS

USE SMTT(30)

\* The sequence q lists the elements of S, each of them once.
IsQueueOf(q, S) ==
  /\ q \in Seq(S)
  /\ \A x \in S : \E i \in 1..Len(q) : q[i] = x
  /\ \A i, j \in 1..Len(q) : i # j => q[i] # q[j]

\* An empty list holds nothing (list_init).
LEMMA EmptyQueue ==
  ASSUME NEW S
  PROVE  IsQueueOf(<<>>, S) <=> S = {}
BY EmptySeq DEF IsQueueOf

\* The elements of a list, and where they are.
LEMMA QueueElements ==
  ASSUME NEW q, NEW S, IsQueueOf(q, S)
  PROVE  /\ Range(q) = S
         /\ DOMAIN q = 1..Len(q)
         /\ Len(q) \in Nat
         /\ \A i \in DOMAIN q : q[i] \in S
<1>1. /\ Len(q) \in Nat /\ DOMAIN q = 1..Len(q)
      /\ \A i \in 1..Len(q) : q[i] \in S
  BY LenProperties, ElementOfSeq DEF IsQueueOf
<1>2. Range(q) = S
  <2>1. \A x \in S : x \in {q[i] : i \in 1..Len(q)}
    BY DEF IsQueueOf
  <2> QED
    BY <1>1, <2>1 DEF Range
<1> QED
  BY <1>1, <1>2

\* The three parts of the definition, one by one.
LEMMA QueueParts ==
  ASSUME NEW q, NEW S, IsQueueOf(q, S)
  PROVE  /\ Len(q) \in Nat
         /\ \A i \in 1..Len(q) : q[i] \in S
         /\ \A x \in S : \E i \in 1..Len(q) : q[i] = x
         /\ \A i, j \in 1..Len(q) : i # j => q[i] # q[j]
BY QueueElements DEF IsQueueOf

\* What a state predicate says about a list in terms of Range.
LEMMA QueueOf ==
  ASSUME NEW q, NEW T, q \in Seq(T),
         \A i, j \in DOMAIN q : i # j => q[i] # q[j]
  PROVE  IsQueueOf(q, Range(q))
<1>1. /\ Len(q) \in Nat /\ DOMAIN q = 1..Len(q) /\ q \in [1..Len(q) -> T]
  BY LenProperties
<1>2. \A i \in 1..Len(q) : q[i] \in Range(q)
  BY <1>1, Zenon DEF Range
<1>3. q \in [1..Len(q) -> Range(q)]
  BY <1>1, <1>2
<1>4. q \in Seq(Range(q))
  BY <1>1, <1>3, SeqDef
<1>5. \A x \in Range(q) : \E i \in 1..Len(q) : q[i] = x
  BY <1>1, Zenon DEF Range
<1> QED
  BY <1>1, <1>4, <1>5 DEF IsQueueOf

\* list_add_before(head, x) for an x that is not in the list.
LEMMA AppendQueue ==
  ASSUME NEW q, NEW S, IsQueueOf(q, S), NEW x, x \notin S
  PROVE  IsQueueOf(Append(q, x), S \cup {x})
<1> DEFINE T == S \cup {x}
           r == Append(q, x)
<1>1. /\ Len(q) \in Nat /\ q \in Seq(T)
      /\ \A i \in 1..Len(q) : q[i] \in S
  BY LenProperties, ElementOfSeq, SeqMonotonic DEF IsQueueOf
<1>2. /\ r \in Seq(T) /\ Len(r) = Len(q) + 1
      /\ \A i \in 1..Len(q) : r[i] = q[i]
      /\ r[Len(q) + 1] = x
  BY <1>1
<1> HIDE DEF r
<1>3. \A y \in T : \E i \in 1..Len(r) : r[i] = y
  <2>1. Len(q) + 1 \in 1..Len(r)
    BY <1>1, <1>2
  <2>2. ASSUME NEW y \in S PROVE \E i \in 1..Len(r) : r[i] = y
    <3>1. PICK i \in 1..Len(q) : q[i] = y
      BY QueueParts
    <3>2. i \in 1..Len(r) /\ r[i] = y
      BY <1>1, <1>2, <3>1
    <3> QED
      BY <3>2
  <2> QED
    BY <1>2, <2>1, <2>2
<1>4. ASSUME NEW i \in 1..Len(r), NEW j \in 1..Len(r), i # j
      PROVE  r[i] # r[j]
  <2>1. CASE i \in 1..Len(q) /\ j \in 1..Len(q)
    <3>1. q[i] # q[j]
      BY <1>4, <2>1 DEF IsQueueOf
    <3> QED
      BY <1>2, <2>1, <3>1
  <2>2. CASE i = Len(q) + 1 \/ j = Len(q) + 1
    BY <1>1, <1>2, <1>4, <2>2
  <2> QED
    BY <1>1, <1>2, <2>1, <2>2
<1> QED
  BY <1>2, <1>3, <1>4, Zenon DEF IsQueueOf, r

\* list_del of the element at position k.
LEMMA RemoveQueue ==
  ASSUME NEW q, NEW S, IsQueueOf(q, S), NEW k \in DOMAIN q
  PROVE  IsQueueOf(list_del(q, k), S \ {q[k]})
<1> DEFINE a == SubSeq(q, 1, k - 1)
           b == SubSeq(q, k + 1, Len(q))
           r == list_del(q, k)
           T == S \ {q[k]}
<1>1. /\ Len(q) \in Nat /\ DOMAIN q = 1..Len(q) /\ k \in 1..Len(q)
      /\ \A i \in 1..Len(q) : q[i] \in S
      /\ \A i, j \in 1..Len(q) : i # j => q[i] # q[j]
  BY QueueElements DEF IsQueueOf
<1>2. /\ \A i \in 1..k - 1 : q[i] \in T
      /\ \A i \in k + 1..Len(q) : q[i] \in T
  BY <1>1
<1>3. /\ a \in Seq(T) /\ Len(a) = k - 1
      /\ \A i \in 1..k - 1 : a[i] = q[i]
  <2>1. k - 1 \in Int /\ 1 \in Int
    BY <1>1
  <2> QED
    BY <1>1, <1>2, <2>1, SubSeqProperties
<1>4. /\ b \in Seq(T) /\ Len(b) = Len(q) - k
      /\ \A i \in 1..Len(q) - k : b[i] = q[k + i]
  <2>1. PICK m \in Int : m = k + 1
    BY <1>1
  <2>2. Len(q) \in Int /\ \A i \in m..Len(q) : q[i] \in T
    BY <1>1, <1>2, <2>1
  <2>3. /\ b \in Seq(T)
        /\ Len(b) = IF m <= Len(q) THEN Len(q) - m + 1 ELSE 0
        /\ \A i \in 1..Len(q) - m + 1 : b[i] = q[m + i - 1]
    BY <2>1, <2>2, SubSeqProperties
  <2> HIDE DEF b
  <2>4. Len(b) = Len(q) - k
    <3>1. Len(b) = IF m <= Len(q) THEN Len(q) - m + 1 ELSE 0
      BY <2>3
    <3>2. Len(q) \in Nat /\ k \in 1..Len(q)
      BY <1>1
    <3> QED
      BY <2>1, <3>1, <3>2
  <2>5. ASSUME NEW i \in 1..Len(q) - k PROVE b[i] = q[k + i]
    <3>1. i \in 1..Len(q) - m + 1 /\ m + i - 1 = k + i
      BY <1>1, <2>1
    <3> QED
      BY <2>3, <3>1
  <2> QED
    BY <2>3, <2>4, <2>5
<1> HIDE DEF a, b
<1>5. /\ r \in Seq(T) /\ Len(r) = Len(a) + Len(b)
      /\ \A i \in 1..Len(a) + Len(b) :
           r[i] = IF i <= Len(a) THEN a[i] ELSE b[i - Len(a)]
  BY <1>3, <1>4, ConcatProperties, Zenon DEF list_del, a, b
<1> HIDE DEF r
<1>6. /\ Len(r) = Len(q) - 1
      /\ \A i \in 1..Len(r) : r[i] = IF i < k THEN q[i] ELSE q[i + 1]
  <2>1. Len(r) = Len(q) - 1
    BY <1>1, <1>3, <1>4, <1>5
  <2>2. ASSUME NEW i \in 1..Len(r), i < k PROVE r[i] = q[i]
    <3>1. i \in 1..Len(a) + Len(b) /\ i <= Len(a) /\ i \in 1..k - 1
      BY <1>1, <1>3, <1>4, <1>5, <2>2
    <3>2. r[i] = a[i]
      BY <1>5, <3>1
    <3> QED
      BY <1>3, <3>1, <3>2
  <2>3. ASSUME NEW i \in 1..Len(r), ~(i < k) PROVE r[i] = q[i + 1]
    <3>1. i - (k - 1) \in 1..Len(q) - k /\ k + (i - (k - 1)) = i + 1
      BY <1>1, <2>1, <2>3
    <3>2. r[i] = b[i - (k - 1)]
      BY <1>1, <1>3, <1>4, <1>5, <2>1, <2>3
    <3> QED
      BY <1>4, <3>1, <3>2
  <2> QED
    BY <2>1, <2>2, <2>3
<1>7. \A x \in T : \E i \in 1..Len(r) : r[i] = x
  <2> SUFFICES ASSUME NEW x \in T PROVE \E i \in 1..Len(r) : r[i] = x
    OBVIOUS
  <2>1. PICK j \in 1..Len(q) : q[j] = x
    BY DEF IsQueueOf
  <2>2. CASE j < k
    BY <1>1, <1>6, <2>1, <2>2
  <2>3. CASE j > k
    <3>1. j - 1 \in 1..Len(r) /\ r[j - 1] = q[j]
      BY <1>1, <1>6, <2>3
    <3> QED
      BY <2>1, <3>1
  <2> QED
    BY <1>1, <2>1, <2>2, <2>3
<1>8. \A i, j \in 1..Len(r) : i # j => r[i] # r[j]
  BY <1>1, <1>6
<1> QED
  BY <1>5, <1>7, <1>8 DEF IsQueueOf, r

\* The enumerations of a finite set.
LEMMA EnumerationQueue ==
  ASSUME NEW S, IsFiniteSet(S), NEW w \in Listings(S)
  PROVE  IsQueueOf(w, S)
<1> DEFINE n == Cardinality(S)
<1>1. n \in Nat
  BY FS_CardinalityType
<1>2. /\ w \in [1..n -> S]
      /\ \A i, j \in 1..n : i # j => w[i] # w[j]
  BY DEF Listings, Bijection, Injection, IsInjective
<1>5. w \in Surjection(1..n, S)
  BY DEF Listings, Bijection
<1>6. w \in Seq(S) /\ Len(w) = n
  BY <1>1, <1>2, SeqDef
<1> QED
  BY <1>2, <1>5, <1>6 DEF Surjection, IsQueueOf

\* Several elements appended one after the other.
LEMMA ConcatQueue ==
  ASSUME NEW q, NEW S, IsQueueOf(q, S), NEW w, NEW T, IsQueueOf(w, T),
         S \cap T = {}
  PROVE  IsQueueOf(q \o w, S \cup T)
<1> DEFINE r == q \o w
<1>1. /\ Len(q) \in Nat /\ Len(w) \in Nat
      /\ q \in Seq(S \cup T) /\ w \in Seq(S \cup T)
      /\ \A i \in 1..Len(q) : q[i] \in S
      /\ \A i \in 1..Len(w) : w[i] \in T
  BY LenProperties, ElementOfSeq, SeqMonotonic DEF IsQueueOf
<1>2. /\ r \in Seq(S \cup T) /\ Len(r) = Len(q) + Len(w)
      /\ \A i \in 1..Len(q) + Len(w) :
           r[i] = IF i <= Len(q) THEN q[i] ELSE w[i - Len(q)]
  BY <1>1, ConcatProperties
<1> HIDE DEF r
<1>3. ASSUME NEW i \in 1..Len(r)
      PROVE  \/ i \in 1..Len(q) /\ r[i] = q[i]
             \/ i - Len(q) \in 1..Len(w) /\ r[i] = w[i - Len(q)]
                /\ i \notin 1..Len(q)
  BY <1>1, <1>2
<1>4. \A x \in S \cup T : \E i \in 1..Len(r) : r[i] = x
  <2>1. ASSUME NEW x \in S PROVE \E i \in 1..Len(r) : r[i] = x
    <3>1. PICK j \in 1..Len(q) : q[j] = x
      BY QueueParts
    <3>2. j \in 1..Len(r) /\ r[j] = q[j]
      BY <1>1, <1>2
    <3> QED
      BY <3>1, <3>2
  <2>2. ASSUME NEW x \in T PROVE \E i \in 1..Len(r) : r[i] = x
    <3>1. PICK j \in 1..Len(w) : w[j] = x
      BY QueueParts
    <3>2. PICK i \in Int : i = Len(q) + j
      BY <1>1
    <3>3. i \in 1..Len(r) /\ i - Len(q) = j /\ ~(i <= Len(q))
      BY <1>1, <1>2, <3>2
    <3>4. r[i] = w[j]
      BY <1>2, <3>3
    <3> QED
      BY <3>1, <3>3, <3>4
  <2> QED
    BY <2>1, <2>2
<1>5. ASSUME NEW i \in 1..Len(r), NEW j \in 1..Len(r), i # j
      PROVE  r[i] # r[j]
  <2>1. CASE i \in 1..Len(q) /\ j \in 1..Len(q)
    <3>1. q[i] # q[j]
      BY <1>5, <2>1 DEF IsQueueOf
    <3>2. r[i] = q[i] /\ r[j] = q[j]
      BY <1>1, <1>2, <2>1
    <3> QED
      BY <3>1, <3>2
  <2>2. CASE i \notin 1..Len(q) /\ j \notin 1..Len(q)
    <3>0. /\ i - Len(q) \in Int /\ j - Len(q) \in Int
          /\ i - Len(q) # j - Len(q)
      BY <1>1, <1>5
    <3>1. PICK a \in Int, b \in Int : a = i - Len(q) /\ b = j - Len(q) /\ a # b
      BY <3>0
    <3>2. /\ a \in 1..Len(w) /\ r[i] = w[a]
          /\ b \in 1..Len(w) /\ r[j] = w[b]
      BY <1>3, <2>2, <3>1
    <3>3. w[a] # w[b]
      BY <3>1, <3>2, Zenon DEF IsQueueOf
    <3> QED
      BY <3>2, <3>3
  <2>3. CASE i \in 1..Len(q) /\ j \notin 1..Len(q)
    BY <1>1, <1>3, <2>3, Zenon
  <2>4. CASE i \notin 1..Len(q) /\ j \in 1..Len(q)
    BY <1>1, <1>3, <2>4
  <2> QED
    BY <2>1, <2>2, <2>3, <2>4
<1> QED
  BY <1>2, <1>4, <1>5, Zenon DEF IsQueueOf, r

\* The first element leaves a list: list_del(list_next(head)).
LEMMA TailQueue ==
  ASSUME NEW q, NEW S, IsQueueOf(q, S), q # <<>>
  PROVE  Head(q) \in S /\ IsQueueOf(Tail(q), S \ {Head(q)})
<1> DEFINE r == Tail(q)
           T == S \ {Head(q)}
<1>1. /\ Len(q) \in Nat /\ q \in Seq(S) /\ Len(q) # 0
      /\ \A i \in 1..Len(q) : q[i] \in S
      /\ \A i, j \in 1..Len(q) : i # j => q[i] # q[j]
  BY QueueParts, EmptySeq DEF IsQueueOf
<1>2. Head(q) = q[1] /\ 1 \in 1..Len(q)
  BY <1>1
<1>3. /\ r \in Seq(S) /\ Len(r) = Len(q) - 1
      /\ \A i \in 1..Len(r) : r[i] = q[i + 1]
  BY <1>1
<1> HIDE DEF r
<1>4. ASSUME NEW i \in 1..Len(r)
      PROVE  i + 1 \in 1..Len(q) /\ i + 1 # 1 /\ r[i] \in T
  <2>1. i + 1 \in 1..Len(q) /\ i + 1 # 1
    BY <1>1, <1>3
  <2> QED
    BY <1>1, <1>2, <1>3, <2>1
<1>5. r \in Seq(T)
  <2>1. r \in [1..Len(r) -> T] /\ Len(r) \in Nat
    BY <1>1, <1>3, <1>4, LenProperties
  <2> QED
    BY <2>1, SeqDef
<1>6. \A x \in T : \E i \in 1..Len(r) : r[i] = x
  <2> SUFFICES ASSUME NEW x \in T PROVE \E i \in 1..Len(r) : r[i] = x
    OBVIOUS
  <2>1. PICK j \in 1..Len(q) : q[j] = x
    BY QueueParts
  <2>2. j - 1 \in 1..Len(r) /\ r[j - 1] = x
    BY <1>1, <1>2, <1>3, <2>1
  <2> QED
    BY <2>2
<1>7. ASSUME NEW i \in 1..Len(r), NEW j \in 1..Len(r), i # j
      PROVE  r[i] # r[j]
  <2>1. i + 1 \in 1..Len(q) /\ j + 1 \in 1..Len(q) /\ i + 1 # j + 1
    BY <1>1, <1>3, <1>4, <1>7
  <2> QED
    BY <1>1, <1>3, <2>1
<1> QED
  BY <1>1, <1>2, <1>5, <1>6, <1>7 DEF IsQueueOf, r

\* What is left of a list when some of its elements have gone.
LEMMA KeptQueue ==
  ASSUME NEW q, NEW S, IsQueueOf(q, S), IsFiniteSet(S), NEW T,
         NEW w \in Kept(q, T)
  PROVE  IsQueueOf(w, S \cap T)
<1>1. Range(q) = S
  BY QueueElements
<1>2. w \in Listings(S \cap T)
  BY <1>1 DEF Kept
<1>3. IsFiniteSet(S \cap T)
  BY FS_Intersection
<1> QED
  BY <1>2, <1>3, EnumerationQueue

-----------------------------------------------------------------------------
\* The sequence q lists some elements of T, each of them at most once.
IsQueueIn(q, T) == q \in Seq(T) /\ IsQueueOf(q, Range(q))

\* A list of some elements of T is one of these.
LEMMA SomeQueue ==
  ASSUME NEW q, NEW S, NEW T, IsQueueOf(q, S), S \subseteq T
  PROVE  IsQueueIn(q, T) /\ Range(q) = S
<1>1. Range(q) = S
  BY QueueElements
<1>2. q \in Seq(T)
  BY SeqMonotonic DEF IsQueueOf
<1> QED
  BY <1>1, <1>2 DEF IsQueueIn

\* The elements of such a list, and when there are none.
LEMMA InQueue ==
  ASSUME NEW T, NEW q, IsQueueIn(q, T)
  PROVE  /\ Range(q) \subseteq T /\ IsQueueOf(q, Range(q)) /\ q \in Seq(T)
         /\ q = <<>> <=> Range(q) = {}
<1>1. q \in Seq(T) /\ IsQueueOf(q, Range(q))
  BY DEF IsQueueIn
<1>2. Range(q) \subseteq T
  BY <1>1, ElementOfSeq, LenProperties, QueueElements DEF Range
<1>3. ASSUME q = <<>> PROVE Range(q) = {}
  BY <1>1, <1>3, EmptyQueue
<1>4. ASSUME Range(q) = {} PROVE q = <<>>
  <2>1. q \in Seq({})
    BY <1>1, <1>4 DEF IsQueueOf
  <2> QED
    BY <2>1, EmptySeq, ElementOfSeq, LenProperties
<1> QED
  BY <1>1, <1>2, <1>3, <1>4

\* list_init.
LEMMA NoQueue ==
  ASSUME NEW T
  PROVE  IsQueueIn(<<>>, T) /\ Range(<<>>) = {}
<1>1. IsQueueOf(<<>>, {})
  BY EmptyQueue
<1> QED
  BY <1>1, SomeQueue

\* list_add_before on the head.
LEMMA AddToQueue ==
  ASSUME NEW T, NEW q, IsQueueIn(q, T), NEW x \in T, x \notin Range(q)
  PROVE  IsQueueIn(Append(q, x), T) /\ Range(Append(q, x)) = Range(q) \cup {x}
<1>1. IsQueueOf(Append(q, x), Range(q) \cup {x})
  BY AppendQueue DEF IsQueueIn
<1>2. Range(q) \cup {x} \subseteq T
  BY InQueue
<1> QED
  BY <1>1, <1>2, SomeQueue

\* list_del of the first element.
LEMMA PopQueue ==
  ASSUME NEW T, NEW q, IsQueueIn(q, T), q # <<>>
  PROVE  /\ Head(q) \in Range(q) /\ Head(q) \in T
         /\ IsQueueIn(Tail(q), T) /\ Range(Tail(q)) = Range(q) \ {Head(q)}
<1>1. Head(q) \in Range(q) /\ IsQueueOf(Tail(q), Range(q) \ {Head(q)})
  BY TailQueue DEF IsQueueIn
<1>2. Range(q) \subseteq T
  BY InQueue
<1>3. Range(q) \ {Head(q)} \subseteq T
  BY <1>2
<1> QED
  BY <1>1, <1>2, <1>3, SomeQueue, Zenon

\* list_del of an element that may be linked or not.
LEMMA DropFromQueue ==
  ASSUME NEW T, NEW q, IsQueueIn(q, T), NEW x
  PROVE  IsQueueIn(Without(q, x), T) /\ Range(Without(q, x)) = Range(q) \ {x}
<1>1. CASE x \notin Range(q)
  BY <1>1 DEF Without
<1>2. CASE x \in Range(q)
  <2>1. PICK k : k = CHOOSE i \in DOMAIN q : q[i] = x
    OBVIOUS
  <2>2. k \in DOMAIN q /\ q[k] = x
    BY <1>2, <2>1, Zenon DEF Range
  <2>3. IsQueueOf(list_del(q, k), Range(q) \ {x})
    BY <2>2, RemoveQueue DEF IsQueueIn
  <2>4. Range(q) \ {x} \subseteq T
    BY InQueue
  <2>5. Without(q, x) = list_del(q, k)
    BY <1>2, <2>1 DEF Without
  <2> QED
    BY <2>3, <2>4, <2>5, SomeQueue
<1> QED
  BY <1>1, <1>2
=============================================================================
