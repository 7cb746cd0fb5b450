---------------------------- MODULE QueueLemmas ----------------------------
(***************************************************************************)
(* Sequences without repetition, the set of their elements and their order: *)
(* what push_back, push_front, remove, pop and filters do to them.  Shared *)
(* by the proofs about the ready queue, the free list of handles, the list *)
(* of an address arbiter and the members of a room.                        *)
(***************************************************************************)
EXTENDS Integers, Sequences, Filters, SequenceTheorems, WellFoundedInduction, TLAPS

(* q is a sequence over T that lists the elements of S, each once. *)
Holds(q, T, S) ==
    /\ q \in Seq(T)
    /\ \A i, j \in 1 .. Len(q) : q[i] = q[j] => i = j
    /\ Elements(q) = S

(* The empty sequence holds nothing. *)
LEMMA EmptyHolds ==
    ASSUME NEW T
    PROVE  Holds(<< >>, T, {})
  BY DEF Holds, Elements

(* push_back of an element that is not in the queue. *)
LEMMA AppendHolds ==
    ASSUME NEW q, NEW T, NEW S, Holds(q, T, S), NEW t \in T, t \notin S
    PROVE  Holds(Append(q, t), T, S \cup {t})
  <1> DEFINE r == Append(q, t)
  <1>1. /\ r \in Seq(T)
        /\ Len(r) = Len(q) + 1
        /\ Len(q) \in Nat
        /\ \A i \in 1 .. Len(r) : r[i] = IF i = Len(q) + 1 THEN t ELSE q[i]
    BY DEF Holds
  <1> HIDE DEF r
  <1>2. \A i \in 1 .. Len(q) : q[i] \in S
    BY DEF Holds, Elements
  <1>3. \A i, j \in 1 .. Len(r) : r[i] = r[j] => i = j
    <2> SUFFICES ASSUME NEW i \in 1 .. Len(r), NEW j \in 1 .. Len(r), r[i] = r[j]
                 PROVE  i = j
      OBVIOUS
    <2>1. CASE i = Len(q) + 1 \/ j = Len(q) + 1
      BY <1>1, <1>2, <2>1
    <2>2. CASE i # Len(q) + 1 /\ j # Len(q) + 1
      BY <1>1, <2>2 DEF Holds
    <2> QED BY <2>1, <2>2
  <1>4. Elements(r) = S \cup {t}
    <2>1. ASSUME NEW x \in Elements(r) PROVE x \in S \cup {t}
      BY <1>1, <1>2 DEF Elements
    <2>2. t \in Elements(r)
      <3>1. Len(q) + 1 \in 1 .. Len(r) /\ r[Len(q) + 1] = t
        BY <1>1
      <3> QED BY <3>1 DEF Elements
    <2>3. ASSUME NEW x \in S PROVE x \in Elements(r)
      <3>1. PICK i \in 1 .. Len(q) : q[i] = x
        BY DEF Holds, Elements
      <3>2. i \in 1 .. Len(r) /\ r[i] = x
        BY <1>1, <3>1
      <3> QED BY <3>2 DEF Elements
    <2> QED BY <2>1, <2>2, <2>3
  <1> QED BY <1>1, <1>3, <1>4 DEF Holds, r

(* push_front of an element that is not in the queue. *)
LEMMA PrependHolds ==
    ASSUME NEW q, NEW T, NEW S, Holds(q, T, S), NEW t \in T, t \notin S
    PROVE  Holds(<<t>> \o q, T, S \cup {t})
  <1> DEFINE r == <<t>> \o q
  <1>0. q \in Seq(T) /\ Len(q) \in Nat /\ <<t>> \in Seq(T) /\ Len(<<t>>) = 1 /\ <<t>>[1] = t
    BY DEF Holds
  <1>1. /\ r \in Seq(T)
        /\ Len(r) = Len(q) + 1
        /\ \A i \in 1 .. Len(r) : r[i] = IF i = 1 THEN t ELSE q[i - 1]
    BY <1>0, ConcatProperties
  <1> HIDE DEF r
  <1>2. \A i \in 1 .. Len(q) : q[i] \in S
    BY DEF Holds, Elements
  <1>3. \A i, j \in 1 .. Len(r) : r[i] = r[j] => i = j
    <2> SUFFICES ASSUME NEW i \in 1 .. Len(r), NEW j \in 1 .. Len(r), r[i] = r[j]
                 PROVE  i = j
      OBVIOUS
    <2>1. CASE i = 1 \/ j = 1
      BY <1>0, <1>1, <1>2, <2>1
    <2>2. CASE i # 1 /\ j # 1
      <3>1. i - 1 \in 1 .. Len(q) /\ j - 1 \in 1 .. Len(q) /\ q[i - 1] = q[j - 1]
        BY <1>0, <1>1, <2>2
      <3>2. i - 1 = j - 1
        BY <3>1 DEF Holds
      <3> QED BY <1>0, <1>1, <3>2
    <2> QED BY <2>1, <2>2
  <1>4. Elements(r) = S \cup {t}
    <2>1. ASSUME NEW x \in Elements(r) PROVE x \in S \cup {t}
      <3>1. PICK i \in 1 .. Len(r) : r[i] = x
        BY <2>1 DEF Elements
      <3>2. CASE i = 1
        BY <1>1, <3>1, <3>2
      <3>3. CASE i # 1
        BY <1>0, <1>1, <1>2, <3>1, <3>3
      <3> QED BY <3>2, <3>3
    <2>2. t \in Elements(r)
      <3>1. 1 \in 1 .. Len(r) /\ r[1] = t
        BY <1>0, <1>1
      <3> QED BY <3>1 DEF Elements
    <2>3. ASSUME NEW x \in S PROVE x \in Elements(r)
      <3>1. PICK i \in 1 .. Len(q) : q[i] = x
        BY DEF Holds, Elements
      <3>2. i + 1 \in 1 .. Len(r) /\ r[i + 1] = x
        BY <1>0, <1>1, <3>1
      <3> QED BY <3>2 DEF Elements
    <2> QED BY <2>1, <2>2, <2>3
  <1> QED BY <1>1, <1>3, <1>4 DEF Holds, r

(* The queue without its k-th element, position by position. *)
LEMMA CutShape ==
    ASSUME NEW T, NEW q \in Seq(T), NEW k \in 1 .. Len(q)
    PROVE  LET r == SubSeq(q, 1, k - 1) \o SubSeq(q, k + 1, Len(q))
           IN  /\ r \in Seq(T)
               /\ Len(r) = Len(q) - 1
               /\ \A i \in 1 .. Len(r) : r[i] = IF i < k THEN q[i] ELSE q[i + 1]
  <1> DEFINE a == SubSeq(q, 1, k - 1)
             b == SubSeq(q, k + 1, Len(q))
             r == a \o b
  <1>1. Len(q) \in Nat
    OBVIOUS
  <1>2. a \in Seq(T) /\ Len(a) = k - 1 /\ \A i \in 1 .. k - 1 : a[i] = q[i]
    BY <1>1
  <1>3. b \in Seq(T) /\ Len(b) = Len(q) - k /\ \A i \in 1 .. Len(q) - k : b[i] = q[k + i]
    BY <1>1
  <1> HIDE DEF a, b
  <1>5. /\ r \in Seq(T)
        /\ Len(r) = Len(a) + Len(b)
        /\ \A i \in 1 .. Len(a) + Len(b) : r[i] = IF i <= Len(a) THEN a[i] ELSE b[i - Len(a)]
    BY <1>2, <1>3, ConcatProperties
  <1> HIDE DEF r
  <1>6. ASSUME NEW i \in 1 .. Len(r) PROVE r[i] = IF i < k THEN q[i] ELSE q[i + 1]
    <2>1. CASE i < k
      BY <1>1, <1>2, <1>3, <1>5, <2>1
    <2>2. CASE ~(i < k)
      <3>1. i - Len(a) \in 1 .. Len(q) - k /\ r[i] = b[i - Len(a)]
        BY <1>1, <1>2, <1>3, <1>5, <2>2
      <3>2. k + (i - Len(a)) = i + 1
        BY <1>1, <1>2, <1>5, <1>3
      <3> QED BY <1>3, <2>2, <3>1, <3>2
    <2> QED BY <2>1, <2>2
  <1>7. Len(r) = Len(q) - 1
    BY <1>1, <1>2, <1>3, <1>5
  <1> QED BY <1>5, <1>6, <1>7 DEF r, a, b

(* The queue without its k-th element. *)
LEMMA CutHolds ==
    ASSUME NEW q, NEW T, NEW S, Holds(q, T, S), NEW k \in 1 .. Len(q)
    PROVE  Holds(SubSeq(q, 1, k - 1) \o SubSeq(q, k + 1, Len(q)), T, S \ {q[k]})
  <1> DEFINE r == SubSeq(q, 1, k - 1) \o SubSeq(q, k + 1, Len(q))
  <1>1. q \in Seq(T) /\ Len(q) \in Nat
    BY DEF Holds
  <1>4. /\ r \in Seq(T)
        /\ Len(r) = Len(q) - 1
        /\ \A i \in 1 .. Len(r) : r[i] = IF i < k THEN q[i] ELSE q[i + 1]
    BY <1>1, CutShape
  <1> HIDE DEF r
  <1>5. ASSUME NEW i \in 1 .. Len(r), NEW j \in 1 .. Len(r), r[i] = r[j]
        PROVE  i = j
    <2> DEFINE at(n) == IF n < k THEN n ELSE n + 1
    <2>1. at(i) \in 1 .. Len(q) /\ at(j) \in 1 .. Len(q) /\ q[at(i)] = q[at(j)]
      BY <1>1, <1>4, <1>5
    <2>2. at(i) = at(j)
      BY <2>1 DEF Holds
    <2> QED BY <1>1, <1>4, <2>2
  <1>6. Elements(r) = S \ {q[k]}
    <2>1. ASSUME NEW x \in Elements(r) PROVE x \in S \ {q[k]}
      <3>1. PICK i \in 1 .. Len(r) : r[i] = x
        BY DEF Elements
      <3>2. PICK n \in 1 .. Len(q) : n # k /\ q[n] = x
        BY <1>1, <1>4, <3>1
      <3> QED BY <3>2 DEF Holds, Elements
    <2>2. ASSUME NEW x \in S \ {q[k]} PROVE x \in Elements(r)
      <3>1. PICK i \in 1 .. Len(q) : q[i] = x
        BY DEF Holds, Elements
      <3>2. CASE i < k
        <4>1. i \in 1 .. Len(r) /\ r[i] = x
          BY <1>1, <1>4, <3>1, <3>2
        <4> QED BY <4>1 DEF Elements
      <3>3. CASE i > k
        <4>1. i - 1 \in 1 .. Len(r) /\ r[i - 1] = x
          BY <1>1, <1>4, <3>1, <3>3
        <4> QED BY <4>1 DEF Elements
      <3> QED BY <1>1, <2>2, <3>1, <3>2, <3>3
    <2> QED BY <2>1, <2>2
  <1> QED BY <1>4, <1>5, <1>6 DEF Holds, r
-----------------------------------------------------------------------------
(* Induction over the natural numbers, with a set for the predicate. *)

(* A relation that is < on the naturals: minimal elements are least ones. *)
LEMMA MinimalIsLeast ==
    ASSUME NEW R, NEW T, T \subseteq Nat,
           \A x, y \in Nat : <<y, x>> \in R <=> y < x,
           \E x \in T : \A y \in T : ~ (<<y, x>> \in R)
    PROVE  \E x \in T : \A y \in T : x <= y
  <1>1. PICK x \in T : \A y \in T : ~ (<<y, x>> \in R)
    OBVIOUS
  <1>2. ASSUME NEW y \in T PROVE x <= y
    <2>1. x \in Nat /\ y \in Nat
      OBVIOUS
    <2>2. ~(y < x)
      BY <1>1, <2>1
    <2> QED BY <2>1, <2>2
  <1> QED BY <1>2

(* A set of naturals that is not empty has a least element. *)
LEMMA LeastNatural ==
    ASSUME NEW T, T \subseteq Nat, T # {}
    PROVE  \E x \in T : \A y \in T : x <= y
  <1> DEFINE R == OpToRel(<, Nat)
  <1>1. \E x \in T : \A y \in T : ~ (<<y, x>> \in R)
    BY WFMin, NatLessThanWellFounded
  <1>2. \A x, y \in Nat : <<y, x>> \in R <=> y < x
    BY DEF OpToRel
  <1> HIDE DEF R
  <1> QED BY <1>1, <1>2, MinimalIsLeast

(* A set that has 0 and with every natural the next has them all. *)
LEMMA SetInduction ==
    ASSUME NEW S, 0 \in S, \A n \in Nat : n \in S => n + 1 \in S
    PROVE  \A n \in Nat : n \in S
  <1> DEFINE T == Nat \ S
  <1>1. SUFFICES ASSUME T # {} PROVE FALSE
    OBVIOUS
  <1>2. PICK x \in T : \A y \in T : x <= y
    BY <1>1, LeastNatural
  <1>3. x # 0 /\ x - 1 \in Nat /\ x - 1 \notin T
    BY <1>2
  <1> QED BY <1>3

-----------------------------------------------------------------------------
(* t comes before u in q. *)
Precedes(q, t, u) == \E i, j \in 1 .. Len(q) : i < j /\ q[i] = t /\ q[j] = u

(* push_back puts the new element behind all others. *)
LEMMA AppendOrder ==
    ASSUME NEW T, NEW q \in Seq(T), NEW x \in T, NEW t, NEW u
    PROVE  Precedes(Append(q, x), t, u) <=> Precedes(q, t, u) \/ (u = x /\ t \in Elements(q))
  <1> DEFINE r == Append(q, x)
  <1>1. /\ Len(r) = Len(q) + 1
        /\ Len(q) \in Nat
        /\ \A i \in 1 .. Len(r) : r[i] = IF i = Len(q) + 1 THEN x ELSE q[i]
    OBVIOUS
  <1> HIDE DEF r
  <1>2. ASSUME Precedes(r, t, u)
        PROVE  Precedes(q, t, u) \/ (u = x /\ t \in Elements(q))
    <2>1. PICK i, j \in 1 .. Len(r) : i < j /\ r[i] = t /\ r[j] = u
      BY <1>2 DEF Precedes
    <2>2. i \in 1 .. Len(q) /\ q[i] = t
      BY <1>1, <2>1
    <2>3. CASE j = Len(q) + 1
      BY <1>1, <2>1, <2>2, <2>3 DEF Elements
    <2>4. CASE j # Len(q) + 1
      <3>1. j \in 1 .. Len(q) /\ q[j] = u
        BY <1>1, <2>1, <2>4
      <3> QED BY <2>1, <2>2, <3>1 DEF Precedes
    <2> QED BY <2>3, <2>4
  <1>3. ASSUME Precedes(q, t, u) PROVE Precedes(r, t, u)
    <2>1. PICK i, j \in 1 .. Len(q) : i < j /\ q[i] = t /\ q[j] = u
      BY <1>3 DEF Precedes
    <2>2. i \in 1 .. Len(r) /\ j \in 1 .. Len(r) /\ r[i] = t /\ r[j] = u
      BY <1>1, <2>1
    <2> QED BY <2>1, <2>2 DEF Precedes
  <1>4. ASSUME u = x, t \in Elements(q) PROVE Precedes(r, t, u)
    <2>1. PICK i \in 1 .. Len(q) : q[i] = t
      BY <1>4 DEF Elements
    <2>2. /\ i \in 1 .. Len(r) /\ Len(q) + 1 \in 1 .. Len(r) /\ i < Len(q) + 1
          /\ r[i] = t /\ r[Len(q) + 1] = u
      BY <1>1, <1>4, <2>1
    <2> QED BY <2>2 DEF Precedes
  <1> QED BY <1>2, <1>3, <1>4 DEF r

-----------------------------------------------------------------------------
(* f is the function that Kept computes, for the first n elements of q. *)
KeptSteps(f, q, K, n) ==
    f = [i \in 0 .. n |->
            IF i = 0 THEN << >>
            ELSE IF q[i] \in K THEN Append(f[i - 1], q[i]) ELSE f[i - 1]]

(* Its value at i, given the values before i. *)
KeptStep(f, q, K, i) ==
    f[i] = IF i = 0 THEN << >>
           ELSE IF q[i] \in K THEN Append(f[i - 1], q[i]) ELSE f[i - 1]

LEMMA KeptStepsApply ==
    ASSUME NEW f, NEW q, NEW K, NEW n, KeptSteps(f, q, K, n), NEW i \in 0 .. n
    PROVE  KeptStep(f, q, K, i)
  BY Zenon DEF KeptSteps, KeptStep

(* There is such a function. *)
LEMMA KeptStepsExist ==
    ASSUME NEW q, NEW K
    PROVE  \A n \in Nat : \E f : KeptSteps(f, q, K, n)
  <1> DEFINE I == {n \in Nat : \E f : KeptSteps(f, q, K, n)}
  <1>1. 0 \in I
    <2>1. KeptSteps([i \in 0 .. 0 |-> << >>], q, K, 0)
      BY DEF KeptSteps
    <2> QED BY <2>1
  <1>2. ASSUME NEW n \in Nat, n \in I PROVE n + 1 \in I
    <2>1. PICK f : KeptSteps(f, q, K, n)
      BY <1>2
    <2> DEFINE g == [i \in 0 .. n + 1 |->
                        IF i <= n THEN f[i]
                        ELSE IF q[i] \in K THEN Append(f[i - 1], q[i]) ELSE f[i - 1]]
    <2>2. ASSUME NEW i \in 0 .. n + 1 PROVE KeptStep(g, q, K, i)
      <3>1. CASE i <= n
        <4>1. g[i] = f[i] /\ (i # 0 => g[i - 1] = f[i - 1])
          BY <3>1
        <4>2. i \in 0 .. n
          BY <3>1
        <4>3. KeptStep(f, q, K, i)
          BY <2>1, <4>2, KeptStepsApply
        <4> HIDE DEF g
        <4> QED BY <4>1, <4>3 DEF KeptStep
      <3>2. CASE i = n + 1
        BY <3>2 DEF KeptStep
      <3> QED BY <3>1, <3>2
    <2>3. KeptSteps(g, q, K, n + 1)
      <3>1. g = [i \in 0 .. n + 1 |-> g[i]]
        OBVIOUS
      <3> HIDE DEF g
      <3> QED BY <2>2, <3>1 DEF KeptStep, KeptSteps
    <2> QED BY <2>3
  <1>3. \A n \in Nat : n \in I
    <2> HIDE DEF I
    <2> QED BY <1>1, <1>2, SetInduction
  <1> QED BY <1>3

LEMMA KeptByStep ==
    ASSUME NEW T, NEW q \in Seq(T), NEW K
    PROVE  \E f : /\ Kept(q, K) = f[Len(q)]
                  /\ \A i \in 0 .. Len(q) : KeptStep(f, q, K, i)
  <1>0. Len(q) \in Nat
    OBVIOUS
  <1>1. \E f : KeptSteps(f, q, K, Len(q))
    BY <1>0, KeptStepsExist
  <1>2. PICK f : KeptSteps(f, q, K, Len(q)) /\ Kept(q, K) = f[Len(q)]
    BY <1>1, Zenon DEF Kept, KeptSteps
  <1> QED BY <1>2, KeptStepsApply

(* A filter keeps what is in K, once each and in the old order. *)
LEMMA KeptHolds ==
    ASSUME NEW q, NEW T, NEW S, Holds(q, T, S), NEW K
    PROVE  /\ Holds(Kept(q, K), T, S \cap K)
           /\ \A t, u : Precedes(Kept(q, K), t, u) <=> Precedes(q, t, u) /\ t \in K /\ u \in K
  <1>1. q \in Seq(T) /\ Len(q) \in Nat /\ \A i \in 1 .. Len(q) : q[i] \in T
    BY DEF Holds
  <1>2. PICK f : /\ Kept(q, K) = f[Len(q)]
                 /\ \A i \in 0 .. Len(q) : KeptStep(f, q, K, i)
    BY <1>1, KeptByStep
  <1> DEFINE First(n) == {q[i] : i \in 1 .. n}
             Before(n, t, u) == \E i, j \in 1 .. n : i < j /\ q[i] = t /\ q[j] = u
             Good(n) == /\ Holds(f[n], T, First(n) \cap K)
                        /\ \A t, u : Precedes(f[n], t, u) <=> Before(n, t, u) /\ t \in K /\ u \in K
             I == {n \in Nat : n <= Len(q) => Good(n)}
  <1>3. 0 \in I
    <2>1. f[0] = << >>
      BY <1>1, <1>2 DEF KeptStep
    <2>2. First(0) = {}
      OBVIOUS
    <2>3. \A t, u : ~Precedes(<< >>, t, u) /\ ~Before(0, t, u)
      BY DEF Precedes
    <2>4. Holds(<< >>, T, {} \cap K)
      BY EmptyHolds
    <2> QED BY <2>1, <2>2, <2>3, <2>4
  <1>4. ASSUME NEW n \in Nat, n \in I PROVE n + 1 \in I
    <2> SUFFICES ASSUME n + 1 <= Len(q) PROVE Good(n + 1)
      OBVIOUS
    <2>1. Good(n)
      BY <1>1, <1>4
    <2>2. n + 1 \in 1 .. Len(q) /\ n + 1 \in 0 .. Len(q) /\ (n + 1) - 1 = n /\ n + 1 # 0
      BY <1>1
    <2>3. f[n + 1] = IF q[n + 1] \in K THEN Append(f[n], q[n + 1]) ELSE f[n]
      BY <1>2, <2>2 DEF KeptStep
    <2>4. First(n + 1) = First(n) \cup {q[n + 1]}
      <3>1. ASSUME NEW x \in First(n + 1) PROVE x \in First(n) \cup {q[n + 1]}
        OBVIOUS
      <3>2. ASSUME NEW x \in First(n) \cup {q[n + 1]} PROVE x \in First(n + 1)
        OBVIOUS
      <3> QED BY <3>1, <3>2
    <2>5. \A t, u : Before(n + 1, t, u) <=> Before(n, t, u) \/ (u = q[n + 1] /\ t \in First(n))
      <3> TAKE t, u
      <3>1. ASSUME Before(n + 1, t, u)
            PROVE  Before(n, t, u) \/ (u = q[n + 1] /\ t \in First(n))
        BY <3>1
      <3>2. ASSUME Before(n, t, u) \/ (u = q[n + 1] /\ t \in First(n))
            PROVE  Before(n + 1, t, u)
        BY <3>2
      <3> QED BY <3>1, <3>2
    <2>6. q[n + 1] \notin First(n) /\ q[n + 1] \in T
      BY <1>1, <2>2 DEF Holds
    <2>7. CASE q[n + 1] \in K
      <3>1. Holds(Append(f[n], q[n + 1]), T, (First(n) \cap K) \cup {q[n + 1]})
        <4> HIDE DEF First, Before
        <4> QED BY <2>1, <2>6, AppendHolds
      <3>2. (First(n) \cap K) \cup {q[n + 1]} = First(n + 1) \cap K
        <4> HIDE DEF First
        <4> QED BY <2>4, <2>7
      <3>3. f[n] \in Seq(T) /\ Elements(f[n]) = First(n) \cap K
        BY <2>1 DEF Holds
      <3>4. \A t, u : Precedes(Append(f[n], q[n + 1]), t, u)
                        <=> Precedes(f[n], t, u) \/ (u = q[n + 1] /\ t \in First(n) \cap K)
        <4> HIDE DEF First, Before
        <4> QED BY <2>6, <3>3, AppendOrder
      <3>5. \A t, u : Precedes(f[n + 1], t, u) <=> Before(n + 1, t, u) /\ t \in K /\ u \in K
        <4> TAKE t, u
        <4>1. Precedes(f[n], t, u) <=> Before(n, t, u) /\ t \in K /\ u \in K
          BY <2>1
        <4>2. Before(n + 1, t, u) <=> Before(n, t, u) \/ (u = q[n + 1] /\ t \in First(n))
          BY <2>5
        <4>3. Precedes(f[n + 1], t, u)
                  <=> Precedes(f[n], t, u) \/ (u = q[n + 1] /\ t \in First(n) \cap K)
          BY <2>3, <2>7, <3>4
        <4> HIDE DEF First, Before
        <4> QED BY <2>7, <4>1, <4>2, <4>3
      <3> HIDE DEF First, Before
      <3> QED BY <2>3, <2>7, <3>1, <3>2, <3>5
    <2>8. CASE q[n + 1] \notin K
      <3>1. First(n) \cap K = First(n + 1) \cap K
        <4> HIDE DEF First
        <4> QED BY <2>4, <2>8
      <3> HIDE DEF First, Before
      <3> QED BY <2>1, <2>3, <2>5, <2>8, <3>1
    <2> QED BY <2>7, <2>8
  <1>5. \A n \in Nat : n \in I
    <2> HIDE DEF I
    <2> QED BY <1>3, <1>4, SetInduction
  <1>6. Good(Len(q))
    <2>1. \A n \in Nat : n <= Len(q) => Good(n)
      <3> HIDE DEF Good
      <3> QED BY <1>5
    <2>2. Len(q) \in Nat /\ Len(q) <= Len(q)
      BY <1>1
    <2> HIDE DEF Good
    <2> QED BY <2>1, <2>2
  <1>7. First(Len(q)) = S /\ \A t, u : Before(Len(q), t, u) <=> Precedes(q, t, u)
    BY DEF Holds, Elements, Precedes
  <1> HIDE DEF First, Before
  <1> QED BY <1>2, <1>6, <1>7

(* One list behind another that has no element in common with it. *)
LEMMA ConcatHolds ==
    ASSUME NEW p, NEW q, NEW T, NEW R, NEW S, Holds(p, T, R), Holds(q, T, S), R \cap S = {}
    PROVE  /\ Holds(p \o q, T, R \cup S)
           /\ \A t, u : Precedes(p \o q, t, u)
                            <=> \/ Precedes(p, t, u)
                                \/ Precedes(q, t, u)
                                \/ t \in R /\ u \in S
  <1> DEFINE r == p \o q
  <1>1. /\ p \in Seq(T) /\ q \in Seq(T) /\ Len(p) \in Nat /\ Len(q) \in Nat
        /\ \A i \in 1 .. Len(p) : p[i] \in R
        /\ \A i \in 1 .. Len(q) : q[i] \in S
    BY DEF Holds, Elements
  <1>2. /\ r \in Seq(T)
        /\ Len(r) = Len(p) + Len(q)
        /\ \A i \in 1 .. Len(r) : r[i] = IF i <= Len(p) THEN p[i] ELSE q[i - Len(p)]
    BY <1>1, ConcatProperties
  <1> HIDE DEF r
  <1>3. \A i \in 1 .. Len(p) : i \in 1 .. Len(r) /\ r[i] = p[i]
    BY <1>1, <1>2
  <1>4. \A i \in 1 .. Len(q) : i + Len(p) \in 1 .. Len(r) /\ r[i + Len(p)] = q[i]
    <2> TAKE i \in 1 .. Len(q)
    <2>1. i + Len(p) \in 1 .. Len(r) /\ ~(i + Len(p) <= Len(p)) /\ (i + Len(p)) - Len(p) = i
      BY <1>1, <1>2
    <2> QED BY <1>2, <2>1
  <1>5. \A i \in 1 .. Len(r) : ~(i <= Len(p)) => i - Len(p) \in 1 .. Len(q) /\ r[i] = q[i - Len(p)]
    BY <1>1, <1>2
  <1>5a. \A i \in 1 .. Len(r) : i <= Len(p) => r[i] \in R
    <2> TAKE i \in 1 .. Len(r)
    <2>1. ASSUME i <= Len(p) PROVE i \in 1 .. Len(p)
      BY <1>1, <2>1
    <2> QED BY <1>1, <1>3, <2>1
  <1>5b. \A i \in 1 .. Len(r) : ~(i <= Len(p)) => r[i] \in S
    BY <1>1, <1>5
  <1>6. ASSUME NEW i \in 1 .. Len(r), NEW j \in 1 .. Len(r), r[i] = r[j] PROVE i = j
    <2>1. CASE i <= Len(p) /\ j <= Len(p)
      <3>1. i \in 1 .. Len(p) /\ j \in 1 .. Len(p) /\ p[i] = p[j]
        BY <1>1, <1>2, <1>6, <2>1
      <3> QED BY <3>1 DEF Holds
    <2>2. CASE ~(i <= Len(p)) /\ ~(j <= Len(p))
      <3>1. i - Len(p) = j - Len(p)
        BY <1>5, <1>6, <2>2 DEF Holds
      <3> QED BY <1>1, <1>2, <3>1
    <2>3. CASE i <= Len(p) /\ ~(j <= Len(p))
      <3>1. r[i] \in R /\ r[j] \in S
        BY <1>5a, <1>5b, <2>3
      <3> QED BY <1>6, <3>1
    <2>4. CASE ~(i <= Len(p)) /\ j <= Len(p)
      <3>1. r[j] \in R /\ r[i] \in S
        BY <1>5a, <1>5b, <2>4
      <3> QED BY <1>6, <3>1
    <2> QED BY <2>1, <2>2, <2>3, <2>4
  <1>7. Elements(r) = R \cup S
    <2>1. ASSUME NEW x \in Elements(r) PROVE x \in R \cup S
      <3>1. PICK i \in 1 .. Len(r) : r[i] = x
        BY DEF Elements
      <3>2. CASE i <= Len(p)
        BY <1>5a, <3>1, <3>2
      <3>3. CASE ~(i <= Len(p))
        BY <1>5b, <3>1, <3>3
      <3> QED BY <3>2, <3>3
    <2>2. ASSUME NEW x \in R PROVE x \in Elements(r)
      <3>1. PICK i \in 1 .. Len(p) : p[i] = x
        BY DEF Holds, Elements
      <3> QED BY <1>3, <3>1 DEF Elements
    <2>3. ASSUME NEW x \in S PROVE x \in Elements(r)
      <3>1. PICK i \in 1 .. Len(q) : q[i] = x
        BY DEF Holds, Elements
      <3> QED BY <1>4, <3>1 DEF Elements
    <2> QED BY <2>1, <2>2, <2>3
  <1>8. ASSUME NEW t, NEW u, Precedes(r, t, u)
        PROVE  Precedes(p, t, u) \/ Precedes(q, t, u) \/ (t \in R /\ u \in S)
    <2>1. PICK i, j \in 1 .. Len(r) : i < j /\ r[i] = t /\ r[j] = u
      BY <1>8 DEF Precedes
    <2>2. CASE j <= Len(p)
      <3>1. i \in 1 .. Len(p) /\ j \in 1 .. Len(p) /\ p[i] = t /\ p[j] = u
        BY <1>1, <1>2, <2>1, <2>2
      <3> QED BY <2>1, <3>1 DEF Precedes
    <2>3. CASE ~(i <= Len(p))
      <3>1. ~(j <= Len(p))
        BY <1>1, <1>2, <2>1, <2>3
      <3>2. /\ i - Len(p) \in 1 .. Len(q) /\ j - Len(p) \in 1 .. Len(q)
            /\ q[i - Len(p)] = t /\ q[j - Len(p)] = u
        BY <1>5, <2>1, <2>3, <3>1
      <3>3. i - Len(p) < j - Len(p)
        BY <1>1, <1>2, <2>1
      <3> QED BY <3>2, <3>3 DEF Precedes
    <2>4. CASE i <= Len(p) /\ ~(j <= Len(p))
      BY <1>1, <1>2, <1>5, <2>1, <2>4
    <2> QED BY <2>2, <2>3, <2>4
  <1>9. ASSUME NEW t, NEW u, Precedes(p, t, u) PROVE Precedes(r, t, u)
    BY <1>3, <1>9 DEF Precedes
  <1>10. ASSUME NEW t, NEW u, Precedes(q, t, u) PROVE Precedes(r, t, u)
    <2>1. PICK i, j \in 1 .. Len(q) : i < j /\ q[i] = t /\ q[j] = u
      BY <1>10 DEF Precedes
    <2>2. i + Len(p) < j + Len(p)
      BY <1>1, <2>1
    <2> QED BY <1>4, <2>1, <2>2 DEF Precedes
  <1>11. ASSUME NEW t \in R, NEW u \in S PROVE Precedes(r, t, u)
    <2>1. PICK i \in 1 .. Len(p) : p[i] = t
      BY DEF Holds, Elements
    <2>2. PICK j \in 1 .. Len(q) : q[j] = u
      BY DEF Holds, Elements
    <2>3. i < j + Len(p)
      BY <1>1
    <2> QED BY <1>3, <1>4, <2>1, <2>2, <2>3 DEF Precedes
  <1>12. Holds(r, T, R \cup S)
    BY <1>2, <1>6, <1>7 DEF Holds
  <1> QED BY <1>8, <1>9, <1>10, <1>11, <1>12 DEF r
=============================================================================
