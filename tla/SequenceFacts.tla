--------------------------- MODULE SequenceFacts ---------------------------
(***************************************************************************)
(* What the proofs share: sequences without duplicates, for the queues and *)
(* lists of the models, and induction, for the loops of its parsers.       *)
(***************************************************************************)
EXTENDS Integers, Sequences, SequenceTheorems, WellFoundedInduction, TLAPS

(* Zenon is the default; a leaf that it does not find says SMT.  *)
USE Zenon

(* No element occurs twice.  *)
Distinct(q) == \A i, j \in 1..Len(q) : q[i] = q[j] => i = j

(* The sequence without its k-th element.  *)
Without(q, k) == SubSeq(q, 1, k - 1) \o SubSeq(q, k + 1, Len(q))

(* Where the elements go when the k-th is taken out.  *)
LEMMA ErasePositions ==
  ASSUME NEW S, NEW q \in Seq(S), NEW k \in 1..Len(q)
  PROVE  /\ Without(q, k) \in Seq(S)
         /\ Len(Without(q, k)) = Len(q) - 1
         /\ \A i \in 1..(k - 1) : Without(q, k)[i] = q[i]
         /\ \A i \in k..(Len(q) - 1) : Without(q, k)[i] = q[i + 1]
<1> DEFINE r == Without(q, k)
<1> HIDE DEF r
<1>1. Len(q) \in Nat
  BY SMT
<1>2. /\ r \in Seq(S)
      /\ Len(r) = Len(q) - 1
      /\ \A i \in 1..(k - 1) : r[i] = q[i]
      /\ \A i \in k..(Len(q) - 1) : r[i] = q[i + 1]
  <2> DEFINE a == SubSeq(q, 1, k - 1)
             b == SubSeq(q, k + 1, Len(q))
  <2>1. /\ a \in Seq(S) /\ Len(a) = k - 1
        /\ \A i \in 1..(k - 1) : a[i] = q[i]
    BY SMT
  <2>2. /\ b \in Seq(S) /\ Len(b) = Len(q) - k
        /\ \A i \in 1..(Len(q) - k) : b[i] = q[i + k]
    BY SMT
  <2>3. r = a \o b
    BY DEF r, Without
  <2> HIDE DEF a, b
  <2>4. /\ a \o b \in Seq(S) /\ Len(a \o b) = Len(a) + Len(b)
        /\ \A i \in 1..(Len(a) + Len(b)) :
             (a \o b)[i] = IF i <= Len(a) THEN a[i] ELSE b[i - Len(a)]
    BY <2>1, <2>2, ConcatProperties, ZenonT(30)
  <2>5. ASSUME NEW i \in 1..(k - 1) PROVE r[i] = q[i]
    BY <1>1, <2>1, <2>2, <2>3, <2>4, SMT
  <2>6. ASSUME NEW i \in k..(Len(q) - 1)
        PROVE  r[i] = q[i + 1]
    <3>1. i - (k - 1) \in 1..(Len(q) - k) /\ i \in 1..(Len(a) + Len(b))
      BY <1>1, <2>1, <2>2, SMT
    <3>2. r[i] = b[i - (k - 1)]
      BY <1>1, <2>1, <2>3, <2>4, <3>1, SMT
    <3>3. b[i - (k - 1)] = q[(i - (k - 1)) + k]
      BY <2>2, <3>1
    <3>4. (i - (k - 1)) + k = i + 1
      BY SMT
    <3> QED
      BY <3>2, <3>3, <3>4
  <2> QED
    BY <1>1, <2>1, <2>2, <2>3, <2>4, <2>5, <2>6, SMT
<1> QED
  BY <1>2 DEF r

(* An element taken out of a sequence without duplicates is gone and none is *)
(* added: the erase() of the subscriber list (events.cpp) and of the         *)
(* runnable queue (manager.cpp, take_runnable).                              *)
LEMMA EraseOne ==
  ASSUME NEW S, NEW q \in Seq(S), Distinct(q), NEW k \in 1..Len(q)
  PROVE  /\ Without(q, k) \in Seq(S)
         /\ Distinct(Without(q, k))
         /\ \A i \in 1..Len(Without(q, k)) :
              /\ Without(q, k)[i] # q[k]
              /\ \E m \in 1..Len(q) : Without(q, k)[i] = q[m]
<1> DEFINE r == Without(q, k)
<1> HIDE DEF r
<1>1. Len(q) \in Nat
  BY SMT
<1>2. /\ r \in Seq(S)
      /\ Len(r) = Len(q) - 1
      /\ \A i \in 1..(k - 1) : r[i] = q[i]
      /\ \A i \in k..(Len(q) - 1) : r[i] = q[i + 1]
  BY ErasePositions DEF r
<1>3. ASSUME NEW i \in 1..Len(r)
      PROVE  \E m \in 1..Len(q) :
               /\ r[i] = q[m]
               /\ m = IF i < k THEN i ELSE i + 1
  <2>1. CASE i < k
    BY <1>1, <1>2, <2>1, SMT
  <2>2. CASE ~(i < k)
    BY <1>1, <1>2, <2>2, SMT
  <2> QED
    BY <2>1, <2>2
<1>4. ASSUME NEW i \in 1..Len(r), NEW j \in 1..Len(r), r[i] = r[j]
      PROVE  i = j
  <2>1. PICK m \in 1..Len(q) :
          r[i] = q[m] /\ m = IF i < k THEN i ELSE i + 1
    BY <1>3
  <2>2. PICK n \in 1..Len(q) :
          r[j] = q[n] /\ n = IF j < k THEN j ELSE j + 1
    BY <1>3
  <2>3. m = n
    BY <1>4, <2>1, <2>2 DEF Distinct
  <2> QED
    BY <1>2, <2>1, <2>2, <2>3, SMT
<1>5. ASSUME NEW i \in 1..Len(r)
      PROVE  r[i] # q[k]
  <2>1. PICK m \in 1..Len(q) :
          r[i] = q[m] /\ m = IF i < k THEN i ELSE i + 1
    BY <1>3
  <2>2. m # k
    BY <1>2, <2>1, SMT
  <2> QED
    BY <2>1, <2>2 DEF Distinct
<1> QED
  BY <1>2, <1>3, <1>4, <1>5 DEF r, Distinct

(* The others stay.  *)
LEMMA EraseKeeps ==
  ASSUME NEW S, NEW q \in Seq(S), NEW k \in 1..Len(q), NEW m \in 1..Len(q),
         m # k
  PROVE  \E i \in 1..Len(Without(q, k)) : Without(q, k)[i] = q[m]
<1> DEFINE r == Without(q, k)
<1>1. /\ Len(r) = Len(q) - 1 /\ Len(q) \in Nat
      /\ \A i \in 1..(k - 1) : r[i] = q[i]
      /\ \A i \in k..(Len(q) - 1) : r[i] = q[i + 1]
  BY ErasePositions, SMT
<1> HIDE DEF r
<1>2. CASE m < k
  <2>1. m \in 1..Len(r) /\ r[m] = q[m]
    BY <1>1, <1>2, SMT
  <2> QED
    BY <2>1 DEF r
<1>3. CASE m > k
  <2>1. m - 1 \in 1..Len(r) /\ m - 1 \in k..(Len(q) - 1) /\ (m - 1) + 1 = m
    BY <1>1, <1>3, SMT
  <2>2. r[m - 1] = q[(m - 1) + 1]
    BY <1>1, <2>1
  <2> QED
    BY <2>1, <2>2 DEF r
<1> QED
  BY <1>2, <1>3, SMT

(* What Append adds is the new element: push_back() on the runnable queue.   *)
LEMMA AppendElements ==
  ASSUME NEW S, NEW q \in Seq(S), NEW x \in S
  PROVE  \A i \in 1..Len(Append(q, x)) :
           \/ Append(q, x)[i] = x
           \/ \E m \in 1..Len(q) : Append(q, x)[i] = q[m]
BY SMT

(* What a concatenation adds are the elements of the second sequence.  *)
LEMMA ConcatElements ==
  ASSUME NEW S, NEW q \in Seq(S), NEW o \in Seq(S)
  PROVE  \A i \in 1..Len(q \o o) :
           \/ \E m \in 1..Len(q) : (q \o o)[i] = q[m]
           \/ \E m \in 1..Len(o) : (q \o o)[i] = o[m]
BY SMT

(* Two sequences without duplicates or common elements, one after the other: *)
(* The elements of a sequence from a place on to its end.  *)
LEMMA Segment ==
  ASSUME NEW S, NEW q \in Seq(S), NEW h \in Nat, NEW n \in Nat, Len(q) = h + n
  PROVE  /\ SubSeq(q, h + 1, h + n) \in Seq(S)
         /\ Len(SubSeq(q, h + 1, h + n)) = n
         /\ \A i \in 1..n : /\ SubSeq(q, h + 1, h + n)[i] = q[h + i]
                            /\ h + i \in 1..Len(q)
<1>1. /\ h + 1 \in Int /\ h + n \in Int
      /\ \A i \in (h + 1)..(h + n) : q[i] \in S
  BY SMT
<1> DEFINE s == SubSeq(q, h + 1, h + n)
<1>2. /\ s \in Seq(S)
      /\ Len(s) = IF h + 1 <= h + n THEN (h + n) - (h + 1) + 1 ELSE 0
      /\ \A i \in 1..((h + n) - (h + 1) + 1) : s[i] = q[(h + 1) + i - 1]
  BY <1>1, SubSeqProperties, SMT
<1> HIDE DEF s
<1>3. /\ Len(s) = n
      /\ \A i \in 1..n : s[i] = q[h + i] /\ h + i \in 1..Len(q)
  BY <1>2, SMT
<1> QED
  BY <1>2, <1>3 DEF s

(* the jobs that pump() adds to the runnable queue.                          *)
LEMMA ConcatDistinct ==
  ASSUME NEW S, NEW q \in Seq(S), NEW o \in Seq(S), Distinct(q), Distinct(o),
         \A i \in 1..Len(q) : \A k \in 1..Len(o) : q[i] # o[k]
  PROVE  /\ q \o o \in Seq(S)
         /\ Distinct(q \o o)
         /\ \A i \in 1..Len(q \o o) :
              \/ \E m \in 1..Len(q) : (q \o o)[i] = q[m]
              \/ \E m \in 1..Len(o) : (q \o o)[i] = o[m]
<1>1. /\ q \o o \in Seq(S) /\ Len(q \o o) = Len(q) + Len(o)
      /\ \A i \in 1..(Len(q) + Len(o)) :
           (q \o o)[i] = IF i <= Len(q) THEN q[i] ELSE o[i - Len(q)]
  BY ConcatProperties
<1>2. Len(q) \in Nat /\ Len(o) \in Nat
  BY SMT
<1> DEFINE r == q \o o
<1> HIDE DEF r
<1>3. ASSUME NEW i \in 1..Len(r), i > Len(q)
      PROVE  i - Len(q) \in 1..Len(o) /\ r[i] = o[i - Len(q)]
  BY <1>1, <1>2, <1>3, SMT DEF r
<1>4. ASSUME NEW i \in 1..Len(r), ~(i > Len(q))
      PROVE  i \in 1..Len(q) /\ r[i] = q[i]
  BY <1>1, <1>2, <1>4, SMT DEF r
<1>5. Distinct(r)
  <2> SUFFICES ASSUME NEW i \in 1..Len(r), NEW j \in 1..Len(r), r[i] = r[j]
               PROVE  i = j
    BY DEF Distinct
  <2>1. CASE i > Len(q) /\ j > Len(q)
    <3>1. i - Len(q) = j - Len(q)
      BY <1>3, <2>1, ZenonT(30) DEF Distinct
    <3> QED
      BY <1>1, <1>2, <3>1, SMT DEF r
  <2>2. CASE ~(i > Len(q)) /\ ~(j > Len(q))
    BY <1>4, <2>2 DEF Distinct
  <2>3. CASE i > Len(q) /\ ~(j > Len(q))
    BY <1>3, <1>4, <2>3
  <2>4. CASE ~(i > Len(q)) /\ j > Len(q)
    BY <1>3, <1>4, <2>4
  <2> QED
    BY <2>1, <2>2, <2>3, <2>4
<1> QED
  BY <1>1, <1>3, <1>4, <1>5 DEF r

-----------------------------------------------------------------------------
(* Induction, with the set of the numbers for which a claim holds.  *)

(* A set of naturals has a least element, ...  *)
LEMMA Least ==
  ASSUME NEW T, T \subseteq Nat, T # {}
  PROVE  \E m \in T : \A k \in T : m <= k
<1>1. PICK m \in T : \A k \in T : ~ (<<k, m>> \in OpToRel(<, Nat))
  BY NatLessThanWellFounded, WFMin
<1>2. OpToRel(<, Nat) = {p \in Nat \X Nat : p[1] < p[2]}
  BY DEF OpToRel
<1>3. ASSUME NEW k \in T, k < m PROVE FALSE
  <2>1. <<k, m>> \in {p \in Nat \X Nat : p[1] < p[2]}
    BY <1>3, SMT
  <2> QED
    BY <1>1, <1>2, <2>1
<1> QED
  BY <1>3, SMT

(* ... and one that has 0 and every successor has them all.  *)
LEMMA Induction ==
  ASSUME NEW G, 0 \in G, \A n \in Nat : n \in G => n + 1 \in G
  PROVE  Nat \subseteq G
<1> SUFFICES ASSUME Nat \ G # {} PROVE FALSE
  OBVIOUS
<1>1. PICK m \in Nat \ G : \A k \in Nat \ G : m <= k
  BY Least
<1>2. m # 0 /\ m - 1 \in Nat /\ (m - 1) + 1 = m
  BY SMT
<1>3. m - 1 \in G
  BY <1>1, <1>2, SMT
<1> QED
  BY <1>2, <1>3
=============================================================================
