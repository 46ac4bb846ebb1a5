---------------------------- MODULE InputProofs ----------------------------
(***************************************************************************)
(* Proofs about what the daemon reads from outside, for inputs of any      *)
(* length: the numbers of a JSON text, a connection and its request, a     *)
(* configuration file; and about the delays between attempts.              *)
(***************************************************************************)
EXTENDS NumeralInputs, RetrySchedule, HttpConnection, Config, SequenceFacts,
        TLAPS

(* Zenon is the default; a leaf that it does not find says SMT.  *)
USE Zenon

-----------------------------------------------------------------------------
(* Loops.  The state of a loop after k rounds is a recursive function of k.  *)
(* That there is such a function, and what it computes, is shown by          *)
(* induction, with the set of the numbers for which the claim holds.         *)

(* What round k makes of the state.  *)
Steps(A) == [Nat -> [A -> A]]

(* g runs from a through the rounds of F.  *)
Runs(g, A, a, F) ==
  /\ g \in [Nat -> A] /\ g[0] = a
  /\ \A k \in Nat : g[k + 1] = F[k + 1][g[k]]

(* Every loop has a run.  *)
LEMMA Recursion ==
  ASSUME NEW A, NEW a \in A, NEW F \in Steps(A)
  PROVE  \E g : Runs(g, A, a, F)
<1> USE DEF Steps
<1> DEFINE Start(g, n) == /\ g \in [Nat -> A] /\ g[0] = a
                          /\ \A k \in Nat : k < n => g[k + 1] = F[k + 1][g[k]]
           G == {n \in Nat : \E g : Start(g, n)}
           Pre(n) == CHOOSE g : Start(g, n)
           f == [n \in Nat |-> Pre(n)[n]]
<1>1. 0 \in G
  <2>1. Start([n \in Nat |-> a], 0)
    BY SMT
  <2> QED
    BY <2>1, SMT
<1>2. ASSUME NEW n \in Nat, n \in G PROVE n + 1 \in G
  <2>1. PICK g : Start(g, n)
    BY <1>2
  <2> DEFINE h == [g EXCEPT ![n + 1] = F[n + 1][g[n]]]
  <2>2. n + 1 \in Nat /\ g[n] \in A
    BY <2>1, SMT
  <2>3. F[n + 1][g[n]] \in A
    BY <2>2
  <2>4. Start(h, n + 1)
    <3>1. h \in [Nat -> A]
      BY <2>1, <2>2, <2>3
    <3>2. h[0] = a
      BY <2>1, SMT
    <3>3. ASSUME NEW k \in Nat, k < n + 1 PROVE h[k + 1] = F[k + 1][h[k]]
      <4>1. h[k] = g[k]
        BY <2>1, <3>3, SMT
      <4>2. CASE k = n
        BY <2>1, <2>2, <4>1, <4>2
      <4>3. CASE k < n
        <5>1. h[k + 1] = g[k + 1] /\ g[k + 1] = F[k + 1][g[k]]
          BY <2>1, <4>3, SMT
        <5> QED
          BY <4>1, <5>1
      <4> QED
        BY <3>3, <4>2, <4>3, SMT
    <3> QED
      BY <3>1, <3>2, <3>3
  <2> QED
    BY <2>2, <2>4
<1> HIDE DEF G
<1>3. \A n \in Nat : n \in G
  BY <1>1, <1>2, Induction
<1> USE DEF G
<1>4. \A n \in Nat : Start(Pre(n), n)
  BY <1>3
<1> HIDE DEF G, Pre
<1>5. ASSUME NEW n \in Nat, NEW m \in Nat, n <= m,
             NEW g, NEW h, Start(g, n), Start(h, m)
      PROVE  g[n] = h[n]
  <2> DEFINE E == {k \in Nat : k <= n => g[k] = h[k]}
  <2>1. 0 \in E
    BY <1>5
  <2>2. ASSUME NEW k \in Nat, k \in E PROVE k + 1 \in E
    <3>1. k + 1 \in Nat
      BY SMT
    <3>2. CASE k + 1 <= n
      <4>1. k < n /\ k < m /\ k <= n
        BY <1>5, <3>2, SMT
      <4> QED
        BY <1>5, <2>2, <3>1, <4>1, ZenonT(60)
    <3> QED
      BY <3>1, <3>2
  <2> HIDE DEF E
  <2>3. n \in E
    BY <2>1, <2>2, Induction
  <2>4. n <= n
    BY SMT
  <2> QED
    BY <2>3, <2>4 DEF E
<1>6. f \in [Nat -> A] /\ f[0] = a
  BY <1>4, SMT
<1>7. ASSUME NEW k \in Nat PROVE f[k + 1] = F[k + 1][f[k]]
  <2>1. k + 1 \in Nat /\ k < k + 1 /\ k <= k + 1
    BY SMT
  <2>2. Pre(k)[k] = Pre(k + 1)[k]
    <3>1. Start(Pre(k), k) /\ Start(Pre(k + 1), k + 1)
      BY <1>4, <2>1
    <3> HIDE DEF Start
    <3> QED
      BY <1>5, <2>1, <3>1
  <2>3. Pre(k + 1)[k + 1] = F[k + 1][Pre(k + 1)[k]]
    BY <1>4, <2>1
  <2> QED
    BY <2>1, <2>2, <2>3
<1> QED
  BY <1>6, <1>7 DEF Runs

(* h runs from a through the first n rounds.  *)
RunsTo(n, h, A, a, F) ==
  /\ h \in [0..n -> A] /\ h[0] = a
  /\ \A k \in 1..n : h[k] = F[k][h[k - 1]]

(* The first n rounds of a loop have a run.  *)
LEMMA Rounds ==
  ASSUME NEW A, NEW a \in A, NEW F \in Steps(A), NEW n \in Nat
  PROVE  \E h : RunsTo(n, h, A, a, F)
<1>1. PICK g : Runs(g, A, a, F)
  BY Recursion
<1> DEFINE h == [k \in 0..n |-> g[k]]
<1>2. h \in [0..n -> A] /\ h[0] = a
  BY <1>1, SMT DEF Runs
<1>3. ASSUME NEW k \in 1..n PROVE h[k] = F[k][h[k - 1]]
  <2>1. k - 1 \in Nat /\ (k - 1) + 1 = k /\ k \in 0..n /\ k - 1 \in 0..n
    BY SMT
  <2>2. g[k] = F[k][g[k - 1]]
    BY <1>1, <2>1 DEF Runs
  <2> QED
    BY <2>1, <2>2
<1> QED
  BY <1>2, <1>3 DEF RunsTo

-----------------------------------------------------------------------------
(* Numerals.  *)

(* The guard is exact: it refuses just what would pass the limit.  *)
LEMMA OverflowsExact ==
  ASSUME NEW acc \in Nat, NEW d \in 0..9, NEW limit \in Nat
  PROVE  Overflows(acc, d, limit) <=> 10 * acc + d > limit
BY SMT DEF Overflows

(* One more digit makes no number smaller.  *)
LEMMA OneMoreDigit ==
  ASSUME NEW v \in Nat, NEW d \in 0..9, NEW w, w = 10 * v + d
  PROVE  w \in Nat /\ w >= v
BY SMT

(* The accumulating loop, round by round.  *)
LEMMA AccumulateRounds ==
  ASSUME NEW n \in Nat, NEW digits \in [1..n -> 0..9], Len(digits) = n,
         NEW limit \in Nat
  PROVE  \E acc : /\ accumulate(digits, limit) = acc[n]
                  /\ acc[0] = 0
                  /\ \A k \in 1..n :
                       acc[k] = IF \/ acc[k - 1] = -1
                                   \/ Overflows(acc[k - 1], digits[k], limit)
                                THEN -1 ELSE acc[k - 1] * 10 + digits[k]
<1> DEFINE Round(x, k) ==
             IF x = -1 \/ Overflows(x, digits[k], limit) THEN -1
             ELSE x * 10 + digits[k]
           F == [k \in Nat |-> [x \in Int |-> IF k \in 1..n THEN Round(x, k)
                                              ELSE 0]]
           Run(f) == [k \in 0..n |-> IF k = 0 THEN 0 ELSE Round(f[k - 1], k)]
           acc == CHOOSE f : f = Run(f)
<1>1. \A k \in 1..n, x \in Int : Round(x, k) \in Int
  BY SMT
<1>2. F \in Steps(Int) /\ 0 \in Int
  BY <1>1, SMT DEF Steps
<1>3. \A k \in 1..n, x \in Int : F[k][x] = Round(x, k)
  BY SMT
<1>4. \A k \in 1..n : k - 1 \in 0..n /\ k \in 0..n /\ k # 0
  BY SMT
<1>5. \A k \in 0..n : k = 0 \/ k \in 1..n
  BY SMT
<1> HIDE DEF F, Round
<1>6. PICK h : RunsTo(n, h, Int, 0, F)
  BY <1>2, Rounds
<1>7. \A k \in 1..n : h[k] = Round(h[k - 1], k)
  BY <1>3, <1>4, <1>6 DEF RunsTo
<1>8. h = Run(h)
  BY <1>5, <1>6, <1>7 DEF RunsTo
<1>9. acc = Run(acc)
  BY <1>8
<1>10. accumulate(digits, limit) = acc[n]
  BY DEF accumulate, Round
<1> HIDE DEF acc
<1>11. 0 \in 0..n
  BY SMT
<1>12. acc[0] = 0 /\ \A k \in 1..n : acc[k] = Round(acc[k - 1], k)
  BY <1>4, <1>9, <1>11
<1> QED
  BY <1>10, <1>12 DEF Round

(* What the digits stand for, digit by digit.  *)
LEMMA ValueRounds ==
  ASSUME NEW n \in Nat, NEW digits \in [1..n -> 0..9], Len(digits) = n
  PROVE  \E value : /\ ValueOf(digits) = value[n]
                    /\ value[0] = 0
                    /\ \A k \in 1..n :
                         value[k] = 10 * value[k - 1] + digits[k]
<1> DEFINE Round(x, k) == 10 * x + digits[k]
           F == [k \in Nat |-> [x \in Nat |-> IF k \in 1..n THEN Round(x, k)
                                              ELSE 0]]
           Run(f) == [k \in 0..n |-> IF k = 0 THEN 0 ELSE Round(f[k - 1], k)]
           value == CHOOSE f : f = Run(f)
<1>1. \A k \in 1..n, x \in Nat : Round(x, k) \in Nat
  BY SMT
<1>2. F \in Steps(Nat) /\ 0 \in Nat
  BY <1>1, SMT DEF Steps
<1>3. \A k \in 1..n, x \in Nat : F[k][x] = Round(x, k)
  BY SMT
<1>4. \A k \in 1..n : k - 1 \in 0..n /\ k \in 0..n /\ k # 0
  BY SMT
<1>5. \A k \in 0..n : k = 0 \/ k \in 1..n
  BY SMT
<1> HIDE DEF F, Round
<1>6. PICK h : RunsTo(n, h, Nat, 0, F)
  BY <1>2, Rounds
<1>7. \A k \in 1..n : h[k] = Round(h[k - 1], k)
  BY <1>3, <1>4, <1>6 DEF RunsTo
<1>8. h = Run(h)
  BY <1>5, <1>6, <1>7 DEF RunsTo
<1>9. value = Run(value)
  BY <1>8
<1>10. ValueOf(digits) = value[n]
  BY DEF ValueOf, Round
<1> HIDE DEF value
<1>11. 0 \in 0..n
  BY SMT
<1>12. value[0] = 0 /\ \A k \in 1..n : value[k] = Round(value[k - 1], k)
  BY <1>4, <1>9, <1>11
<1> QED
  BY <1>10, <1>12 DEF Round

(* The loop computes the value of the digits, or finds that it is above the  *)
(* limit.                                                                    *)
LEMMA AccumulateExact ==
  ASSUME NEW digits \in Seq(0..9), NEW limit \in Nat
  PROVE  /\ ValueOf(digits) \in Nat
         /\ accumulate(digits, limit) =
              IF ValueOf(digits) > limit THEN -1 ELSE ValueOf(digits)
<1> DEFINE n == Len(digits)
<1>1. n \in Nat /\ digits \in [1..n -> 0..9]
  BY SMT
<1> HIDE DEF n
<1>2. Len(digits) = n
  BY DEF n
<1>3. PICK acc : /\ accumulate(digits, limit) = acc[n]
                 /\ acc[0] = 0
                 /\ \A k \in 1..n :
                      acc[k] = IF \/ acc[k - 1] = -1
                                  \/ Overflows(acc[k - 1], digits[k], limit)
                               THEN -1 ELSE acc[k - 1] * 10 + digits[k]
  BY <1>1, <1>2, AccumulateRounds, ZenonT(60)
<1>4. PICK value : /\ ValueOf(digits) = value[n]
                   /\ value[0] = 0
                   /\ \A k \in 1..n :
                        value[k] = 10 * value[k - 1] + digits[k]
  BY <1>1, <1>2, ValueRounds
<1> DEFINE Good(k) == /\ value[k] \in Nat
                      /\ acc[k] = IF value[k] > limit THEN -1 ELSE value[k]
           G == {k \in Nat : k <= n => Good(k)}
<1>5. 0 \in G
  BY <1>3, <1>4, SMT
<1>6. ASSUME NEW k \in Nat, k \in G PROVE k + 1 \in G
  <2> SUFFICES ASSUME k + 1 <= n PROVE Good(k + 1)
    BY SMT
  <2>1. Good(k)
    BY <1>1, <1>6, SMT
  <2>2. k + 1 \in 1..n /\ (k + 1) - 1 = k
    BY <1>1, SMT
  <2>3. digits[k + 1] \in 0..9
    BY <1>1, <2>2
  <2>4. value[k + 1] = 10 * value[k] + digits[k + 1]
    BY <1>4, <2>2
  <2>5. acc[k + 1] = IF acc[k] = -1 \/ Overflows(acc[k], digits[k + 1], limit)
                     THEN -1 ELSE acc[k] * 10 + digits[k + 1]
    BY <1>3, <2>2
  <2>6. value[k + 1] \in Nat /\ value[k + 1] >= value[k]
    BY <2>1, <2>3, <2>4, OneMoreDigit
  <2>7. CASE value[k] > limit
    <3>1. acc[k] = -1 /\ acc[k + 1] = -1
      BY <2>1, <2>5, <2>7
    <3>2. value[k + 1] > limit
      BY <2>1, <2>6, <2>7, SMT
    <3> QED
      BY <2>6, <3>1, <3>2
  <2>8. CASE value[k] <= limit
    <3>1. acc[k] = value[k] /\ acc[k] # -1 /\ acc[k] \in Nat
      BY <2>1, <2>8, SMT
    <3>2. Overflows(acc[k], digits[k + 1], limit) <=> value[k + 1] > limit
      BY <2>3, <2>4, <3>1, OverflowsExact
    <3> QED
      BY <2>3, <2>4, <2>5, <2>6, <3>1, <3>2, SMT
  <2> QED
    BY <2>1, <2>7, <2>8, SMT
<1> HIDE DEF G
<1>7. n \in G
  BY <1>1, <1>5, <1>6, Induction
<1>8. Good(n)
  BY <1>1, <1>7, SMT DEF G
<1> QED
  BY <1>3, <1>4, <1>8

(* An integer of a JSON text is read exactly, or refused: for every width    *)
(* and every numeral.                                                        *)
THEOREM NumberExactAlways == NSpec => []NumberExact
<1>1. NInit => numeral \in Seq(0..9) /\ negative \in BOOLEAN
  BY SMT DEF NInit
<1>2. /\ numeral \in Seq(0..9) /\ negative \in BOOLEAN
      /\ [AddDigit]_nvars
      => (numeral \in Seq(0..9) /\ negative \in BOOLEAN)'
  <2> SUFFICES ASSUME numeral \in Seq(0..9), negative \in BOOLEAN,
                      [AddDigit]_nvars
               PROVE  numeral' \in Seq(0..9) /\ negative' \in BOOLEAN
    OBVIOUS
  <2>1. negative' = negative
    BY DEF AddDigit, nvars
  <2>2. CASE AddDigit
    <3>1. PICK d \in 0..9 : numeral' = Append(numeral, d)
      BY <2>2, NumeralAssumption DEF AddDigit
    <3> QED
      BY <2>1, <3>1, SMT
  <2>3. CASE UNCHANGED nvars
    BY <2>3 DEF nvars
  <2> QED
    BY <2>2, <2>3
<1>3. numeral \in Seq(0..9) /\ negative \in BOOLEAN => NumberExact
  <2> SUFFICES ASSUME numeral \in Seq(0..9), negative \in BOOLEAN
               PROVE  NumberExact
    OBVIOUS
  <2> DEFINE v == ValueOf(numeral)
             limit == IF negative THEN IntMax + 1 ELSE IntMax
             acc == accumulate(numeral, limit)
  <2>1. limit \in Nat
    BY NumeralAssumption, SMT
  <2>2. v \in Nat /\ acc = IF v > limit THEN -1 ELSE v
    BY <2>1, AccumulateExact
  <2>3. parse_number(negative, numeral) =
          IF \/ numeral = <<>> \/ (numeral[1] = 0 /\ Len(numeral) > 1)
             \/ acc = -1
          THEN [ok |-> FALSE]
          ELSE [ok |-> TRUE, at |-> Len(numeral) + 1,
                value |-> IF negative THEN -acc ELSE acc]
    BY DEF parse_number, Success, Failure
  <2> HIDE DEF v, acc
  <2> QED
    BY <2>1, <2>2, <2>3, NumeralAssumption, SMT DEF NumberExact, v
<1> QED
  BY <1>1, <1>2, <1>3, PTL DEF NSpec

-----------------------------------------------------------------------------
(* The delays between attempts.  *)

(* Powers of two, doubling by doubling.  *)
LEMMA PowerRounds ==
  /\ Power[0] = 1
  /\ \A n \in Nat : Power[n] \in Nat /\ Power[n + 1] = 2 * Power[n]
<1> DEFINE F == [k \in Nat |-> [x \in Nat |-> 2 * x]]
           Run(f) == [n \in Nat |-> IF n = 0 THEN 1 ELSE 2 * f[n - 1]]
<1>1. F \in Steps(Nat) /\ 1 \in Nat
  BY SMT DEF Steps
<1>2. \A k \in Nat, x \in Nat : F[k + 1][x] = 2 * x
  BY SMT
<1> HIDE DEF F
<1>3. PICK g : Runs(g, Nat, 1, F)
  BY <1>1, Recursion
<1>4. \A k \in Nat : g[k + 1] = 2 * g[k]
  BY <1>2, <1>3 DEF Runs
<1>5. \A n \in Nat : n = 0 \/ (n - 1 \in Nat /\ (n - 1) + 1 = n)
  BY SMT
<1>6. \A n \in Nat : n # 0 => g[n] = 2 * g[n - 1]
  BY <1>4, <1>5
<1>7. g = Run(g)
  BY <1>3, <1>6 DEF Runs
<1>8. Power = CHOOSE f : f = Run(f)
  BY DEF Power
<1>9. Power = Run(Power)
  BY <1>7, <1>8
<1> HIDE DEF Power
<1>10. \A n \in Nat : n + 1 \in Nat /\ n + 1 # 0 /\ (n + 1) - 1 = n
  BY SMT
<1>11. Power[0] = 1
  BY <1>9, SMT
<1>12. ASSUME NEW n \in Nat PROVE Power[n + 1] = 2 * Power[n]
  <2>1. Power[n + 1] = Run(Power)[n + 1]
    BY <1>9
  <2> QED
    BY <1>10, <2>1
<1> DEFINE G == {n \in Nat : Power[n] \in Nat}
<1>13. 0 \in G /\ \A n \in Nat : n \in G => n + 1 \in G
  BY <1>10, <1>11, <1>12, SMT
<1> HIDE DEF G
<1>14. \A n \in Nat : n \in G
  BY <1>13, Induction
<1> QED
  BY <1>11, <1>12, <1>14 DEF G

(* The loop of backoff_for(), round by round.  *)
LEMMA BackoffRounds ==
  ASSUME initial_ms \in Nat, max_ms \in Nat,
         NEW attempts \in Nat, NEW n \in Nat, n = attempts - 1
  PROVE  \E delay : /\ backoff_for(attempts) = IF delay[n] > max_ms THEN max_ms
                                              ELSE delay[n]
                    /\ delay[0] = initial_ms
                    /\ \A k \in 1..n :
                         delay[k] = IF delay[k - 1] < max_ms
                                    THEN 2 * delay[k - 1] ELSE delay[k - 1]
<1> DEFINE Round(x) == IF x < max_ms THEN 2 * x ELSE x
           F == [k \in Nat |-> [x \in Nat |-> Round(x)]]
           Run(f) == [k \in 0..(attempts - 1) |->
                        IF k = 0 THEN initial_ms ELSE Round(f[k - 1])]
           delay == CHOOSE f : f = Run(f)
<1>1. \A x \in Nat : Round(x) \in Nat
  BY SMT
<1>2. F \in Steps(Nat)
  BY <1>1 DEF Steps
<1>3. \A k \in 1..n, x \in Nat : F[k][x] = Round(x)
  BY SMT
<1>4. \A k \in 1..n : k - 1 \in 0..n /\ k \in 0..n /\ k # 0
  BY SMT
<1>5. \A k \in 0..n : k = 0 \/ k \in 1..n
  BY SMT
<1> HIDE DEF F, Round
<1>6. PICK h : RunsTo(n, h, Nat, initial_ms, F)
  BY <1>2, Rounds
<1>7. \A k \in 1..n : h[k] = Round(h[k - 1])
  BY <1>3, <1>4, <1>6, ZenonT(60) DEF RunsTo
<1>8. h = Run(h)
  BY <1>5, <1>6, <1>7 DEF RunsTo
<1>9. delay = Run(delay)
  BY <1>8
<1>10. backoff_for(attempts) = IF delay[attempts - 1] > max_ms THEN max_ms
                               ELSE delay[attempts - 1]
  BY DEF backoff_for, Round
<1> HIDE DEF delay
<1>11. 0 \in 0..n
  BY SMT
<1>12. delay[0] = initial_ms /\ \A k \in 1..n : delay[k] = Round(delay[k - 1])
  BY <1>4, <1>9, <1>11
<1> QED
  BY <1>10, <1>12 DEF Round

(* Doubled n times, or the maximum where that would be more.  *)
LEMMA BackoffDoubles ==
  ASSUME initial_ms \in Nat \ {0}, max_ms \in Nat, initial_ms <= max_ms,
         NEW attempts \in Nat \ {0}
  PROVE  LET doubled == initial_ms * Power[attempts - 1]
         IN  backoff_for(attempts) = IF doubled < max_ms THEN doubled
                                     ELSE max_ms
<1> DEFINE n == attempts - 1
<1>1. n \in Nat /\ attempts \in Nat
  BY SMT
<1>2. PICK delay : /\ backoff_for(attempts) = IF delay[n] > max_ms
                                              THEN max_ms ELSE delay[n]
                   /\ delay[0] = initial_ms
                   /\ \A k \in 1..n :
                        delay[k] = IF delay[k - 1] < max_ms
                                   THEN 2 * delay[k - 1] ELSE delay[k - 1]
  BY <1>1, BackoffRounds
<1> HIDE DEF n
<1> DEFINE doubled(k) == initial_ms * Power[k]
           Good(k) == /\ doubled(k) \in Nat /\ delay[k] \in Nat
                      /\ IF doubled(k) < max_ms THEN delay[k] = doubled(k)
                         ELSE delay[k] >= max_ms
           G == {k \in Nat : k <= n => Good(k)}
<1>3. 0 \in G
  BY <1>2, PowerRounds, SMT
<1>4. ASSUME NEW k \in Nat, k \in G PROVE k + 1 \in G
  <2> SUFFICES ASSUME k + 1 <= n PROVE Good(k + 1)
    BY SMT
  <2>1. Good(k)
    BY <1>1, <1>4, SMT
  <2>2. k + 1 \in 1..n /\ (k + 1) - 1 = k
    BY <1>1, SMT
  <2>3. delay[k + 1] = IF delay[k] < max_ms THEN 2 * delay[k] ELSE delay[k]
    BY <1>2, <2>2
  <2>4. doubled(k + 1) = 2 * doubled(k)
    <3>1. Power[k + 1] = 2 * Power[k] /\ Power[k] \in Nat
      BY PowerRounds
    <3> QED
      BY <3>1, SMT
  <2> HIDE DEF doubled
  <2> QED
    BY <2>1, <2>3, <2>4, SMT
<1> HIDE DEF G
<1>5. n \in G
  BY <1>1, <1>3, <1>4, Induction
<1>6. Good(n)
  BY <1>1, <1>5, SMT DEF G
<1> HIDE DEF doubled
<1>7. backoff_for(attempts) = IF doubled(n) < max_ms THEN doubled(n) ELSE max_ms
  BY <1>2, <1>6, SMT
<1> QED
  BY <1>7 DEF doubled, n

(* The n-th delay is the initial one doubled n - 1 times, or the maximum:    *)
(* for every configuration and any number of failures.                       *)
THEOREM BackoffExactAlways == RSpec => []BackoffExact
<1> DEFINE Conf == /\ initial_ms \in Nat \ {0} /\ max_ms \in Nat
                   /\ initial_ms <= max_ms /\ delays \in Seq(Nat)
           delayFor(n) == LET doubled == initial_ms * Power[n - 1]
                          IN  IF doubled < max_ms THEN doubled ELSE max_ms
           Inv == Conf /\ BackoffExact
<1>1. RInit => Inv
  BY ScheduleAssumption, SMT DEF RInit, BackoffExact
<1>2. Inv /\ [ScheduleRetry]_rvars => Inv'
  <2> SUFFICES ASSUME Conf, BackoffExact, [ScheduleRetry]_rvars
               PROVE  Conf' /\ BackoffExact'
    OBVIOUS
  <2>1. CASE UNCHANGED rvars
    BY <2>1 DEF rvars, BackoffExact
  <2>2. CASE ScheduleRetry
    <3> DEFINE m == Len(delays) + 1
               delay == backoff_for(m)
    <3>1. m \in Nat \ {0}
      BY SMT
    <3>2. delay = delayFor(m)
      BY <3>1, BackoffDoubles
    <3>3. delayFor(m) \in Nat
      <4>1. m - 1 \in Nat
        BY <3>1, SMT
      <4>2. Power[m - 1] \in Nat
        BY <4>1, PowerRounds
      <4> HIDE DEF m
      <4> QED
        BY <4>2, SMT
    <3>4. delays' = Append(delays, delay) /\ initial_ms' = initial_ms
          /\ max_ms' = max_ms
      BY <2>2 DEF ScheduleRetry
    <3> HIDE DEF delay
    <3>5. Conf'
      BY <3>2, <3>3, <3>4, SMT
    <3>6. ASSUME NEW n \in DOMAIN delays' PROVE delays'[n] = delayFor(n)
      <4>1. CASE n \in DOMAIN delays
        <5>1. delays'[n] = delays[n]
          BY <3>2, <3>3, <3>4, <4>1, SMT
        <5> QED
          BY <4>1, <5>1 DEF BackoffExact
      <4>2. CASE n = m
        <5>1. delays'[n] = delay
          BY <3>2, <3>3, <3>4, <4>2, SMT
        <5> QED
          BY <3>2, <4>2, <5>1
      <4> QED
        BY <3>2, <3>3, <3>4, <4>1, <4>2, SMT
    <3> QED
      BY <3>4, <3>5, <3>6 DEF BackoffExact
  <2> QED
    BY <2>1, <2>2
<1> QED
  BY <1>1, <1>2, PTL DEF RSpec

-----------------------------------------------------------------------------
(* Connections: what is on the wire.  *)

(* What the assumptions say of a message, in the form the proofs use.  *)
LEMMA Shape ==
  ASSUME NEW m \in Messages
  PROVE  /\ Len(m.headers) \in Nat /\ DOMAIN m.headers = 1..Len(m.headers)
         /\ Len(m.body) \in Nat
         /\ m.end = CRLF \/ m.end = <<"LF">>
         /\ m.blank = CRLF \/ m.blank = <<>>
         /\ \A k \in 1..(Len(m.headers) + 1) : Content(m, k) \notin {"CR", "LF"}
         /\ Complete(m) \/ \A i \in 1..Len(m.body) : m.body[i] # "CR"
         /\ m.endless \in BOOLEAN
<1>1. /\ m.headers \in Seq(Elements(m.headers))
      /\ m.body \in Seq(Elements(m.body))
      /\ m.end \in {CRLF, <<"LF">>} /\ m.blank \in {CRLF, <<>>}
      /\ ({m.line} \cup Elements(m.headers)) \cap {"CR", "LF"} = {}
      /\ Complete(m) \/ "CR" \notin Elements(m.body)
      /\ m.endless \in BOOLEAN
  BY MessagesAssumption
<1>2. /\ Len(m.headers) \in Nat /\ DOMAIN m.headers = 1..Len(m.headers)
      /\ Len(m.body) \in Nat /\ DOMAIN m.body = 1..Len(m.body)
  BY <1>1, SMT
<1>3. ASSUME NEW k \in 1..(Len(m.headers) + 1)
      PROVE  Content(m, k) \notin {"CR", "LF"}
  <2>1. k = 1 \/ k - 1 \in DOMAIN m.headers
    BY <1>2, SMT
  <2>2. Content(m, k) \in {m.line} \cup Elements(m.headers)
    BY <2>1 DEF Content, Elements
  <2> QED
    BY <1>1, <2>2
<1>4. ASSUME "CR" \notin Elements(m.body), NEW i \in 1..Len(m.body)
      PROVE  m.body[i] # "CR"
  BY <1>2, <1>4 DEF Elements
<1> QED
  BY <1>1, <1>2, <1>3, <1>4

(* The places of line k when its end is two symbols long, or one.  *)
LEMMA Threes ==
  ASSUME NEW k \in Nat \ {0}
  PROVE  /\ (3 * k - 2 - 1) % 3 = 0 /\ (3 * k - 2 - 1) \div 3 + 1 = k
         /\ (3 * k - 1 - 1) % 3 = 1 /\ (3 * k - 1) % 3 = 2
         /\ (3 * k) % 3 = 0 /\ (3 * k) \div 3 = k
BY SMT

(* A place is in the line of its group of three.  *)
LEMMA ByThrees ==
  ASSUME NEW n \in Nat, NEW i \in 1..(3 * n)
  PROVE  \E k \in 1..n : i = 3 * k - 2 \/ i = 3 * k - 1 \/ i = 3 * k
<1>1. (i - 1) \div 3 + 1 \in 1..n
  BY SMT
<1>2. LET k == (i - 1) \div 3 + 1 IN i = 3 * k - 2 \/ i = 3 * k - 1 \/ i = 3 * k
  BY SMT
<1> QED
  BY <1>1, <1>2

(* The two ways a line may end.  *)
LEMMA EndLengths ==
  Len(CRLF) = 2 /\ CRLF[1] = "CR" /\ CRLF[2] = "LF" /\ Len(<<"LF">>) = 1
BY SMT DEF CRLF

(* The lines of a head that ends them in CRLF.  *)
LEMMA LineSymbols ==
  ASSUME NEW m \in Messages, m.end = CRLF
  PROVE  LET n == Len(m.headers) + 1
         IN  /\ n \in Nat /\ n >= 1 /\ LinesLength(m) = 3 * n
             /\ \A k \in 1..n : /\ Symbol(m, 3 * k - 2) = Content(m, k)
                                /\ Symbol(m, 3 * k - 1) = "CR"
                                /\ Symbol(m, 3 * k) = "LF"
<1> DEFINE n == Len(m.headers) + 1
<1>1. n \in Nat /\ n >= 1 /\ 1 + Len(m.end) = 3
  BY Shape, EndLengths, SMT
<1>2. LinesLength(m) = 3 * n
  <2>1. LinesLength(m) = n * 3
    BY <1>1 DEF LinesLength
  <2> QED
    BY <1>1, <2>1, SMT
<1> HIDE DEF n
<1>3. ASSUME NEW k \in 1..n
      PROVE  /\ Symbol(m, 3 * k - 2) = Content(m, k)
             /\ Symbol(m, 3 * k - 1) = "CR"
             /\ Symbol(m, 3 * k) = "LF"
  <2>1. k \in Nat \ {0} /\ 3 * k - 2 <= 3 * n /\ 3 * k - 1 <= 3 * n /\ 3 * k <= 3 * n
    BY <1>1, SMT
  <2>2. Symbol(m, 3 * k - 2) = Content(m, k)
    BY <1>1, <1>2, <2>1, Threes DEF Symbol
  <2>3. Symbol(m, 3 * k - 1) = m.end[1]
    <3>1. 1 # 0
      BY SMT
    <3> QED
      BY <1>1, <1>2, <2>1, <3>1, Threes DEF Symbol
  <2>4. Symbol(m, 3 * k) = m.end[2]
    <3>1. 2 # 0
      BY SMT
    <3> QED
      BY <1>1, <1>2, <2>1, <3>1, Threes DEF Symbol
  <2> QED
    BY <2>2, <2>3, <2>4, EndLengths
<1> QED
  BY <1>1, <1>2, <1>3 DEF n

(* What was read is the beginning of what is sent.  *)
Stream(m) == {Symbol(m, i) : i \in Nat}

Received(m, b) ==
  b \in Seq(Stream(m)) /\ \A i \in 1..Len(b) : b[i] = Symbol(m, i)

Joined(b, d) == b \o d

(* What is appended comes after what was there.  *)
LEMMA Concat ==
  ASSUME NEW S, NEW b \in Seq(S), NEW d \in Seq(S), NEW k \in Nat, Len(d) = k
  PROVE  /\ Joined(b, d) \in Seq(S) /\ Len(Joined(b, d)) = Len(b) + k
         /\ \A i \in 1..Len(b) : Joined(b, d)[i] = b[i]
         /\ \A i \in (Len(b) + 1)..(Len(b) + k) :
              i - Len(b) \in 1..k /\ Joined(b, d)[i] = d[i - Len(b)]
BY SMT DEF Joined

(* What was read and the part that comes next are what was read then.  *)
LEMMA Arrive ==
  ASSUME NEW m, NEW b, Received(m, b), NEW k \in Nat
  PROVE  LET chunk == Part(m, Len(b), k)
         IN  /\ Received(m, Joined(b, chunk)) /\ Len(chunk) = k
             /\ Len(Joined(b, chunk)) = Len(b) + k
<1> DEFINE chunk == Part(m, Len(b), k)
           c == Joined(b, chunk)
<1>1. b \in Seq(Stream(m)) /\ \A i \in 1..Len(b) : b[i] = Symbol(m, i)
  BY DEF Received
<1>2. Len(b) \in Nat
  BY <1>1, SMT
<1>3. \A i \in 1..k : Len(b) + i \in Nat
  BY <1>2, SMT
<1>4. chunk \in [1..k -> Stream(m)]
  BY <1>3 DEF Stream, Part
<1>5. \A i \in 1..k : chunk[i] = Symbol(m, Len(b) + i)
  BY DEF Part
<1> HIDE DEF chunk
<1>6. chunk \in Seq(Stream(m)) /\ Len(chunk) = k
  BY <1>4, SMT
<1>7. /\ c \in Seq(Stream(m)) /\ Len(c) = Len(b) + k
      /\ \A i \in 1..Len(b) : c[i] = b[i]
      /\ \A i \in (Len(b) + 1)..(Len(b) + k) :
           i - Len(b) \in 1..k /\ c[i] = chunk[i - Len(b)]
  BY <1>1, <1>6, Concat, ZenonT(60)
<1> HIDE DEF c
<1>8. ASSUME NEW i \in (Len(b) + 1)..(Len(b) + k)
      PROVE  c[i] = Symbol(m, i)
  <2>1. Len(b) + (i - Len(b)) = i
    BY <1>2, SMT
  <2> QED
    BY <1>5, <1>7, <2>1
<1>9. \A i \in 1..Len(c) : i \in 1..Len(b) \/ i \in (Len(b) + 1)..(Len(b) + k)
  BY <1>2, <1>7, SMT
<1>10. Received(m, c)
  BY <1>1, <1>7, <1>8, <1>9 DEF Received
<1> QED
  BY <1>6, <1>7, <1>10 DEF chunk, c

(* A complete head is lines of one content, CR and LF, and a blank line.  *)
LEMMA HeadSymbols ==
  ASSUME NEW m \in Messages, Complete(m)
  PROVE  LET n == Len(m.headers) + 1
         IN  /\ HeadLength(m) = 3 * n + 2
             /\ Symbol(m, 3 * n + 1) = "CR" /\ Symbol(m, 3 * n + 2) = "LF"
<1> DEFINE n == Len(m.headers) + 1
<1>1. m.end = CRLF /\ m.blank = CRLF
  BY DEF Complete
<1>2. n \in Nat /\ LinesLength(m) = 3 * n
  BY <1>1, LineSymbols
<1> HIDE DEF n
<1>3. HeadLength(m) = 3 * n + 2
  BY <1>1, <1>2, EndLengths DEF HeadLength
<1>4. /\ ~(3 * n + 1 <= 3 * n) /\ 3 * n + 1 <= 3 * n + 2 /\ (3 * n + 1) - 3 * n = 1
      /\ ~(3 * n + 2 <= 3 * n) /\ 3 * n + 2 <= 3 * n + 2 /\ (3 * n + 2) - 3 * n = 2
  BY <1>2, SMT
<1>5. Symbol(m, 3 * n + 1) = m.blank[1] /\ Symbol(m, 3 * n + 2) = m.blank[2]
  BY <1>2, <1>3, <1>4 DEF Symbol
<1> QED
  BY <1>1, <1>3, <1>5, EndLengths DEF n

(* The first CRLFCRLF of a complete message ends its head ...  *)
LEMMA EndsComplete ==
  ASSUME NEW m \in Messages, Complete(m), NEW b, Received(m, b)
  PROVE  /\ HeadLength(m) \in Nat /\ Len(b) \in Nat
         /\ \A i \in Ends(b) : i \in 1..(Len(b) - 3) /\ i >= HeadLength(m) - 3
         /\ Len(b) >= HeadLength(m) => HeadLength(m) - 3 \in Ends(b)
<1> DEFINE n == Len(m.headers) + 1
<1>1. m.end = CRLF
  BY DEF Complete
<1>2. /\ n \in Nat /\ n >= 1
      /\ \A k \in 1..n : /\ Symbol(m, 3 * k - 2) = Content(m, k)
                         /\ Symbol(m, 3 * k - 1) = "CR"
                         /\ Symbol(m, 3 * k) = "LF"
  BY <1>1, LineSymbols
<1>3. /\ HeadLength(m) = 3 * n + 2
      /\ Symbol(m, 3 * n + 1) = "CR" /\ Symbol(m, 3 * n + 2) = "LF"
  BY HeadSymbols
<1>4. \A k \in 1..n : Content(m, k) \notin {"CR", "LF"}
  BY Shape
<1>5. Len(b) \in Nat /\ \A i \in 1..Len(b) : b[i] = Symbol(m, i)
  <2>1. b \in Seq(Stream(m)) /\ \A i \in 1..Len(b) : b[i] = Symbol(m, i)
    BY DEF Received
  <2> QED
    BY <2>1, SMT
<1> HIDE DEF n
<1>6. HeadLength(m) \in Nat
  BY <1>2, <1>3, SMT
<1>7. ASSUME NEW i \in Ends(b), ~(i >= HeadLength(m) - 3) PROVE FALSE
  <2>1. i \in 1..(Len(b) - 3) /\ b[i] = "CR" /\ b[i + 2] = "CR"
    BY DEF Ends
  <2>2. i \in 1..Len(b) /\ i + 2 \in 1..Len(b) /\ i \in 1..(3 * n) /\ i < 3 * n - 1
    BY <1>2, <1>3, <1>5, <1>7, <2>1, SMT
  <2>3. Symbol(m, i) = "CR" /\ Symbol(m, i + 2) = "CR"
    BY <1>5, <2>1, <2>2
  <2>4. PICK k \in 1..n : i = 3 * k - 2 \/ i = 3 * k - 1 \/ i = 3 * k
    BY <1>2, <2>2, ByThrees
  <2>5. i = 3 * k - 1
    <3>1. "CR" # "LF"
      OBVIOUS
    <3> QED
      BY <1>2, <1>4, <2>3, <2>4, <3>1
  <2>6. k + 1 \in 1..n /\ i + 2 = 3 * (k + 1) - 2
    BY <1>2, <2>2, <2>5, SMT
  <2> QED
    BY <1>2, <1>4, <2>3, <2>6
<1>8. ASSUME Len(b) >= HeadLength(m) PROVE HeadLength(m) - 3 \in Ends(b)
  <2> DEFINE i == 3 * n - 1
  <2>1. i = HeadLength(m) - 3 /\ i \in 1..(Len(b) - 3) /\ n \in 1..n
    BY <1>2, <1>3, <1>5, <1>8, SMT
  <2>2. /\ i + 1 = 3 * n /\ i + 2 = 3 * n + 1 /\ i + 3 = 3 * n + 2
        /\ {i, i + 1, i + 2, i + 3} \subseteq 1..Len(b)
    BY <1>2, <1>3, <1>5, <1>8, SMT
  <2>3. b[i] = "CR" /\ b[i + 1] = "LF" /\ b[i + 2] = "CR" /\ b[i + 3] = "LF"
    BY <1>2, <1>3, <1>5, <2>1, <2>2
  <2> QED
    BY <2>1, <2>3 DEF Ends
<1> QED
  BY <1>5, <1>6, <1>7, <1>8 DEF Ends

(* ... and there is none in any other.  *)
LEMMA EndsIncomplete ==
  ASSUME NEW m \in Messages, ~Complete(m), NEW b, Received(m, b)
  PROVE  Ends(b) = {} /\ Len(b) \in Nat
<1>1. Len(b) \in Nat /\ \A i \in 1..Len(b) : b[i] = Symbol(m, i)
  <2>1. b \in Seq(Stream(m)) /\ \A i \in 1..Len(b) : b[i] = Symbol(m, i)
    BY DEF Received
  <2> QED
    BY <2>1, SMT
<1> SUFFICES ASSUME NEW i \in Ends(b) PROVE FALSE
  BY <1>1
<1>2. i \in Nat \ {0} /\ Symbol(m, i) = "CR" /\ Symbol(m, i + 2) = "CR"
  <2>1. i \in 1..(Len(b) - 3) /\ b[i] = "CR" /\ b[i + 2] = "CR"
    BY DEF Ends
  <2>2. i \in Nat \ {0} /\ i \in 1..Len(b) /\ i + 2 \in 1..Len(b)
    BY <1>1, <2>1, SMT
  <2> QED
    BY <1>1, <2>1, <2>2
<1> DEFINE n == Len(m.headers) + 1
<1>3. /\ n \in Nat /\ n >= 1 /\ Len(m.body) \in Nat
      /\ \A k \in 1..n : Content(m, k) # "CR"
      /\ \A k \in 1..Len(m.body) : m.body[k] # "CR"
  BY Shape, SMT
<1>4. ASSUME NEW j \in Nat \ {0}, ~(j <= HeadLength(m)), HeadLength(m) \in Nat,
             ~(j <= LinesLength(m))
      PROVE  Symbol(m, j) # "CR"
  <2>1. WireLength(m) = HeadLength(m) + Len(m.body)
    BY DEF WireLength
  <2>2. j <= WireLength(m) => j - HeadLength(m) \in 1..Len(m.body)
    BY <1>3, <1>4, <2>1, SMT
  <2>3. "x" # "CR"
    OBVIOUS
  <2> QED
    BY <1>3, <1>4, <2>2, <2>3 DEF Symbol
<1>5. CASE m.end = CRLF
  <2>1. m.blank = <<>>
    BY <1>5, Shape DEF Complete
  <2>2. /\ LinesLength(m) = 3 * n
        /\ \A k \in 1..n : /\ Symbol(m, 3 * k - 2) = Content(m, k)
                           /\ Symbol(m, 3 * k) = "LF"
    BY <1>5, LineSymbols
  <2>3. HeadLength(m) = 3 * n
    <3>1. HeadLength(m) = 3 * n + Len(<<>>)
      BY <2>1, <2>2 DEF HeadLength
    <3> QED
      BY <1>3, <3>1, SMT
  <2> HIDE DEF n
  <2>4. i \in 1..(3 * n)
    BY <1>2, <1>3, <1>4, <2>2, <2>3, SMT
  <2>5. PICK k \in 1..n : i = 3 * k - 2 \/ i = 3 * k - 1 \/ i = 3 * k
    BY <1>3, <2>4, ByThrees
  <2>6. i = 3 * k - 1
    <3>1. "CR" # "LF"
      OBVIOUS
    <3> QED
      BY <1>2, <1>3, <2>2, <2>5, <3>1
  <2>7. CASE k < n
    <3>1. k + 1 \in 1..n /\ i + 2 = 3 * (k + 1) - 2
      BY <1>3, <2>6, <2>7, SMT
    <3> QED
      BY <1>2, <1>3, <2>2, <3>1
  <2>8. CASE ~(k < n)
    <3>1. /\ i + 2 \in Nat \ {0} /\ ~(i + 2 <= 3 * n) /\ 3 * n \in Nat
      BY <1>3, <2>6, <2>8, SMT
    <3> QED
      BY <1>2, <1>4, <2>2, <2>3, <3>1
  <2> QED
    BY <2>7, <2>8
<1>6. CASE m.end = <<"LF">>
  <2>1. 1 + Len(m.end) = 2 /\ m.end[1] = "LF"
    BY <1>6, SMT
  <2>2. LinesLength(m) = n * 2
    BY <2>1 DEF LinesLength
  <2>3. HeadLength(m) = n * 2 \/ HeadLength(m) = n * 2 + 2
    <3>1. Len(m.blank) = 0 \/ Len(m.blank) = 2
      BY Shape, EndLengths, SMT
    <3>2. HeadLength(m) = n * 2 + Len(m.blank)
      BY <2>2 DEF HeadLength
    <3> HIDE DEF n
    <3>3. n * 2 + 0 = n * 2
      BY <1>3, SMT
    <3> QED
      BY <3>1, <3>2, <3>3
  <2> HIDE DEF n
  <2>4. ASSUME NEW j \in Nat \ {0}, j <= n * 2 PROVE Symbol(m, j) # "CR"
    <3>1. (j - 1) % 2 \in 0..1 /\ (j - 1) \div 2 + 1 \in 1..n
      BY <1>3, <2>4, SMT
    <3>2. Symbol(m, j) = IF (j - 1) % 2 = 0 THEN Content(m, (j - 1) \div 2 + 1)
                         ELSE m.end[(j - 1) % 2]
      BY <2>1, <2>2, <2>4 DEF Symbol
    <3>3. (j - 1) % 2 = 0 \/ (j - 1) % 2 = 1
      BY <3>1, SMT
    <3>4. "CR" # "LF"
      OBVIOUS
    <3> QED
      BY <1>3, <2>1, <3>1, <3>2, <3>3, <3>4
  <2>5. ~(i <= n * 2) /\ ~(i + 2 <= HeadLength(m)) /\ i + 2 \in Nat \ {0}
        /\ HeadLength(m) \in Nat /\ ~(i + 2 <= n * 2)
    BY <1>2, <1>3, <2>3, <2>4, SMT
  <2> QED
    BY <1>2, <1>4, <2>2, <2>5
<1> QED
  BY <1>5, <1>6, Shape

(* The head of a message, parsed whole.  *)
HeadOf(m) ==
  [method |-> RequestLines[m.line].method, target |-> RequestLines[m.line].target,
   headers |-> [k \in 1..Len(m.headers) |-> HeaderLines[m.headers[k]]],
   len |-> HeadLength(m)]

(* parse_request_head() makes of a complete head what its lines say.  *)
LEMMA ParseLinesExact ==
  ASSUME NEW m \in Messages, Complete(m), NEW b, Received(m, b),
         Len(b) >= HeadLength(m), NEW last, last = HeadLength(m) - 2
  PROVE  ParseLines(b, last) = IF WellFormed(m)
                               THEN [state |-> "Ok", request |-> HeadOf(m)]
                               ELSE Unparsed("Bad")
<1> DEFINE n == Len(m.headers) + 1
           c == Len(m.headers)
           content(k) == b[3 * k - 2]
           count == last \div 3 - 1
           header(k) == HeaderLines[content(k + 1)]
           good == /\ last % 3 = 0
                   /\ \A k \in 1..(count + 1) :
                        b[3 * k - 1] = "CR" /\ b[3 * k] = "LF"
                   /\ content(1) \in DOMAIN RequestLines
                   /\ \A k \in 1..count : content(k + 1) \in DOMAIN HeaderLines
                   /\ count <= max_headers
                   /\ \A j, k \in 1..count : j # k => header(j).key # header(k).key
           headers == [k \in 1..count |-> header(k)]
           request == [method |-> RequestLines[content(1)].method,
                       target |-> RequestLines[content(1)].target,
                       headers |-> headers, len |-> last + 2]
<1>1. ParseLines(b, last) = IF good THEN [state |-> "Ok", request |-> request]
                            ELSE Unparsed("Bad")
  BY DEF ParseLines
<1>2. m.end = CRLF
  BY DEF Complete
<1>3. /\ n \in Nat /\ n >= 1
      /\ \A k \in 1..n : /\ Symbol(m, 3 * k - 2) = Content(m, k)
                         /\ Symbol(m, 3 * k - 1) = "CR"
                         /\ Symbol(m, 3 * k) = "LF"
  BY <1>2, LineSymbols
<1>4. HeadLength(m) = 3 * n + 2
  BY HeadSymbols
<1>5. Len(b) \in Nat /\ \A i \in 1..Len(b) : b[i] = Symbol(m, i)
  <2>1. b \in Seq(Stream(m)) /\ \A i \in 1..Len(b) : b[i] = Symbol(m, i)
    BY DEF Received
  <2> QED
    BY <2>1, SMT
<1>6. c \in Nat /\ n = c + 1 /\ DOMAIN m.headers = 1..c
  BY Shape
<1> HIDE DEF n, c
<1>7. last = 3 * n /\ last + 2 = HeadLength(m) /\ n \in Nat \ {0}
  BY <1>3, <1>4, SMT
<1>8. last % 3 = 0 /\ last \div 3 = n
  BY <1>7, Threes
<1>9. count = c /\ count + 1 = n
  BY <1>6, <1>8, SMT
<1> HIDE DEF count
<1>10. ASSUME NEW k \in 1..n
       PROVE  content(k) = Content(m, k) /\ b[3 * k - 1] = "CR" /\ b[3 * k] = "LF"
  <2>1. {3 * k - 2, 3 * k - 1, 3 * k} \subseteq 1..Len(b)
    BY <1>3, <1>4, <1>5, SMT
  <2> QED
    BY <1>3, <1>5, <2>1
<1>11. content(1) = m.line
  <2>1. 1 \in 1..n
    BY <1>3, SMT
  <2>2. content(1) = Content(m, 1)
    BY <1>10, <2>1
  <2> QED
    BY <2>2 DEF Content
<1>12. ASSUME NEW k \in 1..c
       PROVE  content(k + 1) = m.headers[k] /\ header(k) = HeaderLines[m.headers[k]]
  <2>1. k + 1 \in 1..n /\ k + 1 # 1 /\ (k + 1) - 1 = k
    BY <1>6, SMT
  <2>2. content(k + 1) = Content(m, k + 1)
    BY <1>10, <2>1
  <2> QED
    BY <2>1, <2>2 DEF Content
<1> HIDE DEF content
<1>13. headers = [k \in 1..c |-> HeaderLines[m.headers[k]]]
  BY <1>9, <1>12
<1>14. request = HeadOf(m)
  BY <1>7, <1>11, <1>13 DEF HeadOf, c
<1>15. good <=> WellFormed(m)
  <2>1. /\ last % 3 = 0
        /\ \A k \in 1..(count + 1) : b[3 * k - 1] = "CR" /\ b[3 * k] = "LF"
    BY <1>8, <1>9, <1>10
  <2>2. (\A k \in 1..count : content(k + 1) \in DOMAIN HeaderLines)
          <=> \A k \in 1..c : m.headers[k] \in DOMAIN HeaderLines
    BY <1>9, <1>12
  <2>3. (\A j, k \in 1..count : j # k => header(j).key # header(k).key)
          <=> \A j, k \in 1..c : HeaderLines[m.headers[j]].key =
                                   HeaderLines[m.headers[k]].key => j = k
    <3>1. \A k \in 1..c : header(k).key = HeaderLines[m.headers[k]].key
      BY <1>12
    <3> HIDE DEF header
    <3>2. 1..count = 1..c
      BY <1>9
    <3> QED
      BY <3>1, <3>2, ZenonT(60)
  <2> HIDE DEF header
  <2> QED
    BY <1>6, <1>9, <1>11, <2>1, <2>2, <2>3 DEF WellFormed, c
<1> HIDE DEF good, request
<1> QED
  BY <1>1, <1>14, <1>15

(* What is made of what was read.  *)
LEMMA ParseComplete ==
  ASSUME NEW m \in Messages, Complete(m), NEW b, Received(m, b)
  PROVE  parse_request_head(b) =
           IF ~(Len(b) >= HeadLength(m))
           THEN Unparsed(IF Len(b) > max_head_bytes THEN "TooLarge" ELSE "NeedMore")
           ELSE IF HeadLength(m) > max_head_bytes THEN Unparsed("TooLarge")
           ELSE IF WellFormed(m) THEN [state |-> "Ok", request |-> HeadOf(m)]
           ELSE Unparsed("Bad")
<1>1. /\ HeadLength(m) \in Nat /\ Len(b) \in Nat
      /\ \A i \in Ends(b) : i \in 1..(Len(b) - 3) /\ i >= HeadLength(m) - 3
      /\ Len(b) >= HeadLength(m) => HeadLength(m) - 3 \in Ends(b)
  BY EndsComplete
<1>2. CASE ~(Len(b) >= HeadLength(m))
  <2>1. Ends(b) = {}
    BY <1>1, <1>2, SMT
  <2> QED
    BY <1>2, <2>1 DEF parse_request_head
<1>3. CASE Len(b) >= HeadLength(m)
  <2> DEFINE end == CHOOSE i \in Ends(b) : \A j \in Ends(b) : i <= j
  <2>1. \A j \in Ends(b) : HeadLength(m) - 3 <= j
    BY <1>1, SMT
  <2>2. end \in Ends(b) /\ \A j \in Ends(b) : end <= j
    BY <1>1, <1>3, <2>1
  <2>3. parse_request_head(b) =
          IF end + 3 > max_head_bytes THEN Unparsed("TooLarge")
          ELSE ParseLines(b, end + 1)
    BY <2>2 DEF parse_request_head
  <2> HIDE DEF end
  <2>4. end = HeadLength(m) - 3
    BY <1>1, <1>3, <2>2, SMT
  <2>5. end + 3 = HeadLength(m) /\ end + 1 = HeadLength(m) - 2
    BY <1>1, <2>4, SMT
  <2>6. ParseLines(b, end + 1) = IF WellFormed(m)
                                 THEN [state |-> "Ok", request |-> HeadOf(m)]
                                 ELSE Unparsed("Bad")
    BY <1>3, <2>5, ParseLinesExact
  <2> QED
    BY <1>3, <2>3, <2>5, <2>6
<1> QED
  BY <1>2, <1>3

(* A head that is never completed is waited for, up to the cap.  *)
LEMMA ParseIncomplete ==
  ASSUME NEW m \in Messages, ~Complete(m), NEW b, Received(m, b)
  PROVE  parse_request_head(b) =
           Unparsed(IF Len(b) > max_head_bytes THEN "TooLarge" ELSE "NeedMore")
BY EndsIncomplete DEF parse_request_head

(* The leading digits are digits, and are all there is if nothing else is.  *)
LEMMA LeadingDigits ==
  ASSUME NEW value \in Seq(-1..9)
  PROVE  /\ Leading(value) \in Seq(0..9)
         /\ Leading(value) = value <=> ~ \E k \in DOMAIN value : value[k] = -1
<1> DEFINE stops == {k \in DOMAIN value : value[k] = -1}
           first == CHOOSE k \in stops : \A j \in stops : k <= j
<1>1. /\ Len(value) \in Nat /\ DOMAIN value = 1..Len(value)
      /\ \A k \in 1..Len(value) : value[k] \in -1..9
  BY SMT
<1>2. CASE stops = {}
  <2>1. Leading(value) = value
    BY <1>2 DEF Leading
  <2>2. \A k \in 1..Len(value) : value[k] \in 0..9
    BY <1>1, <1>2, SMT
  <2>3. value \in Seq(0..9)
    BY <2>2, SMT
  <2> QED
    BY <1>2, <2>1, <2>3
<1>3. CASE stops # {}
  <2>1. stops \subseteq Nat
    BY <1>1, SMT
  <2> HIDE DEF stops
  <2>2. \E k \in stops : \A j \in stops : k <= j
    BY <1>3, <2>1, Least
  <2>3. first \in stops /\ \A j \in stops : first <= j
    BY <2>2
  <2>4. Leading(value) = SubSeq(value, 1, first - 1)
    BY <1>3 DEF Leading, stops
  <2> HIDE DEF first
  <2>5. first \in 1..Len(value) /\ \A k \in 1..(first - 1) : value[k] # -1
    <3>1. first \in 1..Len(value) /\ value[first] = -1
      BY <1>1, <2>3 DEF stops
    <3>2. ASSUME NEW k \in 1..(first - 1), value[k] = -1 PROVE FALSE
      <4>1. k \in 1..Len(value) /\ ~(first <= k)
        BY <1>1, <3>1, SMT
      <4> QED
        BY <1>1, <2>3, <3>2, <4>1 DEF stops
    <3> QED
      BY <3>1, <3>2
  <2>6. /\ SubSeq(value, 1, first - 1) \in Seq(-1..9)
        /\ Len(SubSeq(value, 1, first - 1)) = first - 1
        /\ \A k \in 1..(first - 1) : SubSeq(value, 1, first - 1)[k] = value[k]
    BY <1>1, <2>5, SMT
  <2>7. \A k \in 1..(first - 1) : value[k] \in 0..9
    BY <1>1, <2>5, SMT
  <2>8. Leading(value) \in Seq(0..9) /\ Leading(value) # value
    BY <1>1, <2>4, <2>5, <2>6, <2>7, SMT
  <2> QED
    BY <1>3, <2>8 DEF stops
<1> QED
  BY <1>2, <1>3

Refusal(status) == [ok |-> FALSE, length |-> 0, status |-> status]

(* The declared length is judged as the message declares it.  *)
LEMMA LengthExact ==
  ASSUME NEW m \in Messages, WellFormed(m)
  PROVE  /\ Declared(m) = -1 \/ Declared(m) \in Nat
         /\ content_length_for(HeadOf(m).headers) =
              IF Says(m, "transfer-encoding") # {} \/ Declared(m) = -1
              THEN Refusal(400)
              ELSE IF Declared(m) > max_body_bytes THEN Refusal(413)
              ELSE [ok |-> TRUE, length |-> Declared(m), status |-> 0]
<1> DEFINE hs == [k \in 1..Len(m.headers) |-> HeaderLines[m.headers[k]]]
           has(key) == \E k \in DOMAIN hs : hs[k].key = key
           at == CHOOSE k \in DOMAIN hs : hs[k].key = "content-length"
           at2 == CHOOSE k \in Says(m, "content-length") : TRUE
           value == HeaderLines[m.headers[at2]].value
           leading == ValueOf(Leading(value))
           parsed == accumulate(Leading(value), SizeMax)
<1>1. HeadOf(m).headers = hs
  BY DEF HeadOf
<1>2. /\ DOMAIN m.headers = 1..Len(m.headers)
      /\ \A k \in DOMAIN hs : hs[k] = HeaderLines[m.headers[k]]
      /\ DOMAIN hs = DOMAIN m.headers
  BY Shape
<1>3. \A key : has(key) <=> Says(m, key) # {}
  BY <1>2 DEF Says
<1>4. content_length_for(hs) =
        IF has("transfer-encoding") THEN Refusal(400)
        ELSE IF ~has("content-length")
        THEN [ok |-> TRUE, length |-> 0, status |-> 0]
        ELSE IF hs[at].value = <<>> THEN Refusal(400)
        ELSE IF accumulate(Leading(hs[at].value), SizeMax) = -1 THEN Refusal(413)
        ELSE IF Leading(hs[at].value) # hs[at].value THEN Refusal(400)
        ELSE IF accumulate(Leading(hs[at].value), SizeMax) > max_body_bytes
        THEN Refusal(413)
        ELSE [ok |-> TRUE, length |-> accumulate(Leading(hs[at].value), SizeMax),
              status |-> 0]
  BY DEF content_length_for, Refusal
<1>5. Declared(m) = IF Says(m, "content-length") = {} THEN 0
                    ELSE IF leading > SizeMax THEN leading
                    ELSE IF value = <<>> \/ \E k \in DOMAIN value : value[k] = -1
                    THEN -1 ELSE leading
  BY DEF Declared
<1>6. /\ max_body_bytes \in Nat /\ SizeMax \in Nat /\ max_body_bytes <= SizeMax
      /\ 0 <= max_body_bytes /\ 0 # -1 /\ 0 \in Nat
  BY HttpAssumption, SMT
<1>7. CASE Says(m, "content-length") = {}
  <2>1. ~(0 > max_body_bytes)
    BY <1>6, SMT
  <2> HIDE DEF hs, has, at, value, parsed, leading
  <2> QED
    BY <1>1, <1>3, <1>4, <1>5, <1>6, <1>7, <2>1, ZenonT(60)
<1>8. CASE Says(m, "content-length") # {}
  <2>1. at2 \in Says(m, "content-length")
    BY <1>8
  <2>2. at \in DOMAIN hs /\ hs[at].key = "content-length"
    BY <1>3, <1>8
  <2> HIDE DEF at, at2
  <2>3. at2 \in DOMAIN m.headers /\ HeaderLines[m.headers[at2]].key = "content-length"
    BY <2>1 DEF Says
  <2>4. at = at2
    BY <1>2, <2>2, <2>3 DEF WellFormed
  <2>5. hs[at].value = value
    BY <1>2, <2>2, <2>4
  <2>6. value \in Seq(-1..9)
    BY <2>3, HttpAssumption DEF WellFormed
  <2> HIDE DEF hs, has, value
  <2>7. /\ Leading(value) \in Seq(0..9)
        /\ Leading(value) = value <=> ~ \E k \in DOMAIN value : value[k] = -1
    BY <2>6, LeadingDigits
  <2>8. leading \in Nat /\ parsed = IF leading > SizeMax THEN -1 ELSE leading
    BY <1>6, <2>7, AccumulateExact
  <2>9. content_length_for(hs) =
          IF has("transfer-encoding") THEN Refusal(400)
          ELSE IF value = <<>> THEN Refusal(400)
          ELSE IF parsed = -1 THEN Refusal(413)
          ELSE IF Leading(value) # value THEN Refusal(400)
          ELSE IF parsed > max_body_bytes THEN Refusal(413)
          ELSE [ok |-> TRUE, length |-> parsed, status |-> 0]
    BY <1>3, <1>4, <1>8, <2>5, ZenonT(60)
  <2>10. /\ leading # -1
         /\ leading > SizeMax => leading > max_body_bytes
    BY <1>6, <2>8, SMT
  <2>11. value = <<>> => ~(leading > SizeMax)
    <3> SUFFICES ASSUME value = <<>> PROVE leading = 0
      BY <1>6, <2>8, SMT
    <3>1. Leading(value) = <<>>
      <4>1. DOMAIN value = {}
        BY SMT
      <4> QED
        BY <2>7, <4>1
    <3>2. 0 \in Nat /\ <<>> \in [1..0 -> 0..9] /\ Len(<<>>) = 0
      BY SMT
    <3> QED
      BY <3>1, <3>2, ValueRounds, ZenonT(60)
  <2> HIDE DEF parsed, leading
  <2>12. has("transfer-encoding") <=> Says(m, "transfer-encoding") # {}
    BY <1>3
  <2> DEFINE odd == value = <<>> \/ \E k \in DOMAIN value : value[k] = -1
  <2>13. odd <=> value = <<>> \/ Leading(value) # value
    BY <2>7
  <2>14. Declared(m) = IF leading > SizeMax THEN leading
                       ELSE IF odd THEN -1 ELSE leading
    BY <1>5, <1>8
  <2> HIDE DEF odd, has
  <2>15. CASE leading > SizeMax
    <3>1. /\ parsed = -1 /\ Declared(m) = leading /\ value # <<>>
          /\ leading > max_body_bytes
      BY <2>8, <2>10, <2>11, <2>14, <2>15
    <3> QED
      BY <1>1, <2>8, <2>9, <2>10, <2>12, <3>1
  <2>16. CASE ~(leading > SizeMax) /\ odd
    <3>1. parsed = leading /\ Declared(m) = -1
      BY <2>8, <2>14, <2>16
    <3>2. parsed # -1
      BY <2>10, <3>1
    <3>3. content_length_for(hs) = Refusal(400)
      BY <2>9, <2>13, <2>16, <3>2
    <3> QED
      BY <1>1, <3>1, <3>3
  <2>17. CASE ~(leading > SizeMax) /\ ~odd
    <3>1. parsed = leading /\ Declared(m) = leading
      BY <2>8, <2>14, <2>17
    <3> QED
      BY <1>1, <2>8, <2>9, <2>10, <2>12, <2>13, <2>17, <3>1, ZenonT(60)
  <2> QED
    BY <2>15, <2>16, <2>17
<1> QED
  BY <1>7, <1>8

-----------------------------------------------------------------------------
(* Connections: the handler.  *)

(* The first half of ConnectionBounded.  *)
BufferBound == Len(buffer) <= BufferCap

HttpInv ==
  /\ message \in Messages /\ Received(message, buffer)
  /\ message.endless \/ Len(buffer) <= WireLength(message)
  /\ hpc # "done" => call = "none" /\ gave_up = FALSE
  /\ hpc = "head" => head = Nothing /\ reply = 0
  /\ hpc = "body" => /\ Admitted(message) /\ head = HeadOf(message)
                     /\ remaining \in Nat
                     /\ Len(buffer) + remaining =
                          HeadLength(message) + Declared(message)
  /\ BufferBound /\ RepliesAsSent

(* What each answer of the parser says of the message.  *)
LEMMA ParseStates ==
  ASSUME NEW m \in Messages, NEW b, Received(m, b)
  PROVE  LET parsed == parse_request_head(b)
         IN  /\ parsed.state = "NeedMore" => Len(b) <= max_head_bytes
             /\ parsed.state = "TooLarge" =>
                  ~Complete(m) \/ HeadLength(m) > max_head_bytes
             /\ parsed.state = "Bad" => /\ Complete(m) /\ ~WellFormed(m)
                                        /\ HeadLength(m) <= max_head_bytes
             /\ parsed.state = "Ok" => /\ Complete(m) /\ WellFormed(m)
                                       /\ HeadLength(m) <= max_head_bytes
                                       /\ Len(b) >= HeadLength(m)
                                       /\ parsed.request = HeadOf(m)
<1> DEFINE parsed == parse_request_head(b)
<1>1. \A state : Unparsed(state).state = state
  BY DEF Unparsed
<1>2. max_head_bytes \in Nat
  BY HttpAssumption
<1>3. CASE ~Complete(m)
  <2>1. parsed = Unparsed(IF Len(b) > max_head_bytes THEN "TooLarge" ELSE "NeedMore")
    BY <1>3, ParseIncomplete
  <2>2. Len(b) \in Nat
    BY <1>3, EndsIncomplete
  <2> HIDE DEF parsed
  <2>3. CASE Len(b) > max_head_bytes
    <3>1. parsed.state = "TooLarge"
      BY <1>1, <2>1, <2>3
    <3> QED
      BY <1>3, <3>1 DEF parsed
  <2>4. CASE ~(Len(b) > max_head_bytes)
    <3>1. parsed.state = "NeedMore" /\ Len(b) <= max_head_bytes
      <4>1. Len(b) <= max_head_bytes
        BY <1>2, <2>2, <2>4, SMT
      <4> QED
        BY <1>1, <2>1, <2>4, <4>1
    <3> QED
      BY <3>1 DEF parsed
  <2> QED
    BY <2>3, <2>4
<1>4. CASE Complete(m)
  <2>1. parsed =
          IF ~(Len(b) >= HeadLength(m))
          THEN Unparsed(IF Len(b) > max_head_bytes THEN "TooLarge" ELSE "NeedMore")
          ELSE IF HeadLength(m) > max_head_bytes THEN Unparsed("TooLarge")
          ELSE IF WellFormed(m) THEN [state |-> "Ok", request |-> HeadOf(m)]
          ELSE Unparsed("Bad")
    BY <1>4, ParseComplete
  <2>2. Len(b) \in Nat /\ HeadLength(m) \in Nat
    BY <1>4, EndsComplete
  <2> HIDE DEF parsed
  <2>3. CASE ~(Len(b) >= HeadLength(m)) /\ Len(b) > max_head_bytes
    <3>1. parsed.state = "TooLarge"
      BY <1>1, <2>1, <2>3
    <3>2. HeadLength(m) > max_head_bytes
      BY <1>2, <2>2, <2>3, SMT
    <3> QED
      BY <3>1, <3>2 DEF parsed
  <2>4. CASE ~(Len(b) >= HeadLength(m)) /\ ~(Len(b) > max_head_bytes)
    <3>1. parsed.state = "NeedMore"
      BY <1>1, <2>1, <2>4
    <3>2. Len(b) <= max_head_bytes
      BY <1>2, <2>2, <2>4, SMT
    <3> QED
      BY <3>1, <3>2 DEF parsed
  <2>5. CASE Len(b) >= HeadLength(m) /\ HeadLength(m) > max_head_bytes
    <3>1. parsed.state = "TooLarge"
      BY <1>1, <2>1, <2>5
    <3> QED
      BY <2>5, <3>1 DEF parsed
  <2>6. CASE Len(b) >= HeadLength(m) /\ ~(HeadLength(m) > max_head_bytes)
    <3>1. HeadLength(m) <= max_head_bytes
      BY <1>2, <2>2, <2>6, SMT
    <3>2. CASE WellFormed(m)
      <4>1. parsed = [state |-> "Ok", request |-> HeadOf(m)]
        BY <2>1, <2>6, <3>2
      <4>2. parsed.state = "Ok" /\ parsed.request = HeadOf(m)
        BY <4>1
      <4> QED
        BY <1>4, <2>6, <3>1, <3>2, <4>2 DEF parsed
    <3>3. CASE ~WellFormed(m)
      <4>1. parsed.state = "Bad"
        BY <1>1, <2>1, <2>6, <3>3
      <4> QED
        BY <1>4, <3>1, <3>3, <4>1 DEF parsed
    <3> QED
      BY <3>2, <3>3
  <2> QED
    BY <2>3, <2>4, <2>5, <2>6
<1> QED
  BY <1>3, <1>4

(* The parts of a message are not shorter than nothing.  *)
LEMMA Lengths ==
  ASSUME NEW m \in Messages
  PROVE  /\ HeadLength(m) \in Nat \ {0} /\ Len(m.body) \in Nat
         /\ WireLength(m) = HeadLength(m) + Len(m.body) /\ WireLength(m) \in Nat
<1> DEFINE n == Len(m.headers) + 1
<1>1. /\ n \in Nat \ {0} /\ Len(m.body) \in Nat
      /\ m.end = CRLF \/ m.end = <<"LF">>
      /\ m.blank = CRLF \/ m.blank = <<>>
  BY Shape, SMT
<1>2. /\ 1 + Len(m.end) = 3 \/ 1 + Len(m.end) = 2
      /\ Len(m.blank) \in Nat
  <2>1. 1 + 2 = 3 /\ 1 + 1 = 2 /\ 2 \in Nat /\ Len(<<>>) \in Nat
    BY SMT
  <2> QED
    BY <1>1, <2>1, EndLengths
<1>3. LinesLength(m) = n * 3 \/ LinesLength(m) = n * 2
  BY <1>2 DEF LinesLength
<1> HIDE DEF n
<1>4. LinesLength(m) \in Nat \ {0}
  BY <1>1, <1>3, SMT
<1>5. HeadLength(m) \in Nat \ {0}
  BY <1>2, <1>4, SMT DEF HeadLength
<1>6. WireLength(m) = HeadLength(m) + Len(m.body)
  BY DEF WireLength
<1> QED
  BY <1>1, <1>5, <1>6, SMT

(* Nothing has been read.  *)
LEMMA InitHttp == HInit => HttpInv
<1> SUFFICES ASSUME HInit PROVE HttpInv
  OBVIOUS
<1>1. /\ message \in Messages /\ buffer = <<>> /\ head = Nothing /\ hpc = "head"
      /\ reply = 0 /\ call = "none" /\ gave_up = FALSE
  BY DEF HInit
<1>2. Len(buffer) = 0 /\ buffer \in Seq(Stream(message)) /\ 1..0 = {}
  BY <1>1, SMT
<1>3. WireLength(message) \in Nat
  BY <1>1, Lengths
<1>4. 0 <= WireLength(message) /\ BufferBound
  <2>1. 0 <= WireLength(message)
    BY <1>3, SMT
  <2> QED
    BY <1>2, <2>1, HttpAssumption, SMT DEF BufferBound, BufferCap
<1> QED
  BY <1>1, <1>2, <1>4 DEF HttpInv, Received, RepliesAsSent

(* A read appends the next symbols of the message.  *)
LEMMA ReadsOn ==
  ASSUME HttpInv, NEW n \in Nat, NEW chunk \in Arrivals(n),
         NEW c, c = Joined(buffer, chunk)
  PROVE  /\ Received(message, c)
         /\ Len(buffer) \in Nat /\ Len(chunk) \in Nat /\ Len(chunk) <= n
         /\ Len(c) = Len(buffer) + Len(chunk)
         /\ message.endless \/ Len(c) <= WireLength(message)
<1> DEFINE most == IF message.endless \/ Len(buffer) + n <= WireLength(message)
                   THEN n ELSE WireLength(message) - Len(buffer)
<1>1. PICK k \in 1..most : chunk = Part(message, Len(buffer), k)
  BY DEF Arrivals
<1>2. /\ message \in Messages /\ Received(message, buffer)
      /\ message.endless \/ Len(buffer) <= WireLength(message)
  BY DEF HttpInv
<1>3. Len(buffer) \in Nat
  <2>1. buffer \in Seq(Stream(message))
    BY <1>2 DEF Received
  <2> QED
    BY <2>1, SMT
<1>4. WireLength(message) \in Nat
  BY <1>2, Lengths
<1>5. /\ most \in Nat /\ most <= n
      /\ message.endless \/ Len(buffer) + most <= WireLength(message)
  BY <1>2, <1>3, <1>4, SMT
<1> HIDE DEF most
<1>6. /\ k \in Nat /\ k <= n
      /\ message.endless \/ Len(buffer) + k <= WireLength(message)
  BY <1>3, <1>4, <1>5, SMT
<1>7. Received(message, c) /\ Len(chunk) = k /\ Len(c) = Len(buffer) + k
  <2> DEFINE part == Part(message, Len(buffer), k)
  <2>1. /\ Received(message, Joined(buffer, part)) /\ Len(part) = k
        /\ Len(Joined(buffer, part)) = Len(buffer) + k
    <3>1. Received(message, buffer) /\ k \in Nat
      BY <1>2, <1>6
    <3> QED
      BY ONLY <3>1, Arrive
  <2>2. c = Joined(buffer, part)
    BY <1>1
  <2> QED
    BY <1>1, <2>1, <2>2
<1> QED
  BY <1>3, <1>6, <1>7

(* A read for the head.  *)
LEMMA ReadHeadHttp == HttpInv /\ ReadHead => HttpInv'
<1> SUFFICES ASSUME HttpInv, ReadHead PROVE HttpInv'
  OBVIOUS
<1>1. /\ message \in Messages /\ Received(message, buffer)
      /\ message.endless \/ Len(buffer) <= WireLength(message)
      /\ call = "none" /\ gave_up = FALSE /\ head = Nothing /\ reply = 0
      /\ hpc = "head" /\ BufferBound
  BY DEF HttpInv, ReadHead
<1>2. /\ message' = message /\ head' = head /\ reply' = reply /\ call' = call
  BY DEF ReadHead
<1>3. HeadChunk \in Nat /\ max_head_bytes \in Nat /\ max_body_bytes \in Nat
  BY HttpAssumption
<1>4. CASE /\ \E chunk \in Arrivals(HeadChunk) : buffer' = buffer \o chunk
           /\ UNCHANGED <<hpc, gave_up>>
  <2>1. PICK chunk \in Arrivals(HeadChunk) : buffer' = buffer \o chunk
    BY <1>4
  <2>2. hpc' = "head" /\ gave_up' = FALSE
    BY <1>1, <1>4
  <2>3. /\ Received(message, buffer')
        /\ Len(buffer) \in Nat /\ Len(chunk) \in Nat /\ Len(chunk) <= HeadChunk
        /\ Len(buffer') = Len(buffer) + Len(chunk)
        /\ message.endless \/ Len(buffer') <= WireLength(message)
    BY <1>3, <2>1, ReadsOn DEF Joined
  <2>4. Len(buffer) <= max_head_bytes
    <3>1. parse_request_head(buffer).state = "NeedMore"
      BY DEF ReadHead
    <3> QED
      BY <1>1, <3>1, ParseStates
  <2>5. BufferBound'
    BY <1>3, <2>3, <2>4, SMT DEF BufferBound, BufferCap
  <2> QED
    BY <1>1, <1>2, <2>2, <2>3, <2>5 DEF HttpInv, RepliesAsSent
<1>5. CASE hpc' = "done" /\ gave_up' = TRUE /\ UNCHANGED buffer
  <2>1. RepliesAsSent'
    BY <1>1, <1>2, <1>5 DEF RepliesAsSent, RefusedWith
  <2>2. BufferBound'
    BY <1>1, <1>5 DEF BufferBound
  <2> QED
    BY <1>1, <1>2, <1>5, <2>1, <2>2 DEF HttpInv
<1> QED
  BY <1>4, <1>5 DEF ReadHead

(* A read for the body.  *)
LEMMA ReadBodyHttp == HttpInv /\ ReadBody => HttpInv'
<1> SUFFICES ASSUME HttpInv, ReadBody PROVE HttpInv'
  OBVIOUS
<1>1. /\ message \in Messages /\ Received(message, buffer)
      /\ message.endless \/ Len(buffer) <= WireLength(message)
      /\ call = "none" /\ gave_up = FALSE /\ hpc = "body" /\ BufferBound
      /\ Admitted(message) /\ head = HeadOf(message)
      /\ remaining \in Nat /\ remaining > 0
      /\ Len(buffer) + remaining = HeadLength(message) + Declared(message)
  BY DEF HttpInv, ReadBody
<1>2. message' = message /\ head' = head /\ call' = call
  BY DEF ReadBody
<1>3. /\ BodyChunk \in Nat /\ max_head_bytes \in Nat /\ max_body_bytes \in Nat
      /\ HeadChunk \in Nat
  BY HttpAssumption
<1> DEFINE n == IF remaining < BodyChunk THEN remaining ELSE BodyChunk
<1>4. CASE /\ \E chunk \in Arrivals(n) : /\ buffer' = buffer \o chunk
                                         /\ remaining' = remaining - Len(chunk)
           /\ UNCHANGED <<hpc, reply, gave_up>>
  <2>1. n \in Nat /\ n <= remaining
    BY <1>1, <1>3, SMT
  <2>2. PICK chunk \in Arrivals(n) : /\ buffer' = buffer \o chunk
                                     /\ remaining' = remaining - Len(chunk)
    BY <1>4
  <2> HIDE DEF n
  <2>3. hpc' = "body" /\ gave_up' = FALSE
    BY <1>1, <1>4
  <2>4. /\ Received(message, buffer')
        /\ Len(buffer) \in Nat /\ Len(chunk) \in Nat /\ Len(chunk) <= n
        /\ Len(buffer') = Len(buffer) + Len(chunk)
        /\ message.endless \/ Len(buffer') <= WireLength(message)
    BY <2>1, <2>2, ReadsOn DEF Joined
  <2>5. HeadLength(message) \in Nat /\ HeadLength(message) <= max_head_bytes
        /\ Declared(message) \in Nat /\ Declared(message) <= max_body_bytes
    <3>1. HeadLength(message) \in Nat
      BY <1>1, Lengths
    <3>2. Declared(message) \in 0..max_body_bytes
      BY <1>1 DEF Admitted
    <3>3. Declared(message) \in Nat /\ Declared(message) <= max_body_bytes
      BY <1>3, <3>2, SMT
    <3> QED
      BY <1>1, <3>1, <3>3 DEF Admitted
  <2>6. /\ remaining' \in Nat
        /\ Len(buffer') + remaining' = HeadLength(message) + Declared(message)
    BY <1>1, <2>1, <2>2, <2>4, <2>5, SMT
  <2>7. BufferBound'
    BY <1>3, <2>4, <2>5, <2>6, SMT DEF BufferBound, BufferCap
  <2> QED
    BY <1>1, <1>2, <2>3, <2>4, <2>6, <2>7 DEF HttpInv, RepliesAsSent
<1>5. CASE Answer(400) /\ gave_up' = TRUE /\ UNCHANGED <<buffer, remaining>>
  <2>1. hpc' = "done" /\ reply' = 400
    BY <1>5 DEF Answer
  <2>2. head # Nothing
    <3>1. HeadOf(message).len # 0
      BY <1>1, Lengths DEF HeadOf
    <3>2. Nothing.len = 0
      BY DEF Nothing
    <3> QED
      BY <1>1, <3>1, <3>2
  <2>3. RepliesAsSent'
    BY <1>1, <1>2, <1>5, <2>1, <2>2 DEF RepliesAsSent, RefusedWith
  <2>4. BufferBound'
    BY <1>1, <1>5 DEF BufferBound
  <2> QED
    BY <1>1, <1>2, <1>5, <2>1, <2>3, <2>4 DEF HttpInv
<1> QED
  BY <1>4, <1>5 DEF ReadBody

(* The head is judged.  *)
LEMMA HeadReadHttp == HttpInv /\ HeadRead => HttpInv'
<1> SUFFICES ASSUME HttpInv, HeadRead PROVE HttpInv'
  OBVIOUS
<1> DEFINE parsed == parse_request_head(buffer)
           declared == content_length_for(parsed.request.headers)
           have == Len(buffer) - parsed.request.len
<1>1. /\ message \in Messages /\ Received(message, buffer)
      /\ message.endless \/ Len(buffer) <= WireLength(message)
      /\ call = "none" /\ gave_up = FALSE /\ head = Nothing
      /\ BufferBound
  BY DEF HttpInv, HeadRead
<1>2. /\ message' = message /\ buffer' = buffer /\ call' = call
      /\ gave_up' = FALSE
  BY <1>1 DEF HeadRead
<1>3. /\ Len(buffer) \in Nat /\ HeadLength(message) \in Nat
      /\ Len(message.body) \in Nat
      /\ WireLength(message) = HeadLength(message) + Len(message.body)
      /\ max_head_bytes \in Nat /\ max_body_bytes \in Nat
  <2>1. buffer \in Seq(Stream(message))
    BY <1>1 DEF Received
  <2>2. Len(buffer) \in Nat
    BY <2>1, SMT
  <2> QED
    BY <1>1, <2>2, Lengths, HttpAssumption
<1>4. ASSUME hpc' = "done", RepliesAsSent' PROVE HttpInv'
  <2>1. BufferBound'
    BY <1>1, <1>2 DEF BufferBound
  <2> QED
    BY <1>1, <1>2, <1>4, <2>1 DEF HttpInv
<1>5. \A state : parsed.state = state => parse_request_head(buffer).state = state
  OBVIOUS
<1>6. CASE parsed.state = "Bad" /\ Answer(400)
  <2>1. /\ Complete(message) /\ ~WellFormed(message)
        /\ HeadLength(message) <= max_head_bytes
    BY <1>1, <1>6, ParseStates
  <2>2. ~(HeadLength(message) > max_head_bytes)
    BY <1>3, <2>1, SMT
  <2>3. RepliesAsSent'
    BY <1>1, <1>2, <1>6, <2>1, <2>2 DEF RepliesAsSent, RefusedWith, Answer
  <2> QED
    BY <1>4, <1>6, <2>3 DEF Answer
<1>7. CASE parsed.state = "TooLarge" /\ Answer(431)
  <2>1. ~Complete(message) \/ HeadLength(message) > max_head_bytes
    BY <1>1, <1>7, ParseStates
  <2>2. RepliesAsSent'
    BY <1>1, <1>2, <1>7, <2>1 DEF RepliesAsSent, RefusedWith, Answer
  <2> QED
    BY <1>4, <1>7, <2>2 DEF Answer
<1>8. CASE /\ parsed.state = "Ok" /\ head' = parsed.request
           /\ \/ /\ ~declared.ok
                 /\ Answer(declared.status) /\ UNCHANGED remaining
              \/ /\ declared.ok /\ have > declared.length
                 /\ Answer(400) /\ UNCHANGED remaining
              \/ /\ declared.ok /\ have <= declared.length
                 /\ remaining' = declared.length - have
                 /\ hpc' = "body" /\ UNCHANGED reply
  <2>1. /\ Complete(message) /\ WellFormed(message)
        /\ HeadLength(message) <= max_head_bytes
        /\ Len(buffer) >= HeadLength(message)
        /\ parsed.request = HeadOf(message)
    BY <1>1, <1>8, ParseStates
  <2>2. ~(HeadLength(message) > max_head_bytes)
    BY <1>3, <2>1, SMT
  <2> DEFINE length == Declared(message)
             coding == Says(message, "transfer-encoding")
  <2>3. /\ length = -1 \/ length \in Nat
        /\ declared = IF coding # {} \/ length = -1 THEN Refusal(400)
                      ELSE IF length > max_body_bytes THEN Refusal(413)
                      ELSE [ok |-> TRUE, length |-> length, status |-> 0]
    BY <1>1, <2>1, LengthExact
  <2>4. have = Len(buffer) - HeadLength(message)
    <3>1. HeadOf(message).len = HeadLength(message)
      BY DEF HeadOf
    <3> QED
      BY <2>1, <3>1
  <2> HIDE DEF parsed, declared, have
  <2>5. CASE coding # {} \/ length = -1
    <3>1. declared.ok = FALSE /\ declared.status = 400
      BY <2>3, <2>5 DEF Refusal
    <3>2. Answer(400)
      BY <1>8, <3>1
    <3>3. RepliesAsSent'
      BY <1>1, <1>2, <2>1, <2>2, <2>5, <3>2 DEF RepliesAsSent, RefusedWith, Answer
    <3> QED
      BY <1>4, <3>2, <3>3 DEF Answer
  <2>6. CASE ~(coding # {} \/ length = -1) /\ length > max_body_bytes
    <3>1. declared.ok = FALSE /\ declared.status = 413
      BY <2>3, <2>6 DEF Refusal
    <3>2. Answer(413)
      BY <1>8, <3>1
    <3>3. RepliesAsSent'
      BY <1>1, <1>2, <2>1, <2>2, <2>6, <3>2, ZenonT(60) DEF RepliesAsSent, RefusedWith, Answer
    <3> QED
      BY <1>4, <3>2, <3>3 DEF Answer
  <2>7. CASE ~(coding # {} \/ length = -1) /\ ~(length > max_body_bytes)
    <3>1. declared.ok = TRUE /\ declared.length = length
      BY <2>3, <2>7
    <3>2. length \in Nat /\ length \in 0..max_body_bytes
      BY <1>3, <2>3, <2>7, SMT
    <3>3. Admitted(message)
      BY <2>1, <2>7, <3>2 DEF Admitted
    <3>4. CASE have > length /\ Answer(400)
      <4>1. length < Len(message.body) \/ message.endless
        BY <1>1, <1>3, <2>4, <3>2, <3>4, SMT
      <4>2. RepliesAsSent'
        BY <1>1, <1>2, <2>1, <2>2, <2>7, <3>4, <4>1, ZenonT(60)
        DEF RepliesAsSent, RefusedWith, Answer
      <4> QED
        BY <1>4, <3>4, <4>2 DEF Answer
    <3>5. CASE have <= length /\ remaining' = length - have /\ hpc' = "body"
      <4>1. /\ remaining' \in Nat
            /\ Len(buffer) + remaining' = HeadLength(message) + length
        <5>1. HeadLength(message) \in Nat /\ Len(buffer) \in Nat
          BY <1>3
        <5> HIDE DEF length
        <5> QED
          BY ONLY <2>4, <3>2, <3>5, <5>1, SMT
      <4>2. BufferBound'
        BY <1>1, <1>2 DEF BufferBound
      <4>3. head' = HeadOf(message)
        BY <1>8, <2>1
      <4> QED
        BY <1>1, <1>2, <3>3, <3>5, <4>1, <4>2, <4>3 DEF HttpInv, RepliesAsSent
    <3> QED
      BY <1>8, <3>1, <3>4, <3>5
  <2> QED
    BY <2>5, <2>6, <2>7
<1> QED
  BY <1>6, <1>7, <1>8 DEF HeadRead

(* The request is routed.  *)
LEMMA RouteHttp == HttpInv /\ Route => HttpInv'
<1> SUFFICES ASSUME HttpInv, Route PROVE HttpInv'
  OBVIOUS
<1> DEFINE m == message
           length == Declared(m)
           routed == Routed(head.method, head.target, Body)
<1>1. /\ m \in Messages /\ Received(m, buffer)
      /\ m.endless \/ Len(buffer) <= WireLength(m)
      /\ call = "none" /\ gave_up = FALSE /\ BufferBound
      /\ Admitted(m) /\ head = HeadOf(m)
      /\ remaining = 0 /\ Len(buffer) + remaining = HeadLength(m) + length
  BY DEF HttpInv, Route
<1>2. message' = m /\ buffer' = buffer /\ gave_up' = FALSE
  BY <1>1 DEF Route
<1>3. /\ Complete(m) /\ HeadLength(m) <= max_head_bytes /\ WellFormed(m)
      /\ Says(m, "transfer-encoding") = {} /\ length \in 0..max_body_bytes
  BY <1>1 DEF Admitted
<1>4. /\ HeadLength(m) \in Nat /\ max_head_bytes \in Nat /\ max_body_bytes \in Nat
      /\ Len(m.body) \in Nat /\ WireLength(m) = HeadLength(m) + Len(m.body)
      /\ Len(buffer) \in Nat
  <2>1. buffer \in Seq(Stream(m))
    BY <1>1 DEF Received
  <2>2. Len(buffer) \in Nat
    BY <2>1, SMT
  <2> QED
    BY <1>1, <2>2, Lengths, HttpAssumption
<1> HIDE DEF m, length
<1>5. /\ length \in Nat /\ length # -1 /\ ~(length > max_body_bytes)
      /\ ~(HeadLength(m) > max_head_bytes)
      /\ Len(buffer) = HeadLength(m) + length
      /\ m.endless \/ length <= Len(m.body)
  BY <1>1, <1>3, <1>4, SMT
<1>6. Body = Sent(m, length)
  <2>1. content_length_for(head.headers).length = length
    <3>1. content_length_for(head.headers) =
            [ok |-> TRUE, length |-> length, status |-> 0]
      BY <1>1, <1>3, <1>5, LengthExact DEF length
    <3> HIDE DEF length
    <3> QED
      BY <3>1, SMT
  <2>2. head.len = HeadLength(m)
    BY <1>1 DEF HeadOf
  <2>3. Body = SubSeq(buffer, HeadLength(m) + 1, HeadLength(m) + length)
    BY <2>1, <2>2 DEF Body
  <2>4. buffer \in Seq(Stream(m)) /\ \A i \in 1..Len(buffer) : buffer[i] = Symbol(m, i)
    BY <1>1 DEF Received
  <2> DEFINE h == HeadLength(m)
             s == SubSeq(buffer, h + 1, h + length)
  <2>5. /\ s \in Seq(Stream(m)) /\ Len(s) = length
        /\ \A i \in 1..length : s[i] = buffer[h + i] /\ h + i \in 1..Len(buffer)
    <3> HIDE DEF h
    <3>1. h \in Nat /\ Len(buffer) = h + length
      BY <1>4, <1>5 DEF h
    <3>2. buffer \in Seq(Stream(m)) /\ length \in Nat
      BY <1>5, <2>4
    <3> QED
      BY ONLY <3>1, <3>2, Segment, Zenon
  <2>6. DOMAIN s = 1..length
    BY <2>5, SMT
  <2>7. \A i \in 1..length : s[i] = Symbol(m, h + i)
    BY <2>4, <2>5
  <2>8. s = [i \in DOMAIN s |-> s[i]]
    BY <2>5, SMT
  <2> HIDE DEF s, h
  <2>9. s = [i \in 1..length |-> Symbol(m, h + i)]
    BY <2>6, <2>7, <2>8
  <2> QED
    BY <2>3, <2>9 DEF Sent, Part, s, h
<1>7. Sends(m, length)
  BY <1>5 DEF Sends
<1>8. m.means = routed
  <2>1. head.method = RequestLines[m.line].method
        /\ head.target = RequestLines[m.line].target
    BY <1>1 DEF HeadOf
  <2> QED
    BY <1>1, <1>6, <1>7, <2>1, MeansAssumption DEF length
<1> HIDE DEF routed
<1>9. hpc' = "done" /\ AsMeant(m)'
  <2>1. CASE /\ routed.call = "none"
             /\ Answer(routed.status) /\ UNCHANGED <<call, result>>
    BY <1>1, <1>2, <1>8, <2>1 DEF AsMeant, Answer, m
  <2>2. CASE /\ routed.call # "none" /\ call' = routed.call
             /\ \E r \in CommandResult :
                  result' = r /\ Answer(IF r = "Ok" THEN routed.status
                                        ELSE status_for(r))
    <3>1. PICK r \in CommandResult :
                  result' = r /\ Answer(IF r = "Ok" THEN routed.status
                                        ELSE status_for(r))
      BY <2>2
    <3> DEFINE answer == StatusOf(r, m.means.status)
    <3>2. (IF r = "Ok" THEN routed.status ELSE status_for(r)) = answer
      <4>1. CASE r = "Ok"
        BY <1>8, <4>1 DEF StatusOf
      <4>2. CASE r = "UnknownJob"
        BY <4>2, ZenonT(60) DEF StatusOf, status_for
      <4>3. CASE r = "InvalidState"
        BY <4>3, ZenonT(60) DEF StatusOf, status_for
      <4>4. CASE r = "NotRunning"
        BY <4>4, ZenonT(60) DEF StatusOf, status_for
      <4>5. CASE r = "StoreError"
        BY <4>5, ZenonT(60) DEF StatusOf, status_for
      <4> QED
        BY <4>1, <4>2, <4>3, <4>4, <4>5 DEF CommandResult
    <3>3. reply' = answer /\ hpc' = "done"
      BY <3>1, <3>2 DEF Answer
    <3> QED
      BY <1>2, <1>8, <2>2, <3>1, <3>3 DEF AsMeant, m
  <2> QED
    BY <2>1, <2>2 DEF Route, routed
<1>10. RepliesAsSent'
  BY <1>2, <1>3, <1>5, <1>7, <1>9 DEF RepliesAsSent, length, m
<1>11. BufferBound'
  BY <1>1, <1>2 DEF BufferBound
<1> QED
  BY <1>1, <1>2, <1>9, <1>10, <1>11 DEF HttpInv, m

(* The invariant holds of every connection.  *)
LEMMA HttpInvariant == HSpec => []HttpInv
<1>1. HttpInv /\ [Serve]_hvars => HttpInv'
  <2>1. ASSUME HttpInv, UNCHANGED hvars PROVE HttpInv'
    <3>1. RepliesAsSent' <=> RepliesAsSent
      <4>1. \A status : RefusedWith(status)' <=> RefusedWith(status)
        BY <2>1 DEF hvars, RefusedWith
      <4>2. AsMeant(message)' <=> AsMeant(message)
        BY <2>1 DEF hvars, AsMeant
      <4> QED
        BY <2>1, <4>1, <4>2, SMT DEF hvars, RepliesAsSent
    <3>2. BufferBound' <=> BufferBound
      BY <2>1 DEF hvars, BufferBound
    <3> QED
      BY <2>1, <3>1, <3>2 DEF hvars, HttpInv
  <2> QED
    BY <2>1, ReadHeadHttp, HeadReadHttp, ReadBodyHttp, RouteHttp DEF Serve
<1> QED
  BY <1>1, InitHttp, PTL DEF HSpec

(* For any messages and limits, however the message is cut into reads and    *)
(* whenever a read fails: the answer of serve_connection(), and the command  *)
(* it gives the manager, are those of the message as a whole (L2-CTL-002,    *)
(* 003, 005; L3-CPP-046 to 050).                                             *)
THEOREM RepliesAsSentAlways == HSpec => []RepliesAsSent
<1>1. HttpInv => RepliesAsSent
  BY DEF HttpInv
<1> QED
  BY <1>1, HttpInvariant, PTL

(* For any messages, reads and limits, the buffer of serve_connection() never *)
(* holds more than the two caps and one read (L2-CTL-003, L3-CPP-048).       *)
THEOREM BufferBoundAlways == HSpec => []BufferBound
<1>1. HttpInv => BufferBound
  BY DEF HttpInv
<1> QED
  BY <1>1, HttpInvariant, PTL

-----------------------------------------------------------------------------
(* The configuration loader.  *)

(* A line that leaves the loader in a section other than the nearest.  *)
Unsettling(i) ==
  \/ text[i].kind = "badHeader"
  \/ text[i].kind = "header" /\ Repeated(i)

(* The line gives a key that the loader remembers.  *)
Keyed(i) ==
  text[i].kind = "entry" /\ SectionOf(i) # "" /\ text[i].name # ""

(* The line gives a key its value.  *)
Told(i) == text[i].kind = "entry" /\ ~Faulty(i)

(* If there are headers above line i, one of them is the nearest.  *)
HasNearest(i) ==
  HeadersAbove(i) # {} =>
    \E h \in HeadersAbove(i) : \A g \in HeadersAbove(i) : g <= h

TextInv ==
  /\ text \in Seq(Lines)
  /\ cfg \in [Keys -> Int]
  /\ issues \subseteq Nat
  /\ verdict = "open" => issues = {}
  /\ verdict \in {"open", "reading"} =>
       out = Untouched /\ issues \subseteq 1..Len(text)
  /\ \A i \in 1..(Len(text) + 1) : HasNearest(i)
  /\ seen_sections = {text[h].name : h \in HeadersAbove(Len(text) + 1)}

(* Every line that is wrong is listed, and no other of which the section is  *)
(* known.                                                                    *)
IssueInv ==
  \A i \in 1..Len(text) :
    /\ Settled(i) => (i \in issues <=> Faulty(i))
    /\ Unsettling(i) => i \in issues

(* As long as the loader has refused no header, it is in the section of the  *)
(* line to come and remembers what the lines above have said.                *)
PlaceInv ==
  Settled(Len(text) + 1) =>
    /\ section = SectionOf(Len(text) + 1)
    /\ seen_keys = {KeyOf(i) : i \in {k \in 1..Len(text) : Keyed(k)}}
    /\ \A key \in Keys :
         \/ /\ cfg[key] = Default[key]
            /\ \A i \in 1..Len(text) : Told(i) => KeyOf(i) # key
         \/ \E i \in 1..Len(text) :
              Told(i) /\ KeyOf(i) = key /\ cfg[key] = text[i].value

ConfigInv == TextInv /\ IssueInv /\ PlaceInv /\ ConfigExact

-----------------------------------------------------------------------------
(* The lines read so far.  *)

(* What a step that reads a line says of the lines.  *)
Reads(line) == /\ text \in Seq(Lines) /\ line \in Lines
               /\ text' = Append(text, line)
               /\ \A i \in 1..(Len(text) + 1) : HasNearest(i)

LEMMA ReadsOne ==
  ASSUME NEW line, Reads(line)
  PROVE  /\ Len(text) \in Nat /\ text' \in Seq(Lines)
         /\ Len(text') = Len(text) + 1 /\ text'[Len(text) + 1] = line
         /\ \A i \in 1..Len(text) : text'[i] = text[i]
         /\ \A i : i \in 1..Len(text') <=>
                     i \in 1..Len(text) \/ i = Len(text) + 1
BY SMT DEF Reads

(* What is said of a line depends on it and the lines above it only.  *)
LEMMA AboveIsKept ==
  ASSUME NEW line, Reads(line), NEW i \in 1..(Len(text) + 1)
  PROVE  /\ HeadersAbove(i)' = HeadersAbove(i)
         /\ \A h \in HeadersAbove(i) : h \in 1..Len(text)
         /\ SectionOf(i)' = SectionOf(i)
<1>1. \A h \in 1..(i - 1) : h \in 1..Len(text)
  BY ReadsOne, SMT
<1>2. HeadersAbove(i)' = HeadersAbove(i)
  BY <1>1, ReadsOne DEF HeadersAbove
<1>3. \A h \in HeadersAbove(i) : h \in 1..Len(text)
  BY <1>1 DEF HeadersAbove
<1>4. CASE HeadersAbove(i) = {}
  BY <1>2, <1>4 DEF SectionOf
<1>5. CASE HeadersAbove(i) # {}
  <2> DEFINE Nearest(H) == CHOOSE h \in H : \A g \in H : g <= h
  <2>1. Nearest(HeadersAbove(i)) \in HeadersAbove(i)
    BY <1>5 DEF Reads, HasNearest
  <2>2. Nearest(HeadersAbove(i)) \in 1..Len(text)
    BY <1>3, <2>1
  <2>3. text'[Nearest(HeadersAbove(i))] = text[Nearest(HeadersAbove(i))]
    BY <2>2, ReadsOne
  <2>4. SectionOf(i) = text[Nearest(HeadersAbove(i))].name
    BY <1>5 DEF SectionOf
  <2>5. SectionOf(i)' = text'[Nearest(HeadersAbove(i)')].name
    BY <1>2, <1>5 DEF SectionOf
  <2> HIDE DEF Nearest
  <2> QED
    BY <1>2, <1>3, <2>3, <2>4, <2>5
<1> QED
  BY <1>2, <1>3, <1>4, <1>5

LEMMA LineIsKept ==
  ASSUME NEW line, Reads(line), NEW i \in 1..Len(text)
  PROVE  /\ KeyOf(i)' = KeyOf(i) /\ Repeated(i)' = Repeated(i)
         /\ Keyed(i)' = Keyed(i) /\ Unsettling(i)' = Unsettling(i)
<1>1. i \in 1..(Len(text) + 1)
  BY ReadsOne, SMT
<1>2. text'[i] = text[i]
  BY ReadsOne
<1> QED
  BY <1>1, <1>2, AboveIsKept, ReadsOne
     DEF KeyOf, Repeated, Keyed, Unsettling

LEMMA VerdictIsKept ==
  ASSUME NEW line, Reads(line)
  PROVE  /\ \A i \in 1..Len(text) : Faulty(i)' = Faulty(i)
         /\ \A i \in 1..(Len(text) + 1) : Settled(i)' = Settled(i)
<1>1. ASSUME NEW i \in 1..Len(text) PROVE Faulty(i)' = Faulty(i)
  <2>1. \A j \in 1..(i - 1) : j \in 1..Len(text)
    BY ReadsOne, SMT
  <2>2. text'[i] = text[i] /\ \A j \in 1..(i - 1) : text'[j] = text[j]
    BY <2>1, ReadsOne
  <2>3. KeyOf(i)' = KeyOf(i) /\ \A j \in 1..(i - 1) : KeyOf(j)' = KeyOf(j)
    BY <2>1, LineIsKept
  <2> QED
    BY <2>2, <2>3, LineIsKept DEF Faulty
<1>2. ASSUME NEW i \in 1..(Len(text) + 1) PROVE Settled(i)' = Settled(i)
  <2>1. \A h \in 1..(i - 1) : h \in 1..Len(text)
    BY ReadsOne, SMT
  <2> QED
    BY <2>1, LineIsKept, ReadsOne DEF Settled
<1> QED
  BY <1>1, <1>2

(* The section of the line to come: the name of the header just read, or the *)
(* section it was.                                                           *)
LEMMA NearestIs ==
  ASSUME NEW line, Reads(line), NEW n, n = Len(text) + 1
  PROVE  /\ n \in 1..(Len(text) + 1) /\ Len(text') = n
         /\ line.kind # "header" =>
              /\ HeadersAbove(n + 1)' = HeadersAbove(n)
              /\ SectionOf(n + 1)' = SectionOf(n)
         /\ line.kind = "header" =>
              /\ HeadersAbove(n + 1)' = HeadersAbove(n) \cup {n}
              /\ SectionOf(n + 1)' = line.name
         /\ HasNearest(n + 1)'
<1> DEFINE Nearest(H) == CHOOSE h \in H : \A g \in H : g <= h
<1>0. /\ n \in 1..(Len(text) + 1) /\ Len(text') = n /\ n \in Nat
      /\ (n + 1) - 1 = n /\ n - 1 = Len(text)
      /\ \A h : h \in 1..n <=> h \in 1..Len(text) \/ h = n
      /\ \A h \in 1..Len(text) : h <= n /\ ~(n <= h)
  BY ReadsOne, SMT
<1>1. /\ HeadersAbove(n) \subseteq 1..Len(text)
      /\ text'[n] = line /\ HeadersAbove(n)' = HeadersAbove(n)
  BY <1>0, ReadsOne, AboveIsKept
<1>2. HeadersAbove(n + 1)' =
        IF line.kind = "header" THEN HeadersAbove(n) \cup {n}
                                ELSE HeadersAbove(n)
  <2>1. HeadersAbove(n + 1)' = {h \in 1..n : text'[h].kind = "header"}
    BY <1>0 DEF HeadersAbove
  <2>2. HeadersAbove(n)' = {h \in 1..Len(text) : text'[h].kind = "header"}
    BY <1>0 DEF HeadersAbove
  <2> QED
    BY <1>0, <1>1, <2>1, <2>2, ZenonT(60)
<1>3. CASE line.kind # "header"
  <2>1. HeadersAbove(n + 1)' = HeadersAbove(n)
    BY <1>2, <1>3
  <2>2. HasNearest(n + 1)'
    BY <1>0, <2>1 DEF HasNearest, Reads
  <2>3. SectionOf(n)' = SectionOf(n)
    BY <1>0, AboveIsKept
  <2>4. SectionOf(n + 1)' = SectionOf(n)'
    <3>1. /\ SectionOf(n)' = IF HeadersAbove(n)' = {} THEN ""
                             ELSE text'[Nearest(HeadersAbove(n)')].name
          /\ SectionOf(n + 1)' = IF HeadersAbove(n + 1)' = {} THEN ""
                                 ELSE text'[Nearest(HeadersAbove(n + 1)')].name
      BY DEF SectionOf
    <3> HIDE DEF Nearest
    <3> QED
      BY <1>1, <2>1, <3>1
  <2> QED
    BY <1>0, <1>3, <2>1, <2>2, <2>3, <2>4
<1>4. CASE line.kind = "header"
  <2>1. HeadersAbove(n + 1)' = HeadersAbove(n) \cup {n}
    BY <1>2, <1>4
  <2>2. n <= n
    BY <1>0, SMT
  <2>3. /\ n \in HeadersAbove(n + 1)'
        /\ \A g \in HeadersAbove(n + 1)' : g <= n /\ (n <= g => g = n)
    BY <1>0, <1>1, <2>1, <2>2
  <2>4. Nearest(HeadersAbove(n + 1)') = n
    BY <2>3
  <2>5. SectionOf(n + 1)' = text'[Nearest(HeadersAbove(n + 1)')].name
    BY <2>3 DEF SectionOf
  <2>6. HasNearest(n + 1)'
    BY <2>3 DEF HasNearest
  <2> HIDE DEF Nearest
  <2> QED
    BY <1>0, <1>1, <1>4, <2>1, <2>4, <2>5, <2>6
<1> QED
  BY <1>3, <1>4

-----------------------------------------------------------------------------
(* The line just read.  *)

LEMMA KeysAre ==
  ASSUME NEW s, NEW k, <<s, k>> \in Keys
  PROVE  s # "" /\ k # ""
<1>1. \A a, b : <<s, k>> = <<a, b>> => s = a /\ k = b
  BY SMT
<1> QED
  BY <1>1 DEF Keys, Path, Initial, Maximum

LEMMA SettledIs ==
  ASSUME NEW i
  PROVE  /\ Settled(i) <=> \A h \in 1..(i - 1) : ~Unsettling(h)
         /\ Settled(i)' <=> \A h \in 1..(i - 1) : ~Unsettling(h)'
BY DEF Settled, Unsettling

LEMMA NewLine ==
  ASSUME NEW line, Reads(line), TextInv, NEW n, n = Len(text) + 1
  PROVE  /\ text'[n] = line
         /\ Repeated(n)' <=> line.name \in seen_sections
         /\ KeyOf(n)' = <<SectionOf(n), line.name>>
         /\ Unsettling(n)' <=> \/ line.kind = "badHeader"
                               \/ /\ line.kind = "header"
                                  /\ line.name \in seen_sections
         /\ Settled(n + 1)' <=> Settled(n) /\ ~Unsettling(n)'
<1>1. text'[n] = line /\ n \in 1..(Len(text) + 1)
  BY ReadsOne, NearestIs
<1>2. HeadersAbove(n)' = HeadersAbove(n) /\ SectionOf(n)' = SectionOf(n)
  BY <1>1, AboveIsKept
<1>3. \A h \in HeadersAbove(n) : text'[h] = text[h]
  BY <1>1, AboveIsKept, ReadsOne
<1>4. Repeated(n)' <=> line.name \in seen_sections
  BY <1>1, <1>2, <1>3 DEF Repeated, TextInv
<1>5. KeyOf(n)' = <<SectionOf(n), line.name>>
  BY <1>1, <1>2 DEF KeyOf
<1>6. Unsettling(n)' <=> \/ line.kind = "badHeader"
                         \/ line.kind = "header" /\ line.name \in seen_sections
  BY <1>1, <1>4 DEF Unsettling
<1>7. Settled(n + 1)' <=> Settled(n) /\ ~Unsettling(n)'
  <2>1. /\ n - 1 = Len(text) /\ (n + 1) - 1 = n
        /\ \A h : h \in 1..n <=> h \in 1..Len(text) \/ h = n
    BY ReadsOne, SMT
  <2>2. \A h \in 1..Len(text) : Unsettling(h)' = Unsettling(h)
    BY LineIsKept
  <2>3. Settled(n + 1)' <=> \A h \in 1..n : ~Unsettling(h)'
    BY <2>1, SettledIs
  <2>4. Settled(n) <=> \A h \in 1..Len(text) : ~Unsettling(h)
    BY <2>1, SettledIs
  <2> QED
    BY <2>1, <2>2, <2>3, <2>4
<1> QED
  BY <1>1, <1>4, <1>5, <1>6, <1>7

(* An entry is refused exactly if it is faulty, in a settled place.  *)
LEMMA EntryIs ==
  ASSUME NEW line, Reads(line), TextInv, PlaceInv, NEW n, n = Len(text) + 1,
         Settled(n), line.kind = "entry", NEW key, key = <<section, line.name>>
  PROVE  /\ KeyOf(n)' = key
         /\ Keyed(n)' <=> section # "" /\ line.name # ""
         /\ Faulty(n)' <=> \/ section = "" \/ line.name = ""
                           \/ key \in seen_keys \/ key \notin Keys
                           \/ line.value \notin Admissible(key)
<1>1. /\ section = SectionOf(n) /\ n - 1 = Len(text)
      /\ seen_keys = {KeyOf(i) : i \in {k \in 1..Len(text) : Keyed(k)}}
  BY ReadsOne, SMT DEF PlaceInv
<1>2. /\ text'[n] = line /\ KeyOf(n)' = key /\ n \in 1..(Len(text) + 1)
      /\ SectionOf(n)' = SectionOf(n)
  BY <1>1, NewLine, NearestIs, AboveIsKept
<1>3. Keyed(n)' <=> section # "" /\ line.name # ""
  BY <1>1, <1>2 DEF Keyed
<1>4. Faulty(n)' <=> \/ key \notin Keys \/ line.value \notin Admissible(key)
                     \/ \E j \in 1..Len(text) :
                          text[j].kind = "entry" /\ KeyOf(j) = key
  <2>1. \A j \in 1..Len(text) : text'[j] = text[j] /\ KeyOf(j)' = KeyOf(j)
    BY ReadsOne, LineIsKept
  <2>2. Faulty(n)' <=> \/ KeyOf(n)' \notin Keys
                       \/ line.value \notin Admissible(KeyOf(n)')
                       \/ \E j \in 1..Len(text) :
                            text'[j].kind = "entry" /\ KeyOf(j)' = KeyOf(n)'
    BY <1>1, <1>2 DEF Faulty
  <2> QED
    BY <1>2, <2>1, <2>2
<1>5. section # "" /\ line.name # "" =>
        (key \in seen_keys <=> \E j \in 1..Len(text) :
                                 text[j].kind = "entry" /\ KeyOf(j) = key)
  <2>1. ASSUME NEW j, KeyOf(j) = key
        PROVE  SectionOf(j) = section /\ text[j].name = line.name
    BY <2>1, SMT DEF KeyOf
  <2> QED
    BY <1>1, <2>1 DEF Keyed
<1>6. section = "" \/ line.name = "" => key \notin Keys
  BY KeysAre
<1> QED
  BY <1>2, <1>3, <1>4, <1>5, <1>6

-----------------------------------------------------------------------------
(* One turn of the loop.  *)

LEMMA ValuesAre ==
  /\ Default \in [Keys -> Int]
  /\ \A key \in Keys : Admissible(key) \subseteq Int
<1>1. Default \in [Keys -> Int]
  BY SMT DEF Default, Keys, Path, Initial, Maximum
<1>2. ASSUME NEW key \in Keys PROVE Admissible(key) \subseteq Int
  <2>1. Nat \ {0} \subseteq Int /\ 1..Limit(key) \subseteq Int
    BY SMT
  <2> QED
    BY <2>1 DEF Admissible
<1> QED
  BY <1>1, <1>2

LEMMA LineText ==
  ASSUME TextInv, NEW line \in Lines, ReadLine(line)
  PROVE  Reads(line) /\ TextInv'
<1> SUFFICES ASSUME NEW n, n = Len(text) + 1 PROVE Reads(line) /\ TextInv'
  OBVIOUS
<1>1. Reads(line)
  BY DEF TextInv, ReadLine, Reads
<1>2. /\ text' \in Seq(Lines) /\ Len(text') = n /\ Len(text) \in Nat
      /\ 1..Len(text) \subseteq 1..n /\ n \in 1..n
      /\ text'[n] = line
      /\ \A i \in 1..(n + 1) : i \in 1..n \/ i = n + 1
  BY <1>1, ReadsOne, SMT
<1>3. cfg' \in [Keys -> Int]
  <2>1. ASSUME Entry(line.name, line.value) PROVE cfg' \in [Keys -> Int]
    BY <2>1, ValuesAre DEF Entry, TextInv
  <2> QED
    BY <2>1 DEF ReadLine, Header, TextInv
<1>4. issues' \subseteq issues \cup {n}
  BY <1>2 DEF ReadLine, Header, Entry, Issue
<1>5. /\ issues' \subseteq Nat
      /\ verdict' = "reading" /\ out' = Untouched
      /\ issues' \subseteq 1..n
  <2>1. n \in Nat
    BY <1>2, SMT
  <2> QED
    BY <1>2, <1>4, <2>1 DEF TextInv, ReadLine
<1>6. \A i \in 1..(n + 1) : HasNearest(i)'
  <2>1. ASSUME NEW i \in 1..n PROVE HasNearest(i)'
    BY <1>1, <2>1, AboveIsKept DEF TextInv, HasNearest
  <2> QED
    BY <1>1, <1>2, <2>1, NearestIs
<1>7. seen_sections' = {text'[h].name : h \in HeadersAbove(n + 1)'}
  <2>1. \A h \in HeadersAbove(n) : text'[h] = text[h]
    BY <1>1, <1>2, AboveIsKept, ReadsOne
  <2>2. seen_sections = {text'[h].name : h \in HeadersAbove(n)}
    BY <2>1 DEF TextInv
  <2>3. CASE line.kind # "header"
    <3>1. seen_sections' = seen_sections
      BY <2>3 DEF ReadLine, Entry
    <3>2. HeadersAbove(n + 1)' = HeadersAbove(n)
      BY <1>1, <2>3, NearestIs
    <3> QED
      BY <2>2, <3>1, <3>2
  <2>4. CASE line.kind = "header"
    <3>1. seen_sections' = seen_sections \cup {line.name}
      BY <2>4 DEF ReadLine, Header
    <3>2. HeadersAbove(n + 1)' = HeadersAbove(n) \cup {n}
      BY <1>1, <2>4, NearestIs
    <3> QED
      BY <1>2, <2>2, <3>1, <3>2
  <2> QED
    BY <2>3, <2>4
<1> QED
  BY <1>1, <1>2, <1>3, <1>5, <1>6, <1>7 DEF TextInv

(* The line is listed exactly if it is wrong.  *)
LEMMA LineIssue ==
  ASSUME TextInv, IssueInv, PlaceInv, NEW line \in Lines, ReadLine(line)
  PROVE  IssueInv'
<1> SUFFICES ASSUME NEW n, n = Len(text) + 1 PROVE IssueInv'
  OBVIOUS
<1>1. Reads(line) /\ TextInv'
  BY LineText
<1>2. /\ Len(text') = n /\ n \notin 1..Len(text)
      /\ 1..Len(text) \subseteq 1..(Len(text) + 1) /\ n \in 1..(Len(text) + 1)
      /\ \A i \in 1..n : i \in 1..Len(text) \/ i = n
  BY <1>1, ReadsOne, SMT
<1>3. /\ issues' = issues \/ issues' = issues \cup {n}
      /\ n \notin issues
  BY <1>2 DEF TextInv, ReadLine, Header, Entry, Issue
<1>4. ASSUME NEW i \in 1..Len(text)
      PROVE  /\ Settled(i)' => (i \in issues' <=> Faulty(i)')
             /\ Unsettling(i)' => i \in issues'
  <2>1. i \in issues' <=> i \in issues
    BY <1>2, <1>3
  <2>2. /\ Settled(i)' = Settled(i) /\ Faulty(i)' = Faulty(i)
        /\ Unsettling(i)' = Unsettling(i)
    BY <1>1, <1>2, VerdictIsKept, LineIsKept
  <2> QED
    BY <2>1, <2>2 DEF IssueInv
<1>5. /\ Settled(n)' => (n \in issues' <=> Faulty(n)')
      /\ Unsettling(n)' => n \in issues'
  <2>1. /\ text'[n] = line /\ Settled(n)' = Settled(n)
        /\ Repeated(n)' <=> line.name \in seen_sections
        /\ Unsettling(n)' <=> \/ line.kind = "badHeader"
                              \/ /\ line.kind = "header"
                                 /\ line.name \in seen_sections
    BY <1>1, <1>2, NewLine, VerdictIsKept
  <2>2. CASE line.kind = "blank"
    BY <1>3, <2>1, <2>2 DEF ReadLine, Faulty
  <2>3. CASE line.kind \in {"badHeader", "noEquals"}
    BY <1>2, <2>1, <2>3 DEF ReadLine, Issue, Faulty
  <2>4. CASE line.kind = "header"
    <3>1. n \in issues' <=>
            line.name \in seen_sections \/ line.name \notin Sections
      BY <1>2, <1>3, <2>4 DEF ReadLine, Header, Issue
    <3> QED
      BY <2>1, <2>4, <3>1 DEF Faulty
  <2>5. CASE line.kind = "entry"
    <3> SUFFICES ASSUME Settled(n) PROVE n \in issues' <=> Faulty(n)'
      BY <2>1, <2>5
    <3>1. Entry(line.name, line.value)
      BY <2>5 DEF ReadLine
    <3>2. n \in issues' <=> \/ section = "" \/ line.name = ""
                            \/ <<section, line.name>> \in seen_keys
                            \/ <<section, line.name>> \notin Keys
                            \/ line.value \notin
                                 Admissible(<<section, line.name>>)
      BY <1>2, <1>3, <3>1 DEF Entry, Issue
    <3> QED
      BY <1>1, <2>5, <3>2, EntryIs
  <2> QED
    BY <2>2, <2>3, <2>4, <2>5, ConfigAssumption DEF Kinds
<1> QED
  BY <1>2, <1>4, <1>5 DEF IssueInv

(* The loader stays in the section of the line to come, and what it has      *)
(* stored is what the lines say.                                             *)
LEMMA LinePlace ==
  ASSUME TextInv, IssueInv, PlaceInv, NEW line \in Lines, ReadLine(line)
  PROVE  PlaceInv'
<1> SUFFICES ASSUME NEW n, n = Len(text) + 1, Settled(n + 1)'
             PROVE  /\ section' = SectionOf(n + 1)'
                    /\ seen_keys' = {KeyOf(i)' : i \in {k \in 1..n : Keyed(k)'}}
                    /\ \A key \in Keys :
                         \/ /\ cfg'[key] = Default[key]
                            /\ \A i \in 1..n : Told(i)' => KeyOf(i)' # key
                         \/ \E i \in 1..n : /\ Told(i)' /\ KeyOf(i)' = key
                                            /\ cfg'[key] = text'[i].value
  <2>1. ASSUME NEW n, n = Len(text) + 1 PROVE n = Len(text')
    BY <2>1, LineText, NearestIs
  <2> QED
    BY <2>1, ZenonT(60) DEF PlaceInv
<1>1. Reads(line) /\ TextInv'
  BY LineText
<1>2. /\ Len(text') = n /\ n \in 1..(Len(text) + 1)
      /\ \A i : i \in 1..n <=> i \in 1..Len(text) \/ i = n
  BY <1>1, ReadsOne, SMT
<1>3. /\ Settled(n) /\ text'[n] = line
      /\ line.kind # "badHeader"
      /\ line.kind = "header" => line.name \notin seen_sections
  BY <1>1, NewLine
<1>4. \A i \in 1..Len(text) :
        /\ KeyOf(i)' = KeyOf(i) /\ Keyed(i)' = Keyed(i) /\ Told(i)' = Told(i)
        /\ text'[i] = text[i]
  BY <1>1, LineIsKept, VerdictIsKept, ReadsOne DEF Told
<1>5. /\ section = SectionOf(n)
      /\ seen_keys = {KeyOf(i) : i \in {k \in 1..Len(text) : Keyed(k)}}
      /\ \A key \in Keys :
           \/ /\ cfg[key] = Default[key]
              /\ \A i \in 1..Len(text) : Told(i) => KeyOf(i) # key
           \/ \E i \in 1..Len(text) :
                Told(i) /\ KeyOf(i) = key /\ cfg[key] = text[i].value
  BY <1>3 DEF PlaceInv
<1>6. ASSUME NEW key \in Keys, cfg'[key] = cfg[key],
             Told(n)' => KeyOf(n)' # key
      PROVE  \/ /\ cfg'[key] = Default[key]
                /\ \A i \in 1..n : Told(i)' => KeyOf(i)' # key
             \/ \E i \in 1..n : /\ Told(i)' /\ KeyOf(i)' = key
                                /\ cfg'[key] = text'[i].value
  <2>1. CASE /\ cfg[key] = Default[key]
             /\ \A i \in 1..Len(text) : Told(i) => KeyOf(i) # key
    BY <1>2, <1>4, <1>6, <2>1
  <2>2. CASE \E i \in 1..Len(text) :
               Told(i) /\ KeyOf(i) = key /\ cfg[key] = text[i].value
    BY <1>2, <1>4, <1>6, <2>2
  <2> QED
    BY <1>5, <2>1, <2>2
<1>7. ASSUME NEW new, seen_keys' = seen_keys \cup new,
             Keyed(n)' => new = {KeyOf(n)'}, ~Keyed(n)' => new = {}
      PROVE  seen_keys' = {KeyOf(i)' : i \in {k \in 1..n : Keyed(k)'}}
  <2>1. ASSUME NEW x PROVE x \in seen_keys <=>
                           \E i \in 1..Len(text) : Keyed(i)' /\ x = KeyOf(i)'
    BY <1>4, <1>5
  <2>2. ASSUME NEW x PROVE x \in seen_keys' <=>
                           \E i \in 1..n : Keyed(i)' /\ x = KeyOf(i)'
    BY <1>2, <1>7, <2>1
  <2> QED
    BY <2>2
<1>8. CASE line.kind # "entry"
  <2>1. seen_keys' = seen_keys /\ cfg' = cfg
    BY <1>8 DEF ReadLine, Header
  <2>2. ~Keyed(n)' /\ ~Told(n)'
    BY <1>3, <1>8 DEF Keyed, Told
  <2>3. section' = SectionOf(n + 1)'
    <3>1. CASE line.kind = "header"
      BY <1>1, <1>3, <3>1, NearestIs DEF ReadLine, Header
    <3>2. CASE line.kind # "header"
      BY <1>1, <1>5, <1>8, <3>2, NearestIs DEF ReadLine
    <3> QED
      BY <3>1, <3>2
  <2>4. seen_keys' = seen_keys \cup {}
    BY <2>1
  <2> QED
    BY <1>6, <1>7, <2>1, <2>2, <2>3, <2>4
<1>9. CASE line.kind = "entry"
  <2> DEFINE this == <<section, line.name>>
  <2>1. Entry(line.name, line.value)
    BY <1>9 DEF ReadLine
  <2>2. section' = SectionOf(n + 1)'
    BY <1>1, <1>5, <1>9, <2>1, NearestIs DEF Entry
  <2>3. /\ KeyOf(n)' = this
        /\ Keyed(n)' <=> section # "" /\ line.name # ""
        /\ Faulty(n)' <=> \/ section = "" \/ line.name = ""
                          \/ this \in seen_keys \/ this \notin Keys
                          \/ line.value \notin Admissible(this)
    BY <1>1, <1>3, <1>9, EntryIs
  <2>4. /\ seen_keys' = IF Keyed(n)' THEN seen_keys \cup {this} ELSE seen_keys
        /\ cfg' = IF Faulty(n)' THEN cfg ELSE [cfg EXCEPT ![this] = line.value]
    BY <2>1, <2>3 DEF Entry
  <2> HIDE DEF this
  <2>5. seen_keys' = {KeyOf(i)' : i \in {k \in 1..n : Keyed(k)'}}
    <3>1. seen_keys' = seen_keys \cup IF Keyed(n)' THEN {this} ELSE {}
      BY <2>4
    <3> QED
      BY <1>7, <2>3, <3>1
  <2>6. ASSUME NEW key \in Keys
        PROVE  \/ /\ cfg'[key] = Default[key]
                  /\ \A i \in 1..n : Told(i)' => KeyOf(i)' # key
               \/ \E i \in 1..n : /\ Told(i)' /\ KeyOf(i)' = key
                                  /\ cfg'[key] = text'[i].value
    <3>1. CASE ~Faulty(n)' /\ key = this
      <4>1. Told(n)' /\ KeyOf(n)' = key /\ text'[n].value = line.value
        BY <1>3, <1>9, <2>3, <3>1 DEF Told
      <4>2. cfg'[key] = line.value
        BY <2>4, <3>1 DEF TextInv
      <4> QED
        BY <1>2, <4>1, <4>2
    <3>2. CASE Faulty(n)' \/ key # this
      <4>1. cfg'[key] = cfg[key] /\ (Told(n)' => KeyOf(n)' # key)
        BY <2>3, <2>4, <3>2 DEF TextInv, Told
      <4> QED
        BY <1>6, <4>1
    <3> QED
      BY <3>1, <3>2
  <2> QED
    BY <2>2, <2>5, <2>6
<1> QED
  BY <1>8, <1>9

-----------------------------------------------------------------------------
(* The end of the file.  *)

(* In a file without a faulty line the loader has stored what each key was   *)
(* given.                                                                    *)
LEMMA GivenIs ==
  ASSUME TextInv, PlaceInv, \A i \in 1..Len(text) : ~Faulty(i),
         NEW key \in Keys
  PROVE  cfg[key] = Given(key)
<1> DEFINE lines == {i \in 1..Len(text) : text[i].kind = "entry"
                                          /\ KeyOf(i) = key}
<1>1. Settled(Len(text) + 1)
  <2>1. \A h \in 1..Len(text) : ~Unsettling(h)
    BY DEF Unsettling, Faulty
  <2>2. (Len(text) + 1) - 1 = Len(text)
    BY SMT DEF TextInv
  <2> QED
    BY <2>1, <2>2, SettledIs
<1>2. \/ cfg[key] = Default[key] /\ lines = {}
      \/ \E i \in lines : cfg[key] = text[i].value
  BY <1>1 DEF PlaceInv, Told
<1>3. \A i, j \in lines : i = j
  <2>1. ASSUME NEW i \in lines, NEW j \in lines, i # j PROVE FALSE
    <3>1. i \in 1..(j - 1) \/ j \in 1..(i - 1)
      BY <2>1, SMT DEF TextInv
    <3> QED
      BY <3>1 DEF Faulty
  <2> QED
    BY <2>1
<1>4. Given(key) = IF lines = {} THEN Default[key]
                   ELSE text[CHOOSE i \in lines : TRUE].value
  BY DEF Given
<1> HIDE DEF lines
<1>5. CASE lines = {}
  BY <1>2, <1>4, <1>5
<1>6. CASE lines # {}
  <2>1. PICK i \in lines : cfg[key] = text[i].value
    BY <1>2, <1>6
  <2>2. (CHOOSE k \in lines : TRUE) \in lines
    BY <2>1
  <2> QED
    BY <1>3, <1>4, <1>6, <2>1, <2>2
<1> QED
  BY <1>5, <1>6

(* What is said of the lines depends on nothing else.  *)
LEMMA SameText ==
  ASSUME text' = text
  PROVE  /\ \A i : /\ HeadersAbove(i)' = HeadersAbove(i)
                  /\ HasNearest(i)' = HasNearest(i)
                  /\ SectionOf(i)' = SectionOf(i) /\ KeyOf(i)' = KeyOf(i)
                  /\ Faulty(i)' = Faulty(i) /\ Settled(i)' = Settled(i)
                  /\ Unsettling(i)' = Unsettling(i)
                  /\ Keyed(i)' = Keyed(i) /\ Told(i)' = Told(i)
         /\ \A key : Given(key)' = Given(key)
         /\ Sound' = Sound
<1> DEFINE Nearest(H) == CHOOSE h \in H : \A g \in H : g <= h
<1>1. \A i : HeadersAbove(i)' = HeadersAbove(i)
  BY DEF HeadersAbove
<1>2. \A i : SectionOf(i)' = SectionOf(i)
  <2>1. \A i : /\ SectionOf(i) = IF HeadersAbove(i) = {} THEN ""
                                ELSE text[Nearest(HeadersAbove(i))].name
              /\ SectionOf(i)' = IF HeadersAbove(i)' = {} THEN ""
                                 ELSE text'[Nearest(HeadersAbove(i)')].name
    BY DEF SectionOf
  <2> HIDE DEF Nearest
  <2> QED
    BY <1>1, <2>1
<1>3. \A i : /\ KeyOf(i)' = KeyOf(i) /\ Repeated(i)' = Repeated(i)
            /\ HasNearest(i)' = HasNearest(i)
  BY <1>1, <1>2 DEF KeyOf, Repeated, HasNearest
<1>4. \A i : Faulty(i)' = Faulty(i) /\ Settled(i)' = Settled(i)
  BY <1>3 DEF Faulty, Settled
<1>5. \A i : /\ Unsettling(i)' = Unsettling(i)
            /\ Keyed(i)' = Keyed(i) /\ Told(i)' = Told(i)
  BY <1>2, <1>3, <1>4 DEF Unsettling, Keyed, Told
<1>6. \A key : Given(key)' = Given(key)
  <2> DEFINE lines(key) == {i \in 1..Len(text) :
                              text[i].kind = "entry" /\ KeyOf(i) = key}
             Value(t, L, key) == IF L = {} THEN Default[key]
                                 ELSE t[CHOOSE i \in L : TRUE].value
  <2>1. \A key : lines(key)' = lines(key)
    BY <1>3
  <2>2. \A key : /\ Given(key) = Value(text, lines(key), key)
                /\ Given(key)' = Value(text', lines(key)', key)
    BY DEF Given
  <2> HIDE DEF lines, Value
  <2> QED
    BY <2>1, <2>2
<1>7. Sound' = Sound
  BY <1>4, <1>6 DEF Sound
<1> QED
  BY <1>1, <1>2, <1>3, <1>4, <1>5, <1>6, <1>7

LEMMA EndExact ==
  ASSUME TextInv, IssueInv, PlaceInv, Finish
  PROVE  ConfigExact'
<1>0. /\ UNCHANGED <<text, section, cfg>> /\ out = Untouched
      /\ issues \subseteq 1..Len(text) /\ 0 \notin 1..Len(text)
  BY SMT DEF Finish, TextInv
<1>1. /\ Sound' = Sound /\ \A key : Given(key)' = Given(key)
      /\ \A i : Settled(i)' = Settled(i) /\ Faulty(i)' = Faulty(i)
  BY <1>0, SameText
<1>2. \A i \in 1..Len(text) : i \in issues' <=> i \in issues
  BY <1>0 DEF Finish
<1>3. issues = {} <=> \A i \in 1..Len(text) : ~Faulty(i)
  <2>1. ASSUME \A i \in 1..Len(text) : ~Faulty(i) PROVE issues = {}
    <3>1. \A i \in 1..Len(text) : ~Unsettling(i)
      BY <2>1 DEF Unsettling, Faulty
    <3>2. \A i \in 1..Len(text) : \A h \in 1..(i - 1) : h \in 1..Len(text)
      BY SMT DEF TextInv
    <3>3. \A i \in 1..Len(text) : Settled(i)
      BY <3>1, <3>2, SettledIs
    <3> QED
      BY <1>0, <2>1, <3>3 DEF IssueInv
  <2>2. ASSUME issues = {} PROVE \A i \in 1..Len(text) : ~Faulty(i)
    <3>1. \A i \in 1..Len(text) : ~Unsettling(i)
      BY <2>2 DEF IssueInv
    <3>2. \A i \in 1..Len(text) : \A h \in 1..(i - 1) : h \in 1..Len(text)
      BY SMT DEF TextInv
    <3>3. \A i \in 1..Len(text) : Settled(i)
      BY <3>1, <3>2, SettledIs
    <3> QED
      BY <2>2, <3>3 DEF IssueInv
  <2> QED
    BY <2>1, <2>2
<1>4. IF issues = {} /\ cfg[Path] # 0 /\ cfg[Initial] <= cfg[Maximum]
      THEN verdict' = "accepted" /\ out' = cfg
      ELSE verdict' = "refused" /\ out' = Untouched
  <2>1. Initial \in Keys /\ Maximum \in Keys
    BY DEF Keys
  <2>2. cfg[Initial] > cfg[Maximum] <=> ~(cfg[Initial] <= cfg[Maximum])
    BY <2>1, SMT DEF TextInv
  <2>3. issues' = {} <=>
          issues = {} /\ cfg[Path] # 0 /\ cfg[Initial] <= cfg[Maximum]
    BY <2>2 DEF Finish
  <2> QED
    BY <1>0, <2>3 DEF Finish
<1>5. IF Sound THEN /\ verdict' = "accepted"
                    /\ \A key \in Keys : out'[key] = Given(key)
               ELSE verdict' = "refused" /\ out' = Untouched
  <2>1. CASE issues = {}
    <3>1. \A key \in Keys : cfg[key] = Given(key)
      BY <1>3, <2>1, GivenIs
    <3>2. {Path, Initial, Maximum} \subseteq Keys
      BY DEF Keys
    <3>3. Sound <=> cfg[Path] # 0 /\ cfg[Initial] <= cfg[Maximum]
      BY <1>3, <2>1, <3>1, <3>2 DEF Sound
    <3> QED
      BY <1>4, <2>1, <3>1, <3>3
  <2>2. CASE issues # {}
    BY <1>3, <1>4, <2>2 DEF Sound
  <2> QED
    BY <2>1, <2>2
<1>6. \A i \in 1..Len(text) : Settled(i)' => (i \in issues' <=> Faulty(i)')
  BY <1>1, <1>2 DEF IssueInv
<1> QED
  BY <1>0, <1>1, <1>5, <1>6 DEF ConfigExact

-----------------------------------------------------------------------------

LEMMA InitConfig == CInit => ConfigInv
<1> SUFFICES ASSUME CInit PROVE ConfigInv
  OBVIOUS
<1>1. text = <<>> /\ Len(text) = 0 /\ text \in Seq(Lines) /\ 1..Len(text) = {}
  <2>1. text = <<>>
    BY DEF CInit
  <2>2. Len(text) = 0 /\ text \in Seq(Lines)
    BY <2>1, SMT
  <2> QED
    BY <2>1, <2>2, SMT
<1>2. HeadersAbove(Len(text) + 1) = {}
  BY <1>1, SMT DEF HeadersAbove
<1>3. \A i \in 1..(Len(text) + 1) : i = Len(text) + 1
  BY <1>1, SMT
<1>4. TextInv
  BY <1>1, <1>2, <1>3, ValuesAre DEF TextInv, CInit, HasNearest
<1>5. IssueInv /\ ConfigExact
  BY <1>1 DEF IssueInv, ConfigExact, CInit
<1>6. PlaceInv
  BY <1>1, <1>2 DEF PlaceInv, CInit, SectionOf
<1> QED
  BY <1>4, <1>5, <1>6 DEF ConfigInv

(* Steps that read no line leave what is known of the lines alone.  *)
LEMMA OtherStep ==
  ASSUME ConfigInv, OpenFile \/ Finish \/ UNCHANGED cvars
  PROVE  TextInv' /\ IssueInv' /\ PlaceInv'
<1> USE DEF ConfigInv
<1>1. 0 \in Nat /\ 0 \notin 1..Len(text)
  BY SMT DEF TextInv
<1>2. /\ UNCHANGED <<text, section, seen_sections, seen_keys, cfg>>
      /\ issues' \subseteq issues \cup {0} /\ issues \subseteq issues'
      /\ verdict' = "open" => issues' = {}
      /\ verdict' \in {"open", "reading"} =>
           out' = Untouched /\ issues' \subseteq 1..Len(text)
  <2>1. CASE OpenFile
    BY <2>1 DEF OpenFile, TextInv
  <2>2. CASE Finish
    BY <2>2 DEF Finish, TextInv
  <2>3. CASE UNCHANGED cvars
    BY <2>3 DEF cvars, TextInv
  <2> QED
    BY <2>1, <2>2, <2>3
<1>3. TextInv'
  BY <1>1, <1>2, SameText DEF TextInv
<1>4. IssueInv'
  <2>1. \A i \in 1..Len(text) : i \in issues' <=> i \in issues
    BY <1>1, <1>2
  <2> QED
    BY <1>2, <2>1, SameText DEF IssueInv
<1>5. PlaceInv'
  <2>1. /\ Settled(Len(text) + 1)' = Settled(Len(text) + 1)
        /\ SectionOf(Len(text) + 1)' = SectionOf(Len(text) + 1)
        /\ \A i : /\ KeyOf(i)' = KeyOf(i) /\ Keyed(i)' = Keyed(i)
                 /\ Told(i)' = Told(i)
    BY <1>2, SameText
  <2>2. {KeyOf(i) : i \in {k \in 1..Len(text) : Keyed(k)}}'
          = {KeyOf(i) : i \in {k \in 1..Len(text) : Keyed(k)}}
    BY <1>2, <2>1
  <2> QED
    BY <1>2, <2>1, <2>2 DEF PlaceInv
<1> QED
  BY <1>3, <1>4, <1>5

LEMMA NextConfig == ConfigInv /\ [CNext]_cvars => ConfigInv'
<1> SUFFICES ASSUME ConfigInv, [CNext]_cvars PROVE ConfigInv'
  OBVIOUS
<1> USE DEF ConfigInv
<1>1. CASE \E line \in Lines : ReadLine(line)
  <2>1. PICK line \in Lines : ReadLine(line)
    BY <1>1
  <2>2. verdict' = "reading"
    BY <2>1 DEF ReadLine
  <2> QED
    BY <2>1, <2>2, LineText, LineIssue, LinePlace DEF ConfigExact, IssueInv
<1>2. CASE OpenFile
  <2>1. verdict' \in {"reading", "unreadable"}
    BY <1>2 DEF OpenFile
  <2> QED
    BY <1>2, <2>1, OtherStep DEF ConfigExact, IssueInv
<1>3. CASE Finish
  BY <1>3, OtherStep, EndExact
<1>4. CASE UNCHANGED cvars
  <2>1. UNCHANGED <<text, section, seen_sections, seen_keys, cfg, issues, out,
                    verdict>>
    BY <1>4 DEF cvars
  <2>2. TextInv' /\ IssueInv' /\ PlaceInv'
    BY <1>4, OtherStep
  <2>3. ConfigExact'
    <3>1. Sound' = Sound /\ \A key \in Keys : Given(key)' = Given(key)
      BY <2>1, SameText
    <3>2. verdict' \in {"accepted", "refused"} =>
            IF Sound' THEN /\ verdict' = "accepted"
                           /\ \A key \in Keys : out'[key] = Given(key)'
                      ELSE verdict' = "refused" /\ out' = Untouched
      BY <2>1, <3>1 DEF ConfigExact
    <3> QED
      BY <2>2, <3>2 DEF ConfigExact, IssueInv
  <2> QED
    BY <2>2, <2>3
<1> QED
  BY <1>1, <1>2, <1>3, <1>4 DEF CNext

(* For files of any length, made of any lines: load_config_from_string       *)
(* accepts a file exactly if nothing in it is wrong, leaves the caller's     *)
(* Config alone otherwise, and lists exactly the lines that are wrong        *)
(* (L2-CFG-008, L3-CPP-033 to 039).                                          *)
THEOREM ConfigExactAlways == CSpec => []ConfigExact
<1>1. ConfigInv => ConfigExact
  BY DEF ConfigInv
<1> QED
  BY InitConfig, NextConfig, <1>1, PTL DEF CSpec

=============================================================================
