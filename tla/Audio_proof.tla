----------------------------- MODULE Audio_proof -----------------------------
(***************************************************************************)
(* The audio device of audio_pwm.v, proved for every width of the sample   *)
(* counter, every set of dividers and samples of any number of bits.       *)
(*                                                                         *)
(* Pacing.  The counter and the time since the last request add up to the  *)
(* period.                                                                 *)
(*                                                                         *)
(* Pulses.  A block of 2^k cycles is two blocks of 2^(k - 1), in which the *)
(* reversed counter starts from r and from r + 2^(Bits - k).  So, one k    *)
(* after the other, a block has seen the values r, r + 2^(Bits - k), r + 2 *)
(* * 2^(Bits - k) and so on, each once and in some order.                  *)
(***************************************************************************)
EXTENDS Audio, FiniteSetTheorems, WellFoundedInduction, TLAPS

-----------------------------------------------------------------------------
(* What the counter holds n cycles after it was loaded with d.              *)
Position(d, n) == IF d = 0 /\ n = 1 THEN 0 ELSE Period(d) - n

(* Until the period is over the counter tells how much of it is left; a     *)
(* request goes out as it reaches 0, unless audio was off.                  *)
InStep ==
  /\ elapsed <= Period(loaded) => sample_counter = Position(loaded, elapsed)
  /\ sample_request => sample_counter = 0

IInv == TypeOK /\ InStep /\ NeverTooSoon /\ SampleOnTime

(* A decrement stays within the width of the counter.                       *)
LEMMA LessType == \A n \in Count : Less(n) \in Count
  BY AudioAssumption DEF Count, Less

(* The reset state satisfies the invariant.                                 *)
LEMMA InitIInv == Init => IInv
<1>. SUFFICES ASSUME Init PROVE IInv
  OBVIOUS
<1>. USE AudioAssumption
<1>1. /\ ~sample_request /\ ~missed /\ ~intr_state /\ ~chip_state
      /\ sample_counter = ResetDiv /\ loaded = ResetDiv /\ elapsed = 1
      /\ audio_clk_div = ResetDiv
  BY DEF Init
<1>2. intr_state \in BOOLEAN /\ chip_state \in BOOLEAN
  BY DEF Init
<1>3. sample_request \in BOOLEAN /\ missed \in BOOLEAN
  BY DEF Init
<1>4. TypeOK
  BY <1>1, <1>2, <1>3 DEF TypeOK, Count
<1>5. InStep /\ NeverTooSoon /\ SampleOnTime
  BY <1>1 DEF InStep, NeverTooSoon, SampleOnTime, Position, Period
<1>. QED  BY <1>4, <1>5 DEF IInv

(* A request comes only from the counter value 1.                           *)
LEMMA RequestAtOne == Tick /\ sample_request' => sample_counter = 1
<1>. SUFFICES ASSUME Tick, sample_request' PROVE sample_counter = 1
  OBVIOUS
<1>1. sample_request' = Request
  BY DEF Tick
<1>2. Request
  BY <1>1
<1>. QED  BY <1>2 DEF Request

(* A clock cycle in which a sample is requested starts a new period.        *)
LEMMA RequestCycle ==
  ASSUME IInv, Tick, sample_request PROVE IInv'
<1>. USE AudioAssumption
<1>1. /\ TypeOK /\ sample_counter = 0
      /\ loaded' = audio_clk_div /\ elapsed' = 1
      /\ missed' = ~(intr_state /\ chip_state)
      /\ sample_counter' = audio_clk_div
  BY DEF IInv, InStep, Tick, History, Counter
<1>2. ~sample_request'
  BY <1>1, RequestAtOne
<1>3. /\ audio_clk_div' \in Count
      /\ intr_state' \in BOOLEAN /\ chip_state' \in BOOLEAN
  BY <1>1 DEF Tick, Access, registers, TypeOK, Count
<1>4. TypeOK'
  <2>1. missed' \in BOOLEAN
    BY <1>1
  <2>2. sample_request' \in BOOLEAN
    BY <1>2 DEF Tick, Request
  <2>. QED  BY <1>1, <1>3, <2>1, <2>2 DEF TypeOK, Count
<1>5. Period(loaded') > 1 /\ Period(loaded') \in Nat
  BY <1>1 DEF Period, TypeOK, Count
<1>6. InStep' /\ NeverTooSoon' /\ SampleOnTime'
  BY <1>1, <1>2, <1>4, <1>5
     DEF InStep, NeverTooSoon, SampleOnTime, Position, Period, TypeOK, Count
<1>. QED  BY <1>4, <1>6 DEF IInv

(* A clock cycle without a request moves the counter one step on.           *)
LEMMA PlainCycle ==
  ASSUME IInv, Tick, ~sample_request PROVE IInv'
<1>. USE AudioAssumption
<1>1. /\ TypeOK
      /\ loaded' = loaded /\ elapsed' = Capped(elapsed + 1)
      /\ missed' = (missed \/ ~(intr_state /\ chip_state))
      /\ sample_counter' = Less(sample_counter)
      /\ sample_request' = Request
  BY DEF IInv, Tick, History, Counter
<1>2. /\ audio_clk_div' \in Count
      /\ intr_state' \in BOOLEAN /\ chip_state' \in BOOLEAN
  BY <1>1 DEF Tick, Access, registers, TypeOK, Count
<1>3. TypeOK'
  <2>1. missed' \in BOOLEAN
    BY <1>1
  <2>2. sample_request' \in BOOLEAN
    BY <1>1 DEF Request
  <2>3. elapsed' \in 1 .. Width + 2
    BY <1>1 DEF Capped, TypeOK
  <2>. QED  BY <1>1, <1>2, <2>1, <2>2, <2>3, LessType DEF TypeOK, Count
<1>4. /\ loaded \in Count /\ elapsed \in 1 .. Width + 2
      /\ sample_counter \in Count
      /\ Period(loaded) \in 2 .. Width + 1
  BY <1>1 DEF TypeOK, Period, Count
<1>5. CASE elapsed < Period(loaded)
  <2>1. elapsed' = elapsed + 1
    BY <1>1, <1>4, <1>5 DEF Capped
  <2>2. sample_counter = Position(loaded, elapsed)
    BY <1>4, <1>5 DEF IInv, InStep
  <2>3. sample_counter' = Position(loaded', elapsed')
    BY <1>1, <1>4, <1>5, <2>1, <2>2 DEF Position, Period, Less, Count
  <2>4. sample_counter = 1 <=> elapsed' = Period(loaded')
    BY <1>1, <1>4, <1>5, <2>1, <2>2 DEF Position, Period, Count
  <2>5. sample_request' => /\ sample_counter = 1
                           /\ sample_counter' = 0
    BY <1>1, RequestAtOne DEF Less
  <2>6. InStep' /\ NeverTooSoon'
    <3>1. elapsed' <= Period(loaded')
      BY <1>1, <1>4, <1>5, <2>1
    <3>. QED  BY <1>4, <2>1, <2>3, <2>4, <2>5, <3>1, <1>1 DEF InStep, NeverTooSoon
  <2>7. SampleOnTime'
    <3>1. SUFFICES ASSUME ~missed'
                   PROVE  /\ elapsed' <= Period(loaded')
                          /\ sample_request' <=> elapsed' = Period(loaded')
      BY DEF SampleOnTime
    <3>2. intr_state /\ chip_state
      BY <1>1, <3>1
    <3>3. sample_request' <=> sample_counter = 1
      BY <1>1, <3>2 DEF Request
    <3>4. elapsed' <= Period(loaded')
      BY <1>1, <1>4, <1>5, <2>1
    <3>. QED  BY <2>4, <3>3, <3>4
  <2>. QED  BY <1>3, <2>6, <2>7 DEF IInv
<1>6. CASE elapsed >= Period(loaded)
  <2>1. missed
    BY <1>4, <1>6 DEF IInv, SampleOnTime
  <2>2. elapsed' > Period(loaded')
    BY <1>1, <1>4, <1>6 DEF Capped
  <2>3. Period(loaded') \in Nat /\ elapsed' \in Nat
    BY <1>1, <1>3, <1>4 DEF TypeOK
  <2>4. sample_request' => sample_counter' = 0
    BY <1>1, RequestAtOne DEF Less
  <2>5. missed'
    BY <1>1, <2>1
  <2>6. InStep'
    BY <2>2, <2>3, <2>4 DEF InStep
  <2>7. NeverTooSoon' /\ SampleOnTime'
    BY <2>2, <2>3, <2>5 DEF NeverTooSoon, SampleOnTime
  <2>. QED  BY <1>3, <2>6, <2>7 DEF IInv
<1>. QED  BY <1>4, <1>5, <1>6

(* Every clock cycle keeps the invariant.                                   *)
LEMMA NextIInv == IInv /\ [Next]_vars => IInv'
<1>1. ASSUME IInv, Tick PROVE IInv'
  BY <1>1, RequestCycle, PlainCycle
<1>2. ASSUME IInv, UNCHANGED vars PROVE IInv'
  BY <1>2 DEF vars, registers, IInv, TypeOK, InStep, NeverTooSoon,
              SampleOnTime, Count, Position, Period
<1>. QED  BY <1>1, <1>2 DEF Next

-----------------------------------------------------------------------------
(* A set of numbers that is not empty has a least element, and so a set
   with 0 and every successor has them all. *)
LEMMA Least ==
  ASSUME NEW T, T \subseteq Nat, T # {}
  PROVE  \E x \in T : \A y \in T : x <= y
<1> DEFINE R == {ss \in Nat \X Nat : ss[1] < ss[2]}
<1>1. IsWellFoundedOn(R, Nat)
  BY NatLessThanWellFounded DEF OpToRel
<1>2. PICK x \in T : \A y \in T : <<y, x>> \notin R
  <2> HIDE DEF R
  <2> QED
    BY <1>1, WFMin
<1>3. ASSUME NEW y \in T PROVE x <= y
  <2>1. <<y, x>> \notin R
    BY <1>2
  <2>2. <<y, x>> \in Nat \X Nat /\ <<y, x>>[1] = y /\ <<y, x>>[2] = x
    OBVIOUS
  <2> QED
    BY <2>1, <2>2
<1> QED
  BY <1>3

LEMMA Induction ==
  ASSUME NEW S, 0 \in S, \A n \in Nat : n \in S => n + 1 \in S
  PROVE  \A n \in Nat : n \in S
<1> SUFFICES ASSUME Nat \ S # {} PROVE FALSE
  OBVIOUS
<1> DEFINE T == Nat \ S
<1>1. T \subseteq Nat /\ T # {}
  OBVIOUS
<1>2. PICK x \in T : \A y \in T : x <= y
  <2> HIDE DEF T
  <2> QED
    BY <1>1, Least
<1>3. x # 0 /\ x - 1 \in Nat /\ x - 1 < x
  BY <1>2
<1>4. x - 1 \in S
  BY <1>2, <1>3
<1>5. (x - 1) + 1 \in S
  BY <1>3, <1>4
<1> QED
  BY <1>2, <1>3, <1>5

(* The powers of two up to that of n.                                       *)
Powers(n, p) == p = [j \in 0 .. n |-> IF j = 0 THEN 1 ELSE 2 * p[j - 1]]

LEMMA SomePowers ==
  ASSUME NEW n \in Nat
  PROVE  \E p : Powers(n, p)
<1> DEFINE S == {m \in Nat : \E p : Powers(m, p)}
<1>1. 0 \in S
  <2>1. Powers(0, [j \in 0 .. 0 |-> 1])
    BY DEF Powers
  <2> QED
    BY <2>1
<1>2. ASSUME NEW m \in Nat, m \in S PROVE m + 1 \in S
  <2>1. PICK p : Powers(m, p)
    BY <1>2
  <2> DEFINE q == [j \in 0 .. m + 1 |-> IF j = m + 1 THEN 2 * p[m] ELSE p[j]]
  <2>2. \A j \in 0 .. m : p[j] = IF j = 0 THEN 1 ELSE 2 * p[j - 1]
    BY <2>1 DEF Powers
  <2>3. q = [j \in 0 .. m + 1 |-> IF j = 0 THEN 1 ELSE 2 * q[j - 1]]
    BY <2>2
  <2>4. Powers(m + 1, q)
    BY <2>3 DEF Powers
  <2> QED
    BY <2>4
<1> HIDE DEF S
<1>3. n \in S
  BY <1>1, <1>2, Induction
<1> QED
  BY <1>3 DEF S

LEMMA PowersAgree ==
  ASSUME NEW n \in Nat, NEW m \in Nat, n <= m, NEW p, NEW q, Powers(n, p), Powers(m, q)
  PROVE  \A j \in 0 .. n : p[j] = q[j] /\ p[j] \in Nat
<1> DEFINE S == {j \in Nat : j <= n => p[j] = q[j] /\ p[j] \in Nat}
<1>1. \A j \in 0 .. n : p[j] = IF j = 0 THEN 1 ELSE 2 * p[j - 1]
  BY DEF Powers
<1>2. \A j \in 0 .. n : q[j] = IF j = 0 THEN 1 ELSE 2 * q[j - 1]
  BY DEF Powers
<1>3. 0 \in S
  BY <1>1, <1>2
<1>4. ASSUME NEW j \in Nat, j \in S PROVE j + 1 \in S
  BY <1>1, <1>2, <1>4
<1>5. \A j \in Nat : j \in S
  <2> HIDE DEF S
  <2> QED
    BY <1>3, <1>4, Induction
<1> QED
  BY <1>5

LEMMA PowerSteps ==
  ASSUME NEW n \in Nat
  PROVE  /\ Pwm!Pow2(0) = 1 /\ Pwm!Pow2(n) \in Nat
         /\ Pwm!Pow2(n + 1) = 2 * Pwm!Pow2(n)
<1> DEFINE table(m) == CHOOSE p : Powers(m, p)
<1>1. \A m \in Nat : Pwm!Pow2(m) = table(m)[m]
  BY DEF Pwm!Pow2, Powers
<1>2. \A m \in Nat : Powers(m, table(m))
  BY SomePowers
<1> HIDE DEF table
<1>3. table(0)[0] = 1
  <2>1. Powers(0, table(0))
    BY <1>2
  <2> QED
    BY <2>1 DEF Powers
<1>4. table(n + 1)[n + 1] = 2 * table(n + 1)[n]
  <2>1. Powers(n + 1, table(n + 1))
    BY <1>2
  <2>2. \A j \in 0 .. n + 1 : table(n + 1)[j] = IF j = 0 THEN 1 ELSE 2 * table(n + 1)[j - 1]
    BY <2>1 DEF Powers
  <2> QED
    BY <2>2
<1>5. table(n)[n] = table(n + 1)[n] /\ table(n)[n] \in Nat
  <2>1. n + 1 \in Nat /\ n <= n + 1 /\ n \in 0 .. n
    OBVIOUS
  <2>2. Powers(n, table(n)) /\ Powers(n + 1, table(n + 1))
    BY <1>2, <2>1
  <2> QED
    BY <2>1, <2>2, PowersAgree
<1>6. Pwm!Pow2(0) = table(0)[0] /\ Pwm!Pow2(n) = table(n)[n]
        /\ Pwm!Pow2(n + 1) = table(n + 1)[n + 1]
  BY <1>1
<1> QED
  BY <1>3, <1>4, <1>5, <1>6

LEMMA PowAdds ==
  ASSUME NEW m \in Nat, NEW n \in Nat
  PROVE  Pwm!Pow2(m + n) = Pwm!Pow2(m) * Pwm!Pow2(n)
<1> DEFINE S == {j \in Nat : Pwm!Pow2(m + j) = Pwm!Pow2(m) * Pwm!Pow2(j)}
<1>1. 0 \in S
  BY PowerSteps
<1>2. ASSUME NEW j \in Nat, j \in S PROVE j + 1 \in S
  <2>1. Pwm!Pow2((m + j) + 1) = 2 * Pwm!Pow2(m + j)
    BY PowerSteps
  <2>2. Pwm!Pow2(j + 1) = 2 * Pwm!Pow2(j)
    BY PowerSteps
  <2>3. Pwm!Pow2(m) \in Nat /\ Pwm!Pow2(j) \in Nat
    BY PowerSteps
  <2>4. Pwm!Pow2(m + (j + 1)) = Pwm!Pow2(m) * Pwm!Pow2(j + 1)
    BY <1>2, <2>1, <2>2, <2>3
  <2> QED
    BY <2>4
<1>3. n \in S
  <2> HIDE DEF S
  <2> QED
    BY <1>1, <1>2, Induction
<1> QED
  BY <1>3

LEMMA PowPositive ==
  ASSUME NEW n \in Nat
  PROVE  Pwm!Pow2(n) \in Nat \ {0}
<1> DEFINE S == {j \in Nat : Pwm!Pow2(j) \in Nat \ {0}}
<1>1. 0 \in S
  BY PowerSteps
<1>2. ASSUME NEW j \in Nat, j \in S PROVE j + 1 \in S
  BY <1>2, PowerSteps
<1>3. n \in S
  <2> HIDE DEF S
  <2> QED
    BY <1>1, <1>2, Induction
<1> QED
  BY <1>3

LEMMA Division ==
  ASSUME NEW d \in Nat \ {0}, NEW q \in Int, NEW r \in 0 .. d - 1
  PROVE  (d * q + r) \div d = q /\ (d * q + r) % d = r
<1> DEFINE n == d * q + r
           a == n \div d
           t == n % d
<1>1. n \in Int /\ a \in Int /\ t \in 0 .. d - 1 /\ n = d * a + t
  OBVIOUS
<1>2. d * (a - q) = r - t
  BY <1>1
<1>3. a = q
  <2>1. CASE a - q >= 1
    <3>1. d * (a - q) >= d
      BY <1>1, <2>1
    <3> QED
      BY <1>1, <1>2, <3>1
  <2>2. CASE a - q <= -1
    <3>1. d * (a - q) <= -d
      BY <1>1, <2>2
    <3> QED
      BY <1>1, <1>2, <3>1
  <2> QED
    BY <1>1, <2>1, <2>2
<1> QED
  BY <1>1, <1>2, <1>3

LEMMA DivMod ==
  ASSUME NEW n \in Nat, NEW d \in Nat \ {0}
  PROVE  n \div d \in Nat /\ n % d \in 0 .. d - 1 /\ n = d * (n \div d) + (n % d)
<1>1. n \div d \in Int /\ n % d \in 0 .. d - 1 /\ n = d * (n \div d) + (n % d)
  OBVIOUS
<1>2. n \div d >= 0
  <2> SUFFICES ASSUME n \div d <= -1 PROVE FALSE
    BY <1>1
  <2>1. d * (n \div d) <= -d
    BY <1>1
  <2> QED
    BY <1>1, <2>1
<1> QED
  BY <1>1, <1>2

-----------------------------------------------------------------------------
(* The bits of a multiple of 2^k: the lowest k are 0, and adding 2^(k - 1)  *)
(* sets the highest of them and changes no other.                           *)
LEMMA LowBits ==
  ASSUME NEW k \in Nat, NEW q \in Nat, NEW i \in Nat, i < k
  PROVE  Pwm!Bit(Pwm!Pow2(k) * q, i) = 0
<1> DEFINE m == k - i - 1
           d == Pwm!Pow2(i)
           h == Pwm!Pow2(m) * q
<1>1. m \in Nat /\ k = i + (m + 1)
  OBVIOUS
<1>2. Pwm!Pow2(k) = d * Pwm!Pow2(m + 1) /\ Pwm!Pow2(m + 1) = 2 * Pwm!Pow2(m)
  BY <1>1, PowAdds, PowerSteps
<1>3. d \in Nat \ {0} /\ Pwm!Pow2(m) \in Nat
  BY <1>1, PowPositive
<1>4. Pwm!Pow2(k) * q = d * (2 * h) + 0 /\ h \in Nat
  BY <1>2, <1>3
<1>5. (Pwm!Pow2(k) * q) \div d = 2 * h
  <2> HIDE DEF d, h, m
  <2> QED
    BY <1>3, <1>4, Division
<1> HIDE DEF h
<1>6. (2 * h) % 2 = 0
  BY <1>4
<1> QED
  BY <1>5, <1>6 DEF Pwm!Bit

LEMMA SetBit ==
  ASSUME NEW k \in Nat, NEW q \in Nat
  PROVE  Pwm!Bit(Pwm!Pow2(k + 1) * q + Pwm!Pow2(k), k) = 1
<1> DEFINE d == Pwm!Pow2(k)
           n == Pwm!Pow2(k + 1) * q + d
<1>1. d \in Nat \ {0} /\ Pwm!Pow2(k + 1) = 2 * d
  BY PowPositive, PowerSteps
<1>2. n = d * (2 * q + 1) + 0 /\ 2 * q + 1 \in Int
  <2> HIDE DEF d
  <2> QED
    BY <1>1
<1>3. n \div d = 2 * q + 1
  <2> HIDE DEF d, n
  <2> QED
    BY <1>1, <1>2, Division
<1>4. (2 * q + 1) % 2 = 1
  OBVIOUS
<1> QED
  BY <1>3, <1>4 DEF Pwm!Bit

LEMMA HighBits ==
  ASSUME NEW k \in Nat, NEW q \in Nat, NEW i \in Nat, i > k
  PROVE  Pwm!Bit(Pwm!Pow2(k + 1) * q + Pwm!Pow2(k), i) = Pwm!Bit(Pwm!Pow2(k + 1) * q, i)
<1> DEFINE d == Pwm!Pow2(i)
           e == Pwm!Pow2(k + 1)
           h == Pwm!Pow2(k)
           m == Pwm!Pow2(i - (k + 1))
           a == q \div m
           b == q % m
<1>1. i - (k + 1) \in Nat /\ k + 1 \in Nat /\ i = (k + 1) + (i - (k + 1))
  OBVIOUS
<1>2. d = e * m
  BY <1>1, PowAdds
<1>3. d \in Nat \ {0} /\ e \in Nat \ {0} /\ m \in Nat \ {0} /\ h \in Nat \ {0} /\ e = 2 * h
  BY <1>1, PowPositive, PowerSteps
<1> HIDE DEF d, e, h, m
<1>4. a \in Nat /\ b \in 0 .. m - 1 /\ q = m * a + b
  BY <1>3, DivMod
<1> HIDE DEF a, b
<1>5. e * q = d * a + e * b
  BY <1>2, <1>3, <1>4
<1>6. e * b >= 0 /\ e * b <= d - e
  <2>1. e * (m - 1 - b) >= 0 /\ e * b >= 0
    BY <1>3, <1>4
  <2> QED
    BY <1>2, <1>3, <1>4, <2>1
<1>7. e * b \in 0 .. d - 1 /\ e * b + h \in 0 .. d - 1
  BY <1>3, <1>4, <1>6
<1>8. (e * q) \div d = a
  BY <1>3, <1>4, <1>5, <1>7, Division
<1>9. e * q + h = d * a + (e * b + h)
  BY <1>3, <1>4, <1>5
<1>10. (e * q + h) \div d = a
  BY <1>3, <1>4, <1>7, <1>9, Division
<1> QED
  BY <1>8, <1>10 DEF Pwm!Bit, d, e, h

LEMMA BitType ==
  ASSUME NEW n \in Nat, NEW i \in Nat
  PROVE  Pwm!Bit(n, i) \in {0, 1}
<1>1. n \div Pwm!Pow2(i) \in Nat
  BY PowPositive, DivMod
<1> QED
  BY <1>1 DEF Pwm!Bit

-----------------------------------------------------------------------------
(* The reversed word, bit by bit.                                           *)
Summed(n, e) ==
  e = [k \in 0 .. Bits |-> IF k = 0 THEN 0
                           ELSE e[k - 1] + Pwm!Pow2(k - 1) * Pwm!Bit(n, Bits - k)]

LEMMA SomeSum ==
  ASSUME NEW n
  PROVE  \E e : Summed(n, e)
<1> DEFINE Sums(m, e) ==
             e = [k \in 0 .. m |-> IF k = 0 THEN 0
                                   ELSE e[k - 1] + Pwm!Pow2(k - 1) * Pwm!Bit(n, Bits - k)]
           S == {m \in Nat : \E e : Sums(m, e)}
<1>1. 0 \in S
  <2>1. Sums(0, [k \in 0 .. 0 |-> 0])
    OBVIOUS
  <2> QED
    BY <2>1
<1>2. ASSUME NEW m \in Nat, m \in S PROVE m + 1 \in S
  <2>1. PICK e : Sums(m, e)
    BY <1>2
  <2> DEFINE d == [k \in 0 .. m + 1 |->
                     IF k = m + 1 THEN e[m] + Pwm!Pow2(m) * Pwm!Bit(n, Bits - (m + 1)) ELSE e[k]]
  <2>2. \A k \in 0 .. m : e[k] = IF k = 0 THEN 0
                                ELSE e[k - 1] + Pwm!Pow2(k - 1) * Pwm!Bit(n, Bits - k)
    BY <2>1
  <2>3. \A k \in 0 .. m + 1 : d[k] = IF k = 0 THEN 0
                                ELSE d[k - 1] + Pwm!Pow2(k - 1) * Pwm!Bit(n, Bits - k)
    <3>1. ASSUME NEW k \in 0 .. m
          PROVE  d[k] = IF k = 0 THEN 0
                        ELSE d[k - 1] + Pwm!Pow2(k - 1) * Pwm!Bit(n, Bits - k)
      <4>1. d[k] = e[k] /\ (k # 0 => d[k - 1] = e[k - 1])
        OBVIOUS
      <4> QED
        BY <4>1, <2>2
    <3>2. d[m + 1] = d[m] + Pwm!Pow2(m) * Pwm!Bit(n, Bits - (m + 1))
      OBVIOUS
    <3>3. (m + 1) - 1 = m /\ m + 1 # 0
      OBVIOUS
    <3> HIDE DEF d
    <3> QED
      BY <3>1, <3>2, <3>3
  <2>4. Sums(m + 1, d)
    <3>1. d = [k \in 0 .. m + 1 |-> d[k]]
      OBVIOUS
    <3> HIDE DEF d
    <3> QED
      BY <3>1, <2>3
  <2> HIDE DEF d
  <2>5. \E x : Sums(m + 1, x)
    <3> HIDE DEF Sums
    <3> QED
      BY <2>4
  <2> QED
    BY <2>5
<1>3. Bits \in S
  <2> HIDE DEF S
  <2> QED
    BY <1>1, <1>2, Induction, BitsAssumption
<1> QED
  BY <1>3 DEF Summed

Partial(n) == CHOOSE e : Summed(n, e)

LEMMA PartialSums ==
  ASSUME NEW n \in Nat
  PROVE  /\ Partial(n)[0] = 0 /\ Partial(n)[Bits] = Pwm!Reversed(n)
         /\ \A k \in 1 .. Bits :
              Partial(n)[k] = Partial(n)[k - 1] + Pwm!Pow2(k - 1) * Pwm!Bit(n, Bits - k)
<1>1. Summed(n, Partial(n))
  BY SomeSum DEF Partial
<1>2. Partial(n)[Bits] = Pwm!Reversed(n)
  BY DEF Partial, Summed, Pwm!Reversed
<1>3. \A k \in 0 .. Bits : Partial(n)[k] =
        IF k = 0 THEN 0 ELSE Partial(n)[k - 1] + Pwm!Pow2(k - 1) * Pwm!Bit(n, Bits - k)
  BY <1>1 DEF Summed
<1> QED
  BY <1>2, <1>3, BitsAssumption

LEMMA PartialType ==
  ASSUME NEW n \in Nat, NEW k \in 0 .. Bits
  PROVE  Partial(n)[k] \in Nat
<1> DEFINE S == {j \in Nat : j <= Bits => Partial(n)[j] \in Nat}
<1>1. 0 \in S
  BY PartialSums
<1>2. ASSUME NEW j \in Nat, j \in S PROVE j + 1 \in S
  <2> SUFFICES ASSUME j + 1 <= Bits PROVE Partial(n)[j + 1] \in Nat
    OBVIOUS
  <2>1. Pwm!Pow2(j) \in Nat
    BY PowerSteps
  <2>2. Pwm!Bit(n, Bits - (j + 1)) \in {0, 1}
    BY BitType, BitsAssumption
  <2>3. (j + 1) \in 1 .. Bits /\ (j + 1) - 1 = j
    BY BitsAssumption
  <2>4. Partial(n)[j + 1] = Partial(n)[j] + Pwm!Pow2(j) * Pwm!Bit(n, Bits - (j + 1))
    BY <2>3, PartialSums
  <2>5. Partial(n)[j] \in Nat
    BY <1>2, <2>3, BitsAssumption
  <2> QED
    BY <2>1, <2>2, <2>4, <2>5
<1>3. k \in S
  <2> HIDE DEF S
  <2> QED
    BY <1>1, <1>2, Induction
<1> QED
  BY <1>3, BitsAssumption

(* What a multiple of 2^k leaves free: its reversal lies below 2^(Bits - k).*)
LEMMA ReversedLow ==
  ASSUME NEW k \in 0 .. Bits, NEW q \in Nat
  PROVE  Pwm!Reversed(Pwm!Pow2(k) * q) \in 0 .. Pwm!Pow2(Bits - k) - 1
<1> DEFINE n == Pwm!Pow2(k) * q
           e == Partial(n)
           S == {j \in Nat : j <= Bits =>
                   /\ j <= Bits - k => e[j] < Pwm!Pow2(j)
                   /\ Bits - k <= j => e[j] < Pwm!Pow2(Bits - k)}
<1>1. n \in Nat /\ Bits - k \in Nat /\ k \in Nat /\ Bits \in Nat
  BY BitsAssumption, PowPositive
<1>2. e[0] = 0 /\ e[Bits] = Pwm!Reversed(n)
  BY <1>1, PartialSums
<1>3. Pwm!Pow2(0) > 0 /\ Pwm!Pow2(Bits - k) > 0
  BY <1>1, PowPositive
<1>4. 0 \in S
  <2> HIDE DEF n, e
  <2> QED
    BY <1>1, <1>2, <1>3
<1>5. ASSUME NEW j \in Nat, j \in S PROVE j + 1 \in S
  <2> SUFFICES ASSUME j + 1 <= Bits
               PROVE  /\ j + 1 <= Bits - k => e[j + 1] < Pwm!Pow2(j + 1)
                      /\ Bits - k <= j + 1 => e[j + 1] < Pwm!Pow2(Bits - k)
    OBVIOUS
  <2> DEFINE b == Pwm!Bit(n, Bits - (j + 1))
  <2>1. e[j + 1] = e[j] + Pwm!Pow2(j) * b
    <3>1. j + 1 \in 1 .. Bits /\ (j + 1) - 1 = j
      BY <1>1
    <3> HIDE DEF n
    <3> QED
      BY <3>1, <1>1, PartialSums
  <2>2. e[j] \in Nat /\ b \in {0, 1} /\ Pwm!Pow2(j) \in Nat /\ Pwm!Pow2(j + 1) = 2 * Pwm!Pow2(j)
    <3>1. j \in 0 .. Bits /\ Bits - (j + 1) \in Nat
      BY <1>1
    <3> HIDE DEF n
    <3> QED
      BY <3>1, <1>1, PartialType, BitType, PowerSteps
  <2>3. Bits - k <= j => b = 0
    <3> SUFFICES ASSUME Bits - k <= j PROVE b = 0
      OBVIOUS
    <3>1. Bits - (j + 1) \in Nat /\ Bits - (j + 1) < k
      BY <1>1
    <3> QED
      BY <1>1, <3>1, LowBits
  <2>4. /\ j <= Bits - k => e[j] < Pwm!Pow2(j)
        /\ Bits - k <= j => e[j] < Pwm!Pow2(Bits - k)
    BY <1>1, <1>5
  <2>5. /\ b = 0 => e[j + 1] = e[j]
        /\ b = 1 => e[j + 1] = e[j] + Pwm!Pow2(j)
    <3> HIDE DEF e, b
    <3> QED
      BY <2>1, <2>2
  <2> HIDE DEF e, b, S
  <2>6. CASE j + 1 <= Bits - k
    <3>1. e[j] < Pwm!Pow2(j)
      BY <1>1, <2>4, <2>6
    <3>2. e[j + 1] < Pwm!Pow2(j + 1)
      BY <2>2, <2>5, <3>1
    <3>3. Bits - k <= j + 1 => j + 1 = Bits - k
      BY <1>1, <2>6
    <3> QED
      BY <3>2, <3>3
  <2>7. CASE j >= Bits - k
    <3>1. e[j] < Pwm!Pow2(Bits - k) /\ b = 0 /\ ~(j + 1 <= Bits - k)
      BY <1>1, <2>3, <2>4, <2>7
    <3> QED
      BY <2>5, <3>1
  <2> QED
    BY <1>1, <2>6, <2>7
<1>6. Bits \in S
  <2> HIDE DEF S
  <2> QED
    BY <1>1, <1>4, <1>5, Induction
<1>7. e[Bits] \in Nat
  <2>1. Bits \in 0 .. Bits
    BY <1>1
  <2> HIDE DEF n
  <2> QED
    BY <1>1, <2>1, PartialType
<1>8. e[Bits] < Pwm!Pow2(Bits - k)
  <2> HIDE DEF e, n
  <2> QED
    BY <1>1, <1>6
<1>9. Pwm!Pow2(Bits - k) \in Nat
  BY <1>1, PowerSteps
<1> HIDE DEF e, n
<1>10. Pwm!Reversed(n) \in 0 .. Pwm!Pow2(Bits - k) - 1
  BY <1>2, <1>7, <1>8, <1>9
<1> QED
  BY <1>10 DEF n

(* Half a block further on the reversal is a step higher.                   *)
LEMMA ReversedAdds ==
  ASSUME NEW k \in 0 .. Bits - 1, NEW q \in Nat
  PROVE  Pwm!Reversed(Pwm!Pow2(k + 1) * q + Pwm!Pow2(k))
           = Pwm!Reversed(Pwm!Pow2(k + 1) * q) + Pwm!Pow2(Bits - (k + 1))
<1> DEFINE n == Pwm!Pow2(k + 1) * q
           m == n + Pwm!Pow2(k)
           p == Bits - (k + 1)
           e == Partial(n)
           d == Partial(m)
           S == {j \in Nat : j <= Bits =>
                   d[j] = e[j] + IF j > p THEN Pwm!Pow2(p) ELSE 0}
<1>1. n \in Nat /\ m \in Nat /\ p \in Nat /\ k \in Nat /\ k + 1 \in Nat /\ Bits \in Nat
  BY BitsAssumption, PowPositive
<1>2. /\ e[0] = 0 /\ e[Bits] = Pwm!Reversed(n)
      /\ d[0] = 0 /\ d[Bits] = Pwm!Reversed(m)
  BY <1>1, PartialSums
<1>3. 0 \in S
  <2> HIDE DEF n, m, e, d
  <2> QED
    BY <1>1, <1>2
<1>4. ASSUME NEW j \in Nat, j \in S PROVE j + 1 \in S
  <2> SUFFICES ASSUME j + 1 <= Bits
               PROVE  d[j + 1] = e[j + 1] + IF j + 1 > p THEN Pwm!Pow2(p) ELSE 0
    OBVIOUS
  <2> DEFINE b == Pwm!Bit(n, Bits - (j + 1))
             c == Pwm!Bit(m, Bits - (j + 1))
  <2>1. e[j + 1] = e[j] + Pwm!Pow2(j) * b /\ d[j + 1] = d[j] + Pwm!Pow2(j) * c
    <3>1. j + 1 \in 1 .. Bits /\ (j + 1) - 1 = j
      BY <1>1
    <3> HIDE DEF n, m
    <3> QED
      BY <3>1, <1>1, PartialSums
  <2>2. e[j] \in Nat /\ b \in {0, 1} /\ Pwm!Pow2(j) \in Nat /\ Pwm!Pow2(p) \in Nat
    <3>1. j \in 0 .. Bits /\ Bits - (j + 1) \in Nat
      BY <1>1
    <3> HIDE DEF n
    <3> QED
      BY <3>1, <1>1, PartialType, BitType, PowerSteps
  <2>3. d[j] = e[j] + IF j > p THEN Pwm!Pow2(p) ELSE 0
    BY <1>1, <1>4
  <2>4. CASE j = p
    <3>1. Bits - (j + 1) = k
      BY <1>1, <2>4
    <3>2. b = 0
      <4>1. k < k + 1
        BY <1>1
      <4> QED
        BY <1>1, <3>1, <4>1, LowBits
    <3>3. c = 1
      BY <1>1, <3>1, SetBit
    <3>4. ~(j > p) /\ j + 1 > p
      BY <1>1, <2>4
    <3> HIDE DEF e, d, b, c, n, m, p
    <3> QED
      BY <2>1, <2>2, <2>3, <2>4, <3>2, <3>3, <3>4
  <2>5. ASSUME j # p PROVE b = c
    <3>1. CASE Bits - (j + 1) < k
      <4>1. Bits - (j + 1) \in Nat /\ Bits - (j + 1) < k + 1 /\ 2 * q + 1 \in Nat
        BY <1>1, <3>1
      <4>2. m = Pwm!Pow2(k) * (2 * q + 1)
        BY <1>1, PowerSteps
      <4>3. b = 0
        BY <1>1, <4>1, LowBits
      <4>4. c = 0
        <5> HIDE DEF m
        <5> QED
          BY <1>1, <3>1, <4>1, <4>2, LowBits
      <4> QED
        BY <4>3, <4>4
    <3>2. CASE Bits - (j + 1) > k
      <4>1. Bits - (j + 1) \in Nat
        BY <1>1
      <4> QED
        BY <1>1, <3>2, <4>1, HighBits
    <3> QED
      BY <1>1, <2>5, <3>1, <3>2
  <2>6. CASE j # p
    <3>1. j + 1 > p <=> j > p
      BY <1>1, <2>6
    <3>2. b = c
      BY <2>5, <2>6
    <3> HIDE DEF e, d, b, c, n, m, p
    <3> QED
      BY <2>1, <2>2, <2>3, <3>1, <3>2
  <2> QED
    BY <2>4, <2>6
<1>5. Bits \in S
  <2> HIDE DEF S
  <2> QED
    BY <1>1, <1>3, <1>4, Induction
<1>6. d[Bits] = e[Bits] + Pwm!Pow2(p)
  <2>1. Bits > p
    BY <1>1
  <2> HIDE DEF e, d, p
  <2> QED
    BY <1>1, <1>5, <2>1
<1> QED
  BY <1>2, <1>6

-----------------------------------------------------------------------------
(* In how many of the cycles from a to b - 1 a level of s is high.          *)
HighIn(s, a, b) == {n \in a .. b - 1 : s >= Pwm!Reversed(n)}
Highs(s, a, b) == Cardinality(HighIn(s, a, b))

LEMMA HighsType ==
  ASSUME NEW s, NEW a \in Nat, NEW b \in Nat
  PROVE  IsFiniteSet(HighIn(s, a, b)) /\ Highs(s, a, b) \in Nat
<1>1. IsFiniteSet(a .. b - 1)
  BY FS_Interval
<1>2. HighIn(s, a, b) \in SUBSET (a .. b - 1)
  BY DEF HighIn
<1>3. IsFiniteSet(HighIn(s, a, b))
  BY <1>1, <1>2, FS_Subset
<1> QED
  BY <1>3, FS_CardinalityType DEF Highs

LEMMA HighsStep ==
  ASSUME NEW s, NEW a \in Nat, NEW b \in Nat, a <= b
  PROVE  /\ Highs(s, a, a) = 0
         /\ Highs(s, a, b + 1) = Highs(s, a, b) + (IF s >= Pwm!Reversed(b) THEN 1 ELSE 0)
<1>1. HighIn(s, a, a) = {}
  BY DEF HighIn
<1>2. Highs(s, a, a) = 0
  BY <1>1, FS_EmptySet DEF Highs
<1>3. IsFiniteSet(HighIn(s, a, b)) /\ b \notin HighIn(s, a, b)
  <2>1. b \notin HighIn(s, a, b)
    BY DEF HighIn
  <2> QED
    BY <2>1, HighsType
<1>4. CASE s >= Pwm!Reversed(b)
  <2>1. HighIn(s, a, b + 1) = HighIn(s, a, b) \cup {b}
    BY <1>4 DEF HighIn
  <2>2. Cardinality(HighIn(s, a, b) \cup {b}) = Cardinality(HighIn(s, a, b)) + 1
    BY <1>3, FS_AddElement
  <2> QED
    BY <1>2, <1>4, <2>1, <2>2 DEF Highs
<1>5. CASE ~(s >= Pwm!Reversed(b))
  <2>1. HighIn(s, a, b + 1) = HighIn(s, a, b)
    BY <1>5 DEF HighIn
  <2>2. Highs(s, a, b) \in Nat
    BY HighsType
  <2> QED
    BY <1>2, <1>5, <2>1, <2>2 DEF Highs
<1> QED
  BY <1>4, <1>5

LEMMA HighsSplit ==
  ASSUME NEW s, NEW a \in Nat, NEW b \in Nat, NEW c \in Nat, a <= b, b <= c
  PROVE  Highs(s, a, c) = Highs(s, a, b) + Highs(s, b, c)
<1>1. HighIn(s, a, c) = HighIn(s, a, b) \cup HighIn(s, b, c)
  BY DEF HighIn
<1>2. HighIn(s, a, b) \cap HighIn(s, b, c) = {}
  BY DEF HighIn
<1>3. IsFiniteSet(HighIn(s, a, b)) /\ IsFiniteSet(HighIn(s, b, c))
  BY HighsType
<1>4. Highs(s, a, c) = Highs(s, a, b) + Highs(s, b, c) - Cardinality({})
  BY <1>1, <1>2, <1>3, FS_Union DEF Highs
<1>5. Cardinality({}) = 0
  BY FS_EmptySet
<1>6. Highs(s, a, b) \in Nat /\ Highs(s, b, c) \in Nat
  BY HighsType
<1> QED
  BY <1>4, <1>5, <1>6

(* How many of r, r + b, r + 2 * b, ... lie up to s.                        *)
Share(b, r, s) == IF s < r THEN 0 ELSE (s - r) \div b + 1

LEMMA SharesAdd ==
  ASSUME NEW b \in Nat \ {0}, NEW r \in Nat, NEW s \in Nat
  PROVE  Share(2 * b, r, s) + Share(2 * b, r + b, s) = Share(b, r, s)
<1>1. CASE s < r
  BY <1>1 DEF Share
<1>2. CASE s >= r
  <2> DEFINE q == (s - r) \div b
             t == (s - r) % b
  <2>1. q \in Nat /\ t \in 0 .. b - 1 /\ s - r = b * q + t
    <3>1. s - r \in Nat
      BY <1>2
    <3> QED
      BY <3>1, DivMod
  <2> HIDE DEF q, t
  <2>2. Share(b, r, s) = q + 1
    BY <1>2 DEF Share, q
  <2>3. PICK h \in Nat : q = 2 * h \/ q = 2 * h + 1
    <3>1. q \div 2 \in Nat /\ q % 2 \in 0 .. 1 /\ q = 2 * (q \div 2) + (q % 2)
      BY <2>1, DivMod
    <3> QED
      BY <3>1
  <2>4. CASE q = 2 * h
    <3>1. s - r = (2 * b) * h + t /\ t \in 0 .. 2 * b - 1 /\ 2 * b \in Nat \ {0}
      BY <2>1, <2>4
    <3>2. (s - r) \div (2 * b) = h
      BY <3>1, Division
    <3>3. CASE h = 0
      <4>1. s < r + b
        BY <1>2, <2>1, <2>4, <3>3
      <4> QED
        BY <1>2, <2>2, <2>4, <3>2, <3>3, <4>1 DEF Share
    <3>4. CASE h > 0
      <4>1. s - (r + b) = (2 * b) * (h - 1) + (t + b) /\ t + b \in 0 .. 2 * b - 1 /\ h - 1 \in Nat
        BY <2>1, <2>4, <3>4
      <4>2. (s - (r + b)) \div (2 * b) = h - 1
        BY <3>1, <4>1, Division
      <4>3. ~(s < r + b)
        <5>1. (2 * b) * (h - 1) >= 0
          BY <4>1
        <5> QED
          BY <2>1, <4>1, <5>1
      <4> QED
        BY <1>2, <2>2, <2>4, <3>2, <4>1, <4>2, <4>3 DEF Share
    <3> QED
      BY <3>3, <3>4
  <2>5. CASE q = 2 * h + 1
    <3>1. /\ s - r = (2 * b) * h + (t + b) /\ t + b \in 0 .. 2 * b - 1
          /\ s - (r + b) = (2 * b) * h + t /\ t \in 0 .. 2 * b - 1
          /\ 2 * b \in Nat \ {0}
      BY <2>1, <2>5
    <3>2. (s - r) \div (2 * b) = h /\ (s - (r + b)) \div (2 * b) = h
      BY <3>1, Division
    <3>3. ~(s < r + b)
      <4>1. (2 * b) * h >= 0
        BY <3>1
      <4> QED
        BY <3>1, <4>1
    <3> QED
      BY <1>2, <2>2, <2>5, <3>2, <3>3 DEF Share
  <2> QED
    BY <2>3, <2>4, <2>5
<1> QED
  BY <1>1, <1>2

(* A block of 2^k cycles: two blocks of half its length, one after the      *)
(* other.                                                                   *)
LEMMA BlockHighs ==
  ASSUME NEW s \in Pwm!Word, NEW k \in 0 .. Bits, NEW q \in Nat
  PROVE  LET n == Pwm!Pow2(k) * q
         IN  Highs(s, n, n + Pwm!Pow2(k)) = Share(Pwm!Pow2(Bits - k), Pwm!Reversed(n), s)
<1> DEFINE H(j, p) == LET n == Pwm!Pow2(j) * p
                      IN  Highs(s, n, n + Pwm!Pow2(j))
                            = Share(Pwm!Pow2(Bits - j), Pwm!Reversed(n), s)
           S == {j \in Nat : j <= Bits => \A p \in Nat : H(j, p)}
<1>0. s \in Nat /\ Bits \in Nat
  BY BitsAssumption DEF Pwm!Word
<1>1. 0 \in S
  <2> SUFFICES ASSUME NEW p \in Nat PROVE H(0, p)
    OBVIOUS
  <2>1. Pwm!Pow2(0) = 1 /\ Pwm!Pow2(Bits) \in Nat \ {0} /\ s < Pwm!Pow2(Bits)
    BY <1>0, PowerSteps, PowPositive DEF Pwm!Word
  <2> DEFINE r == Pwm!Reversed(p)
  <2>2. r \in Nat
    <3>1. Pwm!Reversed(Pwm!Pow2(0) * p) \in 0 .. Pwm!Pow2(Bits - 0) - 1
      BY <1>0, ReversedLow
    <3> QED
      BY <2>1, <3>1
  <2> HIDE DEF r
  <2>3. Highs(s, p, p + 1) = IF s >= r THEN 1 ELSE 0
    <3>1. p <= p
      OBVIOUS
    <3>2. Highs(s, p, p) = 0 /\ Highs(s, p, p + 1) = Highs(s, p, p) + (IF s >= r THEN 1 ELSE 0)
      BY <3>1, HighsStep DEF r
    <3> QED
      BY <3>2
  <2>4. Share(Pwm!Pow2(Bits), r, s) = IF s >= r THEN 1 ELSE 0
    <3>1. CASE s >= r
      <4>1. s - r = Pwm!Pow2(Bits) * 0 + (s - r) /\ s - r \in 0 .. Pwm!Pow2(Bits) - 1
        BY <1>0, <2>1, <2>2, <3>1
      <4>2. (s - r) \div Pwm!Pow2(Bits) = 0
        BY <2>1, <4>1, Division
      <4> QED
        BY <1>0, <2>2, <3>1, <4>2 DEF Share
    <3>2. CASE ~(s >= r)
      BY <1>0, <2>2, <3>2 DEF Share
    <3> QED
      BY <3>1, <3>2
  <2>5. Pwm!Pow2(0) * p = p /\ Bits - 0 = Bits
    BY <1>0, <2>1
  <2> QED
    BY <2>1, <2>3, <2>4, <2>5 DEF r
<1>2. ASSUME NEW j \in Nat, j \in S PROVE j + 1 \in S
  <2> SUFFICES ASSUME j + 1 <= Bits, NEW p \in Nat PROVE H(j + 1, p)
    OBVIOUS
  <2> DEFINE d == Pwm!Pow2(j)
             n == Pwm!Pow2(j + 1) * p
             m == n + d
             b == Pwm!Pow2(Bits - (j + 1))
             r == Pwm!Reversed(n)
  <2>1. /\ d \in Nat /\ n \in Nat /\ m \in Nat /\ b \in Nat \ {0}
        /\ Pwm!Pow2(j + 1) = 2 * d /\ Pwm!Pow2(Bits - j) = 2 * b
    <3>1. Bits - (j + 1) \in Nat /\ (Bits - (j + 1)) + 1 = Bits - j
      BY <1>0
    <3>2. Pwm!Pow2((Bits - (j + 1)) + 1) = 2 * b
      BY <3>1, PowerSteps
    <3>3. d \in Nat /\ Pwm!Pow2(j + 1) = 2 * d /\ b \in Nat \ {0}
      BY <3>1, PowerSteps, PowPositive
    <3> HIDE DEF d, b
    <3> QED
      BY <3>1, <3>2, <3>3
  <2>2. r \in Nat
    <3>1. j + 1 \in 0 .. Bits
      BY <1>0
    <3> QED
      BY <3>1, ReversedLow
  <2>3. Pwm!Reversed(m) = r + b
    <3>1. j \in 0 .. Bits - 1
      BY <1>0
    <3> QED
      BY <3>1, ReversedAdds
  <2>4. d * (2 * p) = n /\ d * (2 * p + 1) = m
    <3> HIDE DEF d
    <3> QED
      BY <2>1
  <2>5. H(j, 2 * p) /\ H(j, 2 * p + 1)
    BY <1>0, <1>2
  <2>6. /\ Highs(s, n, n + d) = Share(Pwm!Pow2(Bits - j), Pwm!Reversed(n), s)
        /\ Highs(s, m, m + d) = Share(Pwm!Pow2(Bits - j), Pwm!Reversed(m), s)
    <3> HIDE DEF n, m
    <3> QED
      BY <2>4, <2>5
  <2>7. Highs(s, n, m + d) = Highs(s, n, m) + Highs(s, m, m + d)
    <3> HIDE DEF d, n
    <3> QED
      BY <2>1, HighsSplit
  <2>8. Share(2 * b, r, s) + Share(2 * b, r + b, s) = Share(b, r, s)
    <3> HIDE DEF b, r
    <3> QED
      BY <1>0, <2>1, <2>2, SharesAdd
  <2>9. m + d = n + Pwm!Pow2(j + 1)
    <3> HIDE DEF d, n
    <3> QED
      BY <2>1
  <2>10. Highs(s, n, n + Pwm!Pow2(j + 1)) = Share(b, r, s)
    <3>1. Highs(s, n, m) = Share(2 * b, r, s)
      BY <2>1, <2>6
    <3>2. Highs(s, m, m + d) = Share(2 * b, r + b, s)
      BY <2>1, <2>3, <2>6
    <3> HIDE DEF d, n, m, b, r
    <3> QED
      BY <2>7, <2>8, <2>9, <3>1, <3>2
  <2> QED
    BY <2>10
<1>3. k \in S
  <2> HIDE DEF S
  <2> QED
    BY <1>1, <1>2, Induction
<1> QED
  BY <1>3

-----------------------------------------------------------------------------
(* current_sample is the sample played, counted from the lowest one; a      *)
(* block that has begun and seen one sample only has counted its cycles.    *)
Start(k) == Pwm!Pow2(k) * (pwm_counter \div Pwm!Pow2(k))

PwmInv ==
  /\ played \in Pwm!Signed /\ current_sample = played + Pwm!Half
  /\ pwm_counter \in Pwm!Word /\ steady \subseteq Pwm!Block
  /\ \A k \in steady : ~ Pwm!Begins(k, pwm_counter) =>
       high[k] = Highs(current_sample, Start(k), pwm_counter)

LEMMA HalfWord ==
  Pwm!Half \in Nat \ {0} /\ Pwm!Pow2(Bits) = 2 * Pwm!Half
<1>1. Bits - 1 \in Nat /\ (Bits - 1) + 1 = Bits
  BY BitsAssumption
<1>2. Pwm!Pow2((Bits - 1) + 1) = 2 * Pwm!Pow2(Bits - 1) /\ Pwm!Pow2(Bits - 1) \in Nat \ {0}
  BY <1>1, PowerSteps, PowPositive
<1> QED
  BY <1>1, <1>2 DEF Pwm!Half

(* Two's complement with its top bit inverted counts from the lowest sample.*)
LEMMA SampleFlips ==
  ASSUME NEW s \in Pwm!Signed
  PROVE  Pwm!FlipTop(Pwm!TDATA(s)) = s + Pwm!Half
<1> DEFINE h == Pwm!Half
           w == Pwm!Pow2(Bits)
<1>1. h \in Nat \ {0} /\ w = 2 * h /\ w \in Nat \ {0} /\ s \in -h .. h - 1
  BY HalfWord DEF Pwm!Signed
<1>2. Pwm!FlipTop(Pwm!TDATA(s)) = ((s % w) + h) % w
  BY DEF Pwm!FlipTop, Pwm!TDATA
<1> HIDE DEF h, w
<1>3. CASE s >= 0
  <2>1. s = w * 0 + s /\ s \in 0 .. w - 1 /\ s + h = w * 0 + (s + h) /\ s + h \in 0 .. w - 1
    BY <1>1, <1>3
  <2>2. s % w = s
    BY <1>1, <2>1, Division
  <2>3. (s + h) % w = s + h
    BY SMTT(30), <1>1, <2>1, Division
  <2> QED
    BY <1>2, <2>2, <2>3 DEF h
<1>4. CASE s < 0
  <2>1. /\ s = w * (-1) + (s + w) /\ s + w \in 0 .. w - 1
        /\ (s + w) + h = w * 1 + (s + h) /\ s + h \in 0 .. w - 1
    BY <1>1, <1>4
  <2>2. s % w = s + w
    BY <1>1, <2>1, Division
  <2>3. ((s + w) + h) % w = s + h
    BY <1>1, <2>1, Division
  <2> QED
    BY <1>2, <2>2, <2>3 DEF h
<1> QED
  BY <1>1, <1>3, <1>4

(* Where the counter stands in its block, and where one cycle later.        *)
LEMMA NextCycle ==
  ASSUME NEW c \in Pwm!Word, NEW k \in Pwm!Block
  PROVE  LET d == Pwm!Pow2(k)
             a == c \div d
             n == (c + 1) % Pwm!Pow2(Bits)
         IN  /\ d \in Nat \ {0} /\ a \in Nat /\ n \in Pwm!Word
             /\ c = d * a + (c % d) /\ c % d \in 0 .. d - 1
             /\ Pwm!Begins(k, c) <=> c % d = 0
             /\ Pwm!Begins(k, n) => c + 1 = d * a + d
             /\ ~ Pwm!Begins(k, n) => n = c + 1 /\ n \div d = a
<1> DEFINE d == Pwm!Pow2(k)
           w == Pwm!Pow2(Bits)
           m == Pwm!Pow2(Bits - k)
           a == c \div d
           t == c % d
           n == (c + 1) % w
<1>1. /\ d \in Nat \ {0} /\ w \in Nat \ {0} /\ m \in Nat \ {0}
      /\ w = d * m /\ c \in 0 .. w - 1
  <2>1. k \in Nat /\ Bits - k \in Nat /\ Bits \in Nat /\ k + (Bits - k) = Bits
    BY BitsAssumption DEF Pwm!Block
  <2>2. w = d * m
    BY <2>1, PowAdds
  <2> QED
    BY <2>1, <2>2, PowPositive DEF Pwm!Word
<1>2. Pwm!Begins(k, c) <=> t = 0
  BY DEF Pwm!Begins
<1>3. Pwm!Begins(k, n) <=> n % d = 0
  BY DEF Pwm!Begins
<1> HIDE DEF d, w, m
<1>4. c \in Nat /\ a \in Nat /\ t \in 0 .. d - 1 /\ c = d * a + t
  <2>1. c \in Nat
    BY <1>1
  <2> QED
    BY <1>1, <2>1, DivMod
<1>5. n = IF c + 1 = w THEN 0 ELSE c + 1
  <2>1. CASE c + 1 = w
    <3>1. c + 1 = w * 1 + 0 /\ 0 \in 0 .. w - 1
      BY <1>1, <2>1
    <3> QED
      BY <1>1, <2>1, <3>1, Division
  <2>2. CASE c + 1 # w
    <3>1. c + 1 = w * 0 + (c + 1) /\ c + 1 \in 0 .. w - 1
      BY <1>1, <2>2
    <3> QED
      BY SMTT(30), <1>1, <2>2, <3>1, Division
  <2> QED
    BY <2>1, <2>2
<1>6. n \in Pwm!Word
  BY <1>1, <1>5 DEF Pwm!Word, w
<1> HIDE DEF a, t, n
<1>7. (c + 1) % d = IF t = d - 1 THEN 0 ELSE t + 1
  <2>1. CASE t = d - 1
    <3>1. c + 1 = d * (a + 1) + 0 /\ a + 1 \in Int /\ 0 \in 0 .. d - 1
      BY <1>1, <1>4, <2>1
    <3> QED
      BY <1>1, <2>1, <3>1, Division
  <2>2. CASE t # d - 1
    <3> DEFINE u == t + 1
    <3>1. c + 1 = d * a + u /\ u \in 0 .. d - 1
      BY <1>1, <1>4, <2>2
    <3> HIDE DEF u
    <3>2. (d * a + u) % d = u
      BY <1>1, <1>4, <3>1, Division
    <3> QED
      BY <2>2, <3>1, <3>2 DEF u
  <2> QED
    BY <2>1, <2>2
<1>8. w % d = 0 /\ 0 % d = 0
  <2>1. w = d * m + 0 /\ 0 = d * 0 + 0 /\ 0 \in 0 .. d - 1
    BY <1>1
  <2> QED
    BY <1>1, <2>1, Division
<1>9. n % d = 0 <=> t = d - 1
  BY <1>1, <1>4, <1>5, <1>7, <1>8
<1>10. n % d = 0 => c + 1 = d * a + d
  BY <1>1, <1>4, <1>9
<1>11. ASSUME n % d # 0 PROVE n = c + 1 /\ n \div d = a
  <2>1. n = c + 1
    BY <1>5, <1>8, <1>11
  <2>2. c + 1 = d * a + (t + 1) /\ t + 1 \in 0 .. d - 1
    BY <1>1, <1>4, <1>9, <1>11
  <2> QED
    BY <1>1, <1>4, <2>1, <2>2, Division
<1> QED
  BY <1>1, <1>2, <1>3, <1>4, <1>6, <1>10, <1>11 DEF d, w, a, t, n

(* After a cycle a block has counted that cycle too.                        *)
LEMMA CycleCounts ==
  ASSUME PwmInv, NEW r, Pwm!Tick(r), NEW k \in steady
  PROVE  high'[k] = Highs(current_sample, Start(k), pwm_counter + 1)
<1> DEFINE s == current_sample
           c == pwm_counter
           d == Pwm!Pow2(k)
<1>1. k \in Pwm!Block /\ c \in Pwm!Word /\ c \in Nat
  BY DEF PwmInv, Pwm!Word
<1>2. high'[k] = (IF Pwm!Begins(k, c) THEN 0 ELSE high[k])
                   + (IF s >= Pwm!Reversed(c) THEN 1 ELSE 0)
  BY <1>1 DEF Pwm!Tick, Pwm!History, Pwm!Level, Pwm!pwm_reversed_counter
<1>3. /\ d \in Nat \ {0} /\ c \div d \in Nat /\ c = Start(k) + (c % d) /\ c % d \in Nat
      /\ Pwm!Begins(k, c) <=> c % d = 0
  BY <1>1, NextCycle DEF Start
<1>4. Start(k) \in Nat /\ Start(k) <= c
  <2>1. Start(k) \in Nat
    BY <1>3 DEF Start
  <2> QED
    BY <1>1, <1>3, <2>1
<1>5. (IF Pwm!Begins(k, c) THEN 0 ELSE high[k]) = Highs(s, Start(k), c)
  <2>1. CASE Pwm!Begins(k, c)
    <3>1. Start(k) = c
      BY <1>1, <1>3, <1>4, <2>1
    <3>2. c <= c
      BY <1>1
    <3> QED
      BY <1>1, <2>1, <3>1, <3>2, HighsStep
  <2>2. CASE ~ Pwm!Begins(k, c)
    BY <2>2 DEF PwmInv
  <2> QED
    BY <2>1, <2>2
<1>6. Highs(s, Start(k), c + 1) = Highs(s, Start(k), c)
                                  + (IF s >= Pwm!Reversed(c) THEN 1 ELSE 0)
  BY <1>1, <1>4, HighsStep
<1> QED
  BY <1>2, <1>5, <1>6

(* The step keeps the invariant.                                            *)
LEMMA PwmStep ==
  ASSUME PwmInv, NEW r, Pwm!Tick(r)
  PROVE  PwmInv'
<1> DEFINE c == pwm_counter
<1>1. c \in Pwm!Word /\ c' = (c + 1) % Pwm!Pow2(Bits)
  BY DEF PwmInv, Pwm!Tick
<1>2. c' \in Pwm!Word
  <2>1. 0 \in Pwm!Block
    BY BitsAssumption DEF Pwm!Block
  <2> QED
    BY <1>1, <2>1, NextCycle
<1>3. played' \in Pwm!Signed /\ current_sample' = played' + Pwm!Half
  <2>1. CASE UNCHANGED <<current_sample, played>>
    BY <2>1 DEF PwmInv, Pwm!Signed
  <2>2. CASE \E s \in Pwm!Signed : current_sample' = Pwm!FlipTop(Pwm!TDATA(s)) /\ played' = s
    BY <2>2, SampleFlips
  <2> QED
    BY <2>1, <2>2 DEF Pwm!Tick, Pwm!Arrive
<1>4. steady' \subseteq Pwm!Block
  BY DEF Pwm!Tick, Pwm!History
<1>5. ASSUME NEW k \in steady', ~ Pwm!Begins(k, c')
      PROVE  high'[k] = Highs(current_sample', Start(k)', c')
  <2>1. k \in steady /\ played' = played
    BY <1>5 DEF Pwm!Tick, Pwm!History
  <2>2. current_sample' = current_sample
    BY <1>3, <2>1 DEF PwmInv
  <2>3. high'[k] = Highs(current_sample, Start(k), c + 1)
    BY <2>1, CycleCounts
  <2>4. c' = c + 1 /\ Start(k)' = Start(k)
    BY <1>1, <1>4, <1>5, NextCycle DEF Start
  <2> QED
    BY <2>2, <2>3, <2>4
<1> QED
  BY <1>2, <1>3, <1>4, <1>5 DEF PwmInv

LEMMA PwmInitially == Pwm!Init => PwmInv
<1> SUFFICES ASSUME Pwm!Init PROVE PwmInv
  OBVIOUS
<1>1. /\ current_sample = 0 /\ played = -Pwm!Half /\ pwm_counter = 0
      /\ steady = Pwm!Block
  BY DEF Pwm!Init
<1>2. played \in Pwm!Signed /\ current_sample = played + Pwm!Half /\ pwm_counter \in Pwm!Word
  BY <1>1, HalfWord DEF Pwm!Signed, Pwm!Word
<1>3. ASSUME NEW k \in Pwm!Block PROVE Pwm!Begins(k, pwm_counter)
  <2>1. Pwm!Pow2(k) \in Nat \ {0}
    BY BitsAssumption, PowPositive DEF Pwm!Block
  <2>2. 0 = Pwm!Pow2(k) * 0 + 0 /\ 0 \in 0 .. Pwm!Pow2(k) - 1
    BY <2>1
  <2>3. 0 % Pwm!Pow2(k) = 0
    BY <2>1, <2>2, Division
  <2> QED
    BY <1>1, <2>3 DEF Pwm!Begins
<1> QED
  BY <1>1, <1>2, <1>3 DEF PwmInv

(* At the end of a block of one sample: what it has counted.                *)
LEMMA BlockEnds ==
  ASSUME PwmInv, NEW r, Pwm!Tick(r), NEW k \in steady, Pwm!Begins(k, pwm_counter')
  PROVE  \E low \in 0 .. Pwm!Pow2(Bits - k) - 1 :
           high'[k] = Share(Pwm!Pow2(Bits - k), low, current_sample)
<1> DEFINE c == pwm_counter
           d == Pwm!Pow2(k)
           a == c \div d
<1>1. /\ k \in Pwm!Block /\ c \in Pwm!Word /\ c' = (c + 1) % Pwm!Pow2(Bits)
      /\ current_sample \in Pwm!Word
  BY HalfWord DEF PwmInv, Pwm!Tick, Pwm!Word, Pwm!Signed
<1>2. a \in Nat /\ c + 1 = d * a + d
  BY <1>1, NextCycle
<1>3. high'[k] = Highs(current_sample, Start(k), c + 1)
  BY CycleCounts
<1>4. Start(k) = d * a
  BY DEF Start
<1>5. k \in 0 .. Bits
  BY <1>1 DEF Pwm!Block
<1>6. Highs(current_sample, d * a, d * a + d)
        = Share(Pwm!Pow2(Bits - k), Pwm!Reversed(d * a), current_sample)
  <2> HIDE DEF a
  <2> QED
    BY <1>1, <1>2, <1>5, BlockHighs
<1>7. Pwm!Reversed(d * a) \in 0 .. Pwm!Pow2(Bits - k) - 1
  <2> HIDE DEF a
  <2> QED
    BY <1>2, <1>5, ReversedLow
<1> HIDE DEF d, a
<1>8. high'[k] = Share(Pwm!Pow2(Bits - k), Pwm!Reversed(d * a), current_sample)
  BY <1>2, <1>3, <1>4, <1>6
<1> QED
  BY <1>7, <1>8

LEMMA DutyOfTurn ==
  ASSUME PwmInv, NEW r, Pwm!Tick(r), Pwm!Begins(Bits, pwm_counter'), Bits \in steady
  PROVE  high'[Bits] = played + Pwm!Half + 1
<1>1. Pwm!Pow2(Bits - Bits) = 1
  BY BitsAssumption, PowerSteps
<1>2. PICK low \in 0 .. 0 : high'[Bits] = Share(1, low, current_sample)
  <2>1. PICK low \in 0 .. Pwm!Pow2(Bits - Bits) - 1 :
          high'[Bits] = Share(Pwm!Pow2(Bits - Bits), low, current_sample)
    BY BlockEnds
  <2> QED
    BY <1>1, <2>1
<1>3. current_sample \in Nat /\ current_sample = played + Pwm!Half
  BY HalfWord DEF PwmInv, Pwm!Signed
<1>4. low = 0
  BY <1>2
<1>5. Share(1, 0, current_sample) = current_sample + 1
  <2>1. current_sample = 1 * current_sample + 0 /\ 0 \in 0 .. 1 - 1
    BY <1>3
  <2>2. current_sample \div 1 = current_sample
    BY <1>3, <2>1, Division
  <2>3. current_sample - 0 = current_sample /\ ~(current_sample < 0)
    BY <1>3
  <2> QED
    BY <2>2, <2>3 DEF Share
<1> QED
  BY <1>2, <1>3, <1>4, <1>5

LEMMA SpreadOfBlock ==
  ASSUME PwmInv, NEW r, Pwm!Tick(r), NEW k \in steady, Pwm!Begins(k, pwm_counter')
  PROVE  LET blocks == Pwm!Pow2(Bits - k)
             share == played + Pwm!Half + 1
         IN  /\ high'[k] * blocks > share - blocks
             /\ high'[k] * blocks < share + blocks
<1> DEFINE b == Pwm!Pow2(Bits - k)
           s == current_sample
<1>1. b \in Nat \ {0}
  <2>1. Bits - k \in Nat
    BY BitsAssumption DEF PwmInv, Pwm!Block
  <2> QED
    BY <2>1, PowPositive
<1>2. PICK low \in 0 .. b - 1 : high'[k] = Share(b, low, s)
  BY BlockEnds
<1>3. s \in Nat /\ s = played + Pwm!Half
  BY HalfWord DEF PwmInv, Pwm!Signed
<1> HIDE DEF b, s
<1>4. high'[k] * b > (s + 1) - b /\ high'[k] * b < (s + 1) + b
  <2>1. CASE s < low
    <3>1. high'[k] = 0
      BY <1>2, <2>1 DEF Share
    <3> QED
      BY <1>1, <1>2, <1>3, <2>1, <3>1
  <2>2. CASE s >= low
    <3> DEFINE q == (s - low) \div b
               t == (s - low) % b
    <3>1. s - low \in Nat
      BY <1>2, <1>3, <2>2
    <3>2. q \in Nat /\ t \in 0 .. b - 1 /\ s - low = b * q + t
      BY <1>1, <3>1, DivMod
    <3>3. high'[k] = q + 1
      BY <1>2, <1>3, <2>2 DEF Share
    <3> HIDE DEF q, t
    <3>4. high'[k] * b = b * q + b
      BY <1>1, <3>2, <3>3
    <3> QED
      BY <1>1, <1>2, <1>3, <3>2, <3>4
  <2> QED
    BY <1>2, <1>3, <2>1, <2>2
<1>5. played + Pwm!Half + 1 = s + 1
  BY <1>3
<1> QED
  BY <1>4, <1>5 DEF b

-----------------------------------------------------------------------------
(* The device as a whole.                                                   *)
AudioInv == IInv /\ PwmInv

LEMMA AudioStep == AudioInv /\ [AudioNext]_audioVars => AudioInv'
<1>1. ASSUME AudioInv, AudioNext PROVE AudioInv'
  BY <1>1, NextIInv, PwmStep DEF AudioInv, AudioNext, Next
<1>2. ASSUME AudioInv, UNCHANGED audioVars PROVE AudioInv'
  <2>1. UNCHANGED vars /\ UNCHANGED Pwm!vars
    BY <1>2 DEF audioVars
  <2>2. IInv'
    BY <1>2, <2>1, NextIInv DEF AudioInv
  <2>3. PwmInv'
    BY <1>2, <2>1 DEF AudioInv, PwmInv, Start, Pwm!vars
  <2> QED
    BY <2>2, <2>3 DEF AudioInv
<1> QED
  BY <1>1, <1>2

(* Pacing and pulses: the counter stands where the time since the last      *)
(* request says, and each block has counted its high cycles.                *)
THEOREM Invariance == AudioSpec => []AudioInv
<1>1. AudioInit => AudioInv
  BY InitIInv, PwmInitially DEF AudioInit, AudioInv
<1> QED
  BY <1>1, AudioStep, PTL DEF AudioSpec

(* While audio stays on, samples are requested exactly one period apart.    *)
THEOREM OnTime == AudioSpec => []SampleOnTime
<1>1. AudioInv => SampleOnTime
  BY DEF AudioInv, IInv
<1> QED
  BY <1>1, Invariance, PTL

(* Whatever software does, samples are never requested too close together.  *)
THEOREM Spaced == AudioSpec => []NeverTooSoon
<1>1. AudioInv => NeverTooSoon
  BY DEF AudioInv, IInv
<1> QED
  BY <1>1, Invariance, PTL

(* Over a full turn of the counter the output is high for one cycle more    *)
(* than the sample lies above the lowest one.                               *)
THEOREM DutyRight == AudioSpec => DutyFollowsSample
<1> DEFINE A == (Pwm!Begins(Bits, pwm_counter') /\ Bits \in steady)
                  => high'[Bits] = played + Pwm!Half + 1
<1>1. AudioInv /\ [AudioNext]_audioVars => [A]_(Pwm!vars)
  <2>1. ASSUME AudioInv, AudioNext PROVE A
    BY <2>1, DutyOfTurn DEF AudioInv, AudioNext
  <2>2. ASSUME UNCHANGED audioVars PROVE UNCHANGED Pwm!vars
    BY <2>2 DEF audioVars
  <2> HIDE DEF A
  <2> QED
    BY <2>1, <2>2
<1>2. AudioSpec => [][A]_(Pwm!vars)
  <2> HIDE DEF A
  <2> QED
    BY <1>1, Invariance, PTL DEF AudioSpec
<1> QED
  BY <1>2 DEF DutyFollowsSample, Pwm!DutyFollowsSample

(* Every aligned block of 2^k cycles has its share of the high cycles, to   *)
(* within one cycle.                                                        *)
THEOREM SpreadRight == AudioSpec => PulsesSpread
<1> DEFINE A == \A k \in steady :
                  Pwm!Begins(k, pwm_counter') =>
                    LET blocks == Pwm!Pow2(Bits - k)
                        share == played + Pwm!Half + 1
                    IN /\ high'[k] * blocks > share - blocks
                       /\ high'[k] * blocks < share + blocks
<1>1. AudioInv /\ [AudioNext]_audioVars => [A]_(Pwm!vars)
  <2>1. ASSUME AudioInv, AudioNext PROVE A
    BY <2>1, SpreadOfBlock DEF AudioInv, AudioNext
  <2>2. ASSUME UNCHANGED audioVars PROVE UNCHANGED Pwm!vars
    BY <2>2 DEF audioVars
  <2> HIDE DEF A
  <2> QED
    BY <2>1, <2>2
<1>2. AudioSpec => [][A]_(Pwm!vars)
  <2> HIDE DEF A
  <2> QED
    BY <1>1, Invariance, PTL DEF AudioSpec
<1> QED
  BY <1>2 DEF PulsesSpread, Pwm!PulsesSpread
=============================================================================
