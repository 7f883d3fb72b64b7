--------------------------- MODULE AlgorithmProofs ---------------------------
(***************************************************************************)
(* Proofs about Algorithm, for integers of every width.                    *)
(***************************************************************************)
EXTENDS Algorithm, FiniteSetTheorems, TLAPS

USE MaxInt64Assumption

\* A number that fits is not changed by its conversion to uint64.
LEMMA ToUint64Fits ==
    ASSUME NEW x \in Uint64
    PROVE  ToUint64(x) = x
  BY DEF ToUint64, Uint64, MaxUint64

\* A non-negative number that fits is not changed by its conversion to int64.
LEMMA ToInt64Fits ==
    ASSUME NEW x \in 0..MaxInt64
    PROVE  ToInt64(x) = x
  <1>1. x \in Uint64
    BY DEF Uint64, MaxUint64
  <1> QED
    BY <1>1, ToUint64Fits DEF ToInt64

\* randomUint64Inclusive(m) returns a number from 0 to m.
LEMMA OffsetInRange ==
    ASSUME NEW m \in Uint64, NEW value \in Uint64
    PROVE  Offset(value, m) \in 0..m
  <1>1. CASE m = MaxUint64
    BY <1>1 DEF Offset, Uint64
  <1>2. CASE m # MaxUint64
    <2>1. m + 1 \in Nat \ {0} /\ value \in Nat
      BY DEF Uint64, MaxUint64
    <2>2. value % (m + 1) \in 0..((m + 1) - 1)
      BY <2>1
    <2> QED
      BY <1>2, <2>1, <2>2 DEF Offset
  <1> QED
    BY <1>1, <1>2

\* RandomAlgorithm samples exactly the span of its options, and the sum with
\* the minimum stays within them.
LEMMA RandomExact ==
    ASSUME NEW a \in RandomAlgorithm, RandomValid(a), ~RandomPlain(a)
    PROVE  /\ RandomSpan(a) = a.Max - a.Min /\ RandomSpan(a) \in Uint64
           /\ \A offset \in 0..RandomSpan(a) :
                 /\ RandomResult(a, offset) = a.Min + offset
                 /\ RandomResult(a, offset) \in a.Min..a.Max
  <1>1. /\ a.Min \in 0..MaxInt64 /\ a.Max \in 0..MaxInt64 /\ a.Min < a.Max
        /\ NonNegative(a.Min) = a.Min
    BY DEF RandomAlgorithm, RandomValid, RandomPlain, NonNegative, Int64
  <1>2. a.Max - a.Min \in 0..MaxInt64
    BY <1>1
  <1>3. a.Max - a.Min \in Uint64
    BY <1>2 DEF Uint64, MaxUint64
  <1>4. RandomSpan(a) = a.Max - a.Min
    BY <1>1, <1>2, <1>3, ToInt64Fits, ToUint64Fits DEF RandomSpan
  <1>5. ASSUME NEW offset \in 0..(a.Max - a.Min)
        PROVE  /\ RandomResult(a, offset) = a.Min + offset
               /\ RandomResult(a, offset) \in a.Min..a.Max
    <2>1. offset \in 0..MaxInt64 /\ a.Min + offset \in 0..MaxInt64
      BY <1>1
    <2>2. RandomResult(a, offset) = a.Min + offset
      BY <1>1, <2>1, ToInt64Fits DEF RandomResult
    <2> QED
      BY <1>1, <2>2
  <1> QED
    BY <1>3, <1>4, <1>5

\* The exact value x cut off at both ends of the durations.
Clipped(x) == IF x < 0 THEN 0 ELSE IF x > MaxInt64 THEN MaxInt64 ELSE x

\* JitterAlgorithm: 2*jitter fits in uint64, the result is the exact one cut off
\* at both ends, and neither the sum nor the difference leaves the range of the
\* options, however large base and jitter are.
LEMMA JitterExact ==
    ASSUME NEW a \in JitterAlgorithm, JitterValid(a), ~JitterPlain(a)
    PROVE  /\ JitterSpan(a) = 2 * a.Jitter /\ JitterSpan(a) \in Uint64
           /\ \A raw \in 0..JitterSpan(a) :
                 /\ JitterResult(a, raw) = Clipped(a.Base + raw - a.Jitter)
                 /\ JitterResult(a, raw) \in 0..MaxInt64
                 /\ a.Base - a.Jitter <= JitterResult(a, raw)
                 /\ JitterResult(a, raw) <= a.Base + a.Jitter
  <1>1. /\ a.Base \in 0..MaxInt64 /\ a.Jitter \in 1..MaxInt64
        /\ NonNegative(a.Base) = a.Base
    BY DEF JitterAlgorithm, JitterValid, JitterPlain, NonNegative, Int64
  <1>2. /\ a.Base \in Uint64 /\ a.Jitter \in Uint64 /\ 2 * a.Jitter \in Uint64
        /\ MaxInt64 - a.Base \in Uint64
    BY <1>1 DEF Uint64, MaxUint64
  <1>3. /\ ToUint64(a.Base) = a.Base /\ ToUint64(a.Jitter) = a.Jitter
        /\ MaxPositiveOffset(a) = MaxInt64 - a.Base
    BY <1>1, <1>2, ToUint64Fits DEF MaxPositiveOffset
  <1>4. JitterSpan(a) = 2 * a.Jitter
    <2>1. ToUint64(a.Jitter) * 2 = 2 * a.Jitter
      BY <1>1, <1>3
    <2> QED
      BY <1>2, <2>1, ToUint64Fits DEF JitterSpan
  <1>5. ASSUME NEW raw \in 0..(2 * a.Jitter)
        PROVE  /\ JitterResult(a, raw) = Clipped(a.Base + raw - a.Jitter)
               /\ JitterResult(a, raw) \in 0..MaxInt64
               /\ a.Base - a.Jitter <= JitterResult(a, raw)
               /\ JitterResult(a, raw) <= a.Base + a.Jitter
    <2>0. raw \in Nat
      BY <1>1
    <2>1. CASE raw <= a.Jitter
      <3>1. a.Jitter - raw \in 0..MaxInt64 /\ a.Jitter - raw <= a.Jitter
        BY <1>1, <2>0, <2>1
      <3>2. JitterResult(a, raw) = JitterBelow(a, a.Jitter - raw)
        BY <1>3, <2>1 DEF JitterResult
      <3>3. CASE a.Jitter - raw >= a.Base
        <4>1. JitterResult(a, raw) = 0
          BY <1>1, <1>3, <3>2, <3>3 DEF JitterBelow
        <4> QED
          BY <1>1, <2>0, <2>1, <3>3, <4>1 DEF Clipped
      <3>4. CASE ~(a.Jitter - raw >= a.Base)
        <4>1. a.Base - (a.Jitter - raw) \in 0..MaxInt64
          BY <1>1, <3>1, <3>4
        <4>2. JitterResult(a, raw) = a.Base - (a.Jitter - raw)
          BY <1>1, <1>3, <3>1, <3>2, <3>4, <4>1, ToInt64Fits DEF JitterBelow
        <4> QED
          BY <1>1, <2>0, <2>1, <4>1, <4>2 DEF Clipped
      <3> QED
        BY <3>3, <3>4
    <2>2. CASE ~(raw <= a.Jitter)
      <3>1. raw - a.Jitter \in 1..a.Jitter /\ raw - a.Jitter \in 0..MaxInt64
        BY <1>1, <2>0, <2>2
      <3>2. JitterResult(a, raw) = JitterAbove(a, raw - a.Jitter)
        BY <1>3, <2>2 DEF JitterResult
      <3>3. CASE raw - a.Jitter > MaxInt64 - a.Base
        <4>1. JitterResult(a, raw) = MaxInt64
          BY <1>3, <3>2, <3>3 DEF JitterAbove
        <4> QED
          BY <1>1, <2>0, <3>1, <3>3, <4>1 DEF Clipped
      <3>4. CASE ~(raw - a.Jitter > MaxInt64 - a.Base)
        <4>1. a.Base + (raw - a.Jitter) \in 0..MaxInt64
          BY <1>1, <3>1, <3>4
        <4>2. JitterResult(a, raw) = a.Base + (raw - a.Jitter)
          BY <1>1, <1>3, <3>1, <3>2, <3>4, <4>1, ToInt64Fits DEF JitterAbove
        <4> QED
          BY <1>1, <2>0, <3>1, <4>1, <4>2 DEF Clipped
      <3> QED
        BY <3>3, <3>4
    <2> QED
      BY <2>1, <2>2
  <1> QED
    BY <1>2, <1>4, <1>5
-----------------------------------------------------------------------------
\* The modes of the three algorithms tell them apart.
LEMMA Modes ==
    ASSUME NEW a
    PROVE  /\ a \in FixedAlgorithm => a.Mode = "fixed"
           /\ a \in RandomAlgorithm => a.Mode = "random"
           /\ a \in JitterAlgorithm => a.Mode = "jitter"
  BY DEF FixedAlgorithm, RandomAlgorithm, JitterAlgorithm

\* The invariant holds at the start.
LEMMA IndInvInit == AlgInit => AlgInv
  BY DEF AlgInit, AlgInv, AlgTypeOK, Installed, SpanExact, ResultInRange, Uint64, MaxUint64,
         Int64

\* A call that needs no random number returns a duration of the range.
LEMMA PlainInRange ==
    ASSUME Installed, pc # "new", Plain(alg)
    PROVE  /\ PlainResult(alg) \in Int64
           /\ Lowest(alg) <= PlainResult(alg) /\ PlainResult(alg) <= Highest(alg)
  <1>1. CASE alg \in FixedAlgorithm /\ FixedValid(alg)
    BY <1>1 DEF FixedAlgorithm, FixedValid, PlainResult, Lowest, Highest, Int64
  <1>2. CASE alg \in RandomAlgorithm /\ RandomValid(alg)
    BY <1>2 DEF RandomAlgorithm, RandomValid, PlainResult, Lowest, Highest, Int64,
                NonNegative
  <1>3. CASE alg \in JitterAlgorithm /\ JitterValid(alg)
    BY <1>3 DEF JitterAlgorithm, JitterValid, PlainResult, Lowest, Highest, Int64,
                NonNegative, Plain, JitterPlain
  <1> QED
    BY <1>1, <1>2, <1>3 DEF Installed

\* So does a call that draws one.
LEMMA SampleInRange ==
    ASSUME Installed, pc # "new", ~Plain(alg)
    PROVE  /\ Span(alg) \in Uint64
           /\ Span(alg) = IF alg.Mode = "random" THEN alg.Max - alg.Min
                                                 ELSE 2 * alg.Jitter
           /\ \A raw \in 0..Span(alg) :
                 /\ Outcome(alg, raw) \in Int64
                 /\ Lowest(alg) <= Outcome(alg, raw)
                 /\ Outcome(alg, raw) <= Highest(alg)
  <1>1. CASE alg \in RandomAlgorithm /\ RandomValid(alg)
    <2>1. alg.Mode = "random" /\ ~RandomPlain(alg)
      BY <1>1, Modes DEF Plain
    <2>2. /\ Span(alg) = RandomSpan(alg) /\ Lowest(alg) = alg.Min
          /\ Highest(alg) = alg.Max
          /\ \A raw : Outcome(alg, raw) = RandomResult(alg, raw)
      BY <2>1 DEF Span, Lowest, Highest, Outcome
    <2>3. alg.Min \in Int64 /\ alg.Max \in Int64
      BY <1>1 DEF RandomAlgorithm
    <2>4. \A raw \in 0..Span(alg) : RandomResult(alg, raw) \in alg.Min..alg.Max
      BY <1>1, <2>1, <2>2, RandomExact
    <2> QED
      BY <1>1, <2>1, <2>2, <2>3, <2>4, RandomExact DEF Int64
  <1>2. CASE alg \in JitterAlgorithm /\ JitterValid(alg)
    <2>1. alg.Mode = "jitter" /\ ~JitterPlain(alg)
      BY <1>2, Modes DEF Plain
    <2>2. /\ Span(alg) = JitterSpan(alg)
          /\ \A raw : Outcome(alg, raw) = JitterResult(alg, raw)
      BY <2>1 DEF Span, Outcome
    <2>3. alg.Base \in Int64 /\ alg.Jitter \in Int64
      BY <1>2 DEF JitterAlgorithm
    <2>4. ASSUME NEW raw \in 0..Span(alg)
          PROVE  /\ Outcome(alg, raw) \in Int64
                 /\ Lowest(alg) <= Outcome(alg, raw)
                 /\ Outcome(alg, raw) <= Highest(alg)
      <3>1. /\ JitterResult(alg, raw) \in 0..MaxInt64
            /\ alg.Base - alg.Jitter <= JitterResult(alg, raw)
            /\ JitterResult(alg, raw) <= alg.Base + alg.Jitter
        BY <1>2, <2>1, <2>2, JitterExact
      <3> QED
        BY <2>1, <2>2, <2>3, <3>1 DEF Lowest, Highest, NonNegative, Int64
    <2> QED
      BY <1>2, <2>1, <2>2, <2>4, JitterExact
  <1>3. alg \notin FixedAlgorithm
    BY Modes DEF Plain
  <1> QED
    BY <1>1, <1>2, <1>3 DEF Installed

\* The ends of the range are numbers.
LEMMA BoundsAreNumbers ==
    ASSUME Installed, pc # "new"
    PROVE  Lowest(alg) \in Int /\ Highest(alg) \in Int
  <1>1. CASE alg \in FixedAlgorithm
    BY <1>1, Modes DEF FixedAlgorithm, Lowest, Highest, Int64
  <1>2. CASE alg \in RandomAlgorithm
    BY <1>2, Modes DEF RandomAlgorithm, Lowest, Highest, Int64
  <1>3. CASE alg \in JitterAlgorithm
    <2>1. alg.Base \in Int /\ alg.Jitter \in Int /\ alg.Mode = "jitter"
      BY <1>3, Modes DEF JitterAlgorithm, Int64
    <2> QED
      BY <2>1 DEF Lowest, Highest, NonNegative
  <1> QED
    BY <1>1, <1>2, <1>3 DEF Installed

\* The invariant is kept by every step.
LEMMA IndInvStep == AlgInv /\ [AlgNext]_algVars => AlgInv'
  <1> SUFFICES ASSUME AlgInv, [AlgNext]_algVars PROVE AlgInv'
    OBVIOUS
  <1>1. CASE NewFixed \/ NewRandom \/ NewJitter
    <2>1. /\ pc' = "ready" /\ UNCHANGED <<max, result>>
          /\ \/ alg' \in FixedAlgorithm /\ FixedValid(alg')
             \/ alg' \in RandomAlgorithm /\ RandomValid(alg')
             \/ alg' \in JitterAlgorithm /\ JitterValid(alg')
      BY <1>1 DEF NewFixed, NewRandom, NewJitter, Install
    <2> QED
      BY <2>1 DEF AlgInv, AlgTypeOK, Installed, SpanExact, ResultInRange, FixedValid,
                  RandomValid, JitterValid
  <1>2. CASE ReturnPlain
    <2>1. /\ result' \in Int64
          /\ Lowest(alg) <= result' /\ result' <= Highest(alg)
      BY <1>2, PlainInRange DEF AlgInv, ReturnPlain
    <2> QED
      BY <1>2, <2>1 DEF ReturnPlain, AlgInv, AlgTypeOK, Installed, SpanExact,
                        ResultInRange, Lowest, Highest, FixedValid, RandomValid,
                        JitterValid
  <1>3. CASE StartSampling
    <2>1. /\ max' \in Uint64
          /\ max' = IF alg.Mode = "random" THEN alg.Max - alg.Min ELSE 2 * alg.Jitter
      BY <1>3, SampleInRange DEF AlgInv, StartSampling
    <2> QED
      BY <1>3, <2>1 DEF StartSampling, AlgInv, AlgTypeOK, Installed, SpanExact,
                        ResultInRange, FixedValid, RandomValid, JitterValid, Plain,
                        RandomPlain, JitterPlain
  <1>4. CASE ReturnSample
    <2>1. PICK value \in Uint64 : result' = Outcome(alg, Offset(value, max))
      BY <1>4 DEF ReturnSample
    <2>2. max \in Uint64 /\ max = Span(alg)
      BY <1>4, SampleInRange DEF AlgInv, AlgTypeOK, ReturnSample, SpanExact
    <2>3. Offset(value, max) \in 0..Span(alg)
      BY <2>2, OffsetInRange
    <2>4. /\ result' \in Int64
          /\ Lowest(alg) <= result' /\ result' <= Highest(alg)
      BY <1>4, <2>1, <2>3, SampleInRange DEF AlgInv, ReturnSample
    <2>5. 0 \in Uint64
      BY DEF Uint64, MaxUint64
    <2>6. Lowest(alg)' = Lowest(alg) /\ Highest(alg)' = Highest(alg)
      BY <1>4 DEF ReturnSample, Lowest, Highest
    <2>7. ResultInRange'
      BY <1>4, <2>4, <2>6 DEF ReturnSample, ResultInRange
    <2> QED
      BY <1>4, <2>4, <2>5, <2>7 DEF ReturnSample, AlgInv, AlgTypeOK, Installed,
                                    SpanExact, FixedValid, RandomValid, JitterValid
  <1>5. CASE CallAgain
    BY <1>5 DEF CallAgain, AlgInv, AlgTypeOK, Installed, SpanExact, ResultInRange,
                FixedValid, RandomValid, JitterValid, Int64
  <1>6. CASE UNCHANGED algVars
    BY <1>6 DEF algVars, AlgInv, AlgTypeOK, Installed, SpanExact, ResultInRange, Lowest,
                Highest, FixedValid, RandomValid, JitterValid, Plain, RandomPlain,
                JitterPlain
  <1> QED
    BY <1>1, <1>2, <1>3, <1>4, <1>5, <1>6 DEF AlgNext

\* Every behaviour keeps the inductive invariant.
THEOREM Invariance == AlgSpec => []AlgInv
  BY IndInvInit, IndInvStep, PTL DEF AlgSpec

\* For integers of every width, Algorithm.Next returns a duration within the
\* range the options describe: nothing overflows.
THEOREM DurationsInRange == AlgSpec => []ResultInRange
  <1>1. AlgInv => ResultInRange
    BY DEF AlgInv
  <1> QED
    BY <1>1, Invariance, PTL
-----------------------------------------------------------------------------
(***************************************************************************)
(* Rejection sampling.  With N = 2^64 random values and a range of s       *)
(* numbers, the first T values are refused, and N - T is a multiple of s.  *)
(***************************************************************************)
\* Division with remainder.
LEMMA DivMod ==
    ASSUME NEW s \in Nat \ {0}, NEW x \in Int
    PROVE  /\ x \div s \in Int /\ x % s \in 0..(s - 1)
           /\ x = s * (x \div s) + (x % s)
  OBVIOUS

\* Between -s and s there is no multiple of s but 0.
LEMMA OnlyZero ==
    ASSUME NEW s \in Nat \ {0}, NEW d \in Int, -s < s * d, s * d < s
    PROVE  d = 0
  <1>1. CASE d >= 1
    <2>1. s * d >= s * 1
      BY <1>1
    <2> QED
      BY <2>1
  <1>2. CASE d <= -1
    <2>1. s * d <= s * (-1)
      BY <1>2
    <2> QED
      BY <2>1
  <1> QED
    BY <1>1, <1>2

\* The remainder is the only number below s that leaves a multiple of s.
LEMMA ModUnique ==
    ASSUME NEW s \in Nat \ {0}, NEW q \in Int, NEW r \in 0..(s - 1), NEW x \in Int,
           x = s * q + r
    PROVE  x % s = r
  <1>1. /\ x \div s \in Int /\ x % s \in 0..(s - 1)
        /\ x = s * (x \div s) + (x % s)
    BY DivMod
  <1>2. s * (q - (x \div s)) = (x % s) - r
    BY <1>1
  <1>3. q - (x \div s) = 0
    BY <1>1, <1>2, OnlyZero
  <1> QED
    BY <1>1, <1>2, <1>3

\* -size % size, computed in uint64, is 2^64 % size: what is left of the random
\* values when they are dealt out in ranges of size, of which there is one at least.
LEMMA ThresholdFacts ==
    ASSUME NEW m \in Uint64, m # MaxUint64
    PROVE  /\ m + 1 \in Nat \ {0}
           /\ Threshold(m) \in 0..m
           /\ \E k \in Nat \ {0} : MaxUint64 + 1 = (m + 1) * k + Threshold(m)
  <1> DEFINE N == MaxUint64 + 1
             s == m + 1
             q == (N - s) \div s
  <1>1. N \in Nat \ {0} /\ s \in Nat \ {0} /\ s < N /\ N - s \in 0..MaxUint64
    BY DEF Uint64, MaxUint64
  <1>2. ToUint64(-s) = N - s
    <2>1. -s = N * (-1) + (N - s)
      BY <1>1
    <2>2. (-s) % N = N - s
      <3>1. N - s \in 0..(N - 1) /\ -s \in Int /\ -1 \in Int
        BY <1>1 DEF MaxUint64
      <3> HIDE DEF N, s
      <3> QED
        BY <1>1, <2>1, <3>1, ModUnique
    <2> QED
      BY <2>2 DEF ToUint64
  <1>3. Threshold(m) = (N - s) % s
    BY <1>2 DEF Threshold
  <1>4. /\ q \in Int /\ Threshold(m) \in 0..(s - 1)
        /\ N - s = s * q + Threshold(m)
    <2> HIDE DEF N, s
    <2> QED
      BY <1>1, <1>3, DivMod DEF q
  <1>5. q >= 0
    <2> SUFFICES ASSUME q <= -1 PROVE FALSE
      BY <1>4
    <2> HIDE DEF N, s, q
    <2>1. s * q <= s * (-1)
      BY <1>1, <1>4
    <2> QED
      BY <1>1, <1>4, <2>1
  <1>6. q + 1 \in Nat \ {0} /\ N = s * (q + 1) + Threshold(m)
    <2> HIDE DEF N, s, q
    <2> QED
      BY <1>1, <1>4, <1>5
  <1>7. \E k \in Nat \ {0} : N = s * k + Threshold(m)
    <2> HIDE DEF N, s, q
    <2> QED
      BY <1>6
  <1>8. Threshold(m) \in 0..m
    BY <1>4 DEF Uint64, MaxUint64
  <1> QED
    BY <1>1, <1>7, <1>8

\* The loop accepts as many values for r as for 0: v is matched with v + r, or, if
\* that is beyond the last value, with the value as many ranges below.
LEMMA SameCount ==
    ASSUME NEW m \in Uint64, m # MaxUint64, NEW r \in 0..m
    PROVE  LET A(i) == {v \in Uint64 : SampleAccepted(v, m) /\ Offset(v, m) = i}
           IN  /\ A(0) # {}
               /\ Cardinality(A(r)) = Cardinality(A(0))
  <1> DEFINE A(i) == {v \in Uint64 : SampleAccepted(v, m) /\ Offset(v, m) = i}
             s == m + 1
             T == Threshold(m)
             N == MaxUint64 + 1
  <1>1. PICK k \in Nat \ {0} : N = s * k + T
    BY ThresholdFacts
  <1> DEFINE len == s * k
  <1>2. /\ s \in Nat \ {0} /\ T \in Nat /\ T < s /\ N \in Nat \ {0} /\ m \in Nat
        /\ r \in Nat /\ r < s /\ 0 \in 0..(s - 1) /\ r \in 0..(s - 1)
    BY ThresholdFacts DEF Uint64, MaxUint64
  <1>3. len \in Nat /\ len >= s /\ N = len + T
    <2> HIDE DEF s, T, N
    <2>1. s * k >= s * 1
      BY <1>2
    <2> QED
      BY <1>1, <1>2, <2>1
  <1>4. ASSUME NEW i PROVE A(i) = {v \in T..(N - 1) : v % s = i}
    <2>1. Uint64 = 0..(N - 1)
      BY DEF Uint64, MaxUint64
    <2>2. \A v \in Uint64 : /\ SampleAccepted(v, m) <=> v >= T
                            /\ Offset(v, m) = v % s
      BY DEF SampleAccepted, Offset
    <2>3. T..(N - 1) = {v \in 0..(N - 1) : v >= T}
      <3> HIDE DEF T, N
      <3> QED
        BY <1>2
    <2>4. A(i) = {v \in Uint64 : v >= T /\ v % s = i}
      BY <2>2
    <2> HIDE DEF s, T, N, A
    <2> QED
      BY <2>1, <2>3, <2>4
  <1>5. A(0) # {}
    <2> HIDE DEF s, T, N
    <2>1. CASE T = 0
      <3>1. 0 = s * 0 + 0
        BY <1>2
      <3>2. 0 % s = 0
        BY <1>2, <3>1, ModUnique
      <3>3. 0 \in T..(N - 1)
        BY <1>2, <2>1
      <3> QED
        BY <1>4, <3>2, <3>3
    <2>2. CASE T # 0
      <3>1. s = s * 1 + 0
        BY <1>2
      <3>2. s % s = 0
        BY <1>2, <3>1, ModUnique
      <3>3. s \in T..(N - 1)
        BY <1>2, <1>3, <2>2
      <3> QED
        BY <1>4, <3>2, <3>3
    <2> QED
      BY <2>1, <2>2
  <1>6. Cardinality(A(r)) = Cardinality(A(0))
    <2> DEFINE f == [v \in A(0) |-> IF v + r <= N - 1 THEN v + r ELSE v + r - len]
    <2>0. /\ \A v \in A(0) : v \in Int /\ T <= v /\ v < N /\ v % s = 0
          /\ \A w \in A(r) : w \in Int /\ T <= w /\ w < N /\ w % s = r
      <3> HIDE DEF s, T, N, A
      <3> QED
        BY <1>2, <1>4
    <2>1. ASSUME NEW v \in A(0) PROVE f[v] \in A(r)
      <3>1. /\ v + r <= N - 1 => f[v] = v + r
            /\ ~(v + r <= N - 1) => f[v] = v + r - len
        OBVIOUS
      <3> HIDE DEF s, T, N, A, f, len
      <3>2. f[v] \in T..(N - 1)
        BY <1>2, <1>3, <2>0, <3>1
      <3>3. PICK c \in Int : f[v] = v + r + s * c
        <4>1. s * 0 = 0 /\ 0 \in Int
          BY <1>2
        <4>2. s * (-k) = -len /\ -k \in Int
          BY <1>2 DEF len
        <4>3. CASE v + r <= N - 1
          <5>1. f[v] = v + r + s * 0
            BY <1>2, <2>0, <3>1, <4>1, <4>3
          <5> QED
            BY <4>1, <5>1
        <4>4. CASE ~(v + r <= N - 1)
          <5>1. f[v] = v + r + s * (-k)
            BY <1>2, <1>3, <2>0, <3>1, <4>2, <4>4
          <5> QED
            BY <4>2, <5>1
        <4> QED
          BY <4>3, <4>4
      <3>4. PICK q \in Int : v = s * q + 0
        BY <1>2, <2>0, DivMod
      <3>5. f[v] % s = r
        <4>1. q + c \in Int /\ f[v] \in Int /\ f[v] = s * (q + c) + r
          BY <1>2, <3>2, <3>3, <3>4
        <4> QED
          BY <1>2, <4>1, ModUnique
      <3> QED
        BY <1>4, <3>2, <3>5
    <2>2. ASSUME NEW v \in A(0), NEW w \in A(0), f[v] = f[w] PROVE v = w
      <3>1. /\ v + r <= N - 1 => f[v] = v + r
            /\ ~(v + r <= N - 1) => f[v] = v + r - len
            /\ w + r <= N - 1 => f[w] = w + r
            /\ ~(w + r <= N - 1) => f[w] = w + r - len
        OBVIOUS
      <3> HIDE DEF s, T, N, A, f, len
      <3> QED
        BY <1>2, <1>3, <2>0, <2>2, <3>1
    <2>3. ASSUME NEW w \in A(r) PROVE \E v \in A(0) : f[v] = w
      <3> DEFINE v == IF w - r >= T THEN w - r ELSE w - r + len
      <3>1. v \in T..(N - 1) /\ (v + r <= N - 1 <=> w - r >= T)
        <4> HIDE DEF s, T, N, A, f, len
        <4> QED
          BY <1>2, <1>3, <2>0
      <3>2. PICK c \in Int : v = w - r + s * c
        <4>1. s * 0 = 0 /\ 0 \in Int /\ s * k = len /\ k \in Int
          BY <1>2
        <4>2. v = w - r \/ v = w - r + len
          OBVIOUS
        <4> HIDE DEF s, T, N, A, f, len, v
        <4>3. v = w - r + s * 0 \/ v = w - r + s * k
          BY <1>2, <2>0, <4>1, <4>2
        <4> QED
          BY <4>1, <4>3
      <3>3. v \in A(0)
        <4>1. v \in Int
          BY <1>2, <3>1
        <4> HIDE DEF s, T, N, A, f, len, v
        <4>2. PICK q \in Int : w = s * q + r
          BY <1>2, <2>0, DivMod
        <4>3. q + c \in Int /\ v = s * (q + c) + 0
          BY <1>2, <3>2, <4>2
        <4>4. v % s = 0
          BY <1>2, <4>1, <4>3, ModUnique
        <4> QED
          BY <1>4, <3>1, <4>4
      <3>4. f[v] = IF v + r <= N - 1 THEN v + r ELSE v + r - len
        <4> HIDE DEF s, T, N, A, len, v
        <4> QED
          BY <3>3
      <3>5. f[v] = w
        <4> HIDE DEF s, T, N, A, f, len
        <4> QED
          BY <1>2, <1>3, <2>0, <3>1, <3>4
      <3> HIDE DEF v
      <3> QED
        BY <3>3, <3>5
    <2>4. f \in Bijection(A(0), A(r))
      <3> HIDE DEF A
      <3>1. f \in [A(0) -> A(r)]
        BY <2>1
      <3> HIDE DEF f
      <3> QED
        BY <2>2, <2>3, <3>1 DEF Bijection, Injection, Surjection, IsInjective
    <2>5. IsFiniteSet(A(0))
      <3>1. IsFiniteSet(T..(N - 1)) /\ A(0) \subseteq T..(N - 1)
        <4> HIDE DEF s, T, N, A
        <4> QED
          BY <1>2, <1>4, FS_Interval
      <3> HIDE DEF s, T, N, A
      <3> QED
        BY <3>1, FS_Subset
    <2> HIDE DEF A, f
    <2> QED
      BY <2>4, <2>5, FS_Bijection DEF ExistsBijection
  <1> QED
    BY <1>5, <1>6

\* Fewer than half of the random values lie below the threshold.
LEMMA FewRefused ==
    ASSUME NEW m \in Uint64
    PROVE  2 * Cardinality({v \in Uint64 : ~SampleAccepted(v, m)}) <= MaxUint64 + 1
  <1>0. MaxUint64 + 1 \in Nat \ {0}
    BY DEF MaxUint64
  <1>1. CASE m = MaxUint64
    <2>1. {v \in Uint64 : ~SampleAccepted(v, m)} = {}
      BY <1>1 DEF SampleAccepted
    <2>2. Cardinality({v \in Uint64 : ~SampleAccepted(v, m)}) = 0
      BY <2>1, FS_EmptySet
    <2> QED
      BY <1>0, <2>2
  <1>2. CASE m # MaxUint64
    <2> DEFINE T == Threshold(m)
               s == m + 1
    <2>1. PICK k \in Nat \ {0} : MaxUint64 + 1 = s * k + T
      BY <1>2, ThresholdFacts
    <2>2. s \in Nat \ {0} /\ T \in Nat /\ T < s
      BY <1>2, ThresholdFacts DEF Uint64, MaxUint64
    <2>3. s * k >= s * 1 /\ s * k \in Nat
      <3> HIDE DEF s
      <3> QED
        BY <2>2
    <2>4. 2 * T <= MaxUint64 + 1 /\ T <= MaxUint64 + 1
      <3> HIDE DEF s, T
      <3> QED
        BY <1>0, <2>1, <2>2, <2>3
    <2>5. {v \in Uint64 : ~SampleAccepted(v, m)} = 0..(T - 1)
      <3>1. \A v \in Uint64 : SampleAccepted(v, m) <=> v >= T
        BY <1>2 DEF SampleAccepted
      <3>2. Uint64 = 0..((MaxUint64 + 1) - 1)
        BY <1>0 DEF Uint64, MaxUint64
      <3> HIDE DEF T
      <3> QED
        BY <1>0, <2>2, <2>4, <3>1, <3>2
    <2>6. Cardinality(0..(T - 1)) = T
      <3> HIDE DEF T
      <3>1. 0 \in Int /\ T - 1 \in Int
        BY <2>2
      <3> QED
        BY <2>2, <3>1, FS_Interval
    <2> QED
      BY <2>4, <2>5, <2>6
  <1> QED
    BY <1>1, <1>2

\* Rejection sampling has no modulo bias, for integers of every width and every
\* range that can be configured.
THEOREM SamplingIsUnbiased == AlgSpec => []Unbiased
  <1>1. AlgInv => Unbiased
    <2> SUFFICES ASSUME AlgInv, pc = "sampling"
                 PROVE  /\ AcceptedFor(0) # {}
                        /\ \A r \in 0..max :
                             Cardinality(AcceptedFor(r)) = Cardinality(AcceptedFor(0))
      BY DEF Unbiased
    <2>0. max \in Uint64 /\ 0 \in 0..max
      BY DEF AlgInv, AlgTypeOK, Uint64, MaxUint64
    <2> SUFFICES ASSUME NEW r \in 0..max
                 PROVE  /\ AcceptedFor(0) # {}
                        /\ Cardinality(AcceptedFor(r)) = Cardinality(AcceptedFor(0))
      BY <2>0
    <2>1. CASE max # MaxUint64
      BY <2>0, <2>1, SameCount DEF AcceptedFor
    <2>2. CASE max = MaxUint64
      <3>1. 0 \in 0..max /\ max \in Nat
        BY <2>0 DEF Uint64, MaxUint64
      <3>2. ASSUME NEW i \in 0..max PROVE AcceptedFor(i) = {i}
        BY <2>2 DEF AcceptedFor, SampleAccepted, Offset, Uint64
      <3>3. AcceptedFor(0) = {0} /\ AcceptedFor(r) = {r}
        BY <3>1, <3>2
      <3> QED
        BY <3>3, FS_Singleton
    <2> QED
      BY <2>1, <2>2
  <1> QED
    BY <1>1, Invariance, PTL

\* No configuration makes the loop refuse more than half of the random values.
THEOREM SamplingEndsSoon == AlgSpec => []MostlyAccepted
  <1>1. AlgInv => MostlyAccepted
    BY FewRefused DEF AlgInv, AlgTypeOK, MostlyAccepted
  <1> QED
    BY <1>1, Invariance, PTL

\* Every duration of the range of the options is drawn for some random value.
LEMMA EveryDurationDrawn ==
    ASSUME Installed, pc # "new", ~Plain(alg), NEW d \in Lowest(alg)..Highest(alg)
    PROVE  \E raw \in 0..Span(alg) : Outcome(alg, raw) = d
  <1>1. CASE alg \in RandomAlgorithm /\ RandomValid(alg)
    <2>1. alg.Mode = "random" /\ ~RandomPlain(alg)
      BY <1>1, Modes DEF Plain
    <2>2. /\ Span(alg) = alg.Max - alg.Min /\ Lowest(alg) = alg.Min
          /\ Highest(alg) = alg.Max
          /\ \A raw \in 0..Span(alg) : Outcome(alg, raw) = alg.Min + raw
      BY <1>1, <2>1, RandomExact DEF Span, Lowest, Highest, Outcome
    <2>3. alg.Min \in Int /\ alg.Max \in Int
      BY <1>1 DEF RandomAlgorithm, Int64
    <2>4. d - alg.Min \in 0..Span(alg) /\ alg.Min + (d - alg.Min) = d
      BY <2>2, <2>3
    <2> QED
      BY <2>2, <2>4
  <1>2. CASE alg \in JitterAlgorithm /\ JitterValid(alg)
    <2>1. alg.Mode = "jitter" /\ ~JitterPlain(alg)
      BY <1>2, Modes DEF Plain
    <2>2. /\ Span(alg) = 2 * alg.Jitter
          /\ \A raw \in 0..Span(alg) :
                Outcome(alg, raw) = Clipped(alg.Base + raw - alg.Jitter)
      BY <1>2, <2>1, JitterExact DEF Span, Outcome
    <2>3. alg.Base \in 0..MaxInt64 /\ alg.Jitter \in 1..MaxInt64
      BY <1>2, <2>1 DEF JitterAlgorithm, JitterValid, JitterPlain, Int64
    <2>4. /\ d \in 0..MaxInt64 /\ alg.Base - alg.Jitter <= d
          /\ d <= alg.Base + alg.Jitter
      BY <2>1, <2>3 DEF Lowest, Highest, NonNegative
    <2> DEFINE raw == d - alg.Base + alg.Jitter
    <2>5. raw \in 0..Span(alg) /\ alg.Base + raw - alg.Jitter = d
      BY <2>2, <2>3, <2>4
    <2>6. Clipped(d) = d
      BY <2>4 DEF Clipped
    <2> QED
      BY <2>2, <2>5, <2>6
  <1>3. alg \notin FixedAlgorithm
    BY Modes DEF Plain
  <1> QED
    BY <1>1, <1>2, <1>3 DEF Installed

\* The durations that can be drawn are exactly the range of the options.
THEOREM RangeIsDrawn == AlgSpec => []WholeRangeDrawn
  <1>1. AlgInv => WholeRangeDrawn
    <2> SUFFICES ASSUME AlgInv, pc = "sampling"
                 PROVE  {Outcome(alg, raw) : raw \in 0..max} = Lowest(alg)..Highest(alg)
      BY DEF WholeRangeDrawn
    <2>1. Installed /\ ~Plain(alg) /\ max = Span(alg)
      BY SampleInRange DEF AlgInv, SpanExact
    <2>2. \A raw \in 0..max : Outcome(alg, raw) \in Lowest(alg)..Highest(alg)
      <3>1. Lowest(alg) \in Int /\ Highest(alg) \in Int
        BY <2>1, BoundsAreNumbers
      <3> QED
        BY <2>1, <3>1, SampleInRange DEF Int64
    <2>3. \A d \in Lowest(alg)..Highest(alg) : \E raw \in 0..max : Outcome(alg, raw) = d
      BY <2>1, EveryDurationDrawn
    <2> QED
      BY <2>2, <2>3
  <1> QED
    BY <1>1, Invariance, PTL
=============================================================================
