------------------------------ MODULE Algorithm ------------------------------
(***************************************************************************)
(* internal/algorithm.go: how the cooldown of an address is chosen.        *)
(* time.Duration is int64 and the random numbers are uint64, so every sum  *)
(* and every conversion below wraps around as in Go.  The width of the     *)
(* integers is a parameter; the code has MaxInt64 = 2^63 - 1.              *)
(***************************************************************************)
EXTENDS Integers, FiniteSets

CONSTANT MaxInt64

ASSUME MaxInt64Assumption == MaxInt64 \in Nat \ {0}

MaxUint64 == 2 * MaxInt64 + 1
Int64 == (-MaxInt64 - 1)..MaxInt64
Uint64 == 0..MaxUint64

\* The conversions uint64(x) and int64(x) of the exact value x.
ToUint64(x) == x % (MaxUint64 + 1)
ToInt64(x) == IF ToUint64(x) <= MaxInt64 THEN ToUint64(x)
                                         ELSE ToUint64(x) - (MaxUint64 + 1)

FixedAlgorithm == [Mode : {"fixed"}, Cooldown : Int64]
RandomAlgorithm == [Mode : {"random"}, Min : Int64, Max : Int64]
JitterAlgorithm == [Mode : {"jitter"}, Base : Int64, Jitter : Int64]

VARIABLES
    pc,         \* "new", "ready", "sampling", "done"
    alg,        \* the Algorithm of State
    max,        \* the argument of randomUint64Inclusive
    result      \* what the last call of Next returned

algVars == <<pc, alg, max, result>>

NoAlgorithm == [Mode |-> "none"]

\* Every variable has its type.
AlgTypeOK ==
    /\ pc \in {"new", "ready", "sampling", "done"}
    /\ alg \in {NoAlgorithm} \cup FixedAlgorithm \cup RandomAlgorithm
                             \cup JitterAlgorithm
    /\ max \in Uint64
    /\ result \in Int64

AlgInit ==
    /\ pc = "new"
    /\ alg = NoAlgorithm
    /\ max = 0
    /\ result = 0
-----------------------------------------------------------------------------
(***************************************************************************)
(* NewAlgorithm, case by case.  What it refuses ends the program (main     *)
(* calls fatalf), so nothing follows.                                      *)
(***************************************************************************)
FixedValid(a) == a.Cooldown >= 0
RandomAnyOrder(a) == a.Min >= 0
RandomValid(a) == a.Min >= 0 /\ a.Max >= a.Min
JitterValid(a) == a.Base >= 0 /\ a.Jitter >= 0

Install(a) ==
    /\ pc = "new"
    /\ pc' = "ready"
    /\ alg' = a
    /\ UNCHANGED <<max, result>>

NewFixed == \E a \in FixedAlgorithm : FixedValid(a) /\ Install(a)
NewRandom == \E a \in RandomAlgorithm : RandomValid(a) /\ Install(a)
NewJitter == \E a \in JitterAlgorithm : JitterValid(a) /\ Install(a)
-----------------------------------------------------------------------------
(***************************************************************************)
(* randomUint64Inclusive(m): rejection sampling.  A value that is refused  *)
(* leaves no trace; only the last, accepted one is a step.                 *)
(***************************************************************************)
\* -size % size in uint64, with size = m + 1.
SizeItself(m) == m + 1
NoThreshold(m) == 0
Threshold(m) == ToUint64(-(m + 1)) % (m + 1)

SampleAccepted(value, m) == m = MaxUint64 \/ value >= Threshold(m)
Offset(value, m) == IF m = MaxUint64 THEN value ELSE value % (m + 1)

NonNegative(d) == IF d < 0 THEN 0 ELSE d
-----------------------------------------------------------------------------
(***************************************************************************)
(* Next, per algorithm: either a result at once, or what to draw and what  *)
(* to make of it.                                                          *)
(***************************************************************************)
\* RandomAlgorithm.Next and randomDurationInclusive.
RandomPlain(a) == a.Max <= NonNegative(a.Min)
RandomSpan(a) == ToUint64(ToInt64(a.Max - NonNegative(a.Min)))
RandomResult(a, offset) == ToInt64(NonNegative(a.Min) + ToInt64(offset))

\* JitterAlgorithm.Next: raw is spread around the jitter, and the sum is cut
\* off at both ends of the durations.
JitterPlain(a) == a.Jitter <= 0
JitterSpanShort(a) == ToUint64(ToUint64(a.Jitter) * 2 - 1)
JitterSpan(a) == ToUint64(ToUint64(a.Jitter) * 2)
MaxPositiveOffset(a) == ToUint64(MaxInt64 - NonNegative(a.Base))

JitterBelow(a, offset) ==
    IF offset >= ToUint64(NonNegative(a.Base)) THEN 0
    ELSE ToInt64(NonNegative(a.Base) - ToInt64(offset))

JitterAbove(a, offset) ==
    IF offset > MaxPositiveOffset(a) THEN MaxInt64
    ELSE ToInt64(NonNegative(a.Base) + ToInt64(offset))

JitterResult(a, raw) ==
    IF raw <= ToUint64(a.Jitter) THEN JitterBelow(a, ToUint64(a.Jitter) - raw)
                                 ELSE JitterAbove(a, raw - ToUint64(a.Jitter))

Plain(a) ==
    \/ a.Mode = "fixed"
    \/ a.Mode = "random" /\ RandomPlain(a)
    \/ a.Mode = "jitter" /\ JitterPlain(a)

PlainResult(a) ==
    CASE a.Mode = "fixed" -> a.Cooldown
      [] a.Mode = "random" -> NonNegative(a.Min)
      [] a.Mode = "jitter" -> NonNegative(a.Base)

Span(a) == IF a.Mode = "random" THEN RandomSpan(a) ELSE JitterSpan(a)
Outcome(a, raw) == IF a.Mode = "random" THEN RandomResult(a, raw)
                                        ELSE JitterResult(a, raw)

ReturnPlain ==
    /\ pc = "ready"
    /\ Plain(alg)
    /\ pc' = "done"
    /\ result' = PlainResult(alg)
    /\ UNCHANGED <<alg, max>>

StartSampling ==
    /\ pc = "ready"
    /\ ~Plain(alg)
    /\ pc' = "sampling"
    /\ max' = Span(alg)
    /\ UNCHANGED <<alg, result>>

ReturnSample ==
    /\ pc = "sampling"
    /\ \E value \in Uint64 : /\ SampleAccepted(value, max)
                             /\ result' = Outcome(alg, Offset(value, max))
    /\ pc' = "done"
    /\ max' = 0
    /\ UNCHANGED alg

\* State calls Next again for the next packet it accepts.
CallAgain ==
    /\ pc = "done"
    /\ pc' = "ready"
    /\ result' = 0
    /\ UNCHANGED <<alg, max>>

AlgNext ==
    \/ NewFixed \/ NewRandom \/ NewJitter
    \/ ReturnPlain \/ StartSampling \/ ReturnSample \/ CallAgain

AlgSpec == AlgInit /\ [][AlgNext]_algVars
-----------------------------------------------------------------------------
(***************************************************************************)
(* Properties.                                                             *)
(***************************************************************************)
\* What the options promise: --min-delay and --max-delay; --cooldown give or
\* take --jitter, as far as durations go.
Lowest(a) ==
    CASE a.Mode = "fixed" -> a.Cooldown
      [] a.Mode = "random" -> a.Min
      [] a.Mode = "jitter" -> NonNegative(a.Base - a.Jitter)

Highest(a) ==
    CASE a.Mode = "fixed" -> a.Cooldown
      [] a.Mode = "random" -> a.Max
      [] a.Mode = "jitter" ->
            IF a.Base + a.Jitter > MaxInt64 THEN MaxInt64 ELSE a.Base + a.Jitter

\* No sum, difference or conversion wraps around into a duration outside the
\* range the options describe, at either end of int64.
ResultInRange == pc = "done" => Lowest(alg) <= result /\ result <= Highest(alg)

AcceptedFor(r) ==
    {value \in Uint64 : SampleAccepted(value, max) /\ Offset(value, max) = r}

\* Rejection sampling has no modulo bias: every number from 0 to max comes from
\* equally many random values, and from at least one.
Unbiased ==
    pc = "sampling" =>
        /\ AcceptedFor(0) # {}
        /\ \A r \in 0..max : Cardinality(AcceptedFor(r)) = Cardinality(AcceptedFor(0))

\* The loop under State's mutex ends quickly: no more than half of the random
\* values are refused.
MostlyAccepted ==
    pc = "sampling" =>
        2 * Cardinality({value \in Uint64 : ~SampleAccepted(value, max)})
            <= MaxUint64 + 1

\* Every duration of the range can be drawn, both ends included.
WholeRangeDrawn ==
    pc = "sampling" =>
        {Outcome(alg, raw) : raw \in 0..max} = Lowest(alg)..Highest(alg)

\* What the sampler is asked for is what the options describe: the argument does
\* not wrap around ("2*jitter always fits in uint64").
SpanExact ==
    pc = "sampling" =>
        max = IF alg.Mode = "random" THEN alg.Max - alg.Min ELSE 2 * alg.Jitter
-----------------------------------------------------------------------------
\* The algorithm in use passed NewAlgorithm, and only a range is sampled.
Installed ==
    pc # "new" => \/ alg \in FixedAlgorithm /\ FixedValid(alg)
                  \/ alg \in RandomAlgorithm /\ RandomValid(alg)
                  \/ alg \in JitterAlgorithm /\ JitterValid(alg)

\* The inductive invariant behind ResultInRange and SpanExact.
AlgInv ==
    /\ AlgTypeOK
    /\ Installed
    /\ pc = "sampling" => ~Plain(alg)
    /\ SpanExact
    /\ ResultInRange
=============================================================================
