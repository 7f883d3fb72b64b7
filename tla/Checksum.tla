------------------------------ MODULE Checksum -------------------------------
(***************************************************************************)
(* internetChecksum (main.go and payload.go have the same one), the use of *)
(* it by fixIPv4TCPChecksums and tcpChecksumIPv4, and the checksum of the  *)
(* fake.  A byte is a number below Byte, 256 in the code, a checksum a     *)
(* number below Word = Byte^2.                                             *)
(*                                                                         *)
(* The state is what a checksum is taken over: the words of the IP header, *)
(* or of the pseudo header and the TCP segment, with the checksum field    *)
(* first.  (The order of the words does not matter to a sum.)              *)
(***************************************************************************)
EXTENDS Integers, Sequences

CONSTANTS Byte, MaxBytes    \* MaxBytes: bound on the length of the data

VARIABLES field, data, sumStage

sumVars == <<field, data, sumStage>>

Bytes == 0..(Byte - 1)
Word == Byte * Byte
Data == UNION {[1..n -> Bytes] : n \in 1..MaxBytes}

ASSUME ChecksumAssumption == Byte \in Nat \ {0, 1} /\ MaxBytes \in Nat

\* Mutant: the last byte of an odd number is the lower one.
WordAtLow(d, i) ==
    IF 2 * i <= Len(d) THEN Byte * d[2 * i - 1] + d[2 * i] ELSE d[2 * i - 1]
\* Big-endian 16-bit words; the last byte of an odd number is the upper one.
WordAt(d, i) == Byte * d[2 * i - 1] + (IF 2 * i <= Len(d) THEN d[2 * i] ELSE 0)
Words(d) == [i \in 1..((Len(d) + 1) \div 2) |-> WordAt(d, i)]

\* The running sums of a sequence of numbers: what the loop has in sum after i
\* rounds.
Sums(w) ==
    LET sum[i \in 0..Len(w)] == IF i = 0 THEN 0 ELSE sum[i - 1] + w[i]
    IN  sum
Sum(d) == Sums(Words(d))[Len(Words(d))]

\* for sum>>16 != 0 { sum = sum&0xffff + sum>>16 }
Fold[sum \in Nat] ==
    IF sum \div Word = 0 THEN sum ELSE Fold[(sum % Word) + (sum \div Word)]

Not(w) == Word - 1 - w

internetChecksum(f, d) == Not(Fold[f + Sum(d)])

\* Mutant: nothing is corrupted.
Uncorrupted(valid) == valid
Corrupted(valid) ==
    IF Not(valid) = valid THEN valid + 1 - 2 * (valid % 2) ELSE Not(valid)
-----------------------------------------------------------------------------
SumInit == field = 0 /\ data \in Data /\ sumStage = "zeroed"

Fix ==
    /\ sumStage = "zeroed"
    /\ field' = internetChecksum(field, data)
    /\ sumStage' = "fixed"
    /\ UNCHANGED data

Corrupt ==
    /\ sumStage = "zeroed"
    /\ field' = Corrupted(internetChecksum(field, data))
    /\ sumStage' = "corrupted"
    /\ UNCHANGED data

SumNext == Fix \/ Corrupt

SumSpec == SumInit /\ [][SumNext]_sumVars
-----------------------------------------------------------------------------
\* What a receiver does, after RFC 1071: the words and the checksum, added up in
\* one's complement, are all ones; as numbers, they are a multiple of Word - 1,
\* and not all of them are zero.  Bytes count by their place, odd ones Byte-fold.
Weighted(d) == [i \in 1..Len(d) |-> IF i % 2 = 1 THEN Byte * d[i] ELSE d[i]]
Total(d) == Sums(Weighted(d))[Len(d)]
Verifies == (field + Total(data)) % (Word - 1) = 0 /\ field + Total(data) > 0

\* A packet whose checksum was recalculated is valid, whatever its bytes, of
\* even and of odd length, however often the sum is folded.
FixedVerifies == sumStage = "fixed" => Verifies

\* --fake-bad-checksum, "send an invalid-checksum fake": the receiver refuses the
\* fake, except when the valid checksum is one of the two zeros of one's complement
\* (the sum of the rest is then a multiple of Word - 1): its complement is the
\* other zero and verifies, too.
FakeRefusedUnlessZero ==
    sumStage = "corrupted" /\ Total(data) % (Word - 1) # 0 => ~Verifies

\* What the field holds at every stage: with it the two properties are about
\* numbers, not about steps.
SumInv ==
    /\ data \in Data /\ sumStage \in {"zeroed", "fixed", "corrupted"}
    /\ sumStage = "zeroed" => field = 0
    /\ sumStage = "fixed" => field = internetChecksum(0, data)
    /\ sumStage = "corrupted" => field = Corrupted(internetChecksum(0, data))
=============================================================================
