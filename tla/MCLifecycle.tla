----------------------------- MODULE MCLifecycle -----------------------------
(***************************************************************************)
(* Command lines for Lifecycle: all combinations of the options that       *)
(* depend on one another, and one value at a time that is out of range.    *)
(***************************************************************************)
EXTENDS Lifecycle

Ones == [n \in Numbers |-> 1]
OneOff == {[Ones EXCEPT ![n] = v] : n \in Numbers, v \in {-1, 0}}

Base == [Action |-> "shape", Packet |-> "syn", Mode |-> "fixed",
         FakePayload |-> "copy", Queue |-> 1, Number |-> Ones,
         SkipMark |-> "empty", RejectMark |-> "empty", SplitMark |-> "mark",
         Whitelist |-> {"ipv4", "blank"}, AlgorithmValid |-> TRUE,
         Inform |-> FALSE, DurationsParse |-> TRUE,
         SplitProbe |-> FALSE, SplitReverse |-> FALSE, FakeBadChecksum |-> FALSE]

Combinations ==
    {[Base EXCEPT !.Action = a, !.Packet = p, !.SplitProbe = pr, !.SplitReverse = r,
                  !.FakeBadChecksum = f] :
        a \in {"drop", "shape", "split", "reject"}, p \in {"syn", "synack", "payload"},
        pr \in BOOLEAN, r \in BOOLEAN, f \in BOOLEAN}
OutOfRange ==
    {[Base EXCEPT !.Number = n] : n \in OneOff}
    \cup {[Base EXCEPT !.SkipMark = m, !.RejectMark = k] : m \in MarkSpecs, k \in MarkSpecs}
    \cup {[Base EXCEPT !.FakePayload = p, !.Number["FakeLength"] = n] :
            p \in {"tls-invalid-length", "none"}, n \in {0, 4, 5}}
    \cup {[Base EXCEPT !.Whitelist = {i}] : i \in Items}
    \cup {[Base EXCEPT !.AlgorithmValid = FALSE], [Base EXCEPT !.Mode = "none"],
          [Base EXCEPT !.Inform = TRUE], [Base EXCEPT !.DurationsParse = FALSE],
          [Base EXCEPT !.Queue = 5]}

MCOptions == Combinations \cup OutOfRange
MCAnswers == {"accept", "drop"}
MCAccepts == {"accept"}
=============================================================================
