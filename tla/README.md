# A TLA+ model of nfqcooldown

nfqcooldown takes packets from a Linux NFQUEUE and gives each a verdict. With
`--action drop` it drops what an address sends while its cooldown runs; with
`--action shape` it spaces the SYN packets of an address by holding early ones
back in goroutines; with `--action split` it cuts TCP payload packets in two and
sends the second part through a raw socket. This directory models the program's
own logic, checks it with TLC on small instances and proves the main results with
TLAPS for every instance.

All paths below are relative to `src/`; `main.go` is `cmd/nfqcooldown/main.go`.

## 1. Inventory

| Component | State | Operations | Interaction | Hard parts |
|---|---|---|---|---|
| Packet prelude (`main.go` 652-661, 816-875) | the packet in hand, counters, last event | early accepts, skip mark, whitelist, `dropOrReject` | runs in go-nfqueue's one goroutine, hands over to a policy | every early return must answer; verdict errors are ignored |
| Shape policy (`main.go` 877-1072, 1364-1407) | `burstPacerByIP`, pacers, `shapePendingFlows`, `pendingDelays` | decide, delay, release, clean up | callback, a worker per delayed packet, cleanup loop | three kinds of goroutines, check-then-act on a counter, delete after unlock, late workers |
| Drop policy (`main.go` 1074-1128, `internal/state.go`) | `State.clients` | `Decide`, `IncDrop`, `ForceAccept`, `Forget`, `Cleanup` | callback and `cleanupLoop` share one mutex | several locked calls for one packet, cleanup between them |
| Algorithms (`internal/algorithm.go`) | none | `Next`, rejection sampling | called under `State.mu` | ends of int64 and uint64, modulo bias, length of the loop |
| Counters, statistics (`internal/stats.go`, `main.go` 1226-1308, 1426-1446) | five counters | increment, snapshot, print | all goroutines | what is counted and never shown |
| Split action (`main.go` 663-814, 415-463, 1310-1362) | `splitSeen`, `lastPass` | look up, decide, fake, split, reverse, clean up | callback, a sender goroutine per packet, two cleanup loops | failure of one send or verdict after another went out, delete against store, sleeps in the callback |
| Raw sender (`internal/raw_linux.go`, `raw_other.go`) | socket, its mark, mutex | `NewRawIPv4Sender`, `Send`, `Close` | callback, senders and shutdown | the mark belongs to the socket; `Close` looks at `fd` without the mutex |
| Payload and SYN parsers (`internal/payload.go`, `internal/parser.go`) | none | parse, split | called by the callback | header lengths, offsets, sequence numbers modulo 2^32, lengths modulo 2^16 |
| Checksums, fake packets (`main.go` 465-578) | none | recalculate, corrupt, clone | called by the callback | odd lengths, carries, the two zeros of one's complement |
| Whitelist (`internal/whitelist.go`) | networks | parse, `Contains` | | what is refused |
| Configuration (`main.go` 26-400) | `Config` | validate | | options that depend on each other, options nobody checks |
| Start and shutdown (`main.go` 580-650, 1130-1141) | queue, raw sender, loops | open, register, wait, close | all goroutines end with `main` | packets held when `main` returns, tickers that panic |

What makes each correct: every packet gets one final verdict and delayed packets
are never dropped (prelude and all three actions); the options' limits hold in every
interleaving (`--burst-interval`, `--max-pending-delays`, `--max-drops-per-ip`,
the cooldown, `--split-seen-ttl`, `--pass-window`); what is cut arrives whole and
under its own mark; nothing leaks (pacers, clients, workers, keys, windows); the
numbers that are printed are right; no arithmetic or slice leaves its range; the
options that pass the checks are enough for the handler. The hazards, each with its
line and the properties that cover it, are in `PROJECT.json`.

## 2. Modules

| Module | What it is |
|---|---|
| `NfqGate` | Abstract: what the kernel may rely on. `Shape`, `Cooldown` and `Split` implement it; `Lifecycle` builds on it. |
| `Ingress` | The prelude and the state the SYN policies share: packets, verdicts, counters, last event, clock. Packets are records of address, flow, kind and mark; a mark is a set of bits. |
| `Shape` | `--action shape`, extends `Ingress`. |
| `Cooldown` | `--action drop` and `State`, extends `Ingress`. |
| `Algorithm` | The cooldown algorithms and the sampler, with integers that wrap around. |
| `Split` | `--packet payload --action split`: callback, sender goroutines, both cleanup loops. |
| `RawSend` | Abstract: a raw send is one step that carries its own mark. |
| `RawSender` | `RawIPv4Sender` as system calls under a mutex; implements `RawSend`. |
| `Segment` | The parsers, `SplitIPv4TCPPacket` and the fake, as slices and fields of abstract packets. |
| `Checksum` | `internetChecksum` and its uses over small bytes; `MCFunctions` runs it side by side with `Segment` and `Algorithm`, with which it shares nothing. |
| `Lifecycle` | `main` from the command line to the exit, with the gate as what happens in between. |
| `MCShape`, `MCCooldown`, `MCSplit`, `MCFunctions`, `MCLifecycle` | Instances for TLC. |
| `IngressProofs`, `ShapeProofs`, `CooldownProofs`, `AlgorithmProofs`, `SplitProofs`, `RawSenderProofs`, `SegmentProofs`, `LifecycleProofs` | The theorems and their proofs. |

How they compose: `Lifecycle` instantiates `NfqGate` for the time between `Register`
and the exit, and the three actions are shown to implement that gate, so that what goes
on in the life of a process is what each of them does. `Split` takes a raw send as one
step, which `RawSender` justifies by implementing `RawSend`. `Split` works with keys and
lengths; that the second part comes back to the parser under the key the callback stored for it,
and that the first part, whose key is not stored, is too short to be cut again, is
`Segment.PartsParse`. `Cooldown` takes the results of the algorithms as a set of
natural numbers, which is `Algorithm.ResultInRange`.

### How the models correspond to the code

*Steps.* An action is the code between two points at which another goroutine can
matter: a critical section is one step, and so is what follows an unlock when it
only touches things that commute with what the others do. In `Shape` the callback
goes `idle -> flow -> lock -> decision -> idle`: `now` is read in `Receive`, the
flow map and the pacer map are read in the next step, the five ways out of the
critical section are the five `Decide...` actions, and the counting and the verdict
come after the unlock. A worker goes `asleep -> released -> forgotten -> answered ->
done`, with the deferred subtraction last. The cleanup loop reads the tick's time,
visits the keys in any order and deletes a key in a step *after* the test, as the
code does. A pacer is named by the packet that allocated it, so that a deleted pacer
lives on for whoever holds the pointer. In `Cooldown` each method of `State` is a
step; `Cleanup` reads the clock in a step of its own because the code does so before
it locks.

In `Split` the callback goes through `load` (the key is looked up), `window` (`decide`
under its lock, with a clock read before it), `store`, `fake`, `faked`, `split`, `raw`,
`reversed`, `spawn`: one state for each call another goroutine can meet, and for each
of its two sleeps, during which no packet is taken. Three joins are made. Looking a key
up and reading the clock for `decide` are one step: only the callback stores keys, so
the look-up that finds nothing would find nothing a moment later as well.
`Store(key, time.Now())` is one step: the sender goroutines and the cleanup neither
read the clock nor store. A raw send is one step (see above). Each send and each
modified verdict has an action of its own for its failure, with exactly the keys the
code forgets in that branch. The options that choose the way (`--split-probe`,
`--split-reverse`, the fake and its payload, `--pass-window`) are the record `opts`, taken
from `Options` at the start and never changed, so that one run covers several modes.

In `RawSender` every system call is a step, and `Close` reads `fd` once without and
once with the mutex. `s.fd` and the kernel's socket are two variables, because the code
sets the one after it has closed the other.

`Segment`, `Checksum` and `Algorithm` are functions on data; their actions only choose an input and
an operation. A slice expression is recorded as low bound, high bound and capacity, so
that a panic is a triple out of order. A byte of payload is the number of its place in
the stream, and lengths and sequence numbers wrap at `LenSpace` and `SeqSpace`.

`Lifecycle` has one action for each step of `main` and one for each way it can fail.
Held packets are limited by the option `MaxPendingDelays`, as in the handler: 0 is no
limit (`Hold`). A command line is a record: names, the numbers by the name of their field, marks by
how `mustMark` and `mustMarkSpec` tell them apart, and two flags for what package
`flag` and `NewAlgorithm` decide. `os.Exit` runs no deferred call; the return of `main`
closes the raw sender, then the queue, while callback and workers still run, and all
end with `main`. The goroutines of the loops reach their `time.NewTicker` at any
moment after their start.

*Time* is an integer that `Tick` moves at any moment; 0 is Go's zero time or "no
entry", the clock starts at 1. In Go the distance from the zero time saturates, so that
`IsZero` and the comparison of distances agree on it; the models have one disjunct for
both. A worker or sender whose sleep is over may run any time
later. A ticker's time may be old when the loop uses it.

*Verdicts.* go-nfqueue and the kernel are external. `SetVerdict` may lose a verdict
(the code ignores its error); a lost verdict is recorded as such and counts as given.
`SetVerdictModPacketWithConnMark` may fail, and the split action then tries again with
a plain accept.

*Packets.* In `Ingress` the parsers' result is a packet's kind ("other" for anything
that does not match); the whitelist is the set of addresses it accepts. `ASSUME`s on
the constants are what `parseConfig` guarantees: `BurstInterval` positive, limits not
negative, no `--split-probe` with `--split-reverse` or with a fake; `CleanupAfter` is
any integer, because nothing checks it.

In `Split` a packet ends where its header says. The fake takes its length from the slice
(`main.go:519`), and copies what lies behind the declared length (`main.go:535-536`);
such packets are inputs of `Segment` (`FakeLen`, `Fake`).

*History variables.* `stampedAt`, the `now` an accept or a worker's release was stamped
with, and `releasedAt`, the time of its verdict (`Shape`), `quiet`, `streak` (`Cooldown`),
`cutAt`, `passAt` (`Split`) record what properties speak about and influence nothing.

*Algorithm.* `ToUint64` and `ToInt64` wrap; every conversion of the Go code appears.
A refused random value leaves no trace, so only the accepted one is a step.

## 3. Runs

| Run | Shows |
|---|---|
| `shape_safety` | One address, two flows, other packets, 3 packets, `BurstMaxDelay` 0: counter, flow map, `Pending`, spacing of verdicts behind an accept, monotone stamps. |
| `shape_limits` | One place, `BurstMaxDelay` 1, a skip mark and a reject mark, 3 packets, one lost verdict, fairness: the limit, the counters, refinement of `NfqGate`, every packet answered, every pacer reclaimed. |
| `shape_due_worker` | Violation of `ReleaseSpacing`, section 6. |
| `shape_drops_hidden` | Violation of `DropsShown`, section 6. |
| `cooldown` | Cooldowns 0, 1, 3, limit 1, with and without `--forget-on-drop`, `--reject-mark`, marks, a whitelisted address, 3 packets, one lost verdict, fairness: cooldown kept, drops bounded, counters, clients reclaimed, refinement of `NfqGate`. |
| `cooldown_drop_race` | Violation of `DropsWithinLimit`, section 6. |
| `split_safety` | A segment at the end of the sequence space, its second part and retransmissions, 3 packets, one failure, in three modes (in order; fake and reverse; window): no second cut within the ttl, parts belong together, no key left in `splitSeen` that should have been undone, passes a window apart and kept whole. |
| `split_live` | Marks, other packets, segments too short to cut, 2 packets, one failure, one lost verdict, in four modes (in order; fake; fake and reverse; window and probe), fairness: every packet answered, the second part follows, both maps reclaimed, refinement of `NfqGate`. |
| `split_cleanup_race` | Violation of `SecondRemembered`, section 6. |
| `raw_sender` | Two senders and a closer, two marks, packets that are refused: atomic sends, no call on a closed socket, every call returns. |
| `functions` | All packets with lengths around every limit, with options, fragments, FIN and a sequence number about to wrap; all data of one to six bytes of base 4: slices in bounds, parts and fakes well formed, recalculated checksums verify, corrupted ones do not unless the sum is zero. All configurations of the algorithms and all random values of 5-bit integers: results in range, no bias, whole range drawn, few retries. |
| `lifecycle` | All combinations of the options that depend on each other, every number at -1 and 0, every kind of mark and whitelist item, a failure at each step of the start, a signal at any time: the handler that runs has the action, the queue and the raw sender it needs. |

*Bounds.* `MaxPackets`, `MaxTime`, `MaxLost` and `MaxFails` bound the environment only:
how many packets come, until when, how many verdicts are lost and how many sends fail.
After `MaxTime` the clock runs on until all sleeps are over and all entries are old, so
that liveness is not cut off. Three packets of one address are what the longest story
needs (one accepted, one delayed, one that meets the worker or the cleanup; one cut,
its second part, and the retransmission of either). They also fill the one place of
`shape_limits`: a worker gives its place back after its verdict, and a packet that comes
in between finds the limit reached. The overflow of `--burst-max-delay` is met there
through a clock that was read before a worker's release. In `cooldown` three packets are
an accept and two drops, one of them over the limit of one.
One failure is enough for each branch of the split action, which answers the packet at
the first one. The flows of one address are interchangeable, hence the symmetry set in
`ShapeSafety.cfg`. In `Checksum`, six bytes of base 4 give three words and two folds;
`Fold` and the test for the two zeros do not depend on the base. In `Segment`
`LenSpace` is 64, above all lengths used, as 2^16 is above what a packet can have.
What the bounds leave out, the proofs cover.

*Deadlock* is not checked in the runs of `Split`, `functions` and `lifecycle`, where
nothing is left to do once the packets are through, the data is looked at or the process
has ended; the other runs check it.

*Fairness.* Weak fairness for the callback, each worker and sender, the cleanup loops
and time: the Go scheduler runs every goroutine that can run, tickers tick. No fairness
for arriving packets, signals or failures. In `RawSender` taking the mutex is strongly
fair: Go's `sync.Mutex` hands itself over to a goroutine that has waited for a
millisecond. The four violation runs are of invariants and use no
fairness; `shape_due_worker` uses `PromptSpec`, in which the callback takes no time, so
that the cause is not a slow callback.

## 4. What is proved

For all values of the constants that satisfy the `ASSUME`s. The type invariants and the
inductive invariants (`TypeOK`, `IndInv` of each module) are theorems and therefore not
among the properties of the runs; TLC can check them with the same configurations.

* `ShapeProofs`: `TypeCorrect`, `LimitHolds`, `CounterIsExact`, `PendingIsCleared`,
  `FlowsAreExact`, `SpacingHolds`, `StampsAreMonotone`, `ShapeRefinesGate`,
  `StatisticsAreRight`, from `Invariance`.
* `CooldownProofs`: `TypeCorrect`, `DropsAreBounded`, `CooldownHolds`,
  `CooldownRefinesGate`, `StatisticsAddUp`, from `Invariance`.
* `AlgorithmProofs`: `DurationsInRange`, `SamplingIsUnbiased`, `SamplingEndsSoon`,
  `RangeIsDrawn`, from `Invariance`.
* `SplitProofs`: `NoSegmentCutTwice`, `PartsStayTogether`, `StoredKeysHaveReason`,
  `PassesAreSpaced`, `PassedSegmentsStayWhole`, `SplitRefinesGate`, from `Invariance`.
* `RawSenderProofs`: `SocketIsOpen`, `SenderIsAtomic`, from `Invariance`.
* `SegmentProofs`: `TypeCorrect`, `SlicesInBounds`, `SplitKeepsStream`,
  `PartsAreParsed`, `FakesAreParsed`; about `Checksum`: `ChecksumsVerify`,
  `FakesAreRefused`.
* `LifecycleProofs`: `OptionsSuffice`, from `Invariance`.
* `IngressProofs`: the lemmas on deliveries, counters and verdicts the SYN policies use.

*Shape.* The limit is not inductive: between the test of `pendingDelays` and the
addition the callback has promised itself a place. `LimitKept` counts that
reservation; only the callback adds, the workers only subtract, so the test stays
valid. `PendingCountExact` ties the counter to the set of live workers, which contains
the held packets. `FlowsMatchWorkers` needs that the flow of the packet in hand is not
pending once it has passed the test (`Progress`). Spacing behind an accept needs that
the pacer never forgets it (`AcceptRemembered`) and that what is on its way behind it,
in the callback's hand or asleep, will come out late enough (`BehindAccept`); for that
the stamps must not lie ahead of the clock (`StampsPast`). An accept is stamped with the
`now` of `main.go:875` and answered later (`main.go:934`); the property is about the
times of the verdicts, and `Lateness` of the first is what the code can lose of the
interval. The refinement maps `held`
to the packets whose worker has not given the verdict, and needs `OpenPackets`: the
packets without a verdict are the one in hand and the held ones. `StatisticsAreRight`
is about cardinalities: `Counted` ties each counter to a finite set of packets, and each
step that counts moves exactly one packet into one of these sets (`OneAnswered`) or none
(`NoneAnswered`). `Shaped`, proved first, says how the fate of a packet shows in its
worker's state and its time of release, so that the sets can be told apart.

*Cooldown.* `CooldownRecorded` says that an entry tells when the cooldown ends and
that, without an entry, it is over; it survives the cleanup because a stale entry has
`LastSeen` before `clock - CleanupAfter`, and no cooldown is longer than `CleanupAfter`
(the precondition of `CooldownKept`; without it the cooldown is indeed cut short).
`DropsCounted` says that `DropCount` equals the drops in a row, plus the one being
decided, and that only an address without an entry can be one over the limit: its entry was removed
between `Decide` and `IncDrop`, and its next packet is accepted.
`StatisticsAddUp` rests on `CountedOnce`: accepted and dropped are the matching packets
but for the one in hand that has not been counted yet.

*Algorithm.* The invariant says that the algorithm passed `NewAlgorithm` and what the
sampler was asked for; the lemmas `RandomExact` and `JitterExact` show that no sum,
difference or conversion wraps. For the sampler, `ThresholdFacts` writes the 2^w random
values as `s * k + T`, `s` the size of the range and `T` the threshold below which a
value is refused. Then `T < s <= s * k`, so fewer than half are refused, and adding `r`
is a bijection from the values accepted for 0 to those accepted for `r` (`SameCount`).
`RangeIsDrawn` needs that the offset is added without wrapping, for every raw value.

*Split.* That no segment is cut twice is a race the code wins narrowly: the cleanup
loop deletes a key some time after it found it old, and a key stored anew meanwhile
would be lost. `CutsRemembered` says why it is not: the key in the loop's hand is still
in the map, the callback stores a key of its own only after it has found it missing
(`CutState`), and so all cuts of that key are old ones. The argument fails for the key
of a *second* part, which is stored without a look-up: that is the finding
`SecondRemembered`. Segments that are stored and then refused by the splitter or the
fake have to be told apart (`Cuttable`), since giving up deletes their key. Segments
that passed (`PassedRemembered`) are remembered by the same argument, with two keys in
hand: the callback's, found missing, and the cleanup loop's, found old. The proof also
showed where it fails: the key of a refused segment can be deleted while the loop still
has it in hand, be stored again for a pass and then be deleted by the loop, so that the
retransmission is taken for a new segment until it is refused, too. It is never cut in
two, and `PassedStaysWhole` speaks of segments that can be cut. For the
windows, `PassesRemembered` says that `lastPass` is the last pass of the client, or the
window of every pass is over; `now` may lie behind the clock but not before an earlier
pass (`StampsPast`). `Progress` says where each packet is, from which
`PartsBelongTogether` and the refinement follow. `KeysHaveReason` is kept by every step
(`KeysStep`): a key that is stored belongs to a packet that was cut or is being cut, to
one that passed because of the window, or to a second part that is sent or about to be.
It holds with failures too, which the two properties about the ttl leave out, and it is
what a branch that forgets to undo its store would break.

*RawSender.* `MutexHeld`: whoever is between two system calls holds the mutex, the
socket is open then, and before `sendto` the socket's mark is the caller's; `s.fd` is
the socket's state except between closing and setting it. Under the refinement the
packet leaves at `Sendto`, everything else is a stutter or a failed send.

*Segment.* Nothing inductive: each stage follows from the packet in one or two steps.
The work is in the arithmetic: bounds of each slice from the checks before it, and
sums of sequence numbers under `%` (`SplitKeepsStream`).

*Checksum.* The recursion is over data, and the library's induction theorems cannot be
used. What can be used is that every set of numbers has a least element (`LeastNumber`,
from `WFMin`, which has sets for parameters): an induction is a proof that the set of
counterexamples has none. Both recursive functions need a proof that they exist at all:
`SumsExist` extends the running sums by one number at a time, `FoldExists` writes the
result of the folding loop down as a remainder. `SumIsTotal` shows that the words add up
to the bytes by their place, the odd last byte included; `FoldFacts` that the loop
changes the sum by a multiple of `Word - 1`, to a number below `Word` that is zero only
for zero. The rest is arithmetic modulo `Word - 1`.

*Lifecycle.* `Established` carries what each step of the start made sure of to the
later ones.

## 5. Only model-checked

Liveness (`EveryPacketAnswered`, `PacersReclaimed`, `ClientsReclaimed`, `MapsReclaimed`,
`SecondFollows`, `CallsReturn`) needs fairness, which TLAPS does not
handle. Every other property of a passing run is stated by a theorem.

## 6. Where documentation and code part

Shown by a run of its own:

* `ReleaseSpacing`: two packets of one address can leave together, when one arrives
  while a worker is due (`main.go:911`); `main.go:86` promises a minimum interval.
  `SpacingBehindAccept` is what does hold, on one pacer.
* `SecondRemembered`: the cleanup can delete the key of a second part that was stored
  after the old one was found stale; the second part's retransmission is then cut
  (`main.go:1351` against `main.go:93`). `NoSecondCut` is what does hold.
* `DropsShown`: the statistics line of the shape action says `dropped=0` whatever was
  dropped, because its drops are counted in `DelayOverflowDropped` (`main.go:1441`); the
  sample line at `README.md:348` shows `dropped=3`. `CountersAgree` is what does hold, of
  the counters.
* `DropsWithinLimit`: one drop too many in a row when the cleanup takes the entry between
  `Decide` and `IncDrop` (`state.go:112`); `main.go:83` and `README.md:284` promise an
  accept after N. `DropsBounded` is what does hold: N while the address has an entry.

Met while modelling; the property that holds states the exact limit:

* The cleanup can delete a pacer that is in use again (`main.go:1391`), and the next
  packet gets a fresh one: `SpacingBehindAccept` is about one pacer.
* An accept is stamped with a time read before the pacer's mutex is taken
  (`main.go:875`): a slow callback makes the next interval shorter by what it took, the
  `Lateness` of `SpacingBehindAccept`.
* Dropped packets do not refresh `LastSeen` (`state.go:86`), so an address that keeps
  sending can be forgotten as inactive: `CooldownKept` needs a `--cleanup-after` no
  shorter than the cooldown.
* Nothing compares `--split-seen-ttl` with `--pass-window` (`main.go:698`):
  `PassedStaysWhole` needs the former to be no shorter.
* A fake whose valid checksum is zero carries the other zero of one's complement and
  verifies (`main.go:571`): the exception of `FakeRefusedUnlessZero`.
* Packets held back when the process is told to stop get no verdict (`main.go:1140`,
  `Lifecycle.Exit`); without `--max-pending-delays`, the default, nothing bounds them.
* `--stats-every` and `--cleanup-every` are not checked, and `time.NewTicker` panics for
  one that is not positive (`main.go:1410`, `Lifecycle.StartTicker`).
* A verdict whose write fails is counted as given and never tried again
  (`main.go:1068`): the models count it as an answer, `Lost`.
* A queue number above 65535 is cut to 16 bits and printed uncut (`main.go:600`,
  `Lifecycle.OpenQueue`).
* `nfqcooldown.default:2` ships `ACTION=reject`, which `parseConfig` refuses
  (`main.go:134`, `Lifecycle.NamesValid`).

## 7. Not modelled, and what is left

Left out for good: the texts of log lines and of the usage message; the syntax of
flags, durations and addresses (packages `flag`, `time` and `net`), of which only the
outcome matters here; the seed and the random filler of the fake; a SYN flag on a packet
with payload, which both parts keep; the installer, service and workflow files.
`State.MarkDelayedAccept`, `Counters.IncRejected` and `GetDelayOverflowDropped` have no
caller. What happens to packets of a queue nobody listens to any more is the kernel's.

Of the plan nothing is left but proofs of the liveness properties, which stay with TLC.
