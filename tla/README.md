# sign-tx: a verification project in TLA+

`sign-tx` (Rust, `src/src/*.rs`) signs Solana transfer transactions with a key
that lives in a Cosmian KMS and is reached through a PKCS#11 v3 module. It has
two subcommands: `single` signs one transaction, `benchmark` measures every
step of many signatures. Around it there are a benchmark script (`bench.sh`)
and a container set-up (`docker/`).

This directory holds the model of the program, the instances TLC checks and the
theorems TLAPS proves. Paths below are relative to the repository's root.

## 1. Inventory

| Component | State it keeps | Operations | Talks to |
|---|---|---|---|
| `src/main.rs` | the parsed command line | parse, validate, load the module, dispatch | run.rs, pkcs11.rs |
| `src/run.rs` | `interrupted` flag, `messages`, one `signature` buffer, `warmup_index`, samples | `run_single`, `run_benchmark`, `sign_once`, `report`, `write_samples` | signer.rs, stats.rs, solana.rs, chart.rs; signal-hook's handlers set the flag |
| `src/signer.rs` | session, key handles, `owns_key`, verifying key | `connect`, `resolve_public_key`, `self_test`, `verify`, `cleanup`/`drop` | the PKCS#11 wrappers |
| `src/pkcs11.rs` | shared object and its `initialized` bit, session handle | load/finalize, slots, open/close, login, generate, find, attribute, sign, destroy; parsing of EC points and SubjectPublicKeyInfo | the module (FFI) |
| token and KMS (external) | key objects, the active signing operation of a session | the C_* functions | |
| `src/stats.rs` | sample vectors | percentile, summary, clock overhead | |
| `src/solana.rs` | none | message and wire encoding, compact-u16, base58 | |
| `src/chart.rs` | none | bar, histogram, timeline as SVG | |
| `bench.sh` | KMS process, `KMS_PID`, temporary directory, results directory | start, wait, provision, trials, median, copies, report, trap | sign-tx, ckms, the KMS server |
| `docker/provision.sh` | the key in the KMS, exported public key, json fallback | wait, create or reuse, export, exec | ckms, sign-tx, other containers by the KMS and the mounted directory |

What is hard in this code is not its concurrency (one thread, one session) but
its resources and their order. A key pair is created in a remote store and has
to be destroyed there on every way out: normal exit, error at any of some
twenty calls, panic, signal. A signal may come between any two steps, and means
something else before and after the handlers are registered. The module on the
other side is not trusted: it may ignore a search template, answer `CKR_OK`
without writing a signature, or report a length beyond the buffer. Two signing
protocols (the message flow of PKCS#11 v3 for Ed25519, `C_SignInit`/`C_Sign`
for P-256) share one code path. And the benchmark's promise, each sample a
fresh signature, none retried or skipped, rests on index arithmetic over a
warmup that is bounded by count *and* time.

The scripts are the other hard part. They start processes, may be interrupted
at every command, share a port, a KMS and a results directory with others and
with their own earlier invocations, and say in a report what they believe they
did. What is left is arithmetic at its edges: percentiles of few samples,
rounding in a histogram, chunks of a timeline, lengths in seven-bit pieces.

What makes each component correct:

- **Signer**: destroys what it generated and nothing else; once connected,
  private and public key belong together.
- **PKCS#11 wrappers**: calls in the order the standard asks for, one operation
  at a time, close before finalize; parsed keys are the keys encoded.
- **run.rs**: only genuine signatures of fresh messages become samples; a
  published run is complete or was interrupted; every run ends, an interrupted
  one soon.
- **stats.rs, chart.rs, solana.rs**: the figures, the picture and the bytes are
  what their definitions say at the boundaries.
- **bench.sh**: the KMS and the temporary files are gone afterwards, each
  invocation talks to its own server, and the report says only what was
  measured.
- **provision.sh**: sign-tx gets the public half of its own key, and a restart
  or a lost race is no error.

`PROJECT.json` lists the hazards at their lines, with the properties that
would catch each of them going wrong.

## 2. Modules

    Pkcs11  <--  Signer  <--  SignTx  <--  SignTxInv  <--  SignTxProofs (TLAPS)
                                |              ^
              KeyCustody, Measurement          +--  MCSignTx (TLC)
              (abstract specifications, instantiated by SignTx)

- **`Pkcs11`** models the wrappers of `src/pkcs11.rs` together with the token
  behind them. Variables: `module` and `session` (life cycle of the shared
  object and the session), `operation` (the signing operation active in the
  session), `store` (the key objects of the token). Each wrapper is an operator
  that takes the outcome as its last argument; the callers conjoin it with
  their own step. The token is external, and adverse where the code has to
  cope: `MayFail` names the calls that may fail, `SignFaults` the ways a signing
  call may answer `CKR_OK` and yet misbehave, `LaxSearch` a search that ignores
  `CKA_ID`.
- **`Signer`** models `src/signer.rs`: `connect` with its early returns, the
  self-test, `cleanup` and the three `drop`s, one action per call to the token.
  `pc` names the next call. An error continues at `cleanup` once a Signer
  exists, at `close` while `connect` has only a session, at `finalize` before
  that; this is the unwinding of the Rust values.
  `signed` and `abandoned` are history variables: the messages submitted to
  the token, and the generated objects the program gave up (a creation whose
  reply was lost, a pair given up before a Signer exists, a refused destroy).
- **`SignTx`** composes both with `src/main.rs` and `src/run.rs`, and with the
  environment: signals (`Signal`) and the clock of the warmup (`Tick`). The
  messages are numbered as `run_benchmark` pre-generates them; a signature is
  the pair that made it and the message it is over. `sign_once` is shared by
  `run_single`, the warmup and the measurement; `caller` says who called it.
- **`KeyCustody`** states what a run promises about key objects:
  it adds at most one pair, takes away only objects it added, and exits with
  none left but those it was refused. **`Measurement`** states what it promises
  about its samples: each is the first signing of its message, recorded once
  and in order, and a run in which signing failed publishes nothing. Neither mentions
  program counters, sessions or buffers. `SignTx` instantiates both with a
  refinement mapping.
- **`SignTxInv`** is the inductive invariant `IInv` and a variant, **`SignTxProofs`**
  holds the theorems, **`MCSignTx`** the instances for TLC.

Two steps of `Signer` are modelled call by call in modules of their own, because
what can go wrong in them lies between the calls:

    Slots  <--  SlotsProofs (TLAPS)        EcPoint  <--  PublicKey
      ^  \                                                  ^
      |   SlotChoice (abstract)                             |
    MCSlots (TLC)                                      MCPublicKey (TLC)

- **`Slots`** is `resolve_slot` on `Module::slots`: one call counts the slots,
  the next lists them into a vector of that length, and tokens come and go
  (`Change`). **`SlotChoice`** is the abstract specification: one look at all
  slots, then one choice or a refusal. (`Signer!ResolveSlot` is that step.)
- **`EcPoint`** has the four parsers of `src/pkcs11.rs` on real bytes, and the
  encodings of a key. **`PublicKey`** is `resolve_public_key` and
  `Session::attribute` around them: the parser of `--public-key`, or else the
  length of `CKA_EC_POINT`, its value, and its parser, while the object changes.
  (`Signer!ResolvePublicKey` is the one step that either has the key of the
  pair encoded there or fails. A key that belongs to no pair, which `PublicKey`
  shows an answer without value or a file of the other curve may lead to, is a
  failure there: it cannot pass the self-test.)

The bytes, the figures and the picture:

    ShortVec  <--+                    Stats  <--  Histogram  <--+
      ^          +-- Transfer                                   +-- Chart
    Counts    <--+      ^             Timeline  <---------------+     ^
                    MCTransfer                                     MCChart
    Timing  <--  MCTiming

- **`Transfer`** has `message_bytes`, `to_wire`, `account_bytes`, the block hashes
  of `run_benchmark` and the length checks of the arguments, on sequences of
  bytes, for both subcommands. `Read` and `List` are Solana's reader, written from the
  wire format and not from the writer. It extends **`ShortVec`**, which is
  `push_compact_u16` one byte a step (`Encode` is the function it computes), and
  **`Counts`**, the arithmetic of `run_benchmark` on machine words: `warmup +
  iterations` wraps in a release build and panics in a debug build, and so both
  may happen; allocations may fail.
- **`Timing`** is the benchmark seen by its clock: the four readings of
  `sign_once`, what `run_benchmark` pushes where, the shares in `report` and in
  `composition_bar`, and `write_samples` row by row. Any call may fail, an
  interrupt may come, and the clock may stand still between two readings. A
  quotient 0 / 0 is `NaN`, as the division of the code is.
  `SignTx` says which messages are signed; `Timing` says what is kept of it.
- **`Chart`** is `render` and `panel`: which panels there are and what
  part of the height each block takes: the title, the bar, and of every panel its
  label, histogram and timeline, with all they draw. A label whose place depends on
  the samples (p50 of a timeline) counts where it is highest. It extends **`Histogram`**, the
  buckets, counted one sample a step, and the markers (a value half way
  between two buckets may go to either, as the division of the code is
  inexact); that extends **`Stats`**, which is `Samples` and its `Summary`, with a
  quantile as a fraction. **`Timeline`** draws one point or column a step.

The scripts:

- **`BenchSh`** is `bench.sh`, a command a step, with `set -e`, the EXIT trap,
  signals, a port that somebody else may have, the server (which comes up, fails to bind, crashes, or ends when it is
  told to), and an invocation after the other over the same results directory.
  A file is represented by who wrote it, `<<invocation, trial>>`. A trial is a run
  of sign-tx with an outcome that `SignTx!PublishedRunIsComplete` allows: all
  samples, or some if it was interrupted, or an error. `Interrupt` is a
  signal to the script, at any command. Before the clean-up it starts the clean-up, if the
  trap is set; during the clean-up it ends it, as bash does not run an EXIT trap
  twice. Two histories tell what signals did: `cut`, the command at which the
  clean-up of this invocation was cut short, and `negligent`, the invocations kept
  from storing the pid of their server or from waiting for its end.
- **`Provision`** is `provision.sh` in several containers with one KMS, which may
  hold keys of earlier runs; any command may fail, or none (`mayFail`). A
  container may be killed and started again at any command; work directories
  survive that, and may be shared. `Formats`, `Installed` and `WorkDir` are what
  the KMS, `Dockerfile.bench` and `docker-compose.yml` give the script.

Every configuration (command line and environment) a run of `SignTx` may have is one of
`Configs`; `Init` picks one and it never changes. One behaviour is one run of
the program.

### Properties

| Property | Kind | Says |
|---|---|---|
| `IInv` | invariant | the inductive invariant of `SignTx` (section 4), every variable in its range included |
| `CallerKeysSurvive` | invariant | objects the run did not create are never removed |
| `SignerAgrees` | invariant | after `connect`, private key and verifying key belong together |
| `OperationDiscipline` | invariant | signing calls find the right operation active, none is started over another |
| `TornDown` | invariant | every exit but a kill closed the session, then finalized the module, and only what was opened |
| `GeneratedKeyAccounted` | invariant | a generated object left at exit is one the program lost or was refused |
| `FreshPayload` | invariant | a measured iteration signs an unseen message into a buffer that does not hold its signature |
| `PublishedRunIsComplete` | invariant | samples are the measured messages in order; a published benchmark has all or was interrupted |
| `OutputIsGenuine` | action | only a genuine signature of the iteration's own message is kept |
| `KeepsCustody`, `KeepsMeasurement` | refinement | the run implements the two abstract specifications |
| `Termination`, `InterruptEndsRun` | liveness | every run ends; an interrupted one without the clock |
| `ChoosesAtomically` (`Slots`) | refinement | two calls and a choice are as good as one look |
| `KeyServed` (`PublicKey`) | invariant | a resolved key is the one encoded, never a mixture of two answers |
| `PhasesAddUp`, `SharesAreShares`, `FileHoldsRun` (`Timing`) | invariants | no time is counted twice; the share of signing is a share of a positive time, within the wall clock's, or NaN if no iteration took time, and the bar is drawn of positive times only; the output file holds the measured iterations, in order, and an old one is not touched before there is a report |
| `NothingWrapped` (`Counts`) | invariant | a wrapped sum never becomes a short benchmark |
| `CompactU16` (`ShortVec`: `Encodes`, `ReadsBack`, `Minimal`) | invariant | what is written is what messages use, read back, and as short as possible |
| `PayloadsDiffer`, `MessagesAreTransfers`, `WireIsSignedMessage` (`Transfer`) | invariants | payloads are unique; each is one transfer to Solana's reader, with no byte left over; the wire form carries the message signed |
| `NearestRank` (`Histogram`) | invariant | each percentile is the smallest sample that covers its share |
| `MarkersStandOnBars`, `EverySampleCounted`, `OnlyTheTailIsBeyond` (`Histogram`) | invariants | markers and bars share an axis; no sample is dropped; only a thousandth is beyond |
| `InsidePlot` (`Timeline`), `BlocksApart` (`Chart`) | invariants | no column beyond the plot, no empty chunk; title, bar, labels, histograms and timelines have a part of the height each, within the canvas |
| `NothingLeftBehind`, `OneServer`, `ReportNeverAhead`, `PublishesOneTrial`, `RepresentativeIsMedian` (`BenchSh`) | invariants | nothing is left unless a signal cuts the clean-up short; no server of an earlier invocation but of a `negligent` one; report no newer than its data; one trial published; it is a median |
| `Ends` (`BenchSh`), `EveryContainerEnds`, `EveryContainerMeasures` (`Provision`) | liveness | scripts end, whether or not a server answers; all containers measure if it does |
| `ExecsWithItsKey` (`Provision`) | invariant | sign-tx is run with the right public key, whatever an earlier start left |
| `FormsRecognised`, `OtherCurveRefused` (`PublicKey`) | invariants | every form the parsers are for is recognised; a key of the other curve is not, unless its bytes contain the very mark |

## 3. Runs

Every run ends within two minutes on two workers, most of them in seconds.

| Run | States | Instance | Shows |
|---|---|---|---|
| `sign_tx` | 129,000 | both subcommands, both curves, generated or existing key, with and without PIN, no/right/wrong/broken `--public-key`, two caller pairs, 0 or 1 iterations; with one existing key warmup 0..3, warmup time 0..2, 1..3 iterations; a generated key through both loops; every call may fail, every signing fault, a lax search, both signals | custody of keys, agreement, tear-down, the loops, `IInv`, both refinements, and that a run ends |
| `leak`, `kill`, `payloads` | | the plainest case of each finding | section 5 |
| `parse` | 28,000 | both curves, file or token, all forms, keys with the marks and wrappers of the parsers among their bytes; one change between the calls | the key resolved is the key encoded |
| `forms` | | a plain key in each form | section 5 |
| `slots` | 2,400 | three slots, one of them 0, three changes | the choice is atomic |
| `bytes` | 272,000 | all 65536 lengths, any byte behind them; arguments of 31 to 33 bytes, keys of 32 and 65, signatures of 64 to 72, amounts at byte boundaries, nonces that may all be equal; all counts of a two-bit word | compact-u16, messages, wire form, and that a wrapped sum is found out |
| `figures` | 3,008,000 | both curves and formats, two iterations, warmup by count and time, every failure, an interrupt anywhere, ticks of 0 or 1 | times, shares and output file |
| `chart` | 330,000 | both curves; all sequences of up to five samples of five values, and a run of up to 1003 samples with one outlier, drawn at every length up to 12 and around 60, 100 and 1000; five buckets, 60 points, 16 columns | percentiles, bars and markers, no column outside the plot, blocks apart |
| `bench` | 1,053,000 | two invocations of up to three trials of two times, every command failing, a signal to sign-tx or to the script at any command of it and of its clean-up, a server that crashes, a port that is free or taken | clean-up, servers, the median, files, end |
| `containers` | 480,000 | three containers, two with one key, two with one directory, keys of earlier runs, one restart, every command failing or none | the key used; every container ends, and measures if it can |

Bounds. `MaxWarmup` caps the iterations a warmup *time* leads to; at the cap
only the clock moves. It is above the number of warmup messages, so that
messages are reused. Three iterations let a fault hit the
first, an inner and the last one, and let an interrupt fall between two;
warmup counts on both sides of the single message reserved for a timed warmup
cover both arms of `max`. Two caller pairs are what a search or a
`--public-key` can confuse. Nothing in the program depends on larger numbers
otherwise, and the theorems hold for all of them.

The keys of `parse` have the real lengths. A parser looks at lengths, prefixes
and marks only, so the keys that matter are those that contain a mark at the
beginning, inside or at the end, begin like a wrapper, or are all zero. One
change suffices: there is one gap between two calls. In `slots` there are three
steps and three changes; slot 0 matters because the vector is zeroed.

Two invocations of `bench.sh` are what stale files and stale servers need: one
leaves them, one meets them. Up to three trials have even numbers and ties.
`MaxTries` is 1 instead of 30 or 60: a loop that is entered, repeated and left
shows what a longer one does. One restart may hit any command of any container,
and three containers are two that race for a key and one that shares a
directory with one of them. A word of two bits has every case of a longer one:
sums that wrap to nothing and to less than either count, and buffers on both sides
of their limit. In `chart` the long sequence is one fixed one, as only its length
matters; the short ones are all orders and ties. Buckets, points and columns
are fewer than the 48, 1500 and 480 of the code, and the lengths are on both sides of
every change they make; `ChartProofs` has the real ones. The seven and
fourteen bit boundaries and the heights of the layout are real.

`CHECK_DEADLOCK` is left on: an ended run stutters by `Terminated`, so a
deadlock would be a program that is stuck.

Fairness. `Spec` assumes weak fairness of `Step`, the program's own next step:
one thread runs without blocking but in calls to the module, and the assumption
is that these return. `Termination` also assumes that time passes (`WF_vars(Tick)` is
its hypothesis); `InterruptEndsRun` does not. Signals are never fair. In `BenchSh` the script's next command is weakly fair, and
so is a server that was told to terminate: `cleanup` waits for it, and the script
ends only if it does. Nothing makes a server come up. In `Provision` each container's
next command is weakly fair; the KMS need never answer, and nobody need restart.
`EveryContainerMeasures` has as its hypotheses that the KMS answers, no command fails,
the key id stands for one curve and the container is alone in its directory; it
holds from any restart on because restarts are bounded.
The other modules state no liveness.

## 4. Proofs

`SignTxProofs` proves, for every value of the constants, that each safety
property of `SignTx` in section 2 and both its refinements hold of `Spec`. The assumptions are those
of the modules: the generated pair is a new one and the null values are none of
the others (`PairAssumption`), configurations are well-formed
(`ConfigAssumption`), and `MaxWarmup` is no less than any warmup count
(`RunAssumption`). Nothing is assumed about which calls fail, how the token
misbehaves or how long the loops are.

The properties are not inductive: that `TornDown` holds at `done` depends on
the session at `close`, that a caller's key survives `destroy_private` depends
on `owns_key` implying that `keys` is the generated pair, and that a measured
message is fresh depends on what the self-test and the warmup have signed.
`IInv` is the conjunction of:

- `SessionInv`: module and session as a function of the program counter;
- `KeyInv`: which handles `keys` may hold where, and that an owned pair is the
  new one;
- `CustodyInv`: what of the new pair is in the store or abandoned, where;
- `OperationInv`: the active signing operation, where;
- `BufferInv`: what the signature buffer can hold;
- `ModeInv`: which subcommand may be where, and who is in `sign_once`;
- `MessageInv`: the bounds on `index`, and that the messages signed so far are
  the probe and those below the position of the loop;
- `OutputInv`: samples, published and result;
- `ProgressInv`: a handler is registered only where the program looks at the flag
  or is about to end, and the warmup stays in its bound.

Each action preserves each conjunct it can disturb, by a lemma; `Invariance` is
`Spec => []IInv`, and the properties follow from it. The two refinements map
every step to a step of the abstract specification or a stutter, given `IInv`
before and after the step.

`SlotsProofs` proves the same of `Slots`, for any slots and any number of
changes: `Inv` (what is chosen from is all of the last answer) is inductive,
`ChoiceIsSound` (the slot chosen had a token when the slots were listed, and is the one
asked for or was the only one) follows, and the listing call is the point at which the
mapping to `SlotChoice` makes the choice.

Six more modules have theorems, for every value of their constants. Each
begins with an inductive invariant, which the properties need because they
speak of the end of a behaviour and depend on what happened on the way:

- **`PublicKeyProofs`**: the buffer that is parsed has all of one answer of the
  token (`Brought`). What is left is a statement about bytes, for every
  key of the right length: where can the mark a parser looks for be in
  an encoding? In its head, at places that follow from the lengths, or in the
  key. A search takes the first place; in an encoding of the curve looked for the
  head has the mark, and so what the bytes of the key are does not matter. `KeyServed`,
  `FormsRecognised` and `OtherCurveRefused` follow by form and curve; the
  proviso of the last is the mark inside a key, and is needed.
- **`TransferProofs`**: the codec's loop (how far it is says which bytes it has
  written and what is left) gives `Encodes`, `Minimal` and `ReadsBack`, together
  `CompactU16`. `NothingWrapped` holds for every word size: what finds a
  wrapped sum is not a check of it but the two buffers of samples, each with a
  capacity check of its own, and two counts that pass it are together below a
  word. Every run of `Transfer` is one of `ShortVec` and one of `Counts`
  (`LengthsAreWritten`, `MessagesAreCounted`: refinements), so both hold of it. `IInv` there
  says that message i has the hash of index i; eight bytes in little endian determine the
  index as long as a `usize` has at most 64 bits (`WordAssumption`), so
  `PayloadsDiffer` holds even if every nonce is the same. `MessagesAreTransfers` and
  `WireIsSignedMessage` follow by laying the writer's bytes beside
  the reader's positions.
- **`ChartProofs`**: `Laid` and `Stacked` (each step draws below what is drawn
  and leaves the rest of the height to the steps that are left) give
  `BlocksApart`. `Sampled` and `Tallied` (the samples counted so far are
  in the bars or beyond) give `EverySampleCounted`, `OnlyTheTailIsBeyond` and
  `MarkersStandOnBars`. `NearestRank` rests on counting alone: no two samples have
  as many up to them (`UpTo`), so each rank has exactly one. `Lined`
  (as long as iterations are left, every chunk so far was a full
  one, and `COLUMNS` full chunks are at least all iterations) gives `InsidePlot`.
- **`ProvisionProofs`**: a container past the export relies on a key that is in
  the KMS and, alone in its directory, on a file with its own key
  (`Relies`). Keys stay, and nobody else writes the file
  (`OthersUndisturbed`).
- **`BenchShProofs`**: `Trapped` (the trap is set before there is a server),
  `Accounted` (a server that outlives its invocation is one of a `negligent` one;
  a later one was not started yet) and `Copied` (what has been written by where the script
  is). `NothingLeftBehind`, `OneServer`, `ReportNeverAhead`,
  `PublishesOneTrial` follow, for any number of invocations, trials and tries and
  any failures. `RepresentativeIsMedian` follows from `Selected` (the trial was
  the middle line of a complete table): the trials before it are no slower, all
  others no faster. `NeverWithoutMiddle` is the converse hazard: positions are
  an injection of the trials into the lines, hence onto them, and the
  table always has its middle line.
- **`TimingProofs`**: `Clocked` (no reading is ahead of the clock), `Sampled` (the
  samples are the times of the iterations in `ran`, phase by phase), `Reported` and
  `Filed` (what the file holds while it is written). `PhasesAddUp` and
  `FileHoldsRun` follow for any counts and any clock that does not run backwards.
  `SharesAreShares` needs a second invariant, `Fitting`: the sums over all
  iterations are divided among the phases as each iteration is (`Divided`), they end
  before the iteration under way began (`Fits`), and what was printed are quotients of
  these sums (`Printed`). A sum is 0 only if each of its samples is (`SumZero`), so the
  report prints NaN exactly for iterations that took no time.

**Half of liveness.** That a program ends takes two things: its commands end, which
is the fairness of section 3, and there are only so many of them, which is proved. A
variant says how much is ahead (`Ahead`, a number): each step of the program
makes it less and no other step makes it more.

- `RunIsFinite` (`SignTx`): at most 24 steps and five for each iteration of the
  measurement and, up to `MaxWarmup`, of the warmup, whatever the token answers with
  and whichever calls fail, so nothing in the code tries again. (That the warmup's
  clock reaches `warmup_time` is the part of `Termination` that stays an assumption:
  `MaxWarmup` stands for it.)
- `InterruptIsPrompt` (`SignTx`): once the flag is set at most twelve steps are left,
  however many iterations were asked for and however long the warmup is: the rest of
  the iteration under way, one loop head, report, files and clean-up.
- `InvocationIsFinite` (`BenchSh`): at most `MaxTries` and two for each trial more
  than its 18 commands; neither a server nor an interrupt sets it back.
- `ContainerIsFinite` (`Provision`): `MaxTries` and seven commands, unless it is started
  again, whatever the KMS and the others do. `NoContainerFails`: once the KMS answers,
  a container that can rely on its directory and its curve does not fail, if
  no command does and ckms has one of the formats. Together with fairness they are
  `EveryContainerMeasures`. They need that nobody takes a key back (`Relies`), and that
  a create that is refused was refused for the key that is there (`Calm`).

Two definitions are written for these proofs. A sum over a sequence is a
recursive function (`Sum`, `InBars`), whose equations follow from induction on
the *set* of lengths for which they have a solution (`SetInduction`,
from the well-foundedness of the numbers); the induction theorems of the library take
an operator. And a sorted sample is the one with k samples up to it
(`Sorted`), not an element of a sorted sequence: what is said of it is counted,
not sorted.

Type correctness of these modules (`TypeOK`, `CodecTypeOK`, `CountsTypeOK`) is proved, too,
and not a run's property; TLC checks that of `SignTx` as a part of `IInv`, and the types of
`Chart` are parts of the invariants of `ChartProofs`.

The assumptions are those of the modules: numbers are numbers, nobody and
a foreign server are no invocation, a sample has a size, a plot has two columns, panels are
of the four phases, keys have the lengths of their curves and a P-256 point
begins with 4, a word has at most 64 bits.

Every safety property and every refinement a passing run checks is proved. Only
model-checked is liveness itself: `Termination`, `InterruptEndsRun`, `Ends`,
`EveryContainerEnds`, `EveryContainerMeasures`. Fairness and `ENABLED` are out of the
prover's reach: that a step follows from each state before the end, and that fairness
makes it happen, is TLC's part; that steps run out is proved. And of `Blockhash`, `Encode` and the parsers it is proved what the properties
say, not that they agree with a second definition of themselves.

## 5. Findings

- **`leak`**: `Signer::connect` returns early when `resolve_public_key` fails
  (`src/signer.rs:78`), after `generate_key` and before the `Signer` exists whose
  `drop` destroys the pair. The README's "destroys it on exit" does not hold
  of this exit. With a provider that cannot serve `CKA_EC_POINT` for Ed25519,
  as the comments of `signer.rs` describe, this is the ordinary outcome of a run
  without `--key-id` and `--public-key`.
- **`kill`**: handlers are installed by `run_benchmark` only, and after `connect`
  (`src/run.rs:235`). A signal to a single run, or to a benchmark in its setup,
  kills the process and leaves the pair: "including on SIGINT/SIGTERM" does not
  hold there.
- **`forms`**: `normalize_p256_point` (`src/pkcs11.rs:713`) knows the bare point
  and the OCTET STRING, not a SubjectPublicKeyInfo; README and code disagree
  for P-256.
- **`payloads`**: a warmup that is bounded by time signs its messages again
  (`src/run.rs:261`), so "making every payload unique" holds of the measured
  iterations only (`FreshPayload`).

Other places where the code does less than a reader may expect are not runs of
their own, but hypotheses of the properties that hold:

- Between starting the server (`bench.sh:144`) and storing its pid (`bench.sh:145`) a
  signal leaves it running, as the trap finds `KMS_PID` empty: `negligent` in `OneServer`.
- The comment on `cleanup` says it will "always stop the temporary server and
  discard its scratch dir, whether the script succeeds, fails, or is interrupted"
  (`bench.sh:104`). A signal while the EXIT trap runs ends bash with the trap under
  way: the directory stays, and the server is running still (a signal before `kill`) or
  told to stop and not waited for (during `wait`), so that the next invocation
  may find its port taken. `cut` in `NothingLeftBehind` and `negligent` in `OneServer`.
- The share of signing is divided by the sum of all totals with no check
  (`src/run.rs:453`), and reads NaN if the clock did not move in any iteration; the bar
  of the chart is checked (`src/chart.rs:77`). `SharesAreShares` says exactly when.
- Labels within a block may cover each other: p50 and p99 of a histogram have the same y
  (`src/chart.rs:260`), and p99 begins right of its line, so that it may run over the
  right edge where p99 is the end of the axis. `BlocksApart` is about the height of
  whole blocks.
- The wait loop (`bench.sh:149`) accepts any server on the port and does not look
  whether its own is alive: `Foreign` in `OneServer`.
- A trial that was interrupted exits with 0 and fewer samples, and the report
  gives `${ITERATIONS}` all the same (`bench.sh:398`): `PublishesOneTrial` promises
  samples, not how many. Trial files of an earlier invocation with more trials stay
  beside the new report (`bench.sh:239`).
- Any failure to create the key is reported as "key already exists"
  (`docker/provision.sh:56`), and the last way to export it needs `xxd`
  (`docker/provision.sh:81`), which `docker/Dockerfile.bench` does not install:
  `mayFail = {}` in `EveryContainerMeasures`.
- The CSV of an Ed25519 run has no `sign_init_ns` column (`src/run.rs:273`): `Columns` in
  `Timing`.
- Below 1000 samples p999 is the maximum, so that nothing is beyond the axis
  (`src/chart.rs:210`); and the columns of a timeline may end before its right edge
  (`src/chart.rs:345`), which `InsidePlot` allows.

## 6. Not modelled, and why

- **Hung calls** (`src/run.rs:236`): once the flag is registered, a call to the
  module that never returns cannot be interrupted. Every liveness property here
  assumes that calls return; without that they fail at once, and say no more
  about this code.
- **Figures as text**: `format_nanos`, the table's layout, header, labels, the
  awk programs that read them back, JSON of `single`. `BenchSh` starts from the p50
  as printed.
- **Floating point**: standard deviation, throughput and the clock overhead
  decide nothing. Percentile ranks are modelled exactly; `Stats` says up to which
  length the product of the code is.
- **SVG**: colours, texts and their widths, horizontal positions but those of bars,
  markers, points and columns, and how the labels of one block stand to each other. A
  label is taken to reach from its font-size above its baseline to four pixels below.
- **Half-written rows**: a row of the CSV is written or not; where a write fails
  (`src/run.rs:504`), the file may end in a part of one.
- **curl**: each try of the scripts' wait loops is taken to end; `curl` has no
  time limit there (`bench.sh:150`).
- **Libraries**: base58, hashing, signatures (one is taken to verify exactly under its own
  key and message), points on a curve.
- **Image build and recorded results**: no behaviour of their own.

What further work could add: a composition of `BenchSh` with `SignTx` in place of
the outcomes it takes from it.
