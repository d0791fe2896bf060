# TraceDelta: formal model

TLA+ modules, TLC configurations and TLAPS proofs for TraceDelta, a Go command line program that
compares two OpenTelemetry trace exports and reports how behaviour changed. A comparison is
modelled from the decoded input to the list of changes: the parser and the redaction, the trace
normalizer, the trace and span matchers, the semantic diff, and the composition of these. Around it,
so are the file protocol of the command line program, the CI scripts and the composite Action,
and the watchdog under which the repository is validated on Windows. The safety of the normalizer, of
the matchers, of the pipeline around them with its contract, of the file protocol with the CI jobs over it, and of the
watchdog is proved.

`PROJECT.json` lists the components, the runs, the mutants, the source lines behind every
definition, the hazards with the properties that cover them, and the theorems.

## Inventory

The program is a pipeline. `cmd/tracedelta` checks its flags and its output path and calls
`pkg/tracedelta.CompareFiles`, which reads both files, parses (`otlp`), redacts (`redact`) and
normalizes them (`normalize`), matches traces and spans (`match`), and derives the changes
(`diff`); a writer of `report` renders the result in memory, and `main.go` writes it out.
`scripts/ci-compare.sh` runs the program once per report format, and `scripts/run-action.sh` runs
that script and the program once more for the GitHub Action. Everything inside one process is
sequential Go code without goroutines; concurrency comes from several processes over one file
system, from the inputs, which other programs write, and from the processes that the Windows
validation starts and has to get rid of.

| component | state | operations | what is hard | what makes it correct |
|---|---|---|---|---|
| trace matcher (`match.go:84-385`) | unused traces per group, pairs, added, removed | grouping by root operations, exact pass, overlap rounds, leftovers, `AmbiguityError` | greedy rounds over shrinking sets, bests computed before pairs are taken, ties, an error after other groups are done | every trace used once; stable pairing; no guesses; refusal only on a tie; direction and group order irrelevant |
| span matcher (`match.go:492-768`) | used flags, parent pairs, pairs with evidence | parent-aware passes to a fixpoint, fallback pass, leftovers, `SpanAmbiguityError` | groups depend on pairs of earlier passes; moved parents; duplicate start ranks | every span used once; evidence is true; no operation both removed and added; siblings keep their order |
| trace normalizer (`normalize.go:91-314`) | nodes, relations, marks of a recursive walk | identifier index, dense ranks, parents, cycle check, subtree digests, preorder | cycles, shared parents, renaming of references, equal sort keys | rejects exactly the malformed; same trace under other names; same result for two exports |
| command line output (`main.go:93-242`) | output path, open file, exit code, shared file system | validate, compare, open with `O_EXCL` or `O_TRUNC`, write, close, remove | concurrent processes on one path, failure at each step, a check long before its use | inputs untouched; exit 0 or 1 means a report that stays; exit 2 leaves nothing; no foreign file changes without `--force` |
| CI scripts (`ci-compare.sh`, `run-action.sh`) | report directory, statuses | make directory, two or three runs, removal of partial reports, outputs | a run fails after others succeeded, jobs that share a directory, inputs that change, killed scripts | complete and consistent reports for 0 and 1, none for 2 |
| semantic diff (`diff.go`) | list of changes, counts | additions, removals, status, error type, duration | floating-point threshold, ties in the order | no increase below a threshold is reported, none that meets whole percents is missed; one order; counts that fit the list |
| snapshot normalization (`normalize.go:52-90`) | sorted traces, occurrence counters | bucket check, drop empty traces, sort by encoding, count occurrences | counters over the whole snapshot, after the sort | a change names one span |
| OTLP parser (`parser.go`) | decoded records, traces so far, identities seen, merged traces | decode and reject records, convert resources, scopes and spans, merge traces | a trace continues in later records, duplicates across records, 64-bit boundaries, anything wrong anywhere | the result is that of one document; exactly the faulty files are refused; durations are exact |
| redaction (`redact.go`) | policy | check of additional keys, recursive copy of values | denied keys at any depth | what is denied goes, all else stays |
| public API (`tracedelta.go`) | none of its own | composition of the above | which error wins; indexes and occurrences handed from stage to stage | each span accounted for once; equal behaviour gives no change |
| Windows validation watchdog (`windows-check-lib.ps1`, `windows-check-child.ps1`, `check.ps1`) | mutex, directory, Job Object, start gate, launcher, target and what it starts | take the mutex, run each command with a timeout, terminate, poll, drain, clean up | timeout races exit, gate races its timeout, abandoned mutex, processes that detach, death anywhere | nothing escapes the job or survives; claims of cleanup and success are true; one validation at a time; all ends |
| report writers, data model, examples, release scripts | none to speak of | formatting, types, build steps | - | not modelled: no state and no order of events |

## Modules

| module | models | state and actions |
|---|---|---|
| `SpanShape` | `spanShape`, `traceRoots`, `traceShape`, `structuralOverlap` | a shape is a bag of tokens (a span's key with its parent's key, or with root or external); `Overlap` counts common copies |
| `TraceVerdict` | the contract of `Traces` in its comment and in `docs/trace-matching.md` | one step from two snapshots to the only stable pairing, or to a refusal when there is none; a function of the snapshots |
| `TraceMatch` | `Traces`, `matchTraceGroup` | `left`, `right`: unused indexes of the current group; one action per group on one side, exact pass, overlap round, leftovers, refusal, return. Refines `TraceVerdict` by hiding everything until `Traces` returns |
| `TraceMatchMirror` | two calls of `Traces`, the second with the snapshots exchanged | composes two instances of `TraceMatch` |
| `SpanMatch` | `pairSpans`, `pairSpanGroup` for one pair of traces | a trace is the sequence of its normalized spans; one action per parent-aware pass, the fallback pass, leftovers, refusal |
| `Normalize` | `normalizeTrace` | the stages of the function in order; the recursive walk of `validateAcyclicParents` is a stack with one action per call, descent and return; the preorder is a strict order of spans (`Sooner`), a place in it the number of spans before |
| `NormalizeTwice` | two exports of one trace | composes two instances of `Normalize` over renamed identifiers, shifted clocks and any span order |
| `DigestOrder` | the order of subtree digests | an order by content, standing for the order of SHA-256 digests |
| `Binary64` | Go's `float64` | a number is an exponent and 53 binary digits; conversion, division with rounding, comparison |
| `AnyValue` | `convertAttributes`, `convertAnyValueAtDepth`; `policy` of `redact` | operators: which values are accepted, what they become, what is left of them after redaction |
| `Parser` | `Parse`, `convertDocuments`, `convert` and every check of a span | the records are decoded one by one; each is converted part by part (resource, scope, span) into `traces` and `seen`, and merged trace by trace into `snapshot` and `merged`; an action for each way to be refused |
| `Ingest` | `otlp.Parse`, then `redact.Snapshot` | extends `Parser` by the redaction of its snapshot: a step is one of `ParseNext`, or leaves the parser's variables alone. How `Parser` converts attributes is a constant operator; here it is that of `AnyValue` |
| `Pipeline` | `Compare` of `pkg/tracedelta`, `normalize.Snapshot`, `match.Spans` | composes instances of `TraceMatch`, `SpanMatch` and `Diff`, each on its own variables: what one returns is made into the input of the next; an action for each error |
| `Comparison` | what `Compare` of `pkg/tracedelta` promises its caller | one step from two documents and the options to an answer: a refusal by the first call that has a reason, or exactly the differences under a pairing that mistakes no span for another; a function of request and pairing, without matchers, stages or intermediate results. `Pipeline` refines it by hiding everything until `Compare` returns |
| `BoundedProcess` | `Invoke-TraceDeltaBoundedProcess`, `Stop-TraceDeltaProcessTree`, `windows-check-child.ps1` | per call: where the function and the launcher are, the gate, the job, and the processes in and outside the job; one action per system call and outcome of a wait |
| `WindowsCheck` | `check.ps1`, `Enter-TraceDeltaValidationMutex`, `Remove-TraceDeltaValidationDirectory` | validations over an instance of `BoundedProcess`: mutex, directory, `git ls-files`, commands in order, removal, release; a validation may die at any time |
| `Diff` | `diff.Compare` with its helpers, `parseDurationThreshold` | `changes`, `changedSpans`; one action for refused options, for added and removed spans, for each pair, and for the sort |
| `CompareCommand` | `validateOutputTarget`, `runCompare`, `writeReportOutput` | processes over a name space `entry` (path to file, so two paths may name one file) and contents `data`; one action per system call; failure and kill anywhere |
| `ReportJob` | `ci-compare.sh`, `run-action.sh` | jobs that run the processes of an instance of `CompareCommand`; one action per branch of the scripts; cancellation, a killed wrapper and inputs that change come from outside |
| `MC*` | - | small constants for TLC |
| `*_proofs` | - | theorems and proofs |

Abstractions. Encoded group keys, digests and attribute sets are values that can be compared, since
nothing but equality (and, for digests, some fixed order) is used. The order in which groups are
visited is left open. In `SpanMatch` a span's key stands for its `SpanKey` and safe attributes.
`SpanMatch` is one call of `pairSpans`, and `Pipeline` calls it for one pair of traces after the
other, in any order. `Pipeline` starts from normalized traces: that they are what `normalizeTrace`
makes of an input is what `Normalize` is about, and a trace that it would reject is `Malformed`
there. Encodings by which `Snapshot` sorts are any order of the traces that tells them apart, and
final lists are in the order of places instead of encodings, which differ for all spans.
In `Parser` a record is what `encoding/json` makes of it, or one of the ways in which it is
refused; identifiers, names and attributes are opaque but for what is asked of them. A number is
absent, an integer, the name of a constant, or something else; widths are constants, so that TLC
can try both sides of every boundary. The words that redaction looks for are a set of keys.
In `BoundedProcess` Windows is taken at its word: a process started by a member of a Job Object is
a member, and members of a job that is terminated, or whose last handle is closed, run no more code
and go one by one. The four kinds of processes are the launcher, its target, and processes the target starts that
keep its output or do not; processes they start in turn behave alike. What limits a wait in time
is a choice between the two outcomes, with what must hold for either. `git ls-files` runs in no job and
under no timeout, so it is taken to end.
`Compare` reads both inputs in one step: reading a file while it is being written would be one
more way for `traces` to hold something else. `os.Remove` and `rm -f` are taken to succeed (the
code ignores their errors, so a removal that fails leaves what it should remove), and no program
but the modelled ones renames or links paths. In `ReportJob` the variable and argument checks
before the first state change are left out; they exit before an output is written. In
`Diff` durations are below 2^30 ns (`MaxBits` of `Binary64`), so that their conversion to
`float64` is exact; that of a duration of 2^53 ns (104 days) and more, which is not, is not modelled.
The name and the service of a span are one place in an order (`Label`). A percentage is a number of tenths.

## Runs

| run | question | bounds |
|---|---|---|
| `trace_match` | safety of trace matching; `TraceMatch` implements `TraceVerdict`; `Traces` returns | 3 baseline and 3 candidate traces, each absent or one of five shapes in two groups |
| `trace_mirror` | the direction of a comparison is irrelevant | two snapshots, five shapes, every group order on both sides |
| `span_match` | safety of span matching, and that it returns | every trace of one or two spans, three spans with roots, and four spans with three siblings at distinct ranks |
| `normalize` | exactly the malformed traces are rejected, the others normalized faithfully, and the function returns | every trace of up to two spans with anything wrong, and of three with any relations |
| `normalize_twice` | two exports of one trace normalize alike | three spans, 2 labels, 2 clocks, every order of the document |
| `compare_command` | the output-file protocol | 3 processes, any mix of two paths and `--force`, an output path that is free, another file, or a second name of the input |
| `report_job` | the scripts over that protocol, with termination | 2 jobs with one report directory, two inputs that may change at any time |
| `ingest` | the merge, what is refused, exactness of durations and of redaction | up to three records with spans of two traces, under identifiers in either case; two records of any kind; one span with any one or two fields wrong; clocks and integers of 3 bits, counts of 2, values nested up to and beyond a depth of 3; four sets of additional keys |
| `pipeline` | whole comparisons: accounting for spans, names, findings, order, counts, silence on equal behaviour, and that `Pipeline` implements `Comparison` | documents of up to two traces from a catalog of eleven (roots, one operation below another parent, partial traces, failures, repeated shapes, sibling twins), three traces in two orders; one span with baseline durations 0 to 1000 and candidates on both sides of 0%, 10%, 10.3% and 20%; every refused option |
| `watchdog` | containment, truth of what is reported, mutual exclusion, termination | a validation of `gofmt` and one more command, and one without commands, each of which may die or fail anywhere |
| `cross_pairing`, `runs_agree` | the findings below | the smallest instance that shows each |

Why the bounds are enough. Three traces on a side allow a chain of preferences (a tie, a pair that
becomes possible only after another was taken, a trace left over), and two groups let an error
follow a finished group. The five shapes give overlaps of 0, 1 and 2, twins, and one root operation as root and as
external. Two operations and four spans are the least that let two siblings change their rank and
that need a second parent-aware pass. Three spans hold every kind of
cycle that matters to the walk: a span of its own, a cycle of two with a tail, and one of three. Clocks of 3 bits
have every boundary that 64 bits have (zero, the largest signed number and the next, the largest and the next),
and a depth of 3 has a value at the limit and one beyond it. Three records let a trace skip one. A catalog of eleven
traces gives the pipeline each refusal of both matchers, unmatched traces on both sides, several
pairs of traces at a time and a key that occurs in more than one of them. One validation with two
commands shows what one command may leave to the next and to another validation; that second
validation needs no commands of its own, since `OneAtATime` compares what runs with who holds the mutex. Three processes are one that fails, one that succeeds and one
that forces. The theorems take over where the bounds end.

Type invariants are stated in every module that has proofs or that they helped to write; those of modules
with proofs are proved. Symmetry is used in two runs that check safety only (`trace_mirror`, `compare_command`). `CHECK_DEADLOCK FALSE` is said everywhere because every modelled function,
process and job ends. Every property has a mutant: a definition named `Mutant: ...` in a comment
that changes one definition the way a slip in the code would, under which TLC finds the property
violated.

Fairness. The functions of the core are sequential code, so weak fairness of the next step is
what running them means. In `ReportJob` each started command runs on (weak fairness of its steps)
and each script goes on when the command it waits for has exited (weak fairness of its
step); nobody can block a command, since opening with `O_EXCL` refuses instead of waiting.
Kills, cancellation and changes of inputs are never required to happen. In `WindowsCheck` each wait of
the function and of the launcher has a timeout in the code, the kernel carries out what it has been told, and git is
taken to end; the targets and what they start need not do anything, so `Ends` and `NothingSurvives`
hold with a target that hangs for ever.

## Proofs

The proof modules hold for every value of the constants that meets the `ASSUME`s of the modules.

- `TraceMatch_proofs` (`TypeCorrect`, `TracesPartitioned`, `PairingStable`, `RepeatsNeverPaired`,
  `RefusalsJustified`, `Implements`). The inductive invariant adds to the properties that the unused traces belong
  to one group (`CurrentGroup`), that traces of one shape are used together or not at all
  (`TwinsTogether`), and `Stable`: of two comparable traces already reached, both are unused, or
  one has a pair it would not give up. `Stable` is what makes stability survive the rounds: a
  mutual unique best beats every rival still unused, and rivals already used are content.
  `Forced` is the converse: every stable pairing has all the pairs made so far, because a pair that is made is
  of traces that prefer each other to whatever is left (`RoundForced`), or of the same structure (`ExactForced`). So the
  pairing returned is the only one, and when the rounds are stuck there is none (`BlockedHasNone`).
  `AmbiguityNeedsTie` needs that a finite set of scores without ties has a largest one, which is
  a mutual unique best (`LargestNat`). `Implements` reads the
  contract off this invariant when `Traces` returns.
- `TraceMatchMirror_proofs` (`DirectionIrrelevant`) uses that theorem for both calls: the mirror image of a
  stable pairing is a stable pairing of the exchanged snapshots, and there is only one, so nothing needs to be
  known of the order in which either call works.
- `SpanMatch_proofs` (`TypeCorrect`, `SpansPartitioned`, `EvidenceJustified`, `NoReplacement`,
  `SiblingsInOrder`, `RefusalsJustified`). `GroupOneToOne` and `GroupExhausted` say what `pairSpanGroup` returns: a
  one-to-one pairing after which one side is used up. They rest on `PlaceInjective` and
  `PlaceOnto`: without duplicate start ranks, position is a bijection onto `0..n-1`. Siblings keep their
  order because all of a group that a parent-aware pass can reach is reached in one pass. `Itself` (a trace against
  itself: every pass pairs a span with itself) and, in `TraceMatch_proofs`, `StableWithItself` (a snapshot against
  itself: unless two traces have one shape, the identity is a stable pairing, hence the one returned) serve
  `SameBehaviour`.
- `Reading_proofs`, of `Normalize` (`TypeCorrect`, `RejectionExact`, `FaithfulRenaming`, `ReadyForMatching`). The walk keeps its stack a chain of
  parents without repetition (`Chain`) and the visited spans free of loops (`NoLoop`: every set of
  visited spans has one whose parent is outside). So meeting the stack again is a real cycle, and
  a finished walk leaves no closed group of spans. From there on the spans are a `Forest`. Two spans, neither
  above the other, have exactly one `Fork`, the pair of siblings at which their ways up part
  (`ForkExists`, `ForkUnique`); so the order of siblings extends to one strict total order of all spans
  (`PrecedesTotal`, `PrecedesTransitive`), and the number of spans before a span is a bijection (`PlaceFacts`). That
  is the renaming of `SameTrace`. `MatcherReady` follows from the order: what lies between a parent and its child
  is below the parent (`SubtreeInOnePiece`), and siblings are their own fork (`SiblingsByStart`). The digests are
  any numbers there; nothing is assumed of SHA-256.
- `Reading_proofs`, of `Parser` (`FaultyRejected`, `ClocksExact`, `RecordsAsOne`), for files of any number of records,
  resources, scopes and spans. The properties speak of places in the file, and so does the invariant: `Passed`
  are the places converted so far, none of them faulty, and a list of traces `Collects` a set of places when no two of
  them share an identifier, each of its spans is that of one of them, each trace has all of its own in the
  order of the file (`Gathers`), and the order numbers are `0, 1, ...` (`Numbers`). During the
  conversion the document's traces collect what has been converted of it, and the snapshot collects all earlier
  records (`Converting`); during the merge the snapshot has in addition the traces already taken from the
  document, and what it has of a trace or starts with comes before all that remains (`Merging`). So a span or a trace that is added comes last in the
  file, whether it continues a trace or starts one, and `seen` and `merged` are the identifiers of the set, so a
  duplicate is found exactly when there is one. These theorems are about `ParseSpec`; every
  behaviour of `Ingest` is one of it. They hold for any conversion of attributes.
- `Pipeline_proofs` (`MatchingInvariance`, `NoSpanLost`, `ChangesNamed`, `FindingsOrdered`, `SummaryAgrees`,
  `SameBehaviour`, `ComparisonImplemented`).
  The stages are instances of the modules above, and so are their invariants: `TracesMatching` and `SpansMatching` say
  that the matchers keep theirs on the snapshots of this request, between calls too. `Documents` says what a
  snapshot is: its sort is a permutation (`RankBijective`), and `Occurrence` numbers the spans of a key across
  traces. `Comparing` is the invariant of the diff; its sort is a rank permutation as well. For `SameBehaviour` the
  same traces, as often each, make the same snapshot (`OrderedAlike`: the bijection between equal traces keeps the order
  of the sort), kept by `Prepared`; `Silent` follows that snapshot against itself through the matchers, until
  `NoPairChanges` finds nothing to report at any threshold. `ComparisonImplemented` is the refinement: every
  step but the last leaves `Comparison` as it is, and the last is its only step. Two invariants carry what the
  contract asks of calls that are long over: `Passed` (each call that has returned had no reason to fail, and worked on
  the documents of the request) and `Answering` (between the traces of each pair, spans are paired and no operation is
  both removed and added). A refusal by a matcher has its reason from the theorems about the matchers
  (`TracesRefused`, `SpansRefused`), once `OperationsGrouped` has shown that the groups of `Traces` are what the
  contract counts at the top of a trace. The report is that of `Comparing`, whose lists are shown to leave
  nothing out (`ListOfWhole`, `PairChangesWhole`, `FindingsReported`). `SummaryAgrees` states `CountsAgree`, which
  no run lists because the contract contains it.
- `ReportJob_proofs` (`TypeCorrect`, `ReportsStay`, `ErrorsClean`) puts the invariant of `CompareCommand` below
  jobs: what a job's processes have left at its three paths is what its script believes, from the first run
  to the removal.
- `CompareCommand_proofs` (`InputsUntouched`, `SuccessStays`, `FailureClean`, `OnlyOwn`). The check of
  the output path is made long before the path is used; `Apart` says why it suffices: paths
  only ever lose a file or get a new one. `Named`, `Handles` and `Held` relate paths, open files and
  processes: a process's file is at its own output path only, who else has it open has it by
  `--force` and at that path, and a process without `--force` keeps its path until it removes it.
- `WindowsCheck_proofs` (`TypeCorrect`, `NothingEscapes`, `CleanupReported`, `Exclusive`,
  `SuccessEarned`, `RefusalJustified`), for any number of validations and commands. `Outside` says
  that only the launcher is ever outside the job, and only behind a gate that is not set: no
  target starts before its launcher is a member, and members start members. `Reports` keeps what
  the function knows when it comes to a report: nobody is left in a job found empty, and an outcome
  `ok` means an exited target. Above the calls, `Owner` says that the validation with the mutex is one between
  taking and releasing it, and `Progress` that at most the call at `command` is under way while
  those before it have succeeded; exclusion and the truth of success follow. Death keeps all of
  it: it stops the function and leaves the processes to the closing of the handles.

Assumptions. Those of the modules are what the code guarantees or the inputs mean: `PipelineAssumption` and
`RequestAssumption` say that a document is one of the forms of the module, with at most `MaxTraces` traces of at
most `MaxCount` spans (any two numbers); `EncodingAssumption` that different traces have different encodings, as
the JSON they are sorted by has every field of a trace; `TraceMatchMirrorAssumption` that the two calls number the
traces alike; `ParserAssumption` that lists are sequences, widths are positive, and `strings.ToLower` maps identifiers to identifiers and what it
returns to itself; `ConversionAssumption` that in `Ingest` the attributes in a file are converted as in `AnyValue`.
TLC evaluates all of them.

Only model-checked:

- liveness (`Returns`, `Ends`, `NothingSurvives`): the prover has no fairness;
- `Canonical`: that two exports have equal digests is an induction over subtrees;
- `FindingsExact`: long division in `Binary64` is a recursion over digits;
- `RedactionExact`: the conversion and the redaction of a value are recursive operators of `AnyValue`.

## Findings

- `cross_pairing`: when the callers of two branches changed, the fallback pass pairs the branches
  and their children independently, so children are paired crosswise (`match.go:544`), which
  `docs/trace-matching.md:41` rules out.
- `runs_agree`: the runs of `ci-compare.sh` are compared by exit code only (`ci-compare.sh:98`);
  reports of different comparisons are preserved when the inputs change between two runs, against
  `docs/cli-spec.md:104`.

Worth knowing, and not shown by a run of its own:

- A trace is paired as a "unique structural overlap" with one it has nothing in common with, when that
  one is the only candidate left (`match.go:358` starts at -1); `docs/trace-matching.md:65` says that
  items with no credible candidate become added or removed.
- The relative threshold and the increase are rounded separately (`main.go:262`, `diff.go:187`), so an
  increase of exactly 10.3% does not meet `--duration-threshold 10.3%`: `10.3 / 100` is
  0.10300000000000001. `FindingsExact` shows that whole percentages are met exactly and that nothing is
  reported below a threshold.
- `git ls-files` of `check.ps1:32` is started outside the Job Object and without a timeout, while
  `docs/current-state.md:37` says that every native child is enrolled.
- A validation that dies leaves its directory below `tmp`, and no later one removes it.
- The order numbers of merged JSON Lines follow the traces of each record, not the lines of the file;
  within a trace they increase with the file (`MergedAsOne`).
- A process without `--force` whose write fails removes its path even if a process with `--force` has
  meanwhile written a report there and exited with success; `run-action.sh` reports exit code 2 and
  leaves the JSON report when `ci-compare.sh` is killed between its two runs; a removal that fails is
  not reported.

Siblings that differ in
`error.type` only keep the order of the document, since no digest reads it (`normalize.go:279`), so
`Canonical` is checked with one error type; such siblings have the same shape and start rank.
Changes of two spans that differ in their kind only compare equal but for their fields and are
interleaved in the report (`diff.go:190`), where nothing tells them apart.

## Not modelled

- Report writers: they format and escape a finished result in memory. That writing it may fail at any
  byte is in `CompareCommand`.
- JSON syntax, and numbers written with fractions or exponents: `encoding/json` decides, and the model
  has the outcomes.
- Flag parsing and usage texts of the command line program; `CompareFiles`, which opens and closes two files.
- Examples, the demo, release, fuzz and maintenance scripts: straight-line programs that nothing of the
  comparison depends on.

## Plan

Done: the matching core, the normalizer, the output side, the diff, the watchdog, the parser with
redaction, the pipeline, and the contract of a whole comparison, in that order, because matching decides what the
program says and the output protocol decides what a reader finds.

Left: what is listed above as only model-checked.
