# asconfig in TLA+

Models, model-checking runs and proofs for `asconfig`, the Aerospike
configuration tool in this repository. The source is the reference; every
definition that stands for code is listed with its lines in `PROJECT.json`
under `map`.

## The system

`asconfig` is a command line program. Each invocation is one short, sequential
process; what is concurrent is several of them, and other programs, on the same
files, and pipelines of them.

| Part | State | Operations | Hard about it |
|---|---|---|---|
| root command, `cmd/root.go`, `main.go` | loggers, log level, schema map | hooks in cobra's order, error report, exit status | order of hooks; errors in setting up the error report |
| format inference, `cmd/utils.go` | none | flag, extension, default | precedence, empty values |
| metadata, `conf/metadata`, `cmd/utils.go` | comments in the files | read, merge, write, at every conversion | a long sequence of commands over one text |
| `convert`, `cmd/convert.go` | source, output file, bytes read, flags | stat, read, check, convert, stat, open with truncation, write | other processes between any two steps; a kill after the truncation; pipes |
| validator, `conf/config_validator.go` | none | verdict, error contexts, rendering | two error results, their order |
| `validate`, `cmd/validate.go` | bytes read | read, resolve version, validate | a required flag marked too late |
| `generate`, `cmd/generate.go` | a server's configuration | fetch, convert, write | same output steps as convert; its metadata block |
| `diff`, `cmd/diff.go`, `cmd/diff_utils.go` | two flat maps, or two schemas | compare, group by section, filter, render | order, totals, filters, arrays |
| `list`, `cmd/list.go` | schema names | sort, print | a comparison with a fallback |
| embedded schemas, `schema/` | map from version to schema | read at start | none |
| test case generator, `testutils/main` | directories of test cases | take a directory, copy, convert, describe | runs side by side, or cut off; the tests read whatever is there |
| docker helpers, `testutils/utils.go` | docker's | pull with retries | for the tests only |

Interactions: the commands call format inference, metadata and the validator;
commands meet through files, through pipes and through the metadata that one
run writes and a later one reads. The test case generator runs `convert` and leaves
files that the integration tests read. The management library (parsing, validation
against a schema, text output, server queries), cobra, and the file system are
external.

What makes each part correct: the list under `hazards` in `PROJECT.json` names,
line by line, what can go wrong that a test would hardly reach, and the
property that covers it, or why none does yet.

## Modules

Values and algorithms, without state of their own:

* `Formats` -- which format a file is in, which format and extension a conversion
  yields. Words are taken lower-cased, as `ParseFmtString` does.
* `Contents` -- what files and pipes hold: documents, their version as read back
  from the metadata, whether they load; `checkVersion`, and `Validate` with its
  two results, schema errors and error.
* `Conversion` -- the decisions of `convert` and `validate` over the flags of a
  run and a text: `PreRunError`, `ConversionError`, `Converted`.
* `Metadata` -- token texts: the expression `findComments` (`MatchAt`,
  `FindAll`), `Unmarshal`, `Marshal`, `genMetaDataText`, `getMetaDataItem`.
  Tokens are `#`, `:`, newline and words; other white space carries nothing.
  `FindAll` was compared with a regular expression engine run on the expression
  of the source, for all 19531 texts of up to six tokens over five tokens: no
  difference. A key or value of blanks only is not modelled.
* `Differences` -- what it means for two flattened configurations to differ.
* `Json` -- decoded JSON and paths in it, for the validator and for schemas.
* `Rendering` -- what `diff versions` shows of a path (`formatPath`) and of a value,
  in its compact form (`formatCompactValue`, `getValueSummary`) and in its detailed
  one (`formatValue`, `formatValueDetails`).
* `Obfuscation` -- what the test case generator makes of the lines it copies: the
  table of patterns, made-up names and the counters they share.

State machines:

* `MetadataLifecycle` -- one file's text under repeated `convert` and `generate`
  commands. `source` is a history variable, `mdata` the map last handed to
  `Marshal`.
* `Convert` -- the commands `convert` and `generate` for a set `Proc` of runs. A run's label
  `pc` is its place in `PreRunE` (`start`, `read`, `check`) or `RunE`
  (`convert`, `resolve`, `open`, `write`), or how it ended. `cfgData`, `out`,
  `outPath` and `err` are the variables of those names; `fs` the files and
  `stdout` what goes down a pipe. One action is what happens between two system
  calls: `StatSource`, `ReadSource`, `CheckFlags` (the rest of `PreRunE`),
  `ProcessConfig` (`RunE` up to the converted bytes), `ResolveOutput`
  (`determineOutputPath`), `OpenOutput`, `WriteOutput`, with their failures,
  `Kill` at any label, and `Edit`, another program's change to a file. A run of
  `generate` has `StartGenerate` (its `PreRunE`), `FetchConfig` or `FetchFails`
  (label `fetch`, all that depends on the node) and then the same open and write,
  which its code repeats line for line.
* `Publication` -- what such runs promise together, without their steps: a run hears
  its source (`Hear`), opens its output when it has something to put there (`Open`),
  and puts it there whole (`Publish`), or fails and may leave a part of it (`Spoil`) or
  nothing (`Quit`). What may be put there is stated as a relation between texts
  (`IsConversion`), not as the checks and their order. `Convert!ImplementsPublication`
  is the refinement: an output is open (`Handle`) while the label is `write`, and the
  ways to fail are one (`Fate`).
* `Command` -- one invocation from `main` to the exit status. `pc` is the hook
  cobra calls next: `Initialize`, `ParseFlags`, `PersistentPreRun`, `PreRun`,
  `RequiredFlags`, the command's `RunE` (`ReadToValidate` and `ValidateRead` for
  `validate`, `RunOther` for the rest), `Report`. `level` is the logger's level,
  `errs` what `errors.Join` holds, `shown` what has been written for the user.
* `Comparison` -- the promise of a comparison: one step that reports the
  differences. `FlatDiff` -- the loop of `diffFlatMaps`, with `allKeys`,
  `keysList` and `res` of the source, one action per loop or per turn of the last
  one; `ImplementsComparison` is the refinement of `Comparison`.
* `Diff` -- `diff files` and `diff server` around that loop. The two
  configurations are read at two moments, the node's context by context (`Fetch`),
  while `Edit` changes files or node. `past` is a history variable: every state of
  files and node since the run began.
* `SchemaDiff` -- `diff versions`: `CheckArgs` (and the swap), `CompareSchemas`,
  `GroupChange` for each change, `GroupEnds` with the filter's validation,
  `RenderHeader`, `RenderSection`, `RenderEnds`. `sections` and `available` are
  the fields of the summary. `ListVersions` is `list versions`, over the same
  schemas.
* `ConfigValidator` -- `Validate` from the library's errors (`Ask`), each given
  its context (`jsonToConfigContext`, a part of the context at a time, and
  `NameContext`), to the printed text (`Sort`, `GroupError`, `RenderContext`,
  `RenderError`). The loops are one action per turn, counted by `turn`.
* `TestCases` -- runs of `testgen` (set `Run`) over one directory of test cases.
  `Setup` is the stat of the case directory, `RemoveFile` and `RemoveDir` the steps
  of `os.RemoveAll`, then `Mkdir`, `ReadSource`, and for each of the five files, in
  the order of the code, `CreateFile` and `WriteFile`, with `ConvertCopy` -- the
  program it runs, by the operators of `Conversion` -- before the second. `Cut` ends
  a run anywhere. `file` is whether what a run has open still has its name.

`MCMetadata`, `MCConvert`, `MCCommand`, `MCFlatDiff`, `MCDiff`, `MCSchemaDiff`,
`MCConfigValidator` and `MCTestCases` are the instances TLC checks, as the values of
the constants. `ConvertProofs`, `CommandProofs`, `MetadataProofs` (on
`MetadataLifecycle`), `FlatDiffProofs`, `DiffProofs`, `SchemaDiffProofs`,
`ConfigValidatorProofs` and `TestCasesProofs` hold theorems and proofs; each extends the
module it is named for.

How they are composed: `Convert`, `Command` and `TestCases` share `Conversion`, so that
the verdicts of `convert` and `validate` are comparable in one module, and a test case
can be held against what a conversion does; `TestCases` uses `Obfuscation`,
`SchemaDiff` uses `Rendering`; `Diff` uses
`Differences`, which `FlatDiff` shows to be what the loop computes;
`Command`'s `RunOther` stands for the commands whose inside other modules have.
`Convert` is modelled without the hooks around it and `Command` without other
processes.

Definitions marked *Mutant* are plausible mistakes in the code; each property is
shown to fail when the definition they name is replaced by them. They are not
part of any specification.

### What the models abstract

`Convert`:

* A configuration is a member of `Body`; whether it is valid for a supported
  version is the constant `ValidFor`, any function. A conversion keeps the body
  and changes format, metadata and provenance. That the management library's
  two text forms of a body are equivalent is taken from it, not checked.
* Metadata: only the server version. What is read back for a recorded version,
  `MetaVersion`, is the table that `MetadataLifecycle!BlankVersionTable` checks
  on the text: a version reads back as it is; an empty one as something else
  (`Garbled`, a version of no valid form); that one recorded again as none.
* A file is absent, empty, torn or a document. Reading a torn file may yield any
  text. Writing replaces an empty file; over anything else it may leave the tail
  of what was there. A file removed and made again between two steps of a run is
  taken for the same file. Write errors are reported by the write, not later by
  `Close`, whose result the code drops.
* `by` in a document and `writers` are history: who produced it, and who changed
  a file since it was last truncated.
* A path is a directory, a base and an extension; `Parent` gives a directory's
  own place. `Unstatable` is a path whose stat fails otherwise than with
  `ErrNotExist`, such as one below a regular file.
* Standard input is a given text or the standard output of the run `Upstream`.
* What a node answers to `generate` is any body. Its text has no version that could
  be read back, as `metadata_generate` shows.

`Command`: which stream a message goes to and how it is worded; flags that have no
bearing on the hooks. An error is a name. Reading the source is one step, for
nothing here depends on what happens in between. The command line is given as what
cobra makes of it (`parse`).

`FlatDiff` and `Diff`: a configuration is what `GetFlatMap` returns, a function
from keys to values. Fetching a context fetches one key; how the library maps
a node's contexts to keys, and the way of a fetched configuration to text and
back, are its own.

`SchemaDiff`: a line of the report is what it tells the reader -- section, kind,
label of the path, what is shown of the values. Of a text, `Rendering` keeps what can
be read off it. The detailed form shows maps and arrays as they are, and of a simple
value a text, the constant `Detailed`, that others may share: true reads like the
string `Yes`, the number 5 like the string `5`, and decimals are rounded to six
digits. The compact form shows the size of a map or an array, and of a simple value
a text of its own (`Abbreviated`). What has no text gets no line. A path is the
sequence of the parts of a JSON pointer; no part contains a slash. `jsondiff.Compare`
is the constant `Patch`, of which `PatchAssumption` says what the operations between
two documents tell of them; `MCSchemaDiff` gives its definition for the options the
command uses (none), and TLC evaluates the assumption on it. The order in which
sections come is left open, as nothing depends on it. The list of `list versions` is
any arrangement that `sort.Slice` may leave (`IsListing`): it is not stable, and
promises nothing of a relation that is no order. Nothing is claimed of that list; a
property could only repeat its definition.

`ConfigValidator`: a context is a sequence of parts. The code joins and splits it
at dots; keys that contain one, which no schema has, are not modelled. The order of
contexts is left open; the order of texts within one is not.

`TestCases`: source and case directory have a base name, and the output directory is
there. A configuration's lines are a keyword and a name (`Declarations`); a line
without a keyword of the table is kept as it is, whatever else it holds. A made-up
name is a stem and a number. Files are created or truncated by one step and written
by a second, as in `Convert`; the conversion's own kill is the run's, since Ctrl-C
reaches both processes. Of a test, the fields handed on unread are left out.

## Runs

| Run | Asks | Bounds |
|---|---|---|
| `metadata` | does what a conversion writes read back, over chains of commands | all texts of up to 5 tokens over 6, 3 commands |
| `metadata_generate` | the same of generate: violated | texts of up to 2 tokens |
| `convert_flags` | one run with every combination of command and flags | 4 source names, 14 contents, 5 outputs, 4 versions, 5 formats |
| `convert_race` | two runs over two files, in both directions and in place, converting or generating | 1 edit, kills anywhere, 2 supported versions |
| `convert_pipe` | do two runs joined by a pipe or by files end, is a pipe that breaks noticed, do they implement the publication | 1 edit, kills anywhere, 2 supported versions |
| `command` | is a failure explained, does silence mean success, do validate and convert agree | 5 log levels, 3 outcomes of parsing and of the configuration file, 5 versions, 5 argument lists, 5 formats, all texts |
| `flat_diff` | is the loop's result the set of differences, sorted | all pairs of maps over 4 keys, all orders of iteration |
| `diff` | do lines and status answer for what the two sides were during the run | 0 to 3 arguments, 2 files, 4 formats, 2 keys, 1 edit anywhere |
| `schema_diff` | is the report complete under its filter and true of the schemas | 3 schemas and a broken one, with simple values that read alike, 6 version words, 7 filters, both forms |
| `schema_diff_removed` | an expectation of a test: violated | as `schema_diff` |
| `validator` | is every error printed once, at its place and in order | 3 configurations of nested lists, 2 errors anywhere |
| `test_cases` | are cases kept apart, do described cases pass, does success leave a whole case, does the suite load | 2 runs, 1 case, 2 sources of that name and a copy, 21 lines, all flags, cut off anywhere |

Why the bounds are enough: a version line takes four tokens, a line that
swallows its successor five; two runs are the fewest that can interfere, and
their interference goes through one file at a time; the theorems hold for any
number of them and for pipelines of any length. Two supported versions are needed
for a body that is valid for one of them only. Paths of the race are the two
files that conversions in both directions read and write. The keys of `flat_diff`
are one of each kind `diffFlatMaps` tells apart; its theorems hold for any number.
One edit is enough for a run of `diff` to see a state that neither the start nor
the end has; the node has two contexts, so that it can change between them. The
schemas of `schema_diff` nest a property with the name of another section, hold
arrays of different length and one that ceases to be an array, and something
outside of all sections. Two errors are the fewest that can be sorted, grouped or
lost; the configurations have lists in lists, and elements with equal names,
without one, with one that is no string, and that are no maps. Two runs of `testgen`
are the fewest that can want one case, and they meet in one only; twelve datacenters
take the counter shared by three patterns to a second digit between two uses of one. The MC modules name
each bound.

Invariants and action properties, and what they say of the code:

* `RoundTrip`, `HeaderIsStable`, `UserMetadataSurvives`: the metadata block is a
  fixed point of conversion and loses nothing, provided no value has a colon or
  is empty (`Plain`); a comment ending in a colon takes the next line as its
  value, which is within what the properties allow and the code does.
* `BlankVersionTable`: how an absent version comes back, step by step.
* `PublishedIsValid`: no interleaving lets an unforced run publish a
  configuration that is not valid for the version its header names. The code
  owes this to reading its source once and to resolving the version before it
  validates and records it.
* `ReconvertNeedsNoFlag`: such a file converts again without the version flag.
* `RefusedRunsTouchNothing`, `OnlyFinishedConversionsWrite`: the output is opened
  last, when nothing but the write can fail.
* `SuccessMeansWhole`: and what it does not say: with another writer on the same
  output, success means nothing.
* `SourceSurvives`: the directory form of `--output` cannot hit the source unless
  `--format` contradicts its name.
* `BrokenPipelineIsNoticed`: the missing version stops a `convert` at the end of an
  empty pipe, even when an empty configuration would be valid.
* `ImplementsPublication`: five system calls and the decisions between them come to
  hearing once and publishing once. Success with something else in the file takes
  another program that changed it after it was opened; what cannot be converted costs no
  file its content.
* `EveryRunEnds`: liveness, in the pipeline.
* `FailureIsExplained`: status 1 with nothing shown happens only where the user
  asked for a logger that quiet, or for an unknown level. `SilenceIsSuccess`: no
  output from `validate` means that the file is valid.
* `VerdictsAgree`: `validate` and `convert` decide in different orders, from
  different hooks, and agree.
* `ImplementsComparison`, `NoFalseDifference`, `ReportMirrors`: `diffFlatMaps`
  returns the differences, once each, sorted, whatever order Go iterates in, and
  does not depend on which file is named first.
* `StatusIsTheAnswer`: each line was a difference between the two sides at
  moments of the run, a difference that was there throughout is printed, and the
  status says whether there are lines. More would be false: with changes during
  the run the lines need not be the differences of any one moment.
  It also says that flag, extensions and default never pair two formats.
* `ShownIffAsked`, `EverySectionCanBeAsked`, `TotalsAddUp`: the section of a change
  is its top-level property although the code searches the whole path for a
  section's name; nothing is lost in grouping, and `general` can be asked for.
* `ShownAsUpgrade`: the lines are true of the schemas named in the header: a
  modification shows the texts of two values that differ, the older one first (the
  texts may be alike, see below). The elements of arrays are exempt but for replaced ones, since an index means
  different things in two arrays of different length.
* `ContextsAreNamed`: the walk of `jsonToConfigContext` against a reading of each
  prefix of the context (`NodesOn`); no error's walk has a bearing on another's.
* `EveryErrorIsShown`: sorting in place by a key that is not unique and grouping
  through a map neither lose nor repeat an error, and leave the texts of a context
  in order.
* `GeneratedTextLoads`: `generate` takes the format from its output's name before
  anything else, so a reader that infers it from the same name finds what it expects.
* `CasesAreKept`: the stat before `os.Mkdir` decides nothing; `os.Mkdir` does. Runs with
  `-overwrite` on one case are exempt: one may remove what the other is writing.
* `DescribedCasePasses`: `versions.json` comes last, so a case that has it whole has
  both tests, and they pass in either direction, obfuscated or cut at an over-long
  line: what the test converts and what it expects load in one format and hold the
  same, as the test asks `diff` (`integration_test.go:789`). Exempt are cases that a
  run may remove while another one is at work on them (`Undisturbed`).
* `SuccessLeavesACase`: the same from the side of the run. One that came to its end has
  left both tests, its version and no file of others, whichever runs went before it,
  were cut off beside it or came after it, with the same exemption.
* `SuiteLoadsUnlessCut`: the suite drops every generated case when one cannot be
  read; only a run that failed after making its directory can cause that.
* `NamesStayApart`: numbers made by shared counters and cut off as text do not repeat.

Fairness: `Convert!FairSpec` has weak fairness of each run's own steps. The code
never waits except to read a pipe and for `generate`'s node, which the client
library gives up on after its timeout (external, assumed); the operating system
runs every process. No fairness is assumed of `Kill` or `Edit`. Deadlock is
checked in all runs of `Convert` and `TestCases`, where `Finished` is the only
thing left when all runs have ended; the other modules model one run, or a
bounded number of commands, and stop.

The two violated statements are the findings of `PROJECT.json`: a version that
`generate` records but no later command can read; a removed array item whose line
does not show it.

The models also have, as the code does, behaviour that a reader of the help and
comments may not expect. The properties above hold with it:

* A conversion forced without a version records an empty one; the next command
  reads the following metadata line as its value (`cmd/convert.go:178`,
  `BlankVersionTable`).
* The schema errors of a validation are not reported by `convert`: `Validate` returns
  an error along with them (`conf/config_validator.go:80`), so the branch that would
  print them (`cmd/convert.go:161`) is never taken (`ValidationError`).
* An output path whose stat fails otherwise than with `ErrNotExist` ends the run in
  a panic (`cmd/convert.go:221`, label `panicked`), before it has touched anything
  (`RefusedRunsTouchNothing`).
* The result of converting a source named by its extension only, given a directory,
  goes beside that directory (`cmd/convert.go:228`, `FileInDir`).
* `validate` marks the version flag required after required flags were checked
  (`cmd/validate.go:79`, `ValidateRead` and `RequiredFlags`); a file without a
  version is refused by the validation instead (`VerdictsAgree`).
* An unknown log level sets the quietest level before the error is logged, so
  nothing is shown (`cmd/root.go:55`, `ParsedLevel`; the exception in
  `FailureIsExplained`).
* `diff files` compares names without extensions, as `conf`, without `--format`
  (`cmd/utils.go:181`, `FileFormat`; the help at `cmd/diff.go:83` asks for one).
* The detailed form of `diff versions` shows different values by one text
  (`cmd/diff_utils.go:951`, `:962`, `:1000`; `Detailed`), so a modification from true to
  the string `Yes`, or from 5 to the string `5`, shows the same text twice.
* `testgen` removes the old case of `-overwrite` before it opens its source, ends the
  copy silently at a line too long for its scanner, and finds nothing to obfuscate in
  yaml (`testutils/main/testgen.go:438`, `:310`, `:324`; `RemoveDir`, `Scanned`,
  `Obfuscates`).

## Proofs

`ConvertProofs`, for any constants that satisfy `ContentsAssumption`,
`ConvertAssumption`, `ProvenanceAssumption`, `ErrorAssumption` and
`OtherAssumption` (types, distinct sentinels, the files present at the start and
edits being the users'):

* `TypeCorrect`: `Spec => []TypeOK`, from `Typed == TypeOK /\ Progress`. `TypeOK`
  is not inductive: that the bytes written are a document and the path a file
  depends on the run having passed the steps that set them, which `Progress`
  says label by label.
* `PublishedValidity`: from `Provenance`, which extends the claim from files and
  pipes to what runs have read and are about to write. `ConvertedIsTrustworthy`
  is the heart: without `--force` a conversion succeeds only for a configuration
  valid for the version recorded; `ReadingsAreTrustworthy`: reading creates no
  trust.
* `ReconversionAccepted`: a trustworthy text passes both version checks
  (`TrustworthyIsAccepted`), so no step can report one of their errors.
* `OnlyResultsReplaceFiles`: an action property, from `Typed`.
* `RefusalsTouchNothing`, `SuccessIsWhole`: from `Outputs`. `NothingWrittenYet`
  ties a run's label to its absence from every file's history; `OpenedIsEmpty`
  says that a file only its opener changed is empty until that run writes it.
* `GeneratedTextsLoad`: from `GeneratedAsInferred`, which follows generated texts
  through files, pipes and the buffers of runs: each is in the format of the name it
  is, or will be, under (`AsInferred`), unless a run had a format flag.
* `SourcesSurvive`, `BrokenPipelines`: from `Decided`, which recalls what a run decided
  and from what: a path is that of `determineOutputPath`, whose extension is not the
  source's, and bytes to write mean that the text read was converted without an error,
  which a text without a version is not unless the run was given one or is forced.
* `PublicationIsImplemented`: the refinement of `Publication`, with one lemma for each
  kind of step (`ReadIsHear`, `OpenStep`, `WriteAllStep`, ...). `Made` says that the
  bytes of a run were made from the text it read, or from an answer of the node;
  `ConvertedIsConversion`, that what passes `ConversionError` is in the relation the
  promise asks for; `Decided`, that the file opened is the one asked for; `Outputs`,
  that an interrupted write to a pipe leaves it empty or torn.

`FlatDiffProofs`, for any keys with a strict total order, any values and any set of
finite maps (`OrderAssumption`, `ValueAssumption`, `MapsAssumption`):

* `LoopImplementsComparison`: `Spec => Promise!Spec`. From `IInv`, whose conjunct
  `LoopInv` is the loop's invariant: the lines so far are those of the keys
  visited that differ, in order, and all of them before the keys to come.
  `Progress` says what each phase has established: the keys are those of both
  maps, the list has all of them, and is sorted. `VisitKeepsLoopInv` is one turn
  of the loop; `LinesForDifference` says that the code's chain of tests gives the
  line of module `Differences`, or none. `Promise` has copies of the operators of
  `Differences`, which `SameReport` identifies.
* `TypeCorrect`, `OnlyDifferencesReported`, `ReportsMirror`: from `IInv` and,
  the last, from `DifferencesMirror`.
* `DifferencesMirror`, `SilenceIsTransitive`: of the comparison itself. Swapping
  the configurations swaps the signs and values of the lines; no difference from
  a to b and from b to c means none from a to c, log levels in any case included.

`MetadataProofs`, for any words, sources, configuration text and number of commands that
satisfy `WordsAssumption` and `LifecycleAssumption` (a text is a sequence of tokens, the
configuration text has no comment in it, words are no punctuation and the names of the
two versions differ):

* All five theorems come from one invariant, `LifeInv`: after a conversion the map is
  what `Unmarshal` adds to the recorded versions from the source, and the text is the
  block of that map (`Written`) before the configuration. The properties speak of the
  text alone, or of text and map; none is inductive without the other half. TLC finds
  `LifeInv` true in all states of `metadata`.
* `MetadataReadsBack`: from `WrittenReadsBack`, in three parts. `WrittenIsLaid`: the
  lines `Marshal` joins stand in the text at known places, one per key; that sorting
  them is a bijection (`SortedKeysAreKeys`) comes from the order of lines being strict
  and total (`LineOrder`, from `LexTransitive` and `LexTotal`). `BlockFound`: the
  expression matches at each of these lines, no match reaches beyond its line while
  values are plain, and the search goes from one to the next, past the footer and the
  configuration text without a match (`NothingFound`). `UnmarshalReads`: the map read
  is that of the matches, for which the first of a key wins.
* `HeaderStaysTheSame`: the same with the recorded versions as the map to add to.
* `BlankVersionReadsBack`: from `OddOneReadsBack`, which follows the search over a block
  in which one value, the version, is not plain: the empty one swallows the line behind
  it, one with a colon is taken apart at the colon.
* `UserMetadataIsKept`: from `UnmarshalAddsTheSame`: what a source says of other keys does
  not depend on the versions recorded.
* `TypeCorrect`.

The matches, the joined lines and the sorted keys are recursive functions or choices; that
they exist for texts of any length, and what follows step by step, is by `SetInduction`,
which derives an induction from the pigeonhole principle for finite sets, as the prover
has no rule for one. It is stated in each module that uses it, since the number of modules
with proofs is kept small.

`TestCasesProofs`, for any runs, cases, sources and declarations that satisfy
`ContentsAssumption`, `DeclarationsAssumption`, `TestCasesAssumption`,
`InitialCasesAssumption` and `ErrorAssumption`:

* `TypeCorrect`: that a directory is there while it has a file is not inductive by
  itself; `Progress` adds that what a run has open and not lost is there, so that no
  directory goes from under it.
* `CasesStayKept`: from `AllKept`, which says of each case without overwriting runs
  that at most one run is between making it and its end, and that all in there is
  that run's. `StepFrame` -- no step reaches into another case -- and `StepOwns` carry
  it; `Mkdir` re-establishes it, for nobody can be at work in a directory that is not
  there.
* `DescribedCasesPass`, `SuiteLoads`: from `AllSound`, which says of each undisturbed
  case which of its files the run at work on it has written and what they hold
  (`Stage`), that a file with an owner was written by a run that got into its directory
  (`Attributed`), that a whole `versions.json` has both tests beside it (`Described`),
  and that a case nobody is at, or was cut off at, can be taken in (`Loadable`).
  `ThereAndBack` is the heart: what a conversion without error made converts back, for
  the version it was made for, to what it was made from. `InitialCasesAssumption`: the
  case directories at the start can be taken in, as those of `testdata/cases` can.
* `SuccessLeaves`: from `Successes`, which says of each undisturbed case that a run that
  is done with it owns all that is in it and has it whole (`Whole`). It stands on
  `AllSound`, for a run at its last file (`LastWrite`), and on `OneMaker`: while one run
  is making an undisturbed case no other run is making it or has made it, since a run
  that is done has left a whole `versions.json`, and one at work has not written it yet.
* `NamesAreApart`: from `CopiesMade`, which says that the text of an obfuscating run at
  its copy has the lines `obfuscated` makes of some configuration. Of these lines,
  `ObfuscatedApart`: no name's number is beyond the counter of its pattern (`Counts`),
  so that a pattern that is used always gets a higher number, though others count on the
  same counter (`NumberedPattern`); a line ends with the number its own pattern had
  before it, as that pattern comes last (`LineTakes`); and numbers only grow from line
  to line (`TablesTake`). `DeclarationsAssumption`: the lines made of a configuration
  are those of one, so that the copy is one.

`CommandProofs`, for any command lines, texts and schemas that satisfy
`ContentsAssumption`, `LevelsAssumption`, `CommandAssumption` and `NilAssumption` (no
error and no text is the absence of one):

* `TypeCorrect`, `FailuresAreExplained`, `ValidateAgreesWithConvert`,
  `SilenceMeansSuccess`: from one invariant, `Inv`, that follows the hooks.
  `LevelIsDated` says that the level is the logger's or the user's, `ErrorsEndRuns`
  that no hook follows an error, `ErrorsAreShown` where an error has been reported,
  `SilentSoFar` that nothing was shown before, and `ReadIsJudged` that the outcome of
  `validate` is the verdict on the text it read. The last three properties look only at
  the end of a run; none is inductive without what the hooks before it have done.

`DiffProofs`, for any files, configurations, keys and number of edits
(`DiffAssumption`, `OrderAssumption`, `ValueAssumption`, `NilAssumption`):

* `ReportsAreDated`: from `Inv`, whose conjunct `Dated` ties each configuration that
  was read to moments of the history: one for a file, one for each key of the node.
  The report is of these readings (`Reported`), and since a difference depends on the
  values at its key only (`DifferenceAtKey`), each line was true of two such moments.
* `TypeCorrect`.

`SchemaDiffProofs`, for any schemas, command lines, filters and any `Patch` that
satisfies `PatchAssumption` (`SchemaDiffAssumption`, `NilAssumption`):

* `TypeCorrect`, `ReportIsExact`, `ChangesCanBeAsked`, `HeaderCounts`, `ReadsAsUpgrade`:
  from `Inv`, which follows each change from the patch into the list of its section and
  kind and into a line. The lists are images of sets of changes under bijections, so
  the totals are equal because the sets are; nothing is summed up. That
  `extractSection` finds the top-level property rests on `Located`: outside of
  `properties` nothing is named like a property, and no property like a word of the
  schema language or a number. Without that a change would be shown elsewhere. The code
  takes it for granted of the schemas, which are a submodule of the repository and not
  part of it; it is an assumption about them here too.
`ConfigValidatorProofs`, for any configurations, contexts and number of errors
(`JsonAssumption`, `ValidatorAssumption`: what is in a decoded value is one, a missing
one is none; contexts are sequences of strings):

* `ContextsNamed`: `NodesOn` is a recursive function, and that it exists for contexts of
  every length is an induction, by `SetInduction`. The invariant `Walking` then says
  that a walk has named what it has passed and is where its parts lead (`Follows`), or
  that the context has no names; `WalkGoesOn` is one part.
* `ErrorsShown`: from `Permuted` (the errors are the library's, each at its place, in
  some order), `Grouping` (each list has as many copies of each text as the errors
  grouped so far, in order, and none of those to come goes before) and `Printing`, which
  says the same of lines and lists.
* `TypeCorrect`, with `OneLineEach`: contexts and lines correspond.

The assumptions on constants are types and facts about what is outside of this
repository (the order of strings and versions, `Nil` being no value, what `jsondiff`
and the management library return, the files users start with). TLC evaluates them in
the runs.

Only model-checked: the liveness property `EveryRunEnds` (temporal reasoning with
`ENABLED` is beyond the prover). What `getValueByJSONPath` and `formatPath` compute for
sequences of any length needs induction over definitions of the library and stays with
TLC.

## Plan

The modules and proofs above are what was planned. What could follow: write errors that
only `Close` reports, once the code promises something about them.

## Not modelled

Names of log levels and declarations without behaviour; the docker helpers of the
integration tests (calls to a daemon, one in a bounded retry loop whose state ends
with it); packaging and CI. Of the modelled parts: wording, layout and colours; keys
with a dot in contexts; write errors that only `Close` reports.
