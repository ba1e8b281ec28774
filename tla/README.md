# A verification project for libc-constant-deprecator

`libc-constant-deprecator` scans a checkout of the `libc` crate for `const`
items, shows them in a terminal interface, lets the user mark them as
deprecated, and writes `#[deprecated]` attributes back to the source files.
This directory holds TLA+ models of it, TLC configurations that check them on
small instances, and TLAPS proofs of what matters most for every instance.

Paths below are relative to `libc-constant-deprecator-lib/src` or, for
`main.rs`, to `libc-constant-deprecator-bin/src`.

## The system and its parts

| part | code | state it keeps | operations | talks to |
|---|---|---|---|---|
| repository | `scanner.rs` | the checkout | `ensure_libc`, `discover_repo`, `clone_repo` | cargo, gix |
| scan | `scanner.rs`, `parser.rs` | two channels, a builder | `scan`, `fetch_details`, `parse_files` | one task per file, joined by nobody; a gatherer |
| macro parsing | `parser/` | none | `traverse_constants`, the `cfg_if` parser and iterator | scan and save |
| container | `constant_container.rs` | constants with a `modified` flag each; a cache of regexes | `borrowed`, `filter`, `filter_with`, `effect_changes` | views, through weak references |
| views | `constant_container/borrowed*` | slots and baselines (`init_state`) | bulk `deprecate`/`undeprecate`, `select`, the visitors | the container's constants |
| save | `effect_changes` | a `JoinSet` of tasks; the files on disk | read, edit, write, join, shut down | blocking threads that outlive the tasks |
| interface | `main.rs` `State`, `Mode`, `Position`, `Selection` | mode, cursor, prompt, selection | `interpret`, `update`, `draw` | container and view |
| tasks | `main.rs` `handle_input`, `render`, `main` | two channels, detached save tasks | send, receive, draw, spawn, join | each other; `State`, by raw pointer |
| spinner | `main.rs` `Spinner` | two tasks and a channel between them | `run_while` | `print_changes`, `init` |
| set-up | `main.rs` `init`, `prepare_space`, `main` | raw mode, keyboard flags | set, undo | the terminal; scan, behind the spinner |
| support | `errors.rs`, `macros.rs`, `support.rs`, styles | none | conversions, formatting | |

What is hard in it:

* **concurrent writers.** `effect_changes` runs one task per flagged constant,
  and each rewrites the whole file of its constant; files are truncated before
  they are written, and writes run on after their task is aborted.
* **a borrowed `State`.** A save is spawned with raw pointers into the `State`
  the render task owns, on the argument that drawing waits for the save.
* **reports that must alternate.** `print_changes` blocks the only task that
  handles keys until the report it wants arrives, on a channel that its own
  `State` keeps open.
* **positions that drift.** A constant is found again by the line and column it
  had when scanned, in a file earlier saves have reformatted.
* **flags against moving baselines.** Whether a change is written depends on a
  flag computed against a baseline which each bulk call moves.
* **memory that outlives a save.** Flags are never reset, so the next save writes
  the same constants again; an event may still change them while a save reads
  them; and a program that is killed leaves its files as they are.
* **two parsers of one macro.** A scan and a save parse `cfg_if` separately, and
  a save writes back what neither accepts.
* **a terminal to give back.** Raw mode, keyboard flags and a task that draws
  must be over on every way out, among them errors of the terminal itself.
* **three variables for one cursor.** Mode, position and selection are moved by
  different rules with different limits, and drawing fails where they disagree.

What makes each part correct, in one line each:

* container and views: a view shows only what was asked for, its baselines are
  the memory state, a constant that is hidden is never changed, and the flag
  says whether the constant differs from what was scanned;
* save: success means that every flagged constant is on disk as it is in
  memory; failure leaves a file old or new; unflagged constants keep theirs;
* tasks: a save is never left without its `State`, its reports are matched to
  it, and the program can always be quit;
* interface: a toggle reaches what is shown as selected, and no key ends the
  program by an error or a panic;
* scan: it returns, with the constants of every file that parses, whatever an
  earlier run has left of the checkout; a `cfg_if` is read in all its branches,
  and a save finds what a scan found;
* a session: what a save has promised is still there after edits, other saves
  and a restart, and what was not saved is flagged;
* spinner and set-up: every message is shown, the spinner is alone while it
  draws, and the terminal is left as it was found.

Where the code falls short of one of these, the property is stated twice: the
strongest form that holds, with what it depends on named in its hypothesis, is
checked by a passing run and usually proved; the form the documentation claims
is checked by a run that finds it violated (see Disagreements).

## Modules

`ConstContainer` models the container and one view of it. A constant is its
index; a view is a sequence of slots that hold a constant or nothing.
`Borrowed`, `Filter` and `FilterWith` are the three ways to fill it;
`DeprecateView`, `DeprecateSubset` and `SelectMut` the three ways to change
constants. A regex is a model value with a set of matches and a compiled size:
`ProbeRe` and `BuildRe` are the cache and the doubling of the size limit.
Strings are left out. The visitors that only read are too.

`Marks` is the container without slots, ranges or regexes: a set of constants is
visible, a call changes visible constants only, and the first bulk call over a
constant in a view flags it exactly if it leaves it in another state than it
entered the view with. This is the promise of `borrowed.rs:555-558` as far as
the code keeps it. In full it speaks of the state in which the view is dropped,
after any number of calls: `FlagsFollowEntry`, which does not hold (see
Disagreements). From its second call on, `Marks` leaves the flag of a constant
open. `ConstContainer` maps what it shows to `visible` and its history `entered`
and `moved` to the rest (all constants count as moved once a view that
`filter()` made has been refilled), and `ImplementsMarks` says that it
implements it.

`EffectChanges` models saves. `Call` spawns the tasks; `Begin`, `Read`,
`EditAndSave` and `Finish` are the stretches of a task between await points;
`Truncate` and `Write` are the two halves of the blocking write, which go on
after `Abort`. A text is abstracted to the number of `deprecated` attributes on
each constant and to whether `prettyplease` has rewritten it; that is enough to
say where each constant stands (`Start`), which a traversal visits (`Visited`)
and which one a task takes for its own (`Matched`). Two writers of one file that
overlap may leave a text that does not parse (`Garbled`).

`Session` is a user at work, and the composition of the parts. It extends
`EffectChanges`, sets states with the calls of the container (`Deprecate` with
flags and baselines, `Visit` without; the list is a view from `borrowed()`, in
which slot `k` holds constant `k` if anything, see `ViewShape`), and adds what
joins them: which events the loop takes while a save runs
(`MayAct`: `draw` then waits, but one more event may come in first), the states
a toggle sets (`NewState`), and `Relaunch`, which ends the program at any point
and scans what is on disk. Its history variable `lapsed` collects, where it
happens, every constant the code may lose: toggled twice before a save was over,
toggled behind its flag, in a file two tasks shared, moved since the scan, saved
as deprecated once more, saved by a call that failed. The properties say that no
other is lost. A save that overlaps another is left out; what comes of reports
and pointers then is in `RenderLoop`.

`RenderLoop` models the tasks of the binary: input, render with its drawing,
the spinner, the save tasks and the join in `main`, each step ending where the
code awaits. An event is one of three kinds: a save, an edit that can fail, or
anything else. After `State` is dropped, a save task that is left reads freed
memory: `Dangle` allows it to go on, to fail, or to crash the process. How long
a save takes and what it writes is in `EffectChanges`; that it returns is what
`FairSpec` takes from there.

`Tui` models the interface one key at a time: `Interpret` is the table of
`Mode::interpret`, each event of `State::update` is an action, and `Draw`
follows each. The prompt is its bytes, for the cursor counts columns and
`String` bytes: two letters, and a lead and a continuation byte for a wide
character; the list is how many slots the view has and how many of them match.
The terminal may report another size at every step, or none, which panics
(`WithoutSize`); without overflow checks the 65535 that `max_col - 1` wraps to is
a width like another. The row and column of the grid that `Position` keeps beside the
offset are never read and are left out, as are I/O errors of drawing, which are
in `RenderLoop`.

`CfgIf` is the macro parser and its twin. A body is a sequence of tokens, among
them blocks of statements; `MacroParser` reads it by recursive descent, as a
scan does; `MacroContainer` reads it token by token, as a recursive function of
the state a save's parser is in, which amounts to the same code written
differently, so that their agreement is a statement about both. `Traverse` is
`traverse_constants`: what an edit turns a file into. `Declared` says what a file
declares, read off its text by no parser: it is what the parsers are compared
with. A macro with an identifier of its own (`cfg_if! name {..}`), which the
traversal skips and no scan has seen, does not compile and is left out.

`Scan` models `scan` from the path the user names: `Canonicalize`, `EnsureLibc`,
`DiscoverRepo`, or else `PrepareClone`, `FetchRepo`, `CheckOut`; then the walk, a
task per file, the channel that ends when its last sender is dropped, and the
gatherer. What becomes of a file (hidden from the walk, unreadable, malformed, or
Rust with some items, on which the parser may panic: `Panics` of `CfgIf`) is
chosen at the start. `Kill` ends a run anywhere, for the terminal is not in raw
mode yet; `Launch` starts the next on what is there, perhaps half a clone.

`Terminal` models the program from launch to exit as the terminal sees it:
`init`, `prepare_space`, raw mode and keyboard flags, drawing, and `main`'s ways
out, with both users of `Spinner::run_while`. Its two tasks are `Send`/`EndWork`
and `HideCursor`/`Poll`/`PaintFrame`; `Joined` is the `try_join` over them,
which an error does not end early and a panic does.

How they meet:

* `Session` composes the calls of the container on the list with `EffectChanges`,
  the loop's guard and a new scan;
* `Scan` extends `CfgIf`; `Found` of `Session` and `Visited` of `EffectChanges`
  are its outcome, reduced to whether a file with a `cfg_if` was rewritten;
* `RenderLoop` and `Tui` split `State::update`: what is spawned and sent; what
  moves the cursor;
* `RenderLoop` and `Terminal` split the spinner: how its failure reaches
  `print_changes`; what it draws and when it ends.

Definitions called "Mutant of" something are not part of the model: each is the
way a plausible slip would have changed the definition it is named after, and
`PROJECT.json` pairs it with the property that catches it.

## Runs

| run | question | bounds | states |
|---|---|---|---|
| `container` | do views, baselines and flags stay consistent under any sequence of calls? | 2 constants, 4 regexes: everything, one constant at the size limit, one over it, a syntax error | 376,836 |
| `effect` | is a first call over shared and unshared files faithful, atomic where one task writes, and finite? | 3 constants in 2 files, one of which may fail at every read and write | 214,464 |
| `session` | is what a save has promised kept, and what was not saved flagged, over edits during saves, failures, retries and restarts? | 2 consecutive constants in one file that may fail; 2 saves, 2 launches, 2 toggles | 2,054,784 |
| `render` | do reports, drawing and quitting stay in step? | 3 saves, 5 keys, every task may fail | 399,357 |
| `tui` | do mode, cursor and selection agree, and is the prompt safe? | 0, 3 and 11 constants; terminals of 5 or 20 rows and 3 or 9 columns, or without a size; prompts of 3 bytes; debug assertions on | 880,107 |
| `scan` | is the scan complete, in files and in branches, does a save find what it found, and does it end, from every kind of path and after a kill? | 3 files, every fate of each; contents without a `cfg_if`, with one of two branches, an `else if` and two attributes, and one a save has rewritten; 2 launches | 257,457 |
| `terminal` | does the spinner show everything and end, and is the terminal given back? | 3 messages, 2 reported saves, every write to the terminal may fail | 1,190 |
| `container_FlagsFollowEntry`, `effect_SaveLands`, `session_SavedFilesScan`, `render_StateOutlivesSaves`, `render_StopQuits` | five claims of docs, notes and comments | as above, or the smallest instance that shows it | violated |

Why the bounds are enough. Two constants are what it takes for one to be hidden
while the other is shown, and for positions and ranks in a view to differ; the
proofs carry the rest to any number. Two constants in one file and one in
another give every pairing of writers; three writers add no new overlap of two.
Two
saves are the shortest history in which one's leftovers meet another, and two
toggles the shortest in which one comes in during a save. (Larger
or other instances of `session` pass as well, in more time than a run should
take or without showing more: three saves and three toggles without failures,
5.7 million states; a file that shifts when it is rewritten; a constant in a
`cfg_if`.) Two
launches let one find what another left. A `cfg_if` with an `else if` and two
attributes takes its parsers through each of their transitions; the proofs carry
this to any body.
Three saves allow a report of the first to be taken for one of the third, and
five keys three saves and two other events. Eleven constants are more than the
ten rows of the list and three are fewer; in a terminal of 5 rows the cursor is
stopped before the list is. Three bytes
are a wide character and a narrow one on either side of it. Three messages are
enough for one to be drawn, one waiting and one unsent.

`CHECK_DEADLOCK FALSE` stands wherever the program ends: after the last call
of `effect_changes` the bound admits, when the process has exited or the user
types no more, when the interface failed, when the scan returned and the bound allows no
launch.

Fairness. `EffectChanges`: the runtime polls every task it has woken and the
caller, and the operating system completes each read and write; nothing obliges
the user to call. `RenderLoop`: the runtime polls render, every save task and
`main`, and a save returns, which is `CallReturns` of `EffectChanges`; nothing
obliges the user to type or to stop, nor the spinner to break. `Scan`: cargo,
gix and the operating system answer, and some task that can go on is polled,
which suffices because every step brings the scan nearer its end; nobody has to
launch or kill. `Terminal`: the runtime polls the spinner's task and the one
that joins both; no worker has to end. `Session` states safety only. All are
weak: each step, once enabled, stays so until taken.

## What the properties say

* `ShownIsMatched`, `SlotsAreDistinct`, `BaselineTracksMemory`,
  `OnlyShownChange`, `FailedFilterIsNoOp`: refilling a view in place replaces
  its slots and not its baselines. This is right because slot `k` of a view
  from `borrowed()` holds constant `k` or nothing; it stops being right for a
  view that `filter()` made and `filter_with` refilled, which the hypothesis
  `~regrown` leaves out (the binary never does it).
* `FlagExactWhenCoveredOnce`: the flag is exact for a constant that at most one
  bulk call set and no visitor touched. After a second call, or a toggle in
  select mode, it is not.
* `FirstSaveLands`, `SoleWriterIsAtomic`: for a file with one writer, a first
  call that succeeds has written what memory said, and however it ends the file
  has the old text or the new one once its write has settled.
* `ImplementsMarks`: over any refills and calls, a constant that a bulk call sets
  for the first time in a view is judged by the state it entered the view with,
  though the baselines that record it are kept by slot.
* `OkMeansWritten`, `BystandersUntouched`, `CallReturns`: across calls, success
  is never reported over a failed or unfinished write of that call; constants
  nobody flagged keep their attributes even when every line has moved, provided
  that identifiers are unique within the file.
* `Durable`, `PendingIsFlagged`, `NothingVanishes`, `SingleAttribute`: what a
  user may rely on, and the complete list of what breaks it (`lapsed`). Toggling
  what a save is just taking is on that list, for its tasks read the states as
  they go: the disk may then have another state than the one reported as saved.
  Toggling anything else during a save is not, nor is toggling back and forth
  with a save in between.
* `HangHasCause`, `DrawSkipsOnlyUntold`, `StopQuitsUnlessHung`: the render task
  hangs, and Ctrl-C has no effect, only after a save that failed or two that
  overlapped; drawing passes by a save only before that save has sent its first
  report.
* `FocusFitsMode`, `SelectionEndsWithMode`, `SelectionSpans`,
  `NarrowPromptIsSafe`, `TypedInOrder`: see the comments in `Tui`.
  `TypedInOrder` excludes wide characters and a terminal with no column left.
  `SelectionSpans` excludes a
  selection that was extended down where the cursor could not follow, which the
  FIXME at `main.rs:660` knows of. In a terminal of few rows it is worse than
  the FIXME says: the range loses rows and can be inverted, and an inverted
  range has no end, so that a toggle reaches every constant after its start.
* `ScanIsComplete`, `ScanReturns`: the result has the constants of the files
  below the path that parse, each once, those of a file together and in order.
* `EveryBranchIsScanned`: those constants are the ones the file declares, at its
  top level and in every branch of every `cfg_if`.
* `SavesFindWhatScansFound`: the parser a save reads a `cfg_if` with meets the
  constants the other has found, in every file of the result.
* `MissingFilesHaveCauses`: files the scan does not see were left out by a clone
  that was killed, or by a path below the root of the checkout, and by nothing
  else.
* `EveryMessageIsPainted`, `OneWriter`, `FlagsArePopped`, `SpinnerLetsGo`: with
  their exceptions: a worker that panics leaves the spinner's task drawing, and
  the keyboard flags stay when raw mode could not be set or the terminal fails.

## Disagreements between the code and what is said of it

Five are shown by runs and listed in `PROJECT.json` with the lines they quote:

* `FlagsFollowEntry`: a bulk call marks a constant by the state the call before
  it left, not by the one with which it entered the view; deprecating a view
  twice clears the flags of what is not saved;
* `SaveLands`: two flagged constants of one file undo each other's save and both
  report success;
* `SavedFilesScan`: saving any constant of a file replaces the branches of its
  `cfg_if` by bare constants, so that more than attributes change
  (`notes/main.typ:52-53`), and the next scan loses the file. `EverySaveCostsScan`
  of `CfgIfProofs` is the cause: a file with a `cfg_if`, of any body, is one
  that a scan panics on once a save has visited it;
* `StateOutlivesSaves`: `State` can be dropped under a save that points into it;
* `StopQuits`: after a failed save the program cannot be quit.

Read in the code while modelling, some of them stated above in the form that
holds, and not kept as runs of their own:

* Tab enters the list with a regex that matches nothing, and the drawing that
  follows ends the program, for the guard counts slots (`main.rs:979`, against the
  comment at `main.rs:1110-1115`; `SwitchNeedsResults` in `Tui`, which TLC finds
  violated);
* flags are not cleared by a save, so that saving twice writes a second
  attribute, of which a later save removes one;
* a constant set and set back by a later toggle may still be written
  (`constant_container.rs:206-208`);
* the entire codebase is walked (`scanner.rs:38`) only from the root of a
  checkout: from a directory below it the walk finds no `src` and succeeds with
  nothing, and a clone that was killed is scanned as far as it came
  (`WholeCodebaseIsWalked` in `Scan`, which TLC finds violated);
* a change made in select mode is never flagged, hence never saved by itself
  (`main.rs:1555`);
* a view from `filter()` never grows (`constant_container.rs:185`); `borrowed()`
  does not yield an empty view (`borrowed.rs:18`); a failed call returns while
  writes are under way (`constant_container.rs:303`); two conditional constants
  of one name can be confused once their file has shifted (`notes/main.typ:58`);
  a file that fails to parse is silently left out of a scan (`errors.rs:16`);
* where raw mode cannot be set, `main` returns before it pops the keyboard flags
  it has pushed (`main.rs:2181-2189`); the cursor, hidden by the spinner and by
  every drawing (`main.rs:397`, `main.rs:1272`), is shown again by the prompt
  only, so that it stays hidden after a scan that failed or a list;
* rewriting a file drops its comments, which `syn` does not keep.

## What is proved

For every value of the constants, under the named assumptions beside them. All
of them say what the constants are: sizes are naturals, maps have the domains
they should, the wildcard regex matches everything and compiles.

`ConstContainerProofs`, from the invariant `ContainerInv`. The invariant adds
three facts to the properties: a view has one of two shapes (`ViewShape`:
constant `k` at slot `k` or nothing; or matched constants only, ascending),
baselines of *hidden* slots track memory as well, for the next filtering may
show them (`HiddenBaselines`), and what no call covered is as it was loaded
(`UncoveredIsLoaded`). Without the second, `BaselineTracksMemory` is not
inductive. `ViewShowsMatches`, `ViewHasNoTwins`,
`BaselinesFollowMemory`, `ContainerTypes`, `FlagIsExact`, `HiddenConstantsAreSafe` and
`FailureIsHarmless` follow, the last two as action properties.

`ContainerImplementsMarks`, in the same module, rests on `ContainerInv` too. One
lemma per kind of call shows it to be a step of `Marks` under the mapping. The
heart of it is `EntryBaselines`, the part of the invariant that says: as long as
no bulk call on the view has moved it, a baseline is the state with which its
constant entered, also in slots that hide theirs; and it needs that no constant
has two slots.

`EffectChangesProofs`, from `EffectInv`. It follows the sole writer of a file
through its stages: the scanned text until it truncates, nothing until it
writes, the edited text from then on (`Stage`), while memory stands still
(`MemoryIsAsked`) and tasks end with their call (`TasksEndInCall`).
`FirstSaveIsFaithful` and `SoleWriterLeavesNoThirdText` follow, and `EffectTypes`.
`SuccessMeansWritten` and `BystandersAreSafe` hold for any number of calls: the
former because a task is done only once its write is, the latter from an
invariant on every text a task holds or a file has (`Spares`), given
`UniqueIdents`: no two constants of one file share an identifier. Files where
two do, as conditional definitions may, are the ones in which one of them can be
edited for the other once its line has drifted (`Matched`).

`SessionProofs`, from two invariants, for any constants, files, edits, saves and
launches. `FilesInv` is about files: the task a save has in a file is the only
one on its way there, and what the file holds follows from how far that task is
(`Progress`): the text it found, nothing, or the text it edited. This is so for
every file outside `torn`, and, since `torn` remembers earlier launches, for every
file with a constant that has not lapsed (`Whole`). The first gives
`NothingVanishes`, `SessionTypeOK` and `OkMeansWritten`. `PromiseInv` is about a
constant that has not lapsed. Its view, its flag and its promise agree, and while
a save runs they agree with what the save was asked (`Agreed`); the text on disk,
or in the hands of the one task of its file, shows what is promised, or what is
asked if the task is its own (`Kept`). The delicate step is an edit: that the
constant is found again (`Matched`), that it is not marked twice, and that its
neighbours are not found in its stead, for which `UniqueIdents` is needed.
`Durable`, `PendingIsFlagged` and `SingleAttribute` follow, and
`BystandersUntouched` from `Spares`. Neither property is inductive without the
stages of the task: `Durable` speaks of moments of rest and says nothing of a
save that is half way. TLC found both invariants to hold on the instance of the
run `session` and on three others (a file that shifts when it is rewritten and a
constant in a `cfg_if`; two files; a larger one, which it searched in part)
before they were proved.

`CfgIfProofs`, for bodies of any length and blocks of any statements:
`TheParsersAgree`, `EveryBranchRead` and `EverySaveCostsScan`; from the first two
`ScanProofs` takes what it says of files. The save's parser is followed by its
states, one after each token; the scan's by what it reads from each token on. `Follows` relates the two at every `if` of the chain: what the
states come to in the end is what they had collected before, joined with what is
read from there. It is shown from the last branch to the first. The induction
theorems of the library cannot be used, for they take an operator; `Upwards`
and `Downwards` state induction for a *set* of numbers instead, from the least
element that every set of naturals has (`Least`), and `Recursion` shows in the
same way that a function defined by recursion exists and obeys its equation. The
definitions of `CfgIf` that recurse are recursive functions for this reason.

`RenderLoopProofs`, from `RenderInv`. Counting the report that `print_changes`
began with, reports in the channel alternate, and the last is an `effecting`
exactly if a task is between its two reports (`InStep`), until a save fails or
two overlap. A hung `print_changes` has an unanswered report and no task, which
that excludes: `HangsHaveCauses`. `ToldSavesAreAwaited` is an action property
from the same invariant, and `RenderTypes` its first part.

`TuiProofs`, from `TuiInv`. `RangeFits` says in numbers what `SelectionSpans`
says in rows: the range runs from the pivot to the cursor. It needs the bounds
of the list in `TypeOK`, for `extend` repeats the constants 9 and 10 that
`advance` takes from the view. `ModesKeepFocus`, `TogglesWhatIsSpanned`,
`SelectionsEnd` and `TuiTypes` follow, for any container, prompt and terminal,
resized at will. `NarrowPromptsAreSafe` and `TypingKeepsOrder` rest on where the
cursor stands in the bytes: without wide characters a column is a byte, and
what was typed since the last other key stands right before the cursor.

`ScanProofs`, from `ScanInv`, for any files, contents and number of launches: a
file is in one place on its way from the walk to the builder (`OnePlace`), none
that parses leaves the way (`Kept`), and the way is empty behind the gatherer's
end (`Drained`). `ScanCompletes` and `ScanTypes` follow; up to here what a
file's constants are stays opaque, and the proof holds for any parser. With the
lemmas of `CfgIfProofs` it gives `ScanReadsBranches` and `SavesMeetScans`, for
any contents. `ScanMissesWithCause` rests on what is at the path in each phase
and between launches (`RepoShape`).

`TerminalProofs`, from `TerminalInv`, for any number of messages and saves:
messages received are painted but for the last while it is being painted
(`InOrder`), a worker that is busy is waited for (`Alone`), and nothing is set
before `Raise` (`Set`). `MessagesArePainted`, `SpinnerIsAlone`, `FlagsGetPopped`
and `TerminalTypes` follow.

Every invariant and every action property of a passing run is stated by one of
these theorems, and so is the refinement of `Marks`. Only model-checked: liveness
(`CallReturns`, `StopQuitsUnlessHung`, `ScanReturns`, `SpinnerLetsGo`), which
TLAPS does not do under fairness; and the violations, which are single
behaviours of a small instance.

## What is not modelled

* Error types and their wording (`errors.rs`), which error a failure of cargo or
  gix is turned into, styles and the drawing of lists, the `repr!` and
  re-export macros: they keep no state and decide nothing that is modelled.
* The animation of the spinner, and the 128 ms it sleeps: a frame is a step.
* A failure or reordering of the runtime itself; a full disk is a failed write.
* The order in which the walk meets files; nothing depends on it.
* In `Session`: saves that overlap, ranges and regexes (a toggle takes any set
  of constants), and the order of attributes that `swap_remove` changes.
* Other programs that write to the checkout or to the terminal.

## Plan

1. (done) The components: `ConstContainer`, `EffectChanges`, `RenderLoop`, `Tui`,
   `Scan`, `CfgIf`, `Terminal`; the abstract `Marks` and its refinement; the
   composition `Session`; the runs above.
2. (done) The inductive invariants of all of them, and the proofs above.
3. The link between `Scan` and `Session` as a theorem: that `Found` is what
   `ScanIsComplete` leaves of the files of a session; and between `CfgIf` and
   `EffectChanges`, that `Visited` is what `MacroContainer` reads.
4. A bound on the steps of a scan, of a save and of `run_while` as a proved
   variant: the part of `ScanReturns`, `CallReturns` and `SpinnerLetsGo` that is
   not about fairness.
