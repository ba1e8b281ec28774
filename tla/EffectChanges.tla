---------------------------- MODULE EffectChanges ----------------------------
(***************************************************************************)
(* ConstContainer::effect_changes: one task per flagged constant reads the *)
(* file of its constant, edits the attributes there, and writes the whole  *)
(* file back.  The tasks of a call run concurrently, share no lock, and    *)
(* hand their reads and writes to blocking threads that abortion does not  *)
(* stop.                                                                   *)
(*                                                                         *)
(* A file's text is abstracted to how many `deprecated` attributes each of *)
(* its constants carries, and to whether `prettyplease` has rewritten it:  *)
(* rewriting moves constants by Reflow lines and replaces the body of a    *)
(* `cfg_if` by its bare constants, which no later parse accepts.           *)
(***************************************************************************)
EXTENDS Integers, FiniteSets, FiniteSetsExt

CONSTANTS
  Consts,       \* the constants found by the scan
  Files,        \* the files they were found in
  FileOf,       \* FileOf[c]: the file of c
  Ident,        \* Ident[c]: its identifier; conditional definitions share one
  Line,         \* Line[c]: its line when no constant before it has the attribute
  Reflow,       \* Reflow[c]: the lines rewriting the file moves c by
  NoticeLines,  \* the lines one attribute takes
  InMacro,      \* the constants declared inside a cfg_if
  Unreliable,   \* the files on which an operation may fail
  MaxCalls      \* bound: calls of effect_changes

ASSUME EffectAssumption ==
  /\ FileOf \in [Consts -> Files]
  /\ Line \in [Consts -> Nat]
  /\ Reflow \in [Consts -> Int]
  /\ NoticeLines \in Nat \ {0}
  /\ InMacro \subseteq Consts
  /\ Unreliable \subseteq Files
  /\ MaxCalls \in Nat

VARIABLES
  deprecated,   \* Const::deprecated
  modified,     \* the flag paired with each constant
  disk,         \* disk[f]: the text of the file
  caller,       \* where the caller of effect_changes is
  calls,        \* calls begun so far
  pc,           \* pc[t]: where task t is in its async block
  text,         \* text[t]: the file as t last read, or edited, it
  io,           \* io[t]: the blocking write of t, which outlives it
  (* History, read by the properties only. *)
  loaded,       \* the text of each file when it was scanned
  asked,        \* the memory state when the last call began
  shared        \* the files two tasks, or their writes, were busy with at once

vars == <<deprecated, modified, disk, caller, calls, pc, text, io, loaded, asked, shared>>

Tasks == (1..MaxCalls) \X Consts
Target(t) == t[2]
Path(t)   == FileOf[Target(t)]
In(f)     == {c \in Consts : FileOf[c] = f}

Callers == {"idle", "joining", "stopping", "ok", "error"}
PCs     == {"none", "ready", "reading", "editing", "saving", "done", "failed", "aborted"}
IOs     == {"none", "queued", "truncated", "written", "failed"}
Texts   == [kind : {"source", "empty", "garbled"}, attrs : [Consts -> Nat],
            rewritten : BOOLEAN]

TypeOK ==
  /\ deprecated \in [Consts -> BOOLEAN]
  /\ modified \in [Consts -> BOOLEAN]
  /\ disk \in [Files -> Texts]
  /\ caller \in Callers
  /\ calls \in 0..MaxCalls
  /\ pc \in [Tasks -> PCs]
  /\ text \in [Tasks -> Texts]
  /\ io \in [Tasks -> IOs]
  /\ loaded \in [Files -> Texts]
  /\ asked \in [Consts -> BOOLEAN]
  /\ shared \subseteq Files

-----------------------------------------------------------------------------
(* Texts *)

NoAttrs == [c \in Consts |-> 0]
Source(attrs) == [kind |-> "source", attrs |-> attrs, rewritten |-> FALSE]
Empty   == [kind |-> "empty", attrs |-> NoAttrs, rewritten |-> FALSE]
Garbled == [kind |-> "garbled", attrs |-> NoAttrs, rewritten |-> FALSE]

\* The line a constant starts at: the attributes of the constants above it push
\* it down, its own do not, for its span begins at its first attribute.
Start(txt, c) ==
  Line[c] + (IF txt.rewritten THEN Reflow[c] ELSE 0)
    + NoticeLines * MapThenSumSet(LAMBDA d : txt.attrs[d],
                                  {d \in In(FileOf[c]) : Line[d] < Line[c]})

\* Const::span, taken once, when the file was scanned.
Span(c) == Start(loaded[FileOf[c]], c)

\* The constants of file f that traverse_constants visits: a cfg_if whose body
\* is bare constants does not parse, and is passed over.
Visited(txt, f) ==
  IF txt.kind = "source"
  THEN {c \in In(f) : ~(txt.rewritten /\ c \in InMacro)} ELSE {}

\* Mutant of Matched: whatever the traversal comes to.
MatchedAnyway(txt, c) == Visited(txt, FileOf[c])

\* The visited items the task of c takes for its constant.
Matched(txt, c) ==
  {d \in Visited(txt, FileOf[c]) : Start(txt, d) = Span(c) /\ Ident[d] = Ident[c]}

\* Mutants of Amend: an attribute is removed without looking for one; one is
\* pushed whatever the state.
AmendUnchecked(n, yes) == IF yes THEN n + 1 ELSE n - 1
AmendUpwards(n, yes)   == n + 1

\* Pushing an attribute, or removing one if there is any.
Amend(n, yes) == IF yes THEN n + 1 ELSE IF n > 0 THEN n - 1 ELSE 0

\* The text unparsed after the traversal.  A file read as empty stays empty.
Edit(txt, c, yes) ==
  IF txt.kind = "source"
  THEN [kind |-> "source", rewritten |-> TRUE,
        attrs |-> [d \in Consts |-> IF d \in Matched(txt, c)
                                    THEN Amend(txt.attrs[d], yes) ELSE txt.attrs[d]]]
  ELSE txt

Size(txt) == MapThenSumSet(LAMBDA d : txt.attrs[d], Consts)

\* A write starts at offset 0 of what is there: text longer than the new one,
\* left by another writer since the truncation, shows behind it.
Overwrite(old, new) ==
  IF old.kind # "empty" /\ (old.kind = "garbled" \/ new.kind = "empty" \/ Size(old) > Size(new))
  THEN Garbled ELSE new

-----------------------------------------------------------------------------
Live(t)    == pc[t] \in {"ready", "reading", "editing", "saving"}
Writing(t) == io[t] \in {"queued", "truncated"}

Init ==
  /\ loaded \in [Files -> {Source(attrs) : attrs \in [Consts -> {0, 1}]}]
  /\ \A c \in Consts, f \in Files : FileOf[c] # f => loaded[f].attrs[c] = 0
  /\ disk = loaded
  /\ deprecated = [c \in Consts |-> loaded[FileOf[c]].attrs[c] > 0]
  /\ modified = [c \in Consts |-> FALSE]
  /\ caller = "idle"
  /\ calls = 0
  /\ pc = [t \in Tasks |-> "none"]
  /\ text = [t \in Tasks |-> Empty]
  /\ io = [t \in Tasks |-> "none"]
  /\ asked = deprecated
  /\ shared = {}

\* A bulk call over a view that shows just c, whose baseline is the state in
\* memory (BaselineTracksMemory of ConstContainer).  The bound on calls bounds
\* these too: nothing reads the memory after the last call.
BulkSet(c, yes) ==
  /\ caller \in {"idle", "ok", "error"}
  /\ calls < MaxCalls
  /\ deprecated' = [deprecated EXCEPT ![c] = yes]
  /\ modified' = [modified EXCEPT ![c] = deprecated[c] # yes]
  /\ UNCHANGED <<disk, caller, calls, pc, text, io, loaded, asked, shared>>

\* effect_changes spawns a task for every flagged constant.
Call ==
  /\ caller \in {"idle", "ok", "error"}
  /\ calls < MaxCalls
  /\ caller' = "joining"
  /\ calls' = calls + 1
  /\ LET spawned == {t \in Tasks : t[1] = calls' /\ modified[Target(t)]}
         busy    == spawned \cup {t \in Tasks : Writing(t)}
     IN  /\ pc' = [t \in Tasks |-> IF t \in spawned THEN "ready" ELSE pc[t]]
         /\ shared' = shared \cup
              {f \in Files : \E t \in spawned, u \in busy : t # u /\ {Path(t), Path(u)} = {f}}
  /\ asked' = deprecated
  /\ UNCHANGED <<deprecated, modified, disk, text, io, loaded>>

\* The task is polled for the first time: its read goes to a blocking thread.
Begin(t) ==
  /\ caller = "joining"
  /\ pc[t] = "ready"
  /\ pc' = [pc EXCEPT ![t] = "reading"]
  /\ UNCHANGED <<deprecated, modified, disk, caller, calls, text, io, loaded, asked, shared>>

\* The read ends; what was read is parsed when the task is polled again.
Read(t) ==
  /\ pc[t] = "reading"
  /\ pc' = [pc EXCEPT ![t] = "editing"]
  /\ text' = [text EXCEPT ![t] = disk[Path(t)]]
  /\ UNCHANGED <<deprecated, modified, disk, caller, calls, io, loaded, asked, shared>>

ReadFails(t) ==
  /\ pc[t] = "reading"
  /\ Path(t) \in Unreliable
  /\ pc' = [pc EXCEPT ![t] = "failed"]
  /\ UNCHANGED <<deprecated, modified, disk, caller, calls, text, io, loaded, asked, shared>>

\* One poll: parse, edit, unparse, and hand the write to a blocking thread.  A
\* poll under way when the task is aborted runs to its end.
EditAndSave(t) ==
  /\ pc[t] = "editing"
  /\ IF text[t].kind = "garbled"
     THEN /\ pc' = [pc EXCEPT ![t] = "failed"]
          /\ UNCHANGED <<text, io>>
     ELSE /\ pc' = [pc EXCEPT ![t] = "saving"]
          /\ text' = [text EXCEPT ![t] = Edit(@, Target(t), deprecated[Target(t)])]
          /\ io' = [io EXCEPT ![t] = "queued"]
  /\ UNCHANGED <<deprecated, modified, disk, caller, calls, loaded, asked, shared>>

\* The blocking write, first half: the file is opened and truncated.
Truncate(t) ==
  /\ io[t] = "queued"
  /\ io' = [io EXCEPT ![t] = "truncated"]
  /\ disk' = [disk EXCEPT ![Path(t)] = Empty]
  /\ UNCHANGED <<deprecated, modified, caller, calls, pc, text, loaded, asked, shared>>

\* The blocking write, second half.
Write(t) ==
  /\ io[t] = "truncated"
  /\ io' = [io EXCEPT ![t] = "written"]
  /\ disk' = [disk EXCEPT ![Path(t)] = Overwrite(@, text[t])]
  /\ UNCHANGED <<deprecated, modified, caller, calls, pc, text, loaded, asked, shared>>

\* Either half fails; the file keeps what it has.
WriteFails(t) ==
  /\ Writing(t)
  /\ Path(t) \in Unreliable
  /\ io' = [io EXCEPT ![t] = "failed"]
  /\ UNCHANGED <<deprecated, modified, disk, caller, calls, pc, text, loaded, asked, shared>>

\* Mutant of Finish: an error of the write is passed over.
FinishBlindly(t) ==
  /\ pc[t] = "saving"
  /\ io[t] \in {"written", "failed"}
  /\ pc' = [pc EXCEPT ![t] = "done"]
  /\ UNCHANGED <<deprecated, modified, disk, caller, calls, text, io, loaded, asked, shared>>

\* Mutant of Finish: a write that failed is never reported back.
FinishIfWritten(t) ==
  /\ pc[t] = "saving"
  /\ io[t] = "written"
  /\ pc' = [pc EXCEPT ![t] = "done"]
  /\ UNCHANGED <<deprecated, modified, disk, caller, calls, text, io, loaded, asked, shared>>

\* Mutant of Finish: the write is not waited for.
FinishEarly(t) ==
  /\ pc[t] = "saving"
  /\ pc' = [pc EXCEPT ![t] = "done"]
  /\ UNCHANGED <<deprecated, modified, disk, caller, calls, text, io, loaded, asked, shared>>

\* The task learns how its write went.
Finish(t) ==
  /\ pc[t] = "saving"
  /\ io[t] \in {"written", "failed"}
  /\ pc' = [pc EXCEPT ![t] = IF io[t] = "written" THEN "done" ELSE "failed"]
  /\ UNCHANGED <<deprecated, modified, disk, caller, calls, text, io, loaded, asked, shared>>

\* The caller joins a failed task, and asks the others to stop.
JoinFailed ==
  /\ caller = "joining"
  /\ \E c \in Consts : pc[<<calls, c>>] = "failed"
  /\ caller' = "stopping"
  /\ UNCHANGED <<deprecated, modified, disk, calls, pc, text, io, loaded, asked, shared>>

\* Mutant of Abort: the write is dropped with the task, wherever it is.
AbortWithWrite(t) ==
  /\ caller = "stopping"
  /\ Live(t)
  /\ pc' = [pc EXCEPT ![t] = "aborted"]
  /\ io' = [io EXCEPT ![t] = IF Writing(t) THEN "written" ELSE @]
  /\ UNCHANGED <<deprecated, modified, disk, caller, calls, text, loaded, asked, shared>>

\* JoinSet::shutdown drops a task at an await point; its write goes on.
Abort(t) ==
  /\ caller = "stopping"
  /\ Live(t)
  /\ pc' = [pc EXCEPT ![t] = "aborted"]
  /\ UNCHANGED <<deprecated, modified, disk, caller, calls, text, io, loaded, asked, shared>>

\* effect_changes returns once no task of the call is left.
Return ==
  /\ \/ /\ caller = "joining"
        /\ \A c \in Consts : pc[<<calls, c>>] \in {"none", "done"}
        /\ caller' = "ok"
     \/ /\ caller = "stopping"
        /\ \A c \in Consts : ~Live(<<calls, c>>)
        /\ caller' = "error"
  /\ UNCHANGED <<deprecated, modified, disk, calls, pc, text, io, loaded, asked, shared>>

TaskStep(t) == Begin(t) \/ Read(t) \/ ReadFails(t) \/ EditAndSave(t) \/ Finish(t) \/ Abort(t)
IOStep(t)   == Truncate(t) \/ Write(t) \/ WriteFails(t)
CallerStep  == JoinFailed \/ Return

Next ==
  \/ \E c \in Consts, yes \in BOOLEAN : BulkSet(c, yes)
  \/ Call
  \/ CallerStep
  \/ \E t \in Tasks : TaskStep(t) \/ IOStep(t)

Spec == Init /\ [][Next]_vars

\* The runtime polls every woken task and the caller, and the operating system
\* completes every read and write it was given.
FairSpec ==
  /\ Spec
  /\ WF_vars(CallerStep)
  /\ \A t \in Tasks : WF_vars(TaskStep(t)) /\ WF_vars(IOStep(t))

-----------------------------------------------------------------------------
(* Properties *)

\* What a constant's file says of it.
OnDisk(c) == disk[FileOf[c]].kind = "source" /\ disk[FileOf[c]].attrs[c] > 0

\* The constants some call spawned a task for.
Saved == {c \in Consts : \E k \in 1..MaxCalls : pc[<<k, c>>] # "none"}

\* Writes to f that are under way, or have failed and may have left anything.
Unsettled(f) == \E t \in Tasks : Path(t) = f /\ (Writing(t) \/ io[t] = "failed")

\* A first save that reports success has put the state of every flagged constant
\* on disk, provided that no file held two of them.
FirstSaveLands ==
  caller = "ok" /\ calls = 1
    => \A c \in Saved : FileOf[c] \notin shared => OnDisk(c) = asked[c]

\* During and after a first call, however it ends, a file that one task was busy
\* with has the scanned text or the edited one: abortion leaves no third.
SoleWriterIsAtomic ==
  \A f \in Files :
    calls <= 1 /\ f \notin shared /\ ~Unsettled(f)
      => disk[f] \in {loaded[f]} \cup {Edit(loaded[f], c, asked[c]) : c \in Saved \cap In(f)}

\* However tasks overlap and lines drift, a text that is still whole has the
\* scanned attributes on every constant nobody flagged: identifiers are checked
\* besides positions.  Needs identifiers that are unique within a file.
BystandersUntouched ==
  \A c \in Consts \ Saved : disk[FileOf[c]].kind = "source"
    => disk[FileOf[c]].attrs[c] = loaded[FileOf[c]].attrs[c]

\* A call reports success only if every write it began went through: none of its
\* own is under way or failed, whatever an earlier call has left behind.
OkMeansWritten ==
  caller = "ok" => \A c \in Consts : io[<<calls, c>>] \in {"none", "written"}
                                      /\ (io[<<calls, c>>] = "none" => pc[<<calls, c>>] = "none")

\* Every call returns, whatever fails.
CallReturns == caller = "joining" ~> caller \in {"ok", "error"}

-----------------------------------------------------------------------------
(* The inductive invariant behind FirstSaveLands and SoleWriterIsAtomic, proved *)
(* in EffectChangesProofs: one writer goes through the file from the scanned    *)
(* text, over the truncated one, to the edited one.                             *)

LoadedIsSource ==
  \A f \in Files : loaded[f] \in {Source(attrs) : attrs \in [Consts -> {0, 1}]}

\* Memory stands still while effect_changes runs.
MemoryIsAsked == caller \in {"joining", "stopping"} => deprecated = asked

NothingBegun ==
  calls = 0 => /\ shared = {} /\ disk = loaded /\ caller = "idle"
               /\ \A t \in Tasks : pc[t] = "none" /\ io[t] = "none"

OnlyFirstCall ==
  calls = 1 => \A t \in Tasks : t[1] # 1 \/ pc[t] = "none" => pc[t] = "none" /\ io[t] = "none"

SoleTask ==
  calls = 1 => \A t, u \in Tasks :
    Path(t) = Path(u) /\ Path(t) \notin shared /\ pc[t] # "none" /\ pc[u] # "none" => t = u

IdleFile ==
  calls = 1 => \A f \in Files :
    (\A t \in Tasks : Path(t) = f => pc[t] = "none") => disk[f] = loaded[f]

Stage(t) ==
  /\ pc[t] \in {"ready", "reading", "editing"} => io[t] = "none"
  /\ pc[t] = "editing" => text[t] = loaded[Path(t)]
  /\ pc[t] = "saving" => io[t] # "none"
  /\ pc[t] = "done" => io[t] = "written"
  /\ io[t] \in {"none", "queued"} => disk[Path(t)] = loaded[Path(t)]
  /\ io[t] = "truncated" => disk[Path(t)] = Empty
  /\ io[t] = "written" => disk[Path(t)] = text[t]
  /\ io[t] # "none" => text[t] = Edit(loaded[Path(t)], Target(t), asked[Target(t)])

SoleStages ==
  calls = 1 => \A t \in Tasks : pc[t] # "none" /\ Path(t) \notin shared => Stage(t)

\* No task outlives the call that spawned it, though its write may.
TasksEndInCall ==
  \A t \in Tasks : Live(t) => caller \in {"joining", "stopping"} /\ t[1] = calls

OkIsDone ==
  caller = "ok" /\ calls = 1 => \A t \in Tasks : pc[t] \in {"none", "done"}

EffectInv ==
  /\ TypeOK
  /\ LoadedIsSource
  /\ MemoryIsAsked
  /\ NothingBegun
  /\ OnlyFirstCall
  /\ SoleTask
  /\ IdleFile
  /\ SoleStages
  /\ TasksEndInCall
  /\ OkIsDone

-----------------------------------------------------------------------------
(* A claim of the documentation that the code does not keep *)

\* constant_container.rs:203: the changes registered are effected on disk.
\* Violated when two flagged constants live in one file.
SaveLands == caller = "ok" => \A c \in Saved : OnDisk(c) = asked[c]
=============================================================================
