------------------------------- MODULE Session -------------------------------
(***************************************************************************)
(* A user at work: the composition of the container, of the saves of       *)
(* EffectChanges, of the event loop, as far as it holds back events while  *)
(* a save is under way, and of a new scan when the program is launched     *)
(* again on the files it has left.                                         *)
(*                                                                         *)
(* The list is a view from borrowed() that is refilled in place: its slots *)
(* are its constants (ViewShape of ConstContainer), so that `seen`, the    *)
(* baselines, is by constant here, and what it shows is up to the prompt.  *)
(*                                                                         *)
(* Toggling a list sets the states of what is shown; a save writes what is *)
(* flagged.  Flags outlive a save, spans are those of the scan, and a save *)
(* reads the states while it runs: `lapsed` collects the constants whose   *)
(* changes this may lose, each where it happens, and the properties say    *)
(* that no others are lost.                                                *)
(***************************************************************************)
EXTENDS EffectChanges

CONSTANTS
  MaxRuns,   \* bound: launches of the program
  MaxEdits   \* bound: toggles

ASSUME SessionAssumption == MaxRuns \in Nat \ {0} /\ MaxEdits \in Nat

VARIABLES
  seen,      \* the baselines of the view of the list
  known,     \* the constants the last scan has found
  slip,      \* whether an event may still come in before draw waits for the save
  runs,      \* launches so far
  edits,     \* toggles so far
  (* History, read by the properties only. *)
  covered,   \* the constants whose change awaits a save, or its end
  promised,  \* their states on disk, as of the last save that reported success
  lapsed,    \* the constants for which no promise holds
  torn       \* the files two tasks shared, or that a save has left half way

user    == <<seen, known, slip, runs, edits>>
history == <<covered, promised, lapsed, torn>>
effects == <<disk, caller, calls, pc, text, io, loaded, asked, shared>>
sessionVars == <<vars, user, history>>

SessionTypeOK ==
  /\ TypeOK
  /\ seen \in [Consts -> BOOLEAN]
  /\ known \subseteq Consts
  /\ slip \in BOOLEAN
  /\ runs \in 1..MaxRuns
  /\ edits \in 0..MaxEdits
  /\ covered \subseteq Consts
  /\ promised \in [Consts -> BOOLEAN]
  /\ lapsed \subseteq Consts
  /\ torn \subseteq Files

SessionInit ==
  /\ Init
  /\ seen = deprecated
  /\ known = Consts
  /\ slip = FALSE
  /\ runs = 1
  /\ edits = 0
  /\ covered = {}
  /\ promised = deprecated
  /\ lapsed = {}
  /\ torn = {}

-----------------------------------------------------------------------------
\* No save is under way, and none has failed.
Quiet == caller \in {"idle", "ok"}

\* The event loop takes an event: any while it is quiet, and one more during a save
\* if draw came before the first report.  After a save that failed draw waits for
\* ever.
MayAct == Quiet \/ slip

InFiles(F) == {c \in Consts : FileOf[c] \in F}

\* A toggle deprecates the constants on show, unless all of them are.
NewState(S) == \E c \in S : ~deprecated[c]

\* f with the members of S mapped to v.
With(f, S, v) == [c \in Consts |-> IF c \in S THEN v ELSE f[c]]

\* deprecate()/undeprecate() over the slots of S: a flag says whether the state differs
\* from the baseline, which then moves.
Deprecate(S, yes) ==
  /\ deprecated' = With(deprecated, S, yes)
  /\ modified' = [c \in Consts |-> IF c \in S THEN seen[c] # yes ELSE modified[c]]
  /\ seen' = With(seen, S, yes)

\* select_mut over the slots of S: neither flag nor baseline.
Visit(S, yes) ==
  /\ deprecated' = With(deprecated, S, yes)
  /\ UNCHANGED <<modified, seen>>

\* An event that toggles constants.
Edited ==
  /\ MayAct
  /\ edits < MaxEdits
  /\ edits' = edits + 1
  /\ slip' = FALSE
  /\ UNCHANGED <<effects, known, runs, promised, torn>>

\* Mutant of Toggle: it goes behind the flags too.
ToggleUnflagged(S) ==
  /\ Edited
  /\ Visit(S, NewState(S))
  /\ covered' = covered \cup S
  /\ lapsed' = lapsed \cup (covered \cap S)

\* Toggle in normal mode: a bulk call over the list.  A second one before the
\* constant is saved may clear its flag, or flag what is on disk already; one while
\* it is being saved may change what is written.
Toggle(S) ==
  /\ Edited
  /\ Deprecate(S, NewState(S))
  /\ covered' = covered \cup S
  /\ lapsed' = lapsed \cup (covered \cap S)

\* toggle_in_select: the selected rows of the list, behind the flags.
ToggleInSelect(S) ==
  /\ Edited
  /\ Visit(S, NewState(S))
  /\ lapsed' = lapsed \cup S
  /\ UNCHANGED covered

\* A save would not find the constant: it has moved since the scan, or its cfg_if is
\* no longer one.
Drifted(c) == c \notin Matched(disk[FileOf[c]], c)

\* A save would push an attribute beside one that is there.
Repeated(c) == deprecated[c] /\ OnDisk(c)

\* The save event.  The flags of earlier saves are still up, so their constants
\* are written again.  If one save has failed and another is asked for in time,
\* draw waits for the end of that one.
Save ==
  /\ MayAct
  /\ Call
  /\ slip' = (caller # "error")
  /\ torn' = torn \cup shared'
  /\ lapsed' = lapsed \cup InFiles(shared')
              \cup {c \in Consts : modified[c] /\ (Drifted(c) \/ Repeated(c))}
  /\ covered' = covered \cup {c \in Consts : modified[c]}
  /\ UNCHANGED <<seen, known, runs, edits, promised>>

\* The files with a write of this run that has not come to its end.
HalfWay == {f \in Files : \E t \in Tasks : Path(t) = f /\ io[t] \in {"queued", "truncated", "failed"}}

\* The constants the save under way takes.
Taken == {c \in Consts : pc[<<calls, c>>] # "none"}

\* The tasks of a save go on, and it returns.
SaveStep ==
  /\ CallerStep \/ \E t \in Tasks : TaskStep(t) \/ IOStep(t)
  /\ IF caller' = "ok" /\ caller # "ok"
     THEN promised' = asked /\ covered' = covered \ Taken
     ELSE UNCHANGED <<promised, covered>>
  /\ torn' = IF caller' = "error" THEN torn \cup HalfWay ELSE torn
  /\ lapsed' = IF caller' = "error"
               THEN lapsed \cup Saved \cup InFiles(torn') ELSE lapsed
  /\ slip' = (slip /\ caller' # "ok")
  /\ UNCHANGED <<seen, known, runs, edits>>

\* The constants a scan finds: a file that is empty has none, one that is no valid
\* Rust, or has a cfg_if that was rewritten, is lost.
Found(texts) ==
  {c \in Consts :
     LET txt == texts[FileOf[c]]
     IN  /\ txt.kind = "source"
         /\ ~(txt.rewritten /\ InMacro \cap In(FileOf[c]) # {})}

\* The constants with more than one attribute, of which a save removes one.
Doubled == {c \in Consts : disk[FileOf[c]].attrs[c] > 1}

\* The program ends, in whatever state it is in, and is launched again: a scan
\* finds what is on disk.  A kill stops every write where it is; leaving the
\* program waits for the writes that have begun, which is to take these first.
\* The bound on calls is one on the saves of all launches.
Relaunch ==
  /\ runs < MaxRuns
  /\ runs' = runs + 1
  /\ known' = Found(disk)
  /\ loaded' = disk
  /\ deprecated' = [c \in Consts |-> c \in known' /\ OnDisk(c)]
  /\ modified' = [c \in Consts |-> FALSE]
  /\ seen' = deprecated'
  /\ caller' = "idle"
  /\ pc' = [t \in Tasks |-> "none"]
  /\ text' = [t \in Tasks |-> Empty]
  /\ io' = [t \in Tasks |-> "none"]
  /\ asked' = deprecated'
  /\ shared' = {}
  /\ slip' = FALSE
  /\ covered' = {}
  /\ torn' = IF Quiet THEN torn ELSE torn \cup HalfWay
  /\ lapsed' = (Consts \ known') \cup Doubled
  /\ LET unsure == lapsed \cup InFiles(torn') \cup IF Quiet THEN {} ELSE Saved
     IN  promised' = [c \in Consts |-> IF c \in unsure THEN OnDisk(c) ELSE promised[c]]
  /\ UNCHANGED <<disk, calls, edits>>

SessionNext ==
  \/ \E S \in SUBSET known \ {{}} : Toggle(S) \/ ToggleInSelect(S)
  \/ Save
  \/ SaveStep
  \/ Relaunch

SessionSpec == SessionInit /\ [][SessionNext]_sessionVars

-----------------------------------------------------------------------------
(* Properties *)

\* What a save has promised is on disk until another save says otherwise, over
\* edits, saves of other constants and restarts.
Durable == Quiet => \A c \in Consts \ lapsed : OnDisk(c) = promised[c]

\* What is in memory and not on disk is flagged, so that the next save takes it,
\* also when it was changed while a save was running.
PendingIsFlagged ==
  Quiet => \A c \in known \ lapsed : deprecated[c] = OnDisk(c) \/ modified[c]

\* A constant is missing from a scan only if its file has a cfg_if, which a save
\* rewrote, or a save of its file was cut short or met another.
NothingVanishes ==
  \A c \in Consts \ known : FileOf[c] \in torn \/ InMacro \cap In(FileOf[c]) # {}

\* A second attribute appears only on a constant that was toggled twice before a
\* save was over, or behind its flag, or that was saved twice as deprecated.
SingleAttribute ==
  \A c \in Consts \ lapsed :
    LET txt == disk[FileOf[c]]
    IN  txt.kind = "source" => txt.attrs[c] <= 1

-----------------------------------------------------------------------------
(* A claim of the documentation that the code does not keep *)

\* notes/main.typ:52-54: a save only adds attributes, so that a file it has written
\* whole is a source a scan can read.  Violated by the cfg_if it rewrites.
SavedFilesScan == \A c \in Consts : FileOf[c] \notin torn => c \in known
=============================================================================
