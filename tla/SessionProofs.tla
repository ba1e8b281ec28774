----------------------------- MODULE SessionProofs -----------------------------
(***************************************************************************)
(* What a session promises for any constants, files, edits, saves and      *)
(* launches: the constants that are not in `lapsed` keep what was promised *)
(* of them, and a file that is not in `torn` can be scanned.               *)
(*                                                                         *)
(* The invariant behind both follows the one task that a save has in a     *)
(* file, from the text it finds to the one it leaves.                      *)
(***************************************************************************)
EXTENDS Session, EffectChangesProofs

-----------------------------------------------------------------------------
(* The inductive invariant *)

\* A save is under way.
Running == caller \in {"joining", "stopping"}

\* A task of the save under way.
Mine(t) == Running /\ t[1] = calls /\ pc[t] # "none"

\* No task of the save under way is in file f.
AtRest(f) == \A t \in Tasks : Path(t) = f => ~Mine(t)

\* Whatever is lost over a file is lost for each of its constants.
HistoryInv ==
  /\ Consts \ known \subseteq lapsed
  /\ InFiles(shared) \subseteq lapsed
  /\ shared \subseteq torn

IsSource(txt) == txt.kind = "source"

\* A file that no save of this run has torn, though one of an earlier run may have.
Whole(f) == f \notin torn \/ \E c \in Consts \ lapsed : FileOf[c] = f

\* Where the file stands by the time its task is where it is: the text that was
\* found, nothing, the text that was edited, and either of the first two after a
\* failure.
Progress(t) ==
  LET f == Path(t)
  IN  /\ pc[t] = "editing" => text[t] = disk[f]
      /\ io[t] \in {"none", "queued"} => IsSource(disk[f])
      /\ io[t] \in {"queued", "truncated", "written"} => IsSource(text[t])
      /\ io[t] = "truncated" => disk[f] = Empty
      /\ io[t] = "written" => disk[f] = text[t]

Sound(f) ==
  /\ \A t \in Tasks : Path(t) = f /\ ~Mine(t) => io[t] \in {"none", "written"}
  /\ \A t, u \in Tasks : Path(t) = f /\ Path(u) = f /\ Mine(t) /\ Mine(u) => t = u
  /\ AtRest(f) => IsSource(disk[f])
  /\ \A t \in Tasks : Path(t) = f /\ Mine(t) => Progress(t)

\* A whole file has one writer, and can be read whenever that one is not at work.
FileInv == \A f \in Files : Whole(f) => Sound(f)

FilesInv ==
  /\ SessionTypeOK
  /\ TasksEndInCall
  /\ OrderInv
  /\ HistoryInv
  /\ FileInv

\* The views, the flags and the promises agree on every constant that has not
\* lapsed; what the save under way has taken has not been changed since.
Agreed(c) ==
  /\ seen[c] = deprecated[c]
  /\ deprecated[c] = promised[c] \/ modified[c]
  /\ c \notin covered => seen[c] = promised[c]
  /\ Running /\ c \in Taken => deprecated[c] = asked[c] /\ c \in covered
  /\ Running /\ c \notin Taken => asked[c] = promised[c]

\* A text has one attribute or none on c, as c is to be.
Shows(txt, c, yes) == txt.attrs[c] = IF yes THEN 1 ELSE 0

\* What task t does about c: the text it finds keeps the promise, and the one it
\* edits keeps the next if c is its own constant, which it will find.
Keeps(t, c) ==
  LET f == Path(t)
  IN  /\ io[t] \in {"none", "queued", "failed"} /\ IsSource(disk[f]) => Shows(disk[f], c, promised[c])
      /\ io[t] \in {"queued", "truncated", "written"} =>
           Shows(text[t], c, IF c = Target(t) THEN asked[c] ELSE promised[c])
      /\ io[t] = "none" /\ c = Target(t) =>
           c \in Matched(disk[f], c) /\ ~(asked[c] /\ promised[c])

Kept(c) ==
  /\ AtRest(FileOf[c]) => Shows(disk[FileOf[c]], c, promised[c])
  /\ \A t \in Tasks : Path(t) = FileOf[c] /\ Mine(t) => Keeps(t, c)

PromiseInv == \A c \in Consts \ lapsed : Agreed(c) /\ Kept(c)

-----------------------------------------------------------------------------
(* Types, tasks and history *)

\* The steps of the session that are steps of effect_changes.
LEMMA EffectSteps == Save \/ SaveStep => Next
BY DEF Save, SaveStep, Next

\* The state a session starts in is well formed.
LEMMA TypesInit == SessionInit => SessionTypeOK
<1>. SUFFICES ASSUME SessionInit PROVE SessionTypeOK
  OBVIOUS
<1>1. TypeOK
  BY TypeInit DEF SessionInit
<1>2. runs \in 1..MaxRuns /\ edits \in 0..MaxEdits
  BY SessionAssumption DEF SessionInit
<1>. QED BY <1>1, <1>2 DEF SessionInit, SessionTypeOK, TypeOK

\* Toggles, of what is spanned or of what is selected, keep the state well formed.
LEMMA TypesToggle ==
  ASSUME SessionTypeOK, NEW S \in SUBSET known, Toggle(S) \/ ToggleInSelect(S)
  PROVE  SessionTypeOK'
<1>. USE DEF Toggle, ToggleInSelect, Deprecate, Visit, With, Edited, effects
<1>1. NewState(S) \in BOOLEAN /\ S \subseteq Consts
  BY DEF NewState, SessionTypeOK
<1>2. deprecated' \in [Consts -> BOOLEAN] /\ modified' \in [Consts -> BOOLEAN]
  BY <1>1 DEF SessionTypeOK, TypeOK
<1>3. seen' \in [Consts -> BOOLEAN] /\ known' = known
  BY <1>1 DEF SessionTypeOK
<1>4. TypeOK'
  BY <1>2 DEF SessionTypeOK, TypeOK
<1>5. edits' \in 0..MaxEdits
  BY SessionAssumption DEF SessionTypeOK
<1>6. covered' \subseteq Consts /\ lapsed' \subseteq Consts
  BY <1>1 DEF SessionTypeOK
<1>. QED BY <1>3, <1>4, <1>5, <1>6 DEF SessionTypeOK

\* Saves and their steps keep the state well formed.
LEMMA TypesSave ==
  ASSUME SessionTypeOK, Save \/ SaveStep
  PROVE  SessionTypeOK'
<1>1. TypeOK'
  BY TypeNext, EffectSteps DEF SessionTypeOK
<1>2. CASE Save
  BY <1>1, <1>2 DEF Save, InFiles, SessionTypeOK, TypeOK
<1>3. CASE SaveStep
  BY <1>1, <1>3 DEF SaveStep, InFiles, HalfWay, Saved, SessionTypeOK, TypeOK
<1>. QED BY <1>2, <1>3

\* Restarts keep the state well formed.
LEMMA TypesRelaunch ==
  ASSUME SessionTypeOK, Relaunch
  PROVE  SessionTypeOK'
<1>. USE DEF Relaunch
<1>1. TypeOK'
  BY EmptyType DEF SessionTypeOK, TypeOK, Callers, PCs, IOs
<1>2. seen' \in [Consts -> BOOLEAN] /\ known' \subseteq Consts
  BY DEF Found
<1>3. runs' \in 1..MaxRuns
  BY SessionAssumption DEF SessionTypeOK
<1>4. promised' \in [Consts -> BOOLEAN]
  BY DEF SessionTypeOK, OnDisk
<1>5. lapsed' \subseteq Consts /\ torn' \subseteq Files
  BY <1>2 DEF SessionTypeOK, Doubled, HalfWay
<1>. QED BY <1>1, <1>2, <1>3, <1>4, <1>5 DEF SessionTypeOK

\* Every step keeps the state well formed.
LEMMA TypesNext == SessionTypeOK /\ [SessionNext]_sessionVars => SessionTypeOK'
<1>. SUFFICES ASSUME SessionTypeOK, [SessionNext]_sessionVars PROVE SessionTypeOK'
  OBVIOUS
<1>1. CASE UNCHANGED sessionVars
  BY <1>1 DEF sessionVars, vars, user, history, SessionTypeOK, TypeOK
<1>. QED BY <1>1, TypesToggle, TypesSave, TypesRelaunch DEF SessionNext

\* An edit stirs no task, and no file.
LEMMA ToggleFrame ==
  ASSUME NEW S, Toggle(S) \/ ToggleInSelect(S)
  PROVE  /\ UNCHANGED <<disk, caller, calls, pc, text, io, loaded, asked, shared>>
         /\ UNCHANGED <<known, promised, torn>>
         /\ lapsed \subseteq lapsed'
BY DEF Toggle, ToggleInSelect, Edited, effects

\* Tasks end with their call, and go through their stages in order.
LEMMA TasksKept == FilesInv /\ [SessionNext]_sessionVars => TasksEndInCall' /\ OrderInv'
<1>. SUFFICES ASSUME FilesInv, [SessionNext]_sessionVars PROVE TasksEndInCall' /\ OrderInv'
  OBVIOUS
<1>0. SessionTypeOK /\ TypeOK /\ TasksEndInCall /\ OrderInv
  BY DEF FilesInv, SessionTypeOK
<1>1. CASE UNCHANGED <<caller, calls, pc, io>>
  BY <1>0, <1>1 DEF TasksEndInCall, OrderInv, Ordered, Live
<1>2. ASSUME NEW S \in SUBSET known, Toggle(S) \/ ToggleInSelect(S)
      PROVE  UNCHANGED <<caller, calls, pc, io>>
  BY <1>2, ToggleFrame
<1>3. CASE Save \/ SaveStep
  BY <1>0, <1>3, EffectSteps, TasksNext, OrderNext
<1>4. CASE Relaunch
  BY <1>0, <1>4 DEF Relaunch, TasksEndInCall, OrderInv, Ordered, Live
<1>5. CASE UNCHANGED sessionVars
  BY <1>1, <1>5 DEF sessionVars, vars
<1>. QED BY <1>1, <1>2, <1>3, <1>4, <1>5 DEF SessionNext

\* HistoryInv is kept.
LEMMA HistoryKept == FilesInv /\ [SessionNext]_sessionVars => HistoryInv'
<1>. SUFFICES ASSUME FilesInv, [SessionNext]_sessionVars PROVE HistoryInv'
  OBVIOUS
<1>. USE DEF HistoryInv, InFiles
<1>0. HistoryInv
  BY DEF FilesInv
<1>1. CASE UNCHANGED <<known, shared>> /\ lapsed \subseteq lapsed' /\ torn \subseteq torn'
  BY <1>0, <1>1
<1>2. ASSUME NEW S \in SUBSET known, Toggle(S) \/ ToggleInSelect(S) PROVE HistoryInv'
  BY <1>1, <1>2, ToggleFrame
<1>3. CASE Save
  BY <1>0, <1>3 DEF Save
<1>4. CASE SaveStep
  <2>1. UNCHANGED <<known, shared>>
    BY <1>4 DEF SaveStep, CallerStep, JoinFailed, Return, TaskStep, IOStep, Begin, Read, ReadFails,
                EditAndSave, Finish, Abort, Truncate, Write, WriteFails
  <2>. QED BY <1>1, <1>4, <2>1 DEF SaveStep
<1>5. CASE Relaunch
  BY <1>5 DEF Relaunch
<1>6. CASE UNCHANGED sessionVars
  BY <1>1, <1>6 DEF sessionVars, vars, user, history
<1>. QED BY <1>2, <1>3, <1>4, <1>5, <1>6 DEF SessionNext

-----------------------------------------------------------------------------
(* Whole files *)

\* A constant that has not lapsed is in a whole file.
LEMMA InWhole ==
  ASSUME NEW c \in Consts \ lapsed
  PROVE  FileOf[c] \in Files /\ Whole(FileOf[c])
BY EffectAssumption DEF Whole

\* While a run lasts, files are torn and constants lapse for good.
LEMMA WholeBefore ==
  ASSUME torn \subseteq torn', lapsed \subseteq lapsed', NEW f, Whole(f)'
  PROVE  Whole(f)
BY DEF Whole

\* No two tasks of a run have met in a whole file.
LEMMA WholeIsUnshared ==
  ASSUME HistoryInv, NEW f, Whole(f)
  PROVE  f \notin shared
BY DEF HistoryInv, InFiles, Whole

\* The tasks of a save are Mine from the moment they are spawned until it returns.
LEMMA AliveIsMine ==
  ASSUME FilesInv, NEW t \in Tasks, Live(t)
  PROVE  Mine(t)
BY DEF FilesInv, TasksEndInCall, Mine, Running, Live

\* So is any task with a write under way in a whole file.
LEMMA WriterIsMine ==
  ASSUME FilesInv, NEW t \in Tasks, Whole(Path(t)), Writing(t)
  PROVE  Mine(t)
BY TaskFacts DEF FilesInv, FileInv, Sound, Writing

\* What Sound says of a file depends on the file and its tasks.
LEMMA SoundFrame ==
  ASSUME NEW f, Sound(f), UNCHANGED <<caller, calls, disk, pc, text, io>>
  PROVE  Sound(f)'
BY DEF Sound, AtRest, Progress, Mine, Running, IsSource, Path, Target

\* A step of one task, or of its write, in a file of its own.
LEMMA OneTaskSound ==
  ASSUME FilesInv, NEW t \in Tasks, NEW f \in Files, Whole(f),
         Path(t) = f => Mine(t) /\ Mine(t)' /\ Progress(t)',
         \A u \in Tasks : u # t => pc'[u] = pc[u] /\ io'[u] = io[u] /\ text'[u] = text[u],
         \A g \in Files : g # Path(t) => disk'[g] = disk[g],
         UNCHANGED <<caller, calls>>
  PROVE  Sound(f)'
<1>0. Sound(f)
  BY DEF FilesInv, FileInv
<1>1. \A u \in Tasks : u # t => (Mine(u)' <=> Mine(u))
  BY DEF Mine, Running
<1>2. CASE Path(t) = f
  <2>1. Mine(t) /\ Mine(t)' /\ Progress(t)'
    BY <1>2
  <2>2. \A u \in Tasks : Path(u) = f /\ Mine(u)' => u = t
    BY <1>0, <1>1, <1>2, <2>1 DEF Sound
  <2>3. \A u \in Tasks : Path(u) = f /\ ~Mine(u)' => io'[u] \in {"none", "written"}
    BY <1>0, <1>1, <1>2, <2>1 DEF Sound
  <2>4. ~AtRest(f)'
    BY <1>2, <2>1 DEF AtRest, Path, Target
  <2>. QED BY <2>1, <2>2, <2>3, <2>4 DEF Sound, Path, Target
<1>3. CASE Path(t) # f
  <2>1. disk'[f] = disk[f]
    BY <1>3
  <2>2. \A u \in Tasks : Path(u) = f => (Mine(u)' <=> Mine(u)) /\ pc'[u] = pc[u] /\ io'[u] = io[u] /\ text'[u] = text[u]
    BY <1>1, <1>3
  <2>3. \A u \in Tasks : Path(u) = f /\ Mine(u)' => Progress(u)'
    BY <1>0, <2>1, <2>2 DEF Sound, Progress, IsSource, Path, Target
  <2>4. AtRest(f)' => AtRest(f)
    BY <2>2 DEF AtRest, Path, Target
  <2>. QED BY <1>0, <2>1, <2>2, <2>3, <2>4 DEF Sound, IsSource, Path, Target
<1>. QED BY <1>2, <1>3

-----------------------------------------------------------------------------
(* The steps of a save keep whole files sound *)

\* Where the task of a step is, in a whole file.
LEMMA ProgressNow ==
  ASSUME FilesInv, NEW t \in Tasks, Whole(Path(t)), Mine(t)
  PROVE  Ordered(t) /\ Progress(t)
BY TaskFacts DEF FilesInv, OrderInv, FileInv, Sound

\* The one writer of a file stays its writer, and on its way, over its own steps.
LEMMA TaskProgress ==
  ASSUME FilesInv, NEW t \in Tasks, TaskStep(t), Whole(Path(t))
  PROVE  Mine(t) /\ Mine(t)' /\ Progress(t)'
<1>. USE DEF TaskStep, Begin, Read, ReadFails, EditAndSave, Finish, Abort
<1>0. /\ pc \in [Tasks -> PCs] /\ io \in [Tasks -> IOs]
      /\ text \in [Tasks -> Texts] /\ disk \in [Files -> Texts]
  BY DEF FilesInv, SessionTypeOK, TypeOK
<1>1. Mine(t)
  BY AliveIsMine DEF Live
<1>2. Ordered(t) /\ Progress(t)
  BY <1>1, ProgressNow
<1>3. Mine(t)'
  BY <1>0, <1>1 DEF Mine, Running
<1>4. CASE EditAndSave(t)
  <2>1. io[t] = "none" /\ IsSource(text[t])
    BY <1>2, <1>4 DEF Ordered, Progress
  <2>2. IsSource(Edit(text[t], Target(t), deprecated[Target(t)]))
    BY <2>1 DEF IsSource, Edit
  <2>3. pc'[t] = "saving" /\ io'[t] = "queued" /\ disk' = disk /\ IsSource(text'[t])
    BY <1>0, <1>4, <2>1, <2>2 DEF IsSource
  <2>. QED BY <1>1, <1>2, <1>3, <2>1, <2>3 DEF Progress, IsSource, Path, Target
<1>5. CASE Read(t)
  BY <1>0, <1>1, <1>2, <1>3, <1>5 DEF Ordered, Progress, IsSource, Path, Target
<1>6. CASE Begin(t) \/ ReadFails(t) \/ Finish(t) \/ Abort(t)
  BY <1>0, <1>1, <1>2, <1>3, <1>6 DEF Progress, IsSource, Path, Target
<1>. QED BY <1>4, <1>5, <1>6

\* The one writer of a file stays on its way over the steps of its write.
LEMMA WriteProgress ==
  ASSUME FilesInv, NEW t \in Tasks, IOStep(t), Whole(Path(t))
  PROVE  Mine(t) /\ Mine(t)' /\ Progress(t)'
<1>. USE DEF IOStep, Truncate, Write, WriteFails
<1>0. /\ pc \in [Tasks -> PCs] /\ io \in [Tasks -> IOs]
      /\ text \in [Tasks -> Texts] /\ disk \in [Files -> Texts] /\ Path(t) \in Files
  BY TaskFacts DEF FilesInv, SessionTypeOK, TypeOK
<1>1. Mine(t) /\ Mine(t)'
  BY WriterIsMine DEF Writing, Mine, Running
<1>2. Ordered(t) /\ Progress(t)
  BY <1>1, ProgressNow
<1>3. pc[t] # "editing" /\ pc' = pc /\ text' = text
  BY <1>2 DEF Ordered, Writing
<1>4. CASE Truncate(t)
  BY <1>0, <1>1, <1>2, <1>3, <1>4 DEF Progress, IsSource, Path, Target
<1>5. CASE Write(t)
  <2>1. disk'[Path(t)] = text[t] /\ io'[t] = "written"
    BY <1>0, <1>2, <1>5, OverwriteEmpty DEF Progress
  <2>. QED BY <1>1, <1>2, <1>3, <1>5, <2>1 DEF Progress, IsSource, Path, Target
<1>6. CASE WriteFails(t)
  BY <1>0, <1>1, <1>2, <1>3, <1>6 DEF Progress, IsSource, Path, Target
<1>. QED BY <1>4, <1>5, <1>6

\* The rest of the state, over a step of a task or of its write.
LEMMA TaskFrame ==
  ASSUME TypeOK, NEW t \in Tasks, TaskStep(t) \/ IOStep(t)
  PROVE  /\ \A u \in Tasks : u # t => pc'[u] = pc[u] /\ io'[u] = io[u] /\ text'[u] = text[u]
         /\ \A g \in Files : g # Path(t) => disk'[g] = disk[g]
         /\ UNCHANGED <<deprecated, modified, caller, calls, loaded, asked, shared>>
BY TaskFacts DEF TypeOK, TaskStep, IOStep, Begin, Read, ReadFails, EditAndSave, Finish, Abort,
      Truncate, Write, WriteFails

\* Steps of tasks and writes leave every whole file as its writer has it.
LEMMA TaskSound ==
  ASSUME FilesInv, NEW t \in Tasks, TaskStep(t) \/ IOStep(t), NEW f \in Files, Whole(f)
  PROVE  Sound(f)'
<1>1. Path(t) = f => Mine(t) /\ Mine(t)' /\ Progress(t)'
  BY TaskProgress, WriteProgress
<1>2. TypeOK
  BY DEF FilesInv, SessionTypeOK
<1>. QED BY <1>1, <1>2, TaskFrame, OneTaskSound

\* A whole file has no write that is under way or has failed once a save has
\* ended in an error.
LEMMA ErrorLeavesWhole ==
  ASSUME SaveStep, caller' = "error", NEW f, Whole(f)'
  PROVE  f \notin HalfWay
BY DEF SaveStep, Whole, InFiles

\* So does the end of a save, whichever it is.
LEMMA CallerSound ==
  ASSUME FilesInv, SaveStep, CallerStep, NEW f \in Files, Whole(f), Whole(f)'
  PROVE  Sound(f)'
<1>. USE DEF CallerStep, JoinFailed, Return
<1>0. /\ Sound(f) /\ OrderInv /\ io \in [Tasks -> IOs] /\ calls \in Nat
      /\ UNCHANGED <<calls, disk, pc, text, io>>
  BY DEF FilesInv, SessionTypeOK, TypeOK, FileInv
<1>1. CASE JoinFailed
  BY <1>0, <1>1 DEF Sound, AtRest, Progress, Mine, Running, IsSource, Path, Target
<1>2. ASSUME NEW t \in Tasks, Path(t) = f, Mine(t), caller' \in {"ok", "error"}
      PROVE  io[t] \in {"none", "written"} /\ IsSource(disk[f])
  <2>1. t = <<calls, Target(t)>> /\ Target(t) \in Consts
    BY <1>2 DEF Mine, Tasks, Target
  <2>2. CASE caller' = "ok"
    BY <1>0, <1>2, <2>1, <2>2 DEF OrderInv, Ordered, Mine, Running, Sound, Progress
  <2>3. CASE caller' = "error"
    <3>1. f \notin HalfWay
      BY <2>3, ErrorLeavesWhole
    <3>2. io[t] \in {"none", "written"}
      BY <1>0, <1>2, <3>1 DEF HalfWay, IOs
    <3>. QED BY <1>0, <1>2, <3>2 DEF Sound, Progress
  <2>. QED BY <1>2, <2>2, <2>3
<1>3. CASE Return
  <2>1. caller' \in {"ok", "error"} /\ \A t \in Tasks : ~Mine(t)'
    BY <1>3 DEF Mine, Running
  <2>2. IsSource(disk[f])
    BY <1>0, <1>2, <2>1 DEF Sound, AtRest
  <2>3. \A t \in Tasks : Path(t) = f => io[t] \in {"none", "written"}
    BY <1>0, <1>2, <2>1 DEF Sound
  <2>. QED BY <1>0, <2>1, <2>2, <2>3 DEF Sound, IsSource, Path, Target
<1>. QED BY <1>1, <1>3

\* A task that a save spawns is the only one in its file, or the file is shared.
LEMMA SaveSound ==
  ASSUME FilesInv, Save, NEW f \in Files, Whole(f), f \notin shared'
  PROVE  Sound(f)'
<1>. DEFINE spawned == {t \in Tasks : t[1] = calls' /\ modified[Target(t)]}
            busy    == spawned \cup {t \in Tasks : Writing(t)}
<1>0. Sound(f) /\ OrderInv /\ calls \in Nat
  BY DEF FilesInv, SessionTypeOK, TypeOK, FileInv
<1>1. /\ caller \in {"idle", "ok", "error"}
      /\ caller' = "joining" /\ calls' = calls + 1
      /\ pc' = [t \in Tasks |-> IF t \in spawned THEN "ready" ELSE pc[t]]
      /\ shared' = shared \cup
           {g \in Files : \E t \in spawned, u \in busy : t # u /\ {Path(t), Path(u)} = {g}}
      /\ UNCHANGED <<disk, text, io>>
  BY DEF Save, Call
<1>. HIDE DEF busy
<1>2. \A t \in Tasks : ~Mine(t)
  BY <1>1 DEF Mine, Running
<1>3. \A t \in Tasks : t[1] = calls' => pc[t] = "none" /\ io[t] = "none"
  BY <1>0, <1>1 DEF OrderInv, Ordered
<1>4. \A t \in Tasks : Mine(t)' <=> t \in spawned
  BY <1>1, <1>3 DEF Mine, Running
<1>5. \A t, u \in spawned : Path(t) = f /\ Path(u) = f => t = u
  <2>. SUFFICES ASSUME NEW t \in spawned, NEW u \in spawned, Path(t) = f, Path(u) = f, t # u
                PROVE  f \in shared'
    OBVIOUS
  <2>1. u \in busy
    BY DEF busy
  <2>. HIDE DEF spawned
  <2>. QED BY <1>1, <2>1
<1>6. \A t \in Tasks : Path(t) = f => io[t] \in {"none", "written"}
  BY <1>0, <1>2 DEF Sound
<1>7. IsSource(disk[f])
  BY <1>0, <1>2 DEF Sound, AtRest
<1>8. \A t \in spawned : Path(t) = f => Progress(t)'
  BY <1>1, <1>3, <1>7 DEF Progress, IsSource, Path, Target
<1>. HIDE DEF spawned
<1>. QED BY <1>1, <1>4, <1>5, <1>6, <1>7, <1>8 DEF Sound, IsSource, Path, Target

-----------------------------------------------------------------------------
(* Restarts *)

\* A whole file in which no write is half way can be read.
LEMMA SoundIsReadable ==
  ASSUME FilesInv, NEW f \in Files, Whole(f), Quiet \/ f \notin HalfWay
  PROVE  IsSource(disk[f])
<1>0. Sound(f) /\ io \in [Tasks -> IOs]
  BY DEF FilesInv, SessionTypeOK, TypeOK, FileInv
<1>1. CASE AtRest(f)
  BY <1>0, <1>1 DEF Sound
<1>2. CASE ~AtRest(f)
  <2>1. PICK t \in Tasks : Path(t) = f /\ Mine(t)
    BY <1>2 DEF AtRest
  <2>2. ~Quiet
    BY <2>1 DEF Quiet, Mine, Running
  <2>3. io[t] \in {"none", "written"}
    BY <1>0, <2>1, <2>2 DEF HalfWay, IOs
  <2>. QED BY <1>0, <2>1, <2>3 DEF Sound, Progress
<1>. QED BY <1>1, <1>2

\* What a restart finds in a file that nothing has torn is a source text.
LEMMA RelaunchReadable ==
  ASSUME FilesInv, Relaunch, NEW f \in Files, f \notin torn'
  PROVE  IsSource(disk[f])
<1>1. f \notin torn /\ (Quiet \/ f \notin HalfWay)
  BY DEF Relaunch
<1>. QED BY <1>1, SoundIsReadable DEF Whole

\* The scan after a restart knows every whole file as it is.
LEMMA RelaunchSound ==
  ASSUME FilesInv, Relaunch, NEW f \in Files, Whole(f)'
  PROVE  Sound(f)'
<1>1. \A t \in Tasks : ~Mine(t)' /\ io'[t] = "none"
  BY DEF Relaunch, Mine, Running
<1>2. IsSource(disk[f])
  <2>1. CASE f \notin torn'
    BY <2>1, RelaunchReadable
  <2>2. CASE f \in torn'
    <3>1. PICK c \in Consts \ lapsed' : FileOf[c] = f
      BY <2>2 DEF Whole
    <3>2. c \in known'
      BY <3>1 DEF Relaunch
    <3>. QED BY <3>1, <3>2 DEF Relaunch, Found, IsSource
  <2>. QED BY <2>1, <2>2
<1>. QED BY <1>1, <1>2 DEF Sound, IsSource, Relaunch

-----------------------------------------------------------------------------
(* FilesInv *)

\* FilesInv holds at the start.
LEMMA FilesInit == SessionInit => FilesInv
<1>. SUFFICES ASSUME SessionInit PROVE FilesInv
  OBVIOUS
<1>1. SessionTypeOK
  BY TypesInit
<1>2. TasksEndInCall /\ OrderInv
  BY OrderInit DEF SessionInit, Init, TasksEndInCall, Live
<1>3. HistoryInv
  BY DEF SessionInit, Init, HistoryInv, InFiles
<1>4. FileInv
  <2>1. \A f \in Files : IsSource(disk[f])
    BY DEF SessionInit, Init, Source, IsSource
  <2>. QED BY <2>1 DEF SessionInit, Init, FileInv, Sound, Mine, Running
<1>. QED BY <1>1, <1>2, <1>3, <1>4 DEF FilesInv

\* FilesInv is inductive.
LEMMA FilesNext == FilesInv /\ [SessionNext]_sessionVars => FilesInv'
<1>. SUFFICES ASSUME FilesInv, [SessionNext]_sessionVars PROVE FilesInv'
  OBVIOUS
<1>0. SessionTypeOK' /\ TasksEndInCall' /\ OrderInv' /\ HistoryInv'
  BY TypesNext, TasksKept, HistoryKept DEF FilesInv
<1>. SUFFICES ASSUME NEW f \in Files, Whole(f)'
              PROVE  Sound(f)'
  BY <1>0 DEF FilesInv, FileInv
<1>1. ASSUME torn \subseteq torn', lapsed \subseteq lapsed', UNCHANGED <<caller, calls, disk, pc, text, io>>
      PROVE  Sound(f)'
  BY <1>1, WholeBefore, SoundFrame DEF FilesInv, FileInv
<1>2. ASSUME NEW S \in SUBSET known, Toggle(S) \/ ToggleInSelect(S)
      PROVE  Sound(f)'
  BY <1>1, <1>2, ToggleFrame
<1>3. CASE Save
  <2>1. Whole(f) /\ f \notin shared'
    BY <1>0, <1>3, WholeBefore, WholeIsUnshared DEF Save, HistoryInv, Whole, InFiles
  <2>. QED BY <1>3, <2>1, SaveSound
<1>4. CASE SaveStep
  <2>1. Whole(f)
    BY <1>4, WholeBefore DEF SaveStep
  <2>. QED BY <1>4, <2>1, CallerSound, TaskSound DEF SaveStep
<1>5. CASE Relaunch
  BY <1>5, RelaunchSound
<1>6. CASE UNCHANGED sessionVars
  BY <1>1, <1>6 DEF sessionVars, vars, history
<1>. QED BY <1>2, <1>3, <1>4, <1>5, <1>6 DEF SessionNext

\* Every file that no save has torn has its one writer, its text, and its place in
\* the history of the session.
THEOREM FilesInvariant == SessionSpec => []FilesInv
BY FilesInit, FilesNext, PTL DEF SessionSpec

\* Edits, saves and restarts leave the state of the program well formed.
THEOREM SessionTypes == SessionSpec => []SessionTypeOK
<1>1. FilesInv => SessionTypeOK
  BY DEF FilesInv
<1>. QED BY <1>1, FilesInvariant, PTL

\* A scan misses a constant only if its file has a cfg_if, or a save of its file was
\* cut short or met another: nothing else that a session does makes a file unreadable.
THEOREM ScansMissNothingElse == SessionSpec => []NothingVanishes
<1>1. SessionInit => NothingVanishes
  BY DEF SessionInit, NothingVanishes
<1>2. FilesInv /\ NothingVanishes /\ [SessionNext]_sessionVars => NothingVanishes'
  <2>. SUFFICES ASSUME FilesInv, NothingVanishes, [SessionNext]_sessionVars PROVE NothingVanishes'
    OBVIOUS
  <2>1. CASE UNCHANGED known /\ torn \subseteq torn'
    BY <2>1 DEF NothingVanishes
  <2>2. ASSUME NEW S \in SUBSET known, Toggle(S) \/ ToggleInSelect(S) PROVE NothingVanishes'
    BY <2>1, <2>2, ToggleFrame
  <2>3. CASE Save \/ SaveStep
    BY <2>1, <2>3 DEF Save, SaveStep
  <2>4. CASE Relaunch
    <3>. SUFFICES ASSUME NEW c \in Consts \ known', FileOf[c] \notin torn'
                  PROVE  InMacro \cap In(FileOf[c]) # {}
      BY DEF NothingVanishes
    <3>1. IsSource(disk[FileOf[c]])
      BY <2>4, RelaunchReadable, EffectAssumption
    <3>. QED BY <2>4, <3>1 DEF Relaunch, Found, IsSource
  <2>5. CASE UNCHANGED sessionVars
    BY <2>1, <2>5 DEF sessionVars, user, history
  <2>. QED BY <2>2, <2>3, <2>4, <2>5 DEF SessionNext
<1>. QED BY <1>1, <1>2, FilesInvariant, PTL DEF SessionSpec

\* Over edits during saves, failed saves and restarts too, a save reports success
\* only if every write it began went through.
THEOREM SessionSuccessMeansWritten == SessionSpec => []OkMeansWritten
<1>1. FilesInv => OkMeansWritten
  BY OrderMeansWritten DEF FilesInv, SessionTypeOK
<1>. QED BY <1>1, FilesInvariant, PTL

\* Within a run, a file that can still be read has the attributes it was scanned
\* with on the constants that no save of the run has taken.
THEOREM SessionSparesBystanders ==
  ASSUME UniqueIdents
  PROVE  SessionSpec => []BystandersUntouched
<1>1. SessionInit => BystanderInv
  BY DEF SessionInit, Init, BystanderInv, Spares, Empty
<1>2. FilesInv /\ BystanderInv /\ [SessionNext]_sessionVars => BystanderInv'
  <2>. SUFFICES ASSUME FilesInv, BystanderInv, [SessionNext]_sessionVars PROVE BystanderInv'
    OBVIOUS
  <2>1. CASE UNCHANGED <<disk, pc, text, loaded>>
    BY <2>1, SavedGrows, BystanderFrame
  <2>2. ASSUME NEW S \in SUBSET known, Toggle(S) \/ ToggleInSelect(S) PROVE BystanderInv'
    BY <2>1, <2>2, ToggleFrame
  <2>3. CASE Save \/ SaveStep
    BY <2>3, EffectSteps, BystanderNext DEF FilesInv, SessionTypeOK
  <2>4. CASE Relaunch
    BY <2>4 DEF Relaunch, BystanderInv, Spares, Empty
  <2>5. CASE UNCHANGED sessionVars
    BY <2>1, <2>5 DEF sessionVars, vars
  <2>. QED BY <2>2, <2>3, <2>4, <2>5 DEF SessionNext
<1>3. BystanderInv => BystandersUntouched
  BY DEF BystanderInv, Spares, BystandersUntouched
<1>. QED BY <1>1, <1>2, <1>3, FilesInvariant, PTL DEF SessionSpec

-----------------------------------------------------------------------------
(* Promises: what an edit does to them *)

\* A task edits its own constant as asked, if it finds it and it is not there yet.
LEMMA EditShowsOwn ==
  ASSUME NEW txt \in Texts, IsSource(txt), NEW c \in Consts, c \in Matched(txt, c),
         NEW old \in BOOLEAN, NEW yes \in BOOLEAN, Shows(txt, c, old), ~(yes /\ old)
  PROVE  Shows(Edit(txt, c, yes), c, yes)
<1>1. Edit(txt, c, yes).attrs[c] = Amend(txt.attrs[c], yes)
  BY DEF Edit, IsSource
<1>2. Amend(txt.attrs[c], yes) = IF yes THEN 1 ELSE 0
  BY DEF Amend, Shows
<1>. QED BY <1>1, <1>2 DEF Shows

\* It passes over the others, whose identifiers differ.
LEMMA EditShowsOthers ==
  ASSUME UniqueIdents, NEW txt, IsSource(txt), NEW c \in Consts, NEW d \in Consts, c # d,
         FileOf[c] = FileOf[d], NEW old \in BOOLEAN, NEW yes \in BOOLEAN, Shows(txt, c, old)
  PROVE  Shows(Edit(txt, d, yes), c, old)
<1>1. c \notin Matched(txt, d)
  BY DEF UniqueIdents, Matched
<1>. QED BY <1>1 DEF Shows, Edit, IsSource

\* What a task would find depends on the scan and on the file.
LEMMA MatchedFrame ==
  ASSUME loaded' = loaded, NEW f, disk'[f] = disk[f], NEW c
  PROVE  Matched(disk[f], c)' = Matched(disk[f], c)
BY DEF Matched, Span

\* A task keeps a constant while its file, its text and what was asked stay as they are.
LEMMA KeepsFrame ==
  ASSUME NEW t, NEW c, Keeps(t, c), disk'[Path(t)] = disk[Path(t)], text'[t] = text[t],
         UNCHANGED <<loaded, asked, promised, io>>
  PROVE  Keeps(t, c)'
<1>1. Matched(disk[Path(t)], c)' = Matched(disk[Path(t)], c)
  BY MatchedFrame DEF Path, Target
<1>. QED BY <1>1 DEF Keeps, Shows, IsSource, Path, Target

\* So do all of them.
LEMMA KeptFrame ==
  ASSUME NEW c, Kept(c), UNCHANGED <<caller, calls, disk, pc, text, io, loaded, asked, promised>>
  PROVE  Kept(c)'
<1>1. \A t \in Tasks : Path(t) = FileOf[c] /\ Mine(t) => Keeps(t, c)'
  BY KeepsFrame DEF Kept
<1>. QED BY <1>1 DEF Kept, AtRest, Mine, Running, Shows, Path, Target

\* A step of one task in a file of its own.
LEMMA OneTaskKept ==
  ASSUME FilesInv, NEW t \in Tasks, NEW c \in Consts \ lapsed, Kept(c),
         Path(t) = FileOf[c] => Mine(t) /\ Mine(t)' /\ Keeps(t, c)',
         \A u \in Tasks : u # t => pc'[u] = pc[u] /\ io'[u] = io[u] /\ text'[u] = text[u],
         \A g \in Files : g # Path(t) => disk'[g] = disk[g],
         UNCHANGED <<caller, calls, loaded, asked, promised>>
  PROVE  Kept(c)'
<1>. DEFINE f == FileOf[c]
<1>0. f \in Files /\ Sound(f)
  BY InWhole DEF FilesInv, FileInv
<1>1. \A u \in Tasks : u # t => (Mine(u)' <=> Mine(u))
  BY DEF Mine, Running
<1>2. CASE Path(t) = f
  <2>1. Mine(t) /\ Mine(t)' /\ Keeps(t, c)'
    BY <1>2
  <2>2. \A u \in Tasks : Path(u) = f /\ Mine(u)' => u = t
    BY <1>0, <1>1, <1>2, <2>1 DEF Sound
  <2>3. ~AtRest(f)'
    BY <1>2, <2>1 DEF AtRest, Path, Target
  <2>. QED BY <2>1, <2>2, <2>3 DEF Kept, Path, Target
<1>3. CASE Path(t) # f
  <2>1. disk'[f] = disk[f]
    BY <1>0, <1>3
  <2>2. \A u \in Tasks : Path(u) = f => (Mine(u)' <=> Mine(u)) /\ io'[u] = io[u] /\ text'[u] = text[u]
    BY <1>1, <1>3
  <2>3. ASSUME NEW u \in Tasks, Path(u) = f, Mine(u)' PROVE Keeps(u, c)'
    <3>1. Keeps(u, c)
      BY <2>2, <2>3 DEF Kept
    <3>2. Matched(disk[Path(u)], c)' = Matched(disk[Path(u)], c)
      BY <2>1, <2>3, MatchedFrame DEF Path, Target
    <3>. QED BY <2>1, <2>2, <2>3, <3>1, <3>2 DEF Keeps, Shows, IsSource, Path, Target
  <2>4. AtRest(f)' => AtRest(f)
    BY <2>2 DEF AtRest, Path, Target
  <2>. QED BY <2>1, <2>3, <2>4 DEF Kept, Shows, Path, Target
<1>. QED BY <1>2, <1>3

-----------------------------------------------------------------------------
(* Promises: the steps of a task *)

\* Memory is as it was asked for when a task edits a constant that has not lapsed.
LEMMA TaskKeeps ==
  ASSUME UniqueIdents, FilesInv, PromiseInv, NEW t \in Tasks, TaskStep(t), promised' = promised,
         NEW c \in Consts \ lapsed, Path(t) = FileOf[c]
  PROVE  Keeps(t, c)'
<1>. USE DEF TaskStep, Begin, Read, ReadFails, EditAndSave, Finish, Abort
<1>0. /\ pc \in [Tasks -> PCs] /\ io \in [Tasks -> IOs] /\ calls \in Nat
      /\ text \in [Tasks -> Texts] /\ disk \in [Files -> Texts]
      /\ promised \in [Consts -> BOOLEAN] /\ deprecated \in [Consts -> BOOLEAN]
      /\ asked \in [Consts -> BOOLEAN]
  BY DEF FilesInv, SessionTypeOK, TypeOK
<1>1. Whole(Path(t)) /\ Mine(t)
  BY InWhole, TaskProgress
<1>2. Ordered(t) /\ Progress(t) /\ Keeps(t, c)
  BY <1>1, ProgressNow DEF PromiseInv, Kept
<1>3. UNCHANGED <<disk, loaded, asked>>
  OBVIOUS
<1>4. CASE EditAndSave(t)
  <2>. DEFINE d == Target(t)
  <2>1. io[t] = "none" /\ text[t] = disk[Path(t)] /\ IsSource(text[t])
    BY <1>2, <1>4 DEF Ordered, Progress
  <2>2. /\ io'[t] = "queued"
        /\ text'[t] = Edit(text[t], d, deprecated[d])
    BY <1>0, <1>4, <2>1 DEF IsSource
  <2>3. Shows(disk[Path(t)], c, promised[c])
    BY <1>2, <2>1 DEF Keeps
  <2>4. CASE c = d
    <3>1. t = <<calls, c>>
      BY <1>1, <2>4 DEF Mine, Tasks, Target
    <3>2. deprecated[c] = asked[c]
      BY <1>1, <3>1 DEF PromiseInv, Agreed, Mine, Taken
    <3>3. c \in Matched(text[t], c) /\ ~(asked[c] /\ promised[c])
      BY <1>2, <2>1, <2>4 DEF Keeps
    <3>4. text[t] \in Texts /\ promised[c] \in BOOLEAN /\ asked[c] \in BOOLEAN
      BY <1>0
    <3>5. Shows(text'[t], c, asked[c])
      BY <2>1, <2>2, <2>3, <2>4, <3>2, <3>3, <3>4, EditShowsOwn
    <3>. QED BY <1>3, <2>2, <2>3, <2>4, <3>5 DEF Keeps, Shows, Path, Target
  <2>5. CASE c # d
    <3>1. d \in Consts /\ FileOf[c] = FileOf[d]
      BY TaskFacts
    <3>2. promised[c] \in BOOLEAN /\ deprecated[d] \in BOOLEAN
      BY <1>0, <3>1
    <3>3. Shows(text'[t], c, promised[c])
      BY <2>1, <2>2, <2>3, <2>5, <3>1, <3>2, EditShowsOthers
    <3>. QED BY <1>3, <2>2, <2>3, <2>5, <3>3 DEF Keeps, Shows, Path, Target
  <2>. QED BY <2>4, <2>5
<1>5. CASE Read(t)
  <2>1. io'[t] = "none"
    BY <1>2, <1>5 DEF Ordered
  <2>2. Matched(disk[Path(t)], c)' = Matched(disk[Path(t)], c)
    BY <1>3, MatchedFrame DEF Path, Target
  <2>. QED BY <1>2, <1>3, <1>5, <2>1, <2>2 DEF Keeps, Shows, IsSource, Path, Target
<1>6. CASE Begin(t) \/ ReadFails(t) \/ Finish(t) \/ Abort(t)
  BY <1>2, <1>3, <1>6, KeepsFrame
<1>. QED BY <1>4, <1>5, <1>6

\* A write keeps the constants of its file.
LEMMA WriteKeeps ==
  ASSUME FilesInv, PromiseInv, NEW t \in Tasks, IOStep(t), promised' = promised,
         NEW c \in Consts \ lapsed, Path(t) = FileOf[c]
  PROVE  Keeps(t, c)'
<1>. USE DEF IOStep, Truncate, Write, WriteFails
<1>0. io \in [Tasks -> IOs] /\ disk \in [Files -> Texts] /\ Path(t) \in Files
  BY TaskFacts DEF FilesInv, SessionTypeOK, TypeOK
<1>1. Whole(Path(t)) /\ Mine(t)
  BY InWhole, WriteProgress
<1>2. Progress(t) /\ Keeps(t, c)
  BY <1>1, ProgressNow DEF PromiseInv, Kept
<1>3. UNCHANGED <<text, loaded, asked>>
  OBVIOUS
<1>4. CASE Truncate(t) \/ Write(t)
  <2>1. io'[t] \in {"truncated", "written"} /\ io[t] \in {"queued", "truncated"}
    BY <1>0, <1>4
  <2>. QED BY <1>2, <1>3, <2>1 DEF Keeps, Shows, Path, Target
<1>5. CASE WriteFails(t)
  <2>1. io'[t] = "failed" /\ disk' = disk
    BY <1>0, <1>5
  <2>2. IsSource(disk[Path(t)]) => io[t] = "queued"
    BY <1>2, <1>5 DEF Writing, Progress, IsSource, Empty
  <2>. QED BY <1>2, <2>1, <2>2 DEF Keeps, Shows, IsSource, Path, Target
<1>. QED BY <1>4, <1>5

\* Steps of tasks start none and forget none.
LEMMA TaskStays ==
  ASSUME TypeOK, NEW t \in Tasks, TaskStep(t) \/ IOStep(t), NEW u \in Tasks
  PROVE  pc'[u] # "none" <=> pc[u] # "none"
BY DEF TypeOK, TaskStep, IOStep, Begin, Read, ReadFails, EditAndSave, Finish, Abort, Live,
       Truncate, Write, WriteFails

\* In the eyes of a constant that has not lapsed, the step of a task changes no more
\* than its own file.
LEMMA TaskPromise ==
  ASSUME UniqueIdents, FilesInv, PromiseInv, SaveStep, NEW t \in Tasks, TaskStep(t) \/ IOStep(t),
         NEW c \in Consts \ lapsed
  PROVE  Agreed(c)' /\ Kept(c)'
<1>0. TypeOK /\ Agreed(c) /\ Kept(c)
  BY DEF FilesInv, SessionTypeOK, PromiseInv
<1>1. UNCHANGED <<deprecated, modified, caller, calls, loaded, asked, shared>>
  BY <1>0, TaskFrame
<1>2. UNCHANGED <<seen, promised, covered>>
  BY <1>1 DEF SaveStep
<1>3. Path(t) = FileOf[c] => Mine(t) /\ Mine(t)' /\ Keeps(t, c)'
  BY <1>2, InWhole, TaskProgress, WriteProgress, TaskKeeps, WriteKeeps
<1>4. Kept(c)'
  BY <1>0, <1>1, <1>2, <1>3, TaskFrame, OneTaskKept
<1>5. Running => (c \in Taken' <=> c \in Taken)
  <2>. SUFFICES ASSUME Running PROVE pc'[<<calls, c>>] # "none" <=> pc[<<calls, c>>] # "none"
    BY <1>1 DEF Taken
  <2>1. calls \in 1..MaxCalls
    BY DEF FilesInv, SessionTypeOK, TypeOK, OrderInv, Running
  <2>2. <<calls, c>> \in Tasks
    BY <2>1 DEF Tasks
  <2>. QED BY <1>0, <2>2, TaskStays
<1>6. Agreed(c)'
  BY <1>0, <1>1, <1>2, <1>5 DEF Agreed, Running
<1>. QED BY <1>4, <1>6

-----------------------------------------------------------------------------
(* Promises: the end of a save *)

\* The constant a task in c's file is for: c itself, if the save has taken c.
LEMMA OneTarget ==
  ASSUME FilesInv, NEW c \in Consts \ lapsed, Running
  PROVE  /\ \A t \in Tasks : Mine(t) => t = <<calls, Target(t)>> /\ Target(t) \in Taken
         /\ c \in Taken => <<calls, c>> \in Tasks /\ Mine(<<calls, c>>)
                           /\ Path(<<calls, c>>) = FileOf[c] /\ Target(<<calls, c>>) = c
         /\ c \in Taken => \A t \in Tasks : Path(t) = FileOf[c] /\ Mine(t) => Target(t) = c
<1>1. calls \in 1..MaxCalls
  BY DEF FilesInv, SessionTypeOK, TypeOK, OrderInv, Running
<1>2. \A t \in Tasks : Mine(t) => t = <<calls, Target(t)>> /\ Target(t) \in Taken
  BY DEF Mine, Tasks, Target, Taken
<1>3. c \in Taken => <<calls, c>> \in Tasks /\ Mine(<<calls, c>>)
                     /\ Path(<<calls, c>>) = FileOf[c] /\ Target(<<calls, c>>) = c
  BY <1>1 DEF Mine, Tasks, Target, Path, Taken
<1>4. Sound(FileOf[c])
  BY InWhole DEF FilesInv, FileInv
<1>5. c \in Taken => \A t \in Tasks : Path(t) = FileOf[c] /\ Mine(t) => t = <<calls, c>>
  BY <1>3, <1>4 DEF Sound
<1>. QED BY <1>2, <1>3, <1>5

\* A save that fails as a whole breaks no promise.
LEMMA JoinPromise ==
  ASSUME FilesInv, PromiseInv, SaveStep, JoinFailed, NEW c \in Consts \ lapsed
  PROVE  Agreed(c)' /\ Kept(c)'
<1>0. Agreed(c) /\ Kept(c)
  BY DEF PromiseInv
<1>1. /\ UNCHANGED <<deprecated, modified, disk, calls, pc, text, io, loaded, asked>>
      /\ caller = "joining" /\ caller' = "stopping"
  BY DEF JoinFailed
<1>2. UNCHANGED <<seen, promised, covered>>
  BY <1>1 DEF SaveStep
<1>3. \A t \in Tasks : Mine(t)' <=> Mine(t)
  BY <1>1 DEF Mine, Running
<1>4. \A t \in Tasks : Path(t) = FileOf[c] /\ Mine(t) => Keeps(t, c)'
  BY <1>0, <1>1, <1>2, KeepsFrame DEF Kept
<1>5. Kept(c)'
  BY <1>0, <1>1, <1>2, <1>3, <1>4 DEF Kept, AtRest, Shows, Path, Target
<1>. QED BY <1>0, <1>1, <1>2, <1>5 DEF Agreed, Running, Taken

\* Success: what was asked is promised, and on disk.
LEMMA OkPromise ==
  ASSUME FilesInv, PromiseInv, SaveStep, Return, caller' = "ok", NEW c \in Consts \ lapsed
  PROVE  Agreed(c)' /\ Kept(c)'
<1>0. Agreed(c) /\ Kept(c) /\ OrderInv /\ Sound(FileOf[c])
  BY InWhole DEF FilesInv, FileInv, PromiseInv
<1>1. /\ UNCHANGED <<deprecated, modified, disk, calls, pc, text, io, loaded, asked>>
      /\ caller = "joining" /\ \A d \in Consts : pc[<<calls, d>>] \in {"none", "done"}
  BY DEF Return
<1>2. promised' = asked /\ covered' = covered \ Taken /\ seen' = seen
  BY <1>1 DEF SaveStep
<1>3. Running /\ ~Running' /\ \A t \in Tasks : ~Mine(t)'
  BY <1>1 DEF Mine, Running
<1>4. Agreed(c)'
  BY <1>0, <1>1, <1>2, <1>3 DEF Agreed
<1>5. Shows(disk[FileOf[c]], c, asked[c])
  <2>1. CASE AtRest(FileOf[c])
    <3>1. c \notin Taken
      BY <1>3, <2>1, OneTarget DEF AtRest
    <3>. QED BY <1>0, <1>3, <2>1, <3>1 DEF Kept, Agreed
  <2>2. ASSUME NEW t \in Tasks, Path(t) = FileOf[c], Mine(t)
        PROVE  Shows(disk[FileOf[c]], c, asked[c])
    <3>0. t = <<calls, Target(t)>> /\ Target(t) \in Consts /\ pc[t] # "none"
      BY <1>3, <2>2, OneTarget, TaskFacts DEF Mine
    <3>1. pc[t] = "done"
      BY <1>1, <3>0
    <3>2. io[t] = "written"
      BY <1>0, <3>1 DEF OrderInv, Ordered
    <3>3. Shows(disk[FileOf[c]], c, IF c = Target(t) THEN asked[c] ELSE promised[c])
      BY <1>0, <2>2, <3>2 DEF Kept, Keeps, Sound, Progress
    <3>4. c # Target(t) => asked[c] = promised[c]
      BY <1>0, <1>3, <2>2, OneTarget DEF Agreed
    <3>. QED BY <3>3, <3>4
  <2>. QED BY <2>1, <2>2 DEF AtRest
<1>6. Kept(c)'
  BY <1>1, <1>2, <1>3, <1>5 DEF Kept, Shows
<1>. QED BY <1>4, <1>6

\* What a save or a kill leaves of a constant it had not taken, in a file in which no
\* write is half way: the promise.
LEMMA UntakenShows ==
  ASSUME FilesInv, PromiseInv, NEW c \in Consts \ lapsed,
         Quiet \/ (FileOf[c] \notin HalfWay /\ c \notin Saved)
  PROVE  Shows(disk[FileOf[c]], c, promised[c])
<1>0. /\ Kept(c) /\ Sound(FileOf[c]) /\ io \in [Tasks -> IOs] /\ FileOf[c] \in Files
  BY InWhole DEF FilesInv, SessionTypeOK, TypeOK, FileInv, PromiseInv
<1>1. CASE AtRest(FileOf[c])
  BY <1>0, <1>1 DEF Kept
<1>2. ASSUME NEW t \in Tasks, Path(t) = FileOf[c], Mine(t)
      PROVE  Shows(disk[FileOf[c]], c, promised[c])
  <2>1. ~Quiet /\ Running
    BY <1>2 DEF Quiet, Mine, Running
  <2>2. io[t] \in {"none", "written"}
    BY <1>0, <1>2, <2>1 DEF HalfWay, IOs
  <2>3. c # Target(t)
    BY <1>2, <2>1 DEF Saved, Mine, Tasks, Target
  <2>4. IsSource(disk[FileOf[c]])
    BY <1>0, <1>2, <2>2 DEF Sound, Progress
  <2>. QED BY <1>0, <1>2, <2>2, <2>3, <2>4 DEF Kept, Keeps, Sound, Progress
<1>. QED BY <1>1, <1>2 DEF AtRest

\* Failure: what was not taken, in files that are whole, is as it was.
LEMMA ErrorPromise ==
  ASSUME FilesInv, PromiseInv, SaveStep, Return, caller' = "error", NEW c \in Consts \ lapsed'
  PROVE  Agreed(c)' /\ Kept(c)'
<1>0. c \in Consts \ lapsed /\ c \notin Saved /\ FileOf[c] \notin HalfWay
  BY InWhole, ErrorLeavesWhole DEF SaveStep, InFiles
<1>1. Agreed(c)
  BY <1>0 DEF PromiseInv
<1>2. UNCHANGED <<deprecated, modified, disk, calls, pc, text, io, loaded, asked>>
  BY DEF Return
<1>3. UNCHANGED <<seen, promised, covered>>
  BY DEF SaveStep
<1>4. ~Running' /\ \A t \in Tasks : ~Mine(t)'
  BY DEF Mine, Running
<1>5. Shows(disk[FileOf[c]], c, promised[c])
  BY <1>0, UntakenShows
<1>6. Kept(c)'
  BY <1>2, <1>3, <1>4, <1>5 DEF Kept, Shows
<1>. QED BY <1>1, <1>2, <1>3, <1>4, <1>6 DEF Agreed

-----------------------------------------------------------------------------
(* Promises: edits, the save event, restarts *)

\* Neither does a toggle, during a save or not.
LEMMA TogglePromise ==
  ASSUME FilesInv, PromiseInv, NEW S \in SUBSET known, Toggle(S) \/ ToggleInSelect(S),
         NEW c \in Consts \ lapsed'
  PROVE  Agreed(c)' /\ Kept(c)'
<1>0. /\ UNCHANGED <<disk, caller, calls, pc, text, io, loaded, asked, shared>>
      /\ UNCHANGED <<known, promised, torn>>
      /\ c \in Consts \ lapsed
  BY ToggleFrame
<1>1. Agreed(c) /\ Kept(c)
  BY <1>0 DEF PromiseInv
<1>2. Kept(c)'
  BY <1>0, <1>1, KeptFrame
<1>3. Running' = Running /\ Taken' = Taken
  BY <1>0 DEF Running, Taken
<1>4. CASE ToggleInSelect(S)
  <2>1. c \notin S
    BY <1>4 DEF ToggleInSelect
  <2>2. deprecated'[c] = deprecated[c] /\ UNCHANGED <<modified, seen, covered>>
    BY <1>4, <2>1 DEF ToggleInSelect, Visit, With
  <2>. QED BY <1>0, <1>1, <1>2, <1>3, <2>2 DEF Agreed
<1>5. CASE Toggle(S)
  <2>. DEFINE yes == NewState(S)
  <2>0. covered' = covered \cup S /\ (c \in S => c \notin covered)
    BY <1>5 DEF Toggle
  <2>1. /\ deprecated'[c] = IF c \in S THEN yes ELSE deprecated[c]
        /\ seen'[c] = IF c \in S THEN yes ELSE seen[c]
        /\ modified'[c] = IF c \in S THEN seen[c] # yes ELSE modified[c]
    BY <1>5 DEF Toggle, Deprecate, With
  <2>2. CASE c \in S
    <3>1. seen[c] = promised[c] /\ (Running => c \notin Taken)
      BY <1>1, <2>0, <2>2 DEF Agreed
    <3>2. seen'[c] = deprecated'[c] /\ c \in covered'
      BY <2>0, <2>1, <2>2
    <3>3. deprecated'[c] = promised[c] \/ modified'[c]
      <4>1. CASE seen[c] = yes
        BY <2>1, <2>2, <3>1, <4>1
      <4>2. CASE seen[c] # yes
        BY <2>1, <2>2, <4>2
      <4>. QED BY <4>1, <4>2
    <3>. QED BY <1>0, <1>1, <1>2, <1>3, <3>1, <3>2, <3>3 DEF Agreed
  <2>3. CASE c \notin S
    BY <1>0, <1>1, <1>2, <1>3, <2>0, <2>1, <2>3 DEF Agreed
  <2>. QED BY <2>2, <2>3
<1>. QED BY <1>4, <1>5

\* A save that takes a constant which has not lapsed will find it, and leave it with
\* one attribute at most.
LEMMA SavePromise ==
  ASSUME FilesInv, PromiseInv, Save, NEW c \in Consts \ lapsed'
  PROVE  Agreed(c)' /\ Kept(c)'
<1>. DEFINE spawned == {t \in Tasks : t[1] = calls' /\ modified[Target(t)]}
<1>0. /\ OrderInv /\ calls \in Nat
      /\ deprecated \in [Consts -> BOOLEAN] /\ promised \in [Consts -> BOOLEAN]
      /\ pc \in [Tasks -> PCs]
  BY DEF FilesInv, SessionTypeOK, TypeOK
<1>1. /\ caller \in {"idle", "ok", "error"}
      /\ caller' = "joining" /\ calls' = calls + 1 /\ calls < MaxCalls
      /\ pc' = [t \in Tasks |-> IF t \in spawned THEN "ready" ELSE pc[t]]
      /\ asked' = deprecated
      /\ UNCHANGED <<deprecated, modified, disk, text, io, loaded>>
  BY DEF Save, Call
<1>2. /\ UNCHANGED <<seen, promised>>
      /\ covered' = covered \cup {d \in Consts : modified[d]}
      /\ c \in Consts \ lapsed
      /\ modified[c] => ~Drifted(c) /\ ~Repeated(c)
  BY DEF Save
<1>3. Agreed(c) /\ Kept(c) /\ Sound(FileOf[c]) /\ FileOf[c] \in Files
  BY <1>2, InWhole DEF PromiseInv, FilesInv, FileInv
<1>4. \A t \in Tasks : ~Mine(t)
  BY <1>1 DEF Mine, Running
<1>5. \A t \in Tasks : t[1] = calls' => pc[t] = "none" /\ io[t] = "none"
  BY <1>0, <1>1 DEF OrderInv, Ordered
<1>6. \A t \in Tasks : Mine(t)' <=> t \in spawned
  BY <1>1, <1>5 DEF Mine, Running
<1>7. c \in Taken' <=> modified[c]
  <2>1. <<calls', c>> \in Tasks /\ Target(<<calls', c>>) = c
    BY <1>0, <1>1, EffectAssumption DEF Tasks, Target
  <2>2. pc'[<<calls', c>>] = IF modified[c] THEN "ready" ELSE "none"
    BY <1>1, <1>5, <2>1
  <2>. QED BY <2>2 DEF Taken
<1>8. Agreed(c)'
  BY <1>1, <1>2, <1>3, <1>7 DEF Agreed
<1>9. IsSource(disk[FileOf[c]]) /\ Shows(disk[FileOf[c]], c, promised[c])
  BY <1>3, <1>4 DEF Sound, Kept, AtRest
<1>10. ASSUME NEW t \in spawned, Path(t) = FileOf[c] PROVE Keeps(t, c)'
  <2>1. io'[t] = "none"
    BY <1>1, <1>5
  <2>2. ASSUME c = Target(t) PROVE c \in Matched(disk[Path(t)], c) /\ ~(deprecated[c] /\ promised[c])
    <3>1. c \in Matched(disk[Path(t)], c) /\ ~(deprecated[c] /\ OnDisk(c))
      BY <1>2, <1>10, <2>2 DEF Drifted, Repeated
    <3>2. promised[c] => OnDisk(c)
      BY <1>9 DEF OnDisk, Shows, IsSource
    <3>. QED BY <3>1, <3>2
  <2>3. Matched(disk[Path(t)], c)' = Matched(disk[Path(t)], c)
    BY <1>1, MatchedFrame DEF Path, Target
  <2>. QED BY <1>1, <1>2, <1>9, <1>10, <2>1, <2>2, <2>3 DEF Keeps, Shows, IsSource, Path, Target
<1>. HIDE DEF spawned
<1>11. Kept(c)'
  BY <1>1, <1>2, <1>6, <1>9, <1>10 DEF Kept, Shows, Path, Target
<1>. QED BY <1>8, <1>11

\* A scan finds what was promised, or, where nothing is known of it, promises what
\* it finds.
LEMMA RelaunchPromise ==
  ASSUME FilesInv, PromiseInv, Relaunch, NEW c \in Consts \ lapsed'
  PROVE  Agreed(c)' /\ Kept(c)'
<1>. USE DEF Relaunch
<1>0. /\ disk \in [Files -> Texts] /\ promised \in [Consts -> BOOLEAN] /\ FileOf[c] \in Files
  BY EffectAssumption DEF FilesInv, SessionTypeOK, TypeOK
<1>1. c \in known' /\ IsSource(disk[FileOf[c]])
  BY DEF Found, IsSource
<1>2. disk[FileOf[c]].attrs[c] \in {0, 1}
  <2>1. disk[FileOf[c]].attrs[c] \in Nat /\ ~(disk[FileOf[c]].attrs[c] > 1)
    BY <1>0 DEF Doubled, Texts
  <2>. QED BY <2>1
<1>3. Shows(disk[FileOf[c]], c, OnDisk(c))
  BY <1>1, <1>2 DEF Shows, OnDisk, IsSource
<1>4. promised'[c] = OnDisk(c)
  <2>1. CASE promised'[c] = promised[c] /\ c \notin lapsed /\ FileOf[c] \notin torn'
             /\ (Quiet \/ c \notin Saved)
    <3>1. Shows(disk[FileOf[c]], c, promised[c])
      BY <2>1, UntakenShows
    <3>2. promised[c] \in BOOLEAN /\ OnDisk(c) \in BOOLEAN
      BY <1>0 DEF OnDisk
    <3>3. promised[c] <=> OnDisk(c)
      BY <1>3, <3>1 DEF Shows
    <3>. QED BY <2>1, <3>2, <3>3
  <2>2. promised'[c] = OnDisk(c) \/ (promised'[c] = promised[c] /\ c \notin lapsed
             /\ FileOf[c] \notin torn' /\ (Quiet \/ c \notin Saved))
    BY DEF InFiles
  <2>. QED BY <2>1, <2>2
<1>5. deprecated'[c] = OnDisk(c) /\ seen'[c] = OnDisk(c)
  BY <1>1 DEF OnDisk
<1>6. ~Running' /\ \A t \in Tasks : ~Mine(t)'
  BY DEF Mine, Running
<1>7. Kept(c)'
  BY <1>3, <1>4, <1>6 DEF Kept, Shows
<1>. QED BY <1>4, <1>5, <1>6, <1>7 DEF Agreed

-----------------------------------------------------------------------------
(* PromiseInv *)

\* PromiseInv holds at the start.
LEMMA PromiseInit == SessionInit => PromiseInv
<1>. SUFFICES ASSUME SessionInit, NEW c \in Consts PROVE Agreed(c) /\ Kept(c)
  BY DEF PromiseInv
<1>1. FileOf[c] \in Files
  BY EffectAssumption
<1>2. PICK attrs \in [Consts -> {0, 1}] : disk[FileOf[c]] = Source(attrs)
  BY <1>1 DEF SessionInit, Init
<1>3. /\ deprecated[c] = promised[c]
      /\ seen[c] = promised[c] /\ caller = "idle"
  BY DEF SessionInit, Init
<1>4. disk[FileOf[c]].attrs[c] \in {0, 1}
  BY <1>2 DEF Source
<1>5. Shows(disk[FileOf[c]], c, promised[c])
  <2>1. promised[c] <=> disk[FileOf[c]].attrs[c] > 0
    BY DEF SessionInit, Init
  <2>. QED BY <1>4, <2>1 DEF Shows
<1>. QED BY <1>3, <1>5 DEF Agreed, Kept, Mine, Running

\* PromiseInv is inductive with FilesInv.
LEMMA PromiseNext ==
  ASSUME UniqueIdents, FilesInv, PromiseInv, [SessionNext]_sessionVars
  PROVE  PromiseInv'
<1>. SUFFICES ASSUME NEW c \in Consts \ lapsed' PROVE Agreed(c)' /\ Kept(c)'
  BY DEF PromiseInv
<1>1. ASSUME NEW S \in SUBSET known, Toggle(S) \/ ToggleInSelect(S)
      PROVE  Agreed(c)' /\ Kept(c)'
  BY <1>1, TogglePromise
<1>2. CASE Save
  BY <1>2, SavePromise
<1>3. CASE SaveStep
  <2>1. c \in Consts \ lapsed
    BY <1>3 DEF SaveStep
  <2>2. CASE CallerStep
    <3>1. CASE JoinFailed
      BY <1>3, <2>1, <3>1, JoinPromise
    <3>2. CASE Return
      <4>1. caller' \in {"ok", "error"}
        BY <3>2 DEF Return
      <4>. QED BY <1>3, <2>1, <3>2, <4>1, OkPromise, ErrorPromise
    <3>. QED BY <2>2, <3>1, <3>2 DEF CallerStep
  <2>3. ASSUME NEW t \in Tasks, TaskStep(t) \/ IOStep(t)
        PROVE  Agreed(c)' /\ Kept(c)'
    BY <1>3, <2>1, <2>3, TaskPromise
  <2>. QED BY <1>3, <2>2, <2>3 DEF SaveStep
<1>4. CASE Relaunch
  BY <1>4, RelaunchPromise
<1>5. CASE UNCHANGED sessionVars
  <2>1. /\ UNCHANGED <<deprecated, modified, disk, caller, calls, pc, text, io, loaded, asked>>
        /\ UNCHANGED <<seen, covered, promised, lapsed>>
    BY <1>5 DEF sessionVars, vars, user, history
  <2>2. Agreed(c) /\ Kept(c)
    BY <2>1 DEF PromiseInv
  <2>. QED BY <2>1, <2>2, KeptFrame DEF Agreed, Running, Taken
<1>. QED BY <1>1, <1>2, <1>3, <1>4, <1>5 DEF SessionNext

\* A constant that has not lapsed keeps its promise, whatever is edited, saved, killed
\* and launched again, if the identifiers of its file are unique.
THEOREM PromiseInvariant ==
  ASSUME UniqueIdents
  PROVE  SessionSpec => [](FilesInv /\ PromiseInv)
<1>1. SessionInit => FilesInv /\ PromiseInv
  BY FilesInit, PromiseInit
<1>2. FilesInv /\ PromiseInv /\ [SessionNext]_sessionVars => (FilesInv /\ PromiseInv)'
  BY FilesNext, PromiseNext
<1>. QED BY <1>1, <1>2, PTL DEF SessionSpec

\* When nothing is being saved, what is on disk is what was promised.
LEMMA QuietRests ==
  ASSUME FilesInv, PromiseInv, Quiet, NEW c \in Consts \ lapsed
  PROVE  /\ Agreed(c)
         /\ promised[c] \in BOOLEAN
         /\ OnDisk(c) = promised[c]
<1>1. \A t \in Tasks : ~Mine(t)
  BY DEF Quiet, Mine, Running
<1>2. /\ IsSource(disk[FileOf[c]])
      /\ Shows(disk[FileOf[c]], c, promised[c])
      /\ Agreed(c)
  BY <1>1, InWhole DEF FilesInv, FileInv, Sound, AtRest, PromiseInv, Kept
<1>3. promised[c] \in BOOLEAN
  BY DEF FilesInv, SessionTypeOK
<1>. QED BY <1>2, <1>3 DEF OnDisk, Shows, IsSource

\* What a save has promised of a constant is on disk until another save says
\* otherwise, over edits, saves of other constants and restarts.
THEOREM PromisesAreDurable ==
  ASSUME UniqueIdents
  PROVE  SessionSpec => []Durable
<1>1. FilesInv /\ PromiseInv => Durable
  BY QuietRests DEF Durable
<1>. QED BY <1>1, PromiseInvariant, PTL

\* What memory and disk do not agree on is flagged for the next save, also when it
\* was changed while a save was running.
THEOREM NothingPendingIsForgotten ==
  ASSUME UniqueIdents
  PROVE  SessionSpec => []PendingIsFlagged
<1>1. FilesInv /\ PromiseInv => PendingIsFlagged
  BY QuietRests DEF PendingIsFlagged, Agreed, FilesInv, SessionTypeOK
<1>. QED BY <1>1, PromiseInvariant, PTL

\* No save leaves a constant with two attributes, unless it has lapsed: in the middle
\* of a save as well.
THEOREM AttributesStaySingle ==
  ASSUME UniqueIdents
  PROVE  SessionSpec => []SingleAttribute
<1>1. FilesInv /\ PromiseInv => SingleAttribute
  <2>. SUFFICES ASSUME FilesInv, PromiseInv, NEW c \in Consts \ lapsed, IsSource(disk[FileOf[c]])
                PROVE  disk[FileOf[c]].attrs[c] <= 1
    BY DEF SingleAttribute, IsSource
  <2>. DEFINE f == FileOf[c]
  <2>1. Sound(f) /\ Kept(c) /\ io \in [Tasks -> IOs]
    BY InWhole DEF FilesInv, SessionTypeOK, TypeOK, FileInv, PromiseInv
  <2>2. CASE AtRest(f)
    BY <2>1, <2>2 DEF Kept, Shows
  <2>3. ASSUME NEW t \in Tasks, Path(t) = f, Mine(t) PROVE disk[f].attrs[c] <= 1
    <3>1. Progress(t) /\ Keeps(t, c)
      BY <2>1, <2>3 DEF Sound, Kept
    <3>2. io[t] # "truncated"
      BY <2>3, <3>1 DEF Progress, IsSource, Empty
    <3>3. io[t] \in {"none", "queued", "failed", "written"}
      BY <2>1, <3>2 DEF IOs
    <3>. QED BY <2>3, <3>1, <3>3 DEF Progress, Keeps, Shows
  <2>. QED BY <2>2, <2>3 DEF AtRest
<1>. QED BY <1>1, PromiseInvariant, PTL
=============================================================================
