------------------------- MODULE EffectChangesProofs -------------------------
(***************************************************************************)
(* What effect_changes promises for any number of constants, files and     *)
(* calls: EffectInv is inductive, and a file that one task is busy with is *)
(* saved faithfully by a first call.                                       *)
(***************************************************************************)
EXTENDS EffectChanges, TLAPS

-----------------------------------------------------------------------------
(* Texts *)

\* The attributes of a constant are counted in naturals.
LEMMA AmendType ==
  ASSUME NEW n \in Nat, NEW yes \in BOOLEAN
  PROVE  Amend(n, yes) \in Nat
BY DEF Amend

\* An edit of a text is a text.
LEMMA EditType ==
  ASSUME NEW txt \in Texts, NEW c \in Consts, NEW yes \in BOOLEAN
  PROVE  Edit(txt, c, yes) \in Texts
<1>1. CASE txt.kind = "source"
  <2>. DEFINE new == [d \in Consts |-> IF d \in Matched(txt, c)
                                       THEN Amend(txt.attrs[d], yes) ELSE txt.attrs[d]]
  <2>1. new \in [Consts -> Nat]
    BY AmendType DEF Texts
  <2>2. Edit(txt, c, yes) = [kind |-> "source", rewritten |-> TRUE, attrs |-> new]
    BY <1>1 DEF Edit
  <2>. QED BY <2>1, <2>2 DEF Texts
<1>2. CASE txt.kind # "source"
  BY <1>2 DEF Edit
<1>. QED BY <1>1, <1>2

\* A truncated file and a garbled one are texts.
LEMMA EmptyType == Empty \in Texts /\ Garbled \in Texts
BY DEF Empty, Garbled, NoAttrs, Texts

\* One text written over another is a text.
LEMMA OverwriteType ==
  ASSUME NEW old \in Texts, NEW new \in Texts
  PROVE  Overwrite(old, new) \in Texts
BY EmptyType DEF Overwrite

\* What is written into a truncated file is what it then holds.
LEMMA OverwriteEmpty == \A new : Overwrite(Empty, new) = new
BY DEF Overwrite, Empty

\* What was scanned is a source with one attribute per constant at most.
LEMMA LoadedType ==
  ASSUME LoadedIsSource, NEW f \in Files
  PROVE  /\ loaded[f] \in Texts /\ loaded[f].kind = "source" /\ ~loaded[f].rewritten
         /\ \A c \in Consts : loaded[f].attrs[c] \in {0, 1}
<1>1. PICK attrs \in [Consts -> {0, 1}] : loaded[f] = Source(attrs)
  BY DEF LoadedIsSource
<1>. QED BY <1>1 DEF Source, Texts

\* Editing the scanned text lands on the constant itself: its position is the
\* recorded one, and nothing has been dropped from the text yet.
LEMMA FirstEditLands ==
  ASSUME LoadedIsSource, NEW c \in Consts, NEW yes \in BOOLEAN
  PROVE  LET new == Edit(loaded[FileOf[c]], c, yes)
         IN  new.kind = "source" /\ (new.attrs[c] > 0 <=> yes)
<1>. DEFINE f == FileOf[c]
            old == loaded[f]
<1>1. f \in Files
  BY EffectAssumption
<1>2. old.kind = "source" /\ ~old.rewritten /\ old.attrs[c] \in {0, 1}
  BY <1>1, LoadedType
<1>3. c \in Visited(old, f)
  BY <1>2 DEF Visited, In
<1>4. c \in Matched(old, c)
  BY <1>3 DEF Matched, Span
<1>. HIDE DEF old, f
<1>5. Edit(old, c, yes).kind = "source" /\ Edit(old, c, yes).attrs[c] = Amend(old.attrs[c], yes)
  BY <1>2, <1>4 DEF Edit
<1>6. Amend(old.attrs[c], yes) > 0 <=> yes
  BY <1>2 DEF Amend
<1>. QED BY <1>5, <1>6 DEF old, f

-----------------------------------------------------------------------------
\* A task has a constant, and the file of that constant.
LEMMA TaskFacts ==
  ASSUME NEW t \in Tasks
  PROVE  Target(t) \in Consts /\ Path(t) \in Files /\ Path(t) = FileOf[Target(t)]
BY EffectAssumption DEF Tasks, Target, Path

\* What a task is to write depends on what was scanned and asked, not on the disk.
LEMMA EditFrame ==
  ASSUME UNCHANGED <<loaded, asked>>, NEW u
  PROVE  Edit(loaded[Path(u)], Target(u), asked[Target(u)])'
         = Edit(loaded[Path(u)], Target(u), asked[Target(u)])
BY DEF Edit, Matched, Span, Path, Target

-----------------------------------------------------------------------------
(* Types, and the end of tasks, over any step: Session rests on these too. *)

\* The state before the first call is well formed.
LEMMA TypeInit == Init => TypeOK
<1>. SUFFICES ASSUME Init PROVE TypeOK
  OBVIOUS
<1>1. \A attrs \in [Consts -> {0, 1}] : Source(attrs) \in Texts
  BY DEF Source, Texts
<1>2. loaded \in [Files -> Texts]
  BY <1>1 DEF Init
<1>. QED
  BY <1>2, EmptyType, EffectAssumption DEF Init, TypeOK, Callers, PCs, IOs

\* Steps of tasks and writes keep the state well formed.
LEMMA TypeTask ==
  ASSUME TypeOK, NEW t \in Tasks, TaskStep(t) \/ IOStep(t)
  PROVE  TypeOK'
<1>0. Target(t) \in Consts /\ Path(t) \in Files
  BY TaskFacts
<1>1. CASE Begin(t) \/ ReadFails(t) \/ Finish(t) \/ Abort(t)
  BY <1>1 DEF Begin, ReadFails, Finish, Abort, TypeOK, PCs
<1>2. CASE Read(t)
  BY <1>0, <1>2 DEF Read, TypeOK, PCs
<1>3. CASE EditAndSave(t)
  <2>1. Edit(text[t], Target(t), deprecated[Target(t)]) \in Texts
    BY <1>0, EditType DEF TypeOK
  <2>2. text' \in [Tasks -> Texts]
    BY <1>3, <2>1 DEF TypeOK, EditAndSave
  <2>3. pc' \in [Tasks -> PCs] /\ io' \in [Tasks -> IOs]
    BY <1>3 DEF TypeOK, EditAndSave, PCs, IOs
  <2>. QED BY <1>3, <2>2, <2>3 DEF TypeOK, EditAndSave
<1>4. CASE IOStep(t)
  <2>. USE DEF IOStep, Truncate, Write, WriteFails
  <2>1. Overwrite(disk[Path(t)], text[t]) \in Texts /\ Empty \in Texts
    BY <1>0, OverwriteType, EmptyType DEF TypeOK
  <2>2. disk' \in [Files -> Texts] /\ io' \in [Tasks -> IOs]
    BY <1>4, <2>1 DEF TypeOK, IOs
  <2>. QED BY <1>4, <2>2 DEF TypeOK
<1>. QED BY <1>1, <1>2, <1>3, <1>4 DEF TaskStep

\* Every step keeps the state well formed.
LEMMA TypeNext == TypeOK /\ [Next]_vars => TypeOK'
<1>. SUFFICES ASSUME TypeOK, [Next]_vars PROVE TypeOK'
  OBVIOUS
<1>1. ASSUME NEW c \in Consts, NEW yes \in BOOLEAN, BulkSet(c, yes) PROVE TypeOK'
  BY <1>1 DEF BulkSet, TypeOK
<1>2. CASE Call
  <2>1. calls' \in 0..MaxCalls
    BY <1>2, EffectAssumption DEF Call, TypeOK
  <2>2. pc' \in [Tasks -> PCs] /\ shared' \subseteq Files
    BY <1>2 DEF Call, TypeOK, PCs
  <2>. QED BY <1>2, <2>1, <2>2 DEF Call, TypeOK, Callers
<1>3. CASE CallerStep
  BY <1>3 DEF CallerStep, JoinFailed, Return, TypeOK, Callers
<1>4. CASE UNCHANGED vars
  BY <1>4 DEF vars, TypeOK
<1>. QED BY <1>1, <1>2, <1>3, <1>4, TypeTask DEF Next

\* No task outlives its call.
LEMMA TasksNext == TypeOK /\ TasksEndInCall /\ [Next]_vars => TasksEndInCall'
<1>. SUFFICES ASSUME TypeOK, TasksEndInCall, [Next]_vars PROVE TasksEndInCall'
  OBVIOUS
<1>0. pc \in [Tasks -> PCs] /\ calls \in Nat
  BY DEF TypeOK
<1>1. CASE Call
  BY <1>0, <1>1 DEF Call, TasksEndInCall, Live
<1>2. CASE JoinFailed
  BY <1>2 DEF JoinFailed, TasksEndInCall, Live
<1>3. CASE Return
  <2>1. \A t \in Tasks : t[1] = calls => t = <<calls, Target(t)>> /\ Target(t) \in Consts
    BY DEF Tasks, Target
  <2>. QED BY <1>3, <2>1 DEF Return, TasksEndInCall, Live
<1>4. ASSUME NEW t \in Tasks, TaskStep(t) \/ IOStep(t) PROVE TasksEndInCall'
  <2>1. UNCHANGED <<caller, calls>> /\ \A u \in Tasks : Live(u)' => Live(u)
    BY <1>0, <1>4 DEF TaskStep, IOStep, Begin, Read, ReadFails, EditAndSave, Finish, Abort,
                      Truncate, Write, WriteFails, Live
  <2>. QED BY <2>1 DEF TasksEndInCall
<1>5. CASE UNCHANGED vars \/ \E c \in Consts, yes \in BOOLEAN : BulkSet(c, yes)
  BY <1>5 DEF BulkSet, vars, TasksEndInCall, Live
<1>. QED BY <1>1, <1>2, <1>3, <1>4, <1>5 DEF Next, CallerStep

-----------------------------------------------------------------------------
(* A first call *)

\* EffectInv holds before the first call.
LEMMA InitInv == Init => EffectInv
<1>. SUFFICES ASSUME Init PROVE EffectInv
  OBVIOUS
<1>1. LoadedIsSource
  BY DEF Init, LoadedIsSource
<1>. QED
  BY <1>1, TypeInit DEF Init, EffectInv, MemoryIsAsked, NothingBegun, OnlyFirstCall, SoleTask,
                    IdleFile, SoleStages, TasksEndInCall, Live, OkIsDone

\* A step of one task or of its write disturbs at most its own stage.
LEMMA OneTask ==
  ASSUME EffectInv, NEW t \in Tasks, TypeOK',
         calls <= 1 => pc[t] # "none" /\ pc'[t] # "none",
         \A u \in Tasks : u # t => pc'[u] = pc[u] /\ io'[u] = io[u] /\ text'[u] = text[u],
         \A f \in Files : f # Path(t) => disk'[f] = disk[f],
         UNCHANGED <<deprecated, modified, caller, calls, loaded, asked, shared>>,
         pc'[t] = pc[t] \/ Live(t),
         calls = 1 /\ Path(t) \notin shared => Stage(t)'
  PROVE  EffectInv'
<1>. USE DEF EffectInv
<1>1. LoadedIsSource' /\ MemoryIsAsked'
  BY DEF LoadedIsSource, MemoryIsAsked
<1>2. NothingBegun'
  BY DEF NothingBegun
<1>3. OnlyFirstCall'
  BY DEF OnlyFirstCall
<1>4. SoleTask'
  BY DEF SoleTask, Path, Target
<1>5. IdleFile'
  BY DEF IdleFile, Path, Target
<1>6. SoleStages'
  <2>. SUFFICES ASSUME calls = 1, NEW u \in Tasks, pc'[u] # "none", Path(u) \notin shared
                PROVE  Stage(u)'
    BY DEF SoleStages, Path, Target
  <2>1. CASE u = t
    BY <2>1
  <2>2. CASE u # t
    <3>1. pc[u] # "none" /\ Stage(u)
      BY <2>2 DEF SoleStages
    <3>2. Path(u) # Path(t)
      BY <2>2, <3>1 DEF SoleTask
    <3>3. disk'[Path(u)] = disk[Path(u)]
      BY <3>2, TaskFacts
    <3>4. Edit(loaded[Path(u)], Target(u), asked[Target(u)])'
          = Edit(loaded[Path(u)], Target(u), asked[Target(u)])
      BY EditFrame
    <3>. QED BY <2>2, <3>1, <3>3, <3>4 DEF Stage, Path, Target
  <2>. QED BY <2>1, <2>2
<1>7. OkIsDone' /\ TasksEndInCall'
  BY DEF OkIsDone, TasksEndInCall, Live
<1>. QED BY <1>1, <1>2, <1>3, <1>4, <1>5, <1>6, <1>7

-----------------------------------------------------------------------------
(* One lemma per step of a task or of its write. *)

\* The task of a step exists; the stage it is in is known if it is alone.
LEMMA StageNow ==
  ASSUME EffectInv, NEW t \in Tasks, pc[t] # "none" \/ io[t] # "none"
  PROVE  /\ calls <= 1 => pc[t] # "none" /\ calls = 1
         /\ calls = 1 /\ Path(t) \notin shared => Stage(t)
<1>1. calls \in Nat
  BY DEF EffectInv, TypeOK
<1>2. calls # 0
  BY DEF EffectInv, NothingBegun
<1>3. calls = 1 => pc[t] # "none"
  BY DEF EffectInv, OnlyFirstCall
<1>. QED BY <1>1, <1>2, <1>3 DEF EffectInv, SoleStages

\* The task of a first call lives no longer than the call.
LEMMA AliveMeansCalled ==
  ASSUME EffectInv, NEW t \in Tasks, calls = 1, Live(t)
  PROVE  deprecated = asked
BY DEF EffectInv, TasksEndInCall, MemoryIsAsked

\* The start of a task keeps EffectInv.
LEMMA BeginStep ==
  ASSUME EffectInv, NEW t \in Tasks, Begin(t)
  PROVE  EffectInv'
<1>. USE DEF Begin
<1>1. TypeOK'
  BY TypeTask DEF EffectInv, TaskStep
<1>2. calls = 1 /\ Path(t) \notin shared => Stage(t)'
  BY StageNow, EditFrame DEF EffectInv, TypeOK, Stage, Path, Target
<1>. QED BY <1>1, <1>2, StageNow, OneTask DEF EffectInv, TypeOK, Live

\* The read of a task keeps EffectInv.
LEMMA ReadStep ==
  ASSUME EffectInv, NEW t \in Tasks, Read(t) \/ ReadFails(t)
  PROVE  EffectInv'
<1>. USE DEF Read, ReadFails
<1>1. TypeOK'
  BY TypeTask DEF EffectInv, TaskStep
<1>2. calls = 1 /\ Path(t) \notin shared => Stage(t)'
  BY StageNow, EditFrame DEF EffectInv, TypeOK, Stage, Path, Target
<1>. QED BY <1>1, <1>2, StageNow, OneTask DEF EffectInv, TypeOK, Live

\* The edit of a task keeps EffectInv.
LEMMA EditStep ==
  ASSUME EffectInv, NEW t \in Tasks, EditAndSave(t)
  PROVE  EffectInv'
<1>. USE DEF EditAndSave
<1>0. TypeOK /\ Target(t) \in Consts /\ Path(t) \in Files
  BY TaskFacts DEF EffectInv
<1>1. TypeOK'
  BY TypeTask DEF EffectInv, TaskStep
<1>2. calls = 1 /\ Path(t) \notin shared => Stage(t)'
  <2>. SUFFICES ASSUME calls = 1, Path(t) \notin shared PROVE Stage(t)'
    OBVIOUS
  <2>1. io[t] = "none" /\ text[t] = loaded[Path(t)] /\ disk[Path(t)] = loaded[Path(t)]
    BY StageNow DEF Stage
  <2>2. text[t].kind = "source"
    BY <1>0, <2>1, LoadedType DEF EffectInv
  <2>3. /\ pc'[t] = "saving" /\ io'[t] = "queued"
        /\ text'[t] = Edit(text[t], Target(t), deprecated[Target(t)])
    BY <1>0, <2>2 DEF TypeOK
  \* The task is alive, so the call is joining or stopping: memory is as asked.
  <2>4. deprecated = asked
    BY AliveMeansCalled DEF Live
  <2>. QED BY <2>1, <2>3, <2>4, EditFrame DEF Stage, Path, Target
<1>. QED BY <1>1, <1>2, StageNow, OneTask DEF EffectInv, TypeOK, Live

\* The two halves of a write keep EffectInv.
LEMMA WriteStep ==
  ASSUME EffectInv, NEW t \in Tasks, IOStep(t)
  PROVE  EffectInv'
<1>. USE DEF IOStep, Truncate, Write, WriteFails, Writing
<1>0. TypeOK /\ Target(t) \in Consts /\ Path(t) \in Files
  BY TaskFacts DEF EffectInv
<1>1. TypeOK'
  BY TypeTask DEF EffectInv
<1>2. calls = 1 /\ Path(t) \notin shared => Stage(t)'
  <2>. SUFFICES ASSUME calls = 1, Path(t) \notin shared PROVE Stage(t)'
    OBVIOUS
  <2>1. Stage(t) /\ io[t] \in {"queued", "truncated"}
    BY StageNow
  <2>2. CASE Truncate(t)
    BY <1>0, <2>1, <2>2, EditFrame DEF TypeOK, Stage, Path, Target
  <2>3. CASE Write(t)
    <3>1. disk'[Path(t)] = text[t]
      BY <1>0, <2>1, <2>3, OverwriteEmpty DEF TypeOK, Stage
    <3>2. io'[t] = "written"
      BY <1>0, <2>3 DEF TypeOK
    <3>. QED BY <2>1, <2>3, <3>1, <3>2, EditFrame DEF Stage, Path, Target
  <2>4. CASE WriteFails(t)
    BY <1>0, <2>1, <2>4, EditFrame DEF TypeOK, Stage, Path, Target
  <2>. QED BY <2>2, <2>3, <2>4
<1>3. calls <= 1 => pc[t] # "none"
  BY StageNow
<1>4. /\ \A u \in Tasks : u # t => io'[u] = io[u]
      /\ \A f \in Files : f # Path(t) => disk'[f] = disk[f]
  BY <1>0 DEF TypeOK
<1>. QED BY <1>1, <1>2, <1>3, <1>4, OneTask

\* The end or abortion of a task keeps EffectInv.
LEMMA FinishStep ==
  ASSUME EffectInv, NEW t \in Tasks, Finish(t) \/ Abort(t)
  PROVE  EffectInv'
<1>. USE DEF Finish, Abort
<1>1. TypeOK'
  BY TypeTask DEF EffectInv, TaskStep
<1>2. calls = 1 /\ Path(t) \notin shared => Stage(t)'
  BY StageNow, EditFrame DEF EffectInv, TypeOK, Stage, Path, Target, Live
<1>. QED BY <1>1, <1>2, StageNow, OneTask DEF EffectInv, TypeOK, Live

-----------------------------------------------------------------------------
(* The steps of the caller *)

\* A change of flags keeps EffectInv.
LEMMA BulkStep ==
  ASSUME EffectInv, NEW c \in Consts, NEW yes \in BOOLEAN, BulkSet(c, yes)
  PROVE  EffectInv'
<1>. USE DEF BulkSet
<1>1. TypeOK'
  BY TypeNext DEF EffectInv, Next
<1>2. LoadedIsSource' /\ MemoryIsAsked' /\ NothingBegun' /\ OnlyFirstCall'
  BY DEF EffectInv, LoadedIsSource, MemoryIsAsked, NothingBegun, OnlyFirstCall
<1>3. SoleTask' /\ IdleFile' /\ TasksEndInCall' /\ OkIsDone'
  BY DEF EffectInv, SoleTask, IdleFile, TasksEndInCall, OkIsDone, Live, Path, Target
<1>4. SoleStages'
  BY EditFrame DEF EffectInv, SoleStages, Stage, Path, Target
<1>. QED BY <1>1, <1>2, <1>3, <1>4 DEF EffectInv

\* A call keeps EffectInv.
LEMMA CallStep == EffectInv /\ Call => EffectInv'
<1>. SUFFICES ASSUME EffectInv, Call PROVE EffectInv'
  OBVIOUS
<1>. DEFINE spawned == {t \in Tasks : t[1] = calls' /\ modified[Target(t)]}
            busy    == spawned \cup {t \in Tasks : Writing(t)}
<1>0. TypeOK /\ calls \in Nat /\ calls' = calls + 1 /\ calls' \in 0..MaxCalls
  BY EffectAssumption DEF EffectInv, TypeOK, Call
<1>1. /\ pc' = [t \in Tasks |-> IF t \in spawned THEN "ready" ELSE pc[t]]
      /\ shared' = shared \cup
           {f \in Files : \E t \in spawned, u \in busy : t # u /\ {Path(t), Path(u)} = {f}}
      /\ asked' = deprecated /\ caller' = "joining"
      /\ UNCHANGED <<deprecated, modified, disk, text, io, loaded>>
  BY DEF Call
<1>2. TypeOK'
  BY <1>0, TypeNext DEF Next
<1>3. LoadedIsSource' /\ MemoryIsAsked' /\ OkIsDone'
  BY <1>1 DEF EffectInv, LoadedIsSource, MemoryIsAsked, OkIsDone
<1>4. NothingBegun'
  BY <1>0 DEF NothingBegun
<1>5. TasksEndInCall'
  BY TasksNext DEF EffectInv, Next
<1>6. ASSUME calls' = 1
      PROVE  OnlyFirstCall' /\ SoleTask' /\ IdleFile' /\ SoleStages'
  <2>1. disk = loaded /\ \A t \in Tasks : pc[t] = "none" /\ io[t] = "none"
    BY <1>0, <1>6 DEF EffectInv, NothingBegun
  <2>2. \A t \in Tasks : pc'[t] = (IF t \in spawned THEN "ready" ELSE "none") /\ io'[t] = "none"
    BY <1>1, <2>1
  <2>3. OnlyFirstCall'
    BY <1>6, <2>2 DEF OnlyFirstCall
  <2>4. IdleFile'
    BY <1>1, <2>1 DEF IdleFile
  <2>5. SoleTask'
    <3>. SUFFICES ASSUME NEW t \in Tasks, NEW u \in Tasks, t # u, Path(t) = Path(u),
                         pc'[t] # "none", pc'[u] # "none"
                  PROVE  Path(t) \in shared'
      BY DEF SoleTask, Path, Target
    <3>1. t \in spawned /\ u \in busy
      BY <2>2
    <3>2. Path(t) \in Files
      BY TaskFacts
    <3>. HIDE DEF spawned, busy
    <3>. QED BY <1>1, <3>1, <3>2
  <2>6. SoleStages'
    BY <1>1, <2>1, <2>2 DEF SoleStages, Stage, Path, Target
  <2>. QED BY <2>3, <2>4, <2>5, <2>6
<1>7. ASSUME calls' # 1
      PROVE  OnlyFirstCall' /\ SoleTask' /\ IdleFile' /\ SoleStages'
  BY <1>7 DEF OnlyFirstCall, SoleTask, IdleFile, SoleStages
<1>. QED BY <1>2, <1>3, <1>4, <1>5, <1>6, <1>7 DEF EffectInv

\* What the caller does until its call is over keeps EffectInv.
LEMMA CallerDone == EffectInv /\ CallerStep => EffectInv'
<1>. SUFFICES ASSUME EffectInv, CallerStep PROVE EffectInv'
  OBVIOUS
<1>. USE DEF CallerStep, JoinFailed, Return
<1>1. TypeOK' /\ TasksEndInCall'
  BY TypeNext, TasksNext DEF EffectInv, Next
<1>2. LoadedIsSource' /\ MemoryIsAsked' /\ NothingBegun' /\ OnlyFirstCall'
  BY DEF EffectInv, LoadedIsSource, MemoryIsAsked, NothingBegun, OnlyFirstCall
<1>3. SoleTask' /\ IdleFile'
  BY DEF EffectInv, SoleTask, IdleFile, Path, Target
<1>4. SoleStages'
  BY EditFrame DEF EffectInv, SoleStages, Stage, Path, Target
<1>5. \A t \in Tasks : t[1] = calls => t = <<calls, Target(t)>> /\ Target(t) \in Consts
  BY DEF Tasks, Target
<1>6. OkIsDone'
  BY <1>5 DEF EffectInv, OnlyFirstCall, OkIsDone
<1>. QED BY <1>1, <1>2, <1>3, <1>4, <1>6 DEF EffectInv

-----------------------------------------------------------------------------
(* The theorems *)

\* EffectInv is inductive.
LEMMA NextInv == EffectInv /\ [Next]_vars => EffectInv'
<1>. SUFFICES ASSUME EffectInv, [Next]_vars PROVE EffectInv'
  OBVIOUS
<1>1. ASSUME NEW c \in Consts, NEW yes \in BOOLEAN, BulkSet(c, yes) PROVE EffectInv'
  BY <1>1, BulkStep
<1>2. CASE Call
  BY <1>2, CallStep
<1>3. CASE CallerStep
  BY <1>3, CallerDone
<1>4. ASSUME NEW t \in Tasks, TaskStep(t) PROVE EffectInv'
  BY <1>4, BeginStep, ReadStep, EditStep, FinishStep DEF TaskStep
<1>5. ASSUME NEW t \in Tasks, IOStep(t) PROVE EffectInv'
  BY <1>5, WriteStep
<1>6. CASE UNCHANGED vars
  <2>1. UNCHANGED <<deprecated, modified, disk, caller, calls, pc, text, io, loaded, asked, shared>>
    BY <1>6 DEF vars
  <2>2. TypeOK' /\ LoadedIsSource' /\ MemoryIsAsked' /\ NothingBegun' /\ OnlyFirstCall'
    BY <2>1 DEF EffectInv, TypeOK, LoadedIsSource, MemoryIsAsked, NothingBegun, OnlyFirstCall
  <2>3. SoleTask' /\ IdleFile' /\ TasksEndInCall' /\ OkIsDone'
    BY <2>1 DEF EffectInv, SoleTask, IdleFile, TasksEndInCall, OkIsDone, Live, Path, Target
  <2>4. SoleStages'
    BY <2>1, EditFrame DEF EffectInv, SoleStages, Stage, Path, Target
  <2>. QED BY <2>2, <2>3, <2>4 DEF EffectInv
<1>. QED BY <1>1, <1>2, <1>3, <1>4, <1>5, <1>6 DEF Next

\* EffectInv holds throughout.
THEOREM EffectInvariant == Spec => []EffectInv
BY InitInv, NextInv, PTL DEF Spec

\* A first save that succeeds puts the memory state of every flagged constant on
\* disk, however many files and tasks there are, if no file holds two of them.
THEOREM FirstSaveIsFaithful == Spec => []FirstSaveLands
<1>1. EffectInv => FirstSaveLands
  <2>. SUFFICES ASSUME EffectInv, caller = "ok", calls = 1,
                       NEW c \in Saved, FileOf[c] \notin shared
                PROVE  OnDisk(c) = asked[c]
    BY DEF FirstSaveLands
  <2>1. PICK k \in 1..MaxCalls : c \in Consts /\ pc[<<k, c>>] # "none"
    BY DEF Saved
  <2>. DEFINE t == <<k, c>>
  <2>2. t \in Tasks /\ Target(t) = c /\ Path(t) = FileOf[c] /\ FileOf[c] \in Files
    BY <2>1, EffectAssumption DEF Tasks, Target, Path
  <2>. HIDE DEF t
  <2>3. pc[t] = "done" /\ Stage(t)
    BY <2>1, <2>2 DEF EffectInv, OkIsDone, SoleStages, t
  <2>4. disk[FileOf[c]] = Edit(loaded[FileOf[c]], c, asked[c])
    BY <2>2, <2>3 DEF Stage
  <2>5. asked[c] \in BOOLEAN
    BY <2>1 DEF EffectInv, TypeOK
  <2>6. disk[FileOf[c]].kind = "source" /\ (disk[FileOf[c]].attrs[c] > 0 <=> asked[c])
    BY <2>1, <2>4, <2>5, FirstEditLands DEF EffectInv
  <2>. QED BY <2>5, <2>6 DEF OnDisk
<1>. QED BY <1>1, EffectInvariant, PTL

\* However a first call ends, a file with one task holds the scanned text or the
\* edited one, once no write to it is under way or has failed.
THEOREM SoleWriterLeavesNoThirdText == Spec => []SoleWriterIsAtomic
<1>1. EffectInv => SoleWriterIsAtomic
  <2>. SUFFICES ASSUME EffectInv, NEW f \in Files, calls <= 1, f \notin shared, ~Unsettled(f)
                PROVE  disk[f] \in {loaded[f]} \cup {Edit(loaded[f], c, asked[c]) : c \in Saved \cap In(f)}
    BY DEF SoleWriterIsAtomic
  <2>0. calls = 0 \/ calls = 1
    BY DEF EffectInv, TypeOK
  <2>1. CASE calls = 0
    BY <2>1 DEF EffectInv, NothingBegun
  <2>2. CASE calls = 1 /\ \A t \in Tasks : Path(t) = f => pc[t] = "none"
    BY <2>2 DEF EffectInv, IdleFile
  <2>3. ASSUME calls = 1, NEW t \in Tasks, Path(t) = f, pc[t] # "none"
        PROVE  disk[f] \in {loaded[f]} \cup {Edit(loaded[f], c, asked[c]) : c \in Saved \cap In(f)}
    <3>1. Stage(t)
      BY <2>3 DEF EffectInv, SoleStages
    <3>2. io[t] \in {"none", "written"}
      BY <2>3 DEF Unsettled, Writing, EffectInv, TypeOK, IOs
    <3>3. Target(t) \in Saved \cap In(f)
      BY <2>3 DEF Saved, In, Tasks, Target, Path
    <3>. QED BY <2>3, <3>1, <3>2, <3>3 DEF Stage
  <2>. QED BY <2>0, <2>1, <2>2, <2>3
<1>. QED BY <1>1, EffectInvariant, PTL

-----------------------------------------------------------------------------
(* Any number of calls *)

\* Every call leaves memory, texts, tasks and writes well formed.
THEOREM EffectTypes == Spec => []TypeOK
<1>1. EffectInv => TypeOK
  BY DEF EffectInv
<1>. QED BY <1>1, EffectInvariant, PTL

\* What a task's write has come to by the time the task is where it is.
Ordered(t) ==
  /\ pc[t] \in {"none", "ready", "reading", "editing"} => io[t] = "none"
  /\ pc[t] = "saving" => io[t] # "none"
  /\ pc[t] = "done" => io[t] = "written"
  /\ t[1] > calls => pc[t] = "none"

OrderInv ==
  /\ \A t \in Tasks : Ordered(t)
  /\ caller = "ok" => \A c \in Consts : pc[<<calls, c>>] \in {"none", "done"}
  /\ caller # "idle" => calls # 0

\* OrderInv holds before the first call.
LEMMA OrderInit == Init => OrderInv
BY DEF Init, OrderInv, Ordered, Tasks

\* Every step keeps OrderInv.
LEMMA OrderNext == TypeOK /\ TasksEndInCall /\ OrderInv /\ [Next]_vars => OrderInv'
<1>. SUFFICES ASSUME TypeOK, TasksEndInCall, OrderInv, [Next]_vars PROVE OrderInv'
  OBVIOUS
<1>0. /\ pc \in [Tasks -> PCs] /\ io \in [Tasks -> IOs] /\ calls \in Nat
  BY DEF TypeOK
<1>1. ASSUME NEW c \in Consts, NEW yes \in BOOLEAN, BulkSet(c, yes) PROVE OrderInv'
  BY <1>1 DEF BulkSet, OrderInv, Ordered
<1>2. CASE Call
  <2>. DEFINE spawned == {t \in Tasks : t[1] = calls' /\ modified[Target(t)]}
  <2>1. /\ pc' = [t \in Tasks |-> IF t \in spawned THEN "ready" ELSE pc[t]]
        /\ calls' = calls + 1 /\ caller' = "joining" /\ io' = io
    BY <1>2 DEF Call
  <2>2. \A t \in Tasks : t[1] \in Nat
    BY EffectAssumption DEF Tasks
  <2>3. ASSUME NEW t \in Tasks PROVE Ordered(t)'
    <3>1. CASE t \in spawned
      <4>1. pc[t] = "none" /\ io[t] = "none"
        BY <1>0, <2>1, <3>1 DEF OrderInv, Ordered
      <4>. QED BY <1>0, <2>1, <3>1, <4>1 DEF Ordered
    <3>2. CASE t \notin spawned
      <4>1. pc'[t] = pc[t] /\ io'[t] = io[t]
        BY <2>1, <3>2
      <4>2. Ordered(t) /\ (t[1] > calls' => t[1] > calls)
        BY <1>0, <2>1, <2>2 DEF OrderInv
      <4>. QED BY <4>1, <4>2 DEF Ordered
    <3>. QED BY <3>1, <3>2
  <2>4. calls' # 0
    BY <1>0, <2>1
  <2>. QED BY <2>1, <2>3, <2>4 DEF OrderInv
<1>3. CASE CallerStep
  BY <1>3 DEF CallerStep, JoinFailed, Return, OrderInv, Ordered
\* A task or a write moves only while it is there to move, so the call has not
\* reported success, or the write is one the call did not begin.
<1>4. ASSUME NEW t \in Tasks, TaskStep(t) PROVE OrderInv'
  <2>. USE DEF TaskStep, Begin, Read, ReadFails, EditAndSave, Finish, Abort
  <2>1. UNCHANGED <<caller, calls>> /\ caller # "ok"
    BY <1>0, <1>4 DEF TasksEndInCall, Live
  <2>2. \A u \in Tasks : u # t => pc'[u] = pc[u] /\ io'[u] = io[u]
    BY <1>0, <1>4
  <2>3. Ordered(t)'
    <3>1. Ordered(t) /\ (t[1] > calls => pc[t] = "none")
      BY DEF OrderInv, Ordered
    <3>. QED BY <1>0, <1>4, <3>1 DEF Ordered, Live, IOs
  <2>. QED BY <2>1, <2>2, <2>3 DEF OrderInv, Ordered
<1>5. ASSUME NEW t \in Tasks, IOStep(t) PROVE OrderInv'
  <2>. USE DEF IOStep, Truncate, Write, WriteFails, Writing
  <2>1. UNCHANGED <<caller, calls, pc>>
    BY <1>5
  <2>2. \A u \in Tasks : u # t => io'[u] = io[u]
    BY <1>0, <1>5
  <2>3. Ordered(t)'
    BY <1>0, <1>5 DEF OrderInv, Ordered
  <2>. QED BY <2>1, <2>2, <2>3 DEF OrderInv, Ordered
<1>6. CASE UNCHANGED vars
  BY <1>6 DEF vars, OrderInv, Ordered
<1>. QED BY <1>1, <1>2, <1>3, <1>4, <1>5, <1>6 DEF Next

\* Under it, success means that everything was written.
LEMMA OrderMeansWritten == TypeOK /\ OrderInv => OkMeansWritten
<1>. SUFFICES ASSUME TypeOK, OrderInv, caller = "ok", NEW c \in Consts
              PROVE  /\ io[<<calls, c>>] \in {"none", "written"}
                     /\ io[<<calls, c>>] = "none" => pc[<<calls, c>>] = "none"
  BY DEF OkMeansWritten
<1>1. calls \in 1..MaxCalls
  BY DEF TypeOK, OrderInv
<1>2. <<calls, c>> \in Tasks
  BY <1>1 DEF Tasks
<1>. QED BY <1>2 DEF OrderInv, Ordered

\* Success is reported only if every write the call began went through, for any
\* number of calls, constants and files, and whatever earlier calls left behind.
THEOREM SuccessMeansWritten == Spec => []OkMeansWritten
<1>1. EffectInv => TypeOK /\ TasksEndInCall
  BY DEF EffectInv
<1>. QED BY <1>1, OrderMeansWritten, EffectInvariant, OrderInit, OrderNext, PTL DEF Spec

\* Identifiers are unique within a file: no conditional definition of a constant.
UniqueIdents ==
  \A c, d \in Consts : FileOf[c] = FileOf[d] /\ Ident[c] = Ident[d] => c = d

\* A whole text of the file of a constant nobody flagged has its scanned count.
Spares(txt, c) == txt.kind = "source" => txt.attrs[c] = loaded[FileOf[c]].attrs[c]

BystanderInv ==
  \A c \in Consts \ Saved :
    /\ Spares(disk[FileOf[c]], c)
    /\ \A t \in Tasks : Path(t) = FileOf[c] => Spares(text[t], c)

\* An edit for another constant of the file passes a constant over: their
\* identifiers differ, wherever their lines have drifted.
LEMMA EditSpares ==
  ASSUME UniqueIdents, NEW c \in Consts, NEW d \in Consts, c # d, FileOf[c] = FileOf[d],
         NEW txt, NEW yes, Spares(txt, c)
  PROVE  Spares(Edit(txt, d, yes), c)
<1>1. c \notin Matched(txt, d)
  BY DEF UniqueIdents, Matched
<1>. QED BY <1>1 DEF Spares, Edit

\* A task that moves has been spawned: its constant is no bystander.
LEMMA SavedGrows ==
  ASSUME \A t \in Tasks : pc[t] # "none" => pc'[t] # "none"
  PROVE  Saved \subseteq Saved'
BY DEF Saved, Tasks

\* Steps that touch no file and no text spare the bystanders.
LEMMA BystanderFrame ==
  ASSUME BystanderInv, Saved \subseteq Saved', UNCHANGED <<disk, text, loaded>>
  PROVE  BystanderInv'
BY DEF BystanderInv, Spares, Path, Target

\* BystanderInv is inductive if the identifiers of a file are unique.
LEMMA BystanderNext ==
  ASSUME UniqueIdents, TypeOK, BystanderInv, [Next]_vars
  PROVE  BystanderInv'
<1>0. /\ pc \in [Tasks -> PCs] /\ disk \in [Files -> Texts] /\ text \in [Tasks -> Texts]
  BY DEF TypeOK
<1>1. \A t \in Tasks : pc[t] # "none" => pc'[t] # "none"
  BY <1>0 DEF Next, BulkSet, Call, CallerStep, JoinFailed, Return, TaskStep, IOStep, Begin, Read,
         ReadFails, EditAndSave, Finish, Abort, Truncate, Write, WriteFails, vars
<1>2. Saved \subseteq Saved'
  BY <1>1, SavedGrows
<1>3. ASSUME UNCHANGED <<disk, text, loaded>> PROVE BystanderInv'
  BY <1>2, <1>3, BystanderFrame
<1>4. ASSUME NEW t \in Tasks, Read(t) PROVE BystanderInv'
  <2>. SUFFICES ASSUME NEW c \in Consts \ Saved
                PROVE  /\ Spares(disk'[FileOf[c]], c)
                       /\ \A u \in Tasks : Path(u) = FileOf[c] => Spares(text'[u], c)
    BY <1>2, <1>4 DEF Read, BystanderInv, Spares, Path, Target
  <2>. QED BY <1>0, <1>4 DEF Read, BystanderInv, Spares
<1>5. ASSUME NEW t \in Tasks, EditAndSave(t) PROVE BystanderInv'
  <2>. SUFFICES ASSUME NEW c \in Consts \ Saved
                PROVE  /\ Spares(disk'[FileOf[c]], c)
                       /\ \A u \in Tasks : Path(u) = FileOf[c] => Spares(text'[u], c)
    BY <1>2, <1>5 DEF EditAndSave, BystanderInv, Spares, Path, Target
  <2>1. Target(t) \in Saved
    BY <1>5 DEF EditAndSave, Saved, Tasks, Target
  <2>2. disk' = disk /\ loaded' = loaded /\ \A u \in Tasks : u # t => text'[u] = text[u]
    BY <1>0, <1>5 DEF EditAndSave
  <2>3. text'[t] \in {text[t], Edit(text[t], Target(t), deprecated[Target(t)])}
    BY <1>0, <1>5 DEF EditAndSave
  <2>4. Path(t) = FileOf[c] => Spares(text'[t], c)
    BY <2>1, <2>3, TaskFacts, EditSpares DEF BystanderInv
  <2>. QED BY <2>2, <2>4 DEF BystanderInv, Spares
<1>6. ASSUME NEW t \in Tasks, Truncate(t) \/ Write(t) PROVE BystanderInv'
  <2>. SUFFICES ASSUME NEW c \in Consts \ Saved
                PROVE  /\ Spares(disk'[FileOf[c]], c)
                       /\ \A u \in Tasks : Path(u) = FileOf[c] => Spares(text'[u], c)
    BY <1>2, <1>6 DEF Truncate, Write, BystanderInv, Spares, Path, Target
  <2>1. text' = text /\ loaded' = loaded
    BY <1>6 DEF Truncate, Write
  <2>2. disk'[FileOf[c]] = disk[FileOf[c]] \/ Path(t) = FileOf[c]
    BY <1>0, <1>6, EffectAssumption DEF Truncate, Write
  <2>3. Path(t) = FileOf[c] =>
          disk'[FileOf[c]] \in {Empty, Garbled, text[t]}
    BY <1>0, <1>6, TaskFacts DEF Truncate, Write, Overwrite
  <2>4. Spares(Empty, c) /\ Spares(Garbled, c)
    BY DEF Spares, Empty, Garbled
  <2>. QED BY <2>1, <2>2, <2>3, <2>4 DEF BystanderInv, Spares
<1>. QED
  BY <1>3, <1>4, <1>5, <1>6
     DEF Next, BulkSet, Call, CallerStep, JoinFailed, Return, TaskStep, IOStep, Begin,
         ReadFails, Finish, Abort, WriteFails, vars

\* Whatever is saved, fails or overlaps in any number of calls, a file that can
\* still be read has the scanned attributes on the constants nobody flagged.
THEOREM BystandersAreSafe ==
  ASSUME UniqueIdents
  PROVE  Spec => []BystandersUntouched
<1>1. Init => BystanderInv
  BY DEF Init, BystanderInv, Spares, Empty
<1>2. EffectInv /\ BystanderInv /\ [Next]_vars => BystanderInv'
  BY BystanderNext DEF EffectInv
<1>3. BystanderInv => BystandersUntouched
  BY DEF BystanderInv, Spares, BystandersUntouched
<1>. QED BY <1>1, <1>2, <1>3, EffectInvariant, PTL DEF Spec
=============================================================================
