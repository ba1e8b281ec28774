----------------------------- MODULE RenderLoop -----------------------------
(***************************************************************************)
(* The tasks of the binary and the channels between them: handle_input     *)
(* turns key presses into events; render draws, waits for an event and     *)
(* updates the State it owns; every save is a detached task that reaches   *)
(* into that State through raw pointers and reports over `effects`; main   *)
(* joins the first two.                                                    *)
(*                                                                         *)
(* Drawing takes at most one report from `effects` before it paints.  If   *)
(* there is one, print_changes holds the render task until it is sent a    *)
(* `finished` report.  The events themselves are abstracted to what these  *)
(* tasks tell apart; the modes, the prompt and the list are not modelled.  *)
(***************************************************************************)
EXTENDS Naturals, Sequences, FiniteSets

CONSTANTS
  Saves,    \* the save tasks that may be spawned
  MaxKeys,  \* bound: key presses
  Faults    \* what may fail: "save", "terminal", "update", "panic", "input"

ASSUME RenderAssumption ==
  /\ IsFiniteSet(Saves)
  /\ MaxKeys \in Nat
  /\ Faults \subseteq {"save", "terminal", "update", "panic", "input"}

VARIABLES
  input,       \* the task running handle_input
  typed,       \* key presses so far
  events,      \* the channel from handle_input to State
  render,      \* where the task running render is
  spinner,     \* the task Spinner::run_while draws with
  effects,     \* the channel from the save tasks to draw
  save,        \* save[s]: where save task s is
  main,        \* the try_join in main
  (* History, read by the properties only. *)
  overlapped   \* whether a save began before the last one was over

vars == <<input, typed, events, render, spinner, effects, save, main, overlapped>>

\* An event, by what State::update does with it: spawn a save, write the
\* constants or the view, or neither.
Events  == {"save", "edit", "other"}
Reports == {"effecting", "finished"}
Renders == {"draw", "report", "print", "paint", "wait", "ended", "failed", "panicked"}
Stages  == {"none", "spawned", "told", "saving", "ended", "failed"}

TypeOK ==
  /\ input \in {"reading", "ended", "failed"}
  /\ typed \in 0..MaxKeys
  /\ events \in Seq(Events)
  /\ render \in Renders
  /\ spinner \in {"idle", "on", "broken"}
  /\ effects \in Seq(Reports)
  /\ save \in [Saves -> Stages]
  /\ main \in {"joining", "exited", "crashed"}
  /\ overlapped \in BOOLEAN

-----------------------------------------------------------------------------
\* State is owned by the future of render, and dropped with it.
Alive   == render \notin {"ended", "failed", "panicked"}
Live(s) == save[s] \in {"spawned", "told", "saving"}
Running == main = "joining"

Init ==
  /\ input = "reading"
  /\ typed = 0
  /\ events = <<>>
  /\ render = "draw"
  /\ spinner = "idle"
  /\ effects = <<>>
  /\ save = [s \in Saves |-> "none"]
  /\ main = "joining"
  /\ overlapped = FALSE

(* handle_input *)

\* The bound on saves: every one asked for finds a task in Saves.
SaveLeft ==
  Cardinality({i \in DOMAIN events : events[i] = "save"})
    < Cardinality({s \in Saves : save[s] = "none"})

\* A key press is sent on; sending to a receiver that is gone is ignored.
Press(e) ==
  /\ Running
  /\ input = "reading"
  /\ typed < MaxKeys
  /\ e = "save" => SaveLeft
  /\ typed' = typed + 1
  /\ events' = IF Alive THEN Append(events, e) ELSE events
  /\ UNCHANGED <<input, render, spinner, effects, save, main, overlapped>>

\* Ctrl-C, Ctrl-D or the end of the terminal's stream, or an error reading it:
\* the loop is left, and the sending end of the channel dropped.
StopInput ==
  /\ Running
  /\ input = "reading"
  /\ input' \in {"ended"} \cup (IF "input" \in Faults THEN {"failed"} ELSE {})
  /\ UNCHANGED <<typed, events, render, spinner, effects, save, main, overlapped>>

(* render *)

\* The future of render is over: State and both receivers are dropped.
RenderOver(how) ==
  /\ render' = how
  /\ events' = <<>>
  /\ effects' = <<>>
  /\ spinner' = "idle"

\* Mutant of Draw: it takes every report there is and shows the first.
DrawDraining ==
  /\ Running
  /\ render = "draw"
  /\ effects' = <<>>
  /\ IF effects = <<>>
     THEN render' = "paint" /\ UNCHANGED spinner
     ELSE render' = "report" /\ spinner' = "on"
  /\ UNCHANGED <<input, typed, events, save, main, overlapped>>

\* draw: try_recv decides whether print_changes runs first.
Draw ==
  /\ Running
  /\ render = "draw"
  /\ \/ /\ effects = <<>>
        /\ render' = "paint"
        /\ UNCHANGED <<spinner, effects>>
     \/ /\ effects # <<>>
        /\ render' = "report"
        /\ spinner' = "on"
        /\ effects' = Tail(effects)
  /\ UNCHANGED <<input, typed, events, save, main, overlapped>>

\* The spinner's task fails to write to the terminal, and drops its receiver.
SpinnerBreaks ==
  /\ Running
  /\ "terminal" \in Faults
  /\ spinner = "on"
  /\ spinner' = "broken"
  /\ UNCHANGED <<input, typed, events, render, effects, save, main, overlapped>>

\* print_changes hands the report it began with to the spinner; an error ends
\* the worker and with it, through draw, render.
SendInitial ==
  /\ Running
  /\ render = "report"
  /\ IF spinner = "broken"
     THEN RenderOver("failed")
     ELSE render' = "print" /\ UNCHANGED <<events, spinner, effects>>
  /\ UNCHANGED <<input, typed, save, main, overlapped>>

\* print_changes receives a report: the first `finished` one ends it.  The
\* channel is never closed here, for State holds a sender.
Receive ==
  /\ Running
  /\ render = "print"
  /\ effects # <<>>
  /\ IF spinner = "broken"
     THEN RenderOver("failed")
     ELSE /\ effects' = Tail(effects)
          /\ IF Head(effects) = "finished"
             THEN render' = "paint" /\ spinner' = "idle"
             ELSE UNCHANGED <<render, spinner>>
          /\ UNCHANGED events
  /\ UNCHANGED <<input, typed, save, main, overlapped>>

\* The rest of draw writes to the terminal.
Paint ==
  /\ Running
  /\ render = "paint"
  /\ \/ render' = "wait" /\ UNCHANGED <<events, spinner, effects>>
     \/ "terminal" \in Faults /\ RenderOver("failed")
  /\ UNCHANGED <<input, typed, save, main, overlapped>>

\* State::update on a save event: a detached task is spawned.
UpdateSave ==
  /\ Head(events) = "save"
  /\ \E s \in Saves :
       /\ save[s] = "none"
       /\ save' = [save EXCEPT ![s] = "spawned"]
  /\ overlapped' = (overlapped \/ \E s \in Saves : Live(s))
  /\ render' = "draw"
  /\ events' = Tail(events)
  /\ UNCHANGED <<spinner, effects>>

\* State::update on any other event; filtering by a bad regex is an error, and a
\* prompt edited inside a wide character panics.
UpdateElse ==
  /\ Head(events) # "save"
  /\ \/ /\ render' = "draw"
        /\ events' = Tail(events)
        /\ UNCHANGED <<spinner, effects>>
     \/ /\ "update" \in Faults
        /\ Head(events) = "edit"
        /\ RenderOver("failed")
     \/ "panic" \in Faults /\ RenderOver("panicked")
  /\ UNCHANGED <<save, overlapped>>

Update ==
  /\ Running
  /\ render = "wait"
  /\ events # <<>>
  /\ UpdateSave \/ UpdateElse
  /\ UNCHANGED <<input, typed, main>>

\* Mutant of Quit: an input task that failed has left its sender behind.
QuitIfEnded ==
  /\ Running
  /\ render = "wait"
  /\ events = <<>>
  /\ input = "ended"
  /\ RenderOver("ended")
  /\ UNCHANGED <<input, typed, save, main, overlapped>>

\* The channel is closed and drained: render ends.
Quit ==
  /\ Running
  /\ render = "wait"
  /\ events = <<>>
  /\ input # "reading"
  /\ RenderOver("ended")
  /\ UNCHANGED <<input, typed, save, main, overlapped>>

(* A save task *)

Goto(s, stage) == save' = [save EXCEPT ![s] = stage]

\* Mutant of Tell: the first report is left to a later step that never comes.
TellNobody(s) ==
  /\ save[s] = "spawned"
  /\ Goto(s, "told")
  /\ UNCHANGED effects

\* It sends the first report.
Tell(s) ==
  /\ save[s] = "spawned"
  /\ Goto(s, "told")
  /\ effects' = Append(effects, "effecting")

\* effect_changes walks the container and spawns its tasks.
Begin(s) ==
  /\ save[s] = "told"
  /\ Goto(s, "saving")
  /\ UNCHANGED effects

\* Mutant of Finish: a failure sends a report no receiver knows.
FinishOrComplain(s) ==
  /\ save[s] = "saving"
  /\ \/ Goto(s, "ended") /\ effects' = Append(effects, "finished")
     \/ "save" \in Faults /\ Goto(s, "failed") /\ effects' = Append(effects, "failed")

\* effect_changes returns; only a success is reported.
Finish(s) ==
  /\ save[s] = "saving"
  /\ \/ Goto(s, "ended") /\ effects' = Append(effects, "finished")
     \/ "save" \in Faults /\ Goto(s, "failed") /\ UNCHANGED effects

SaveStep(s) ==
  /\ Running
  /\ Alive
  /\ Tell(s) \/ Begin(s) \/ Finish(s)
  /\ UNCHANGED <<input, typed, events, render, spinner, main, overlapped>>

\* State is gone: the task reads freed memory.  It may find what was there, to a
\* closed channel or a container still intact, find an error, or crash the process.
Dangle(s) ==
  /\ Running
  /\ ~Alive
  /\ Live(s)
  /\ \/ /\ save' = [save EXCEPT ![s] = CASE @ = "told" -> "saving"
                                         [] OTHER      -> "failed"]
        /\ UNCHANGED main
     \/ main' = "crashed" /\ UNCHANGED save
  /\ UNCHANGED <<input, typed, events, render, spinner, effects, overlapped>>

(* main *)

\* try_join of the two handles: a panic cuts it short, but an error that either
\* task returns does not, for its handle succeeds.
Exit ==
  /\ Running
  /\ \/ input # "reading" /\ ~Alive
     \/ render = "panicked"
  /\ main' = "exited"
  /\ UNCHANGED <<input, typed, events, render, spinner, effects, save, overlapped>>

RenderStep == Draw \/ SendInitial \/ Receive \/ Paint \/ Update \/ Quit

Next ==
  \/ \E e \in Events : Press(e)
  \/ StopInput
  \/ RenderStep
  \/ SpinnerBreaks
  \/ \E s \in Saves : SaveStep(s) \/ Dangle(s)
  \/ Exit

Spec == Init /\ [][Next]_vars

\* The runtime polls every task that can go on, and effect_changes returns
\* (CallReturns of EffectChanges).  Nothing obliges the user to type or to stop.
FairSpec ==
  /\ Spec
  /\ WF_vars(RenderStep)
  /\ \A s \in Saves : WF_vars(SaveStep(s))
  /\ WF_vars(Exit)

-----------------------------------------------------------------------------
(* Properties *)

SaveLost == \E s \in Saves : save[s] = "failed"

\* print_changes waits for a report that no task is left to send.
Hung == render = "print" /\ effects = <<>> /\ \A s \in Saves : ~Live(s)

\* The render task hangs in print_changes only after a save failed or two saves
\* overlapped: reports and tasks otherwise stay in step, however late draw polls.
HangHasCause == Hung => overlapped \/ SaveLost

\* Drawing goes ahead without waiting for a save only if the save has not sent
\* its first report: one that is at the container or at the disk is waited for.
DrawSkipsOnlyUntold ==
  [][render = "draw" /\ render' = "paint" /\ ~overlapped /\ ~SaveLost
       => \A s \in Saves : save[s] \notin {"told", "saving"}]_vars

\* Once the input task is over the program exits, whatever else failed, unless a
\* save failed or two saves overlapped.
StopQuitsUnlessHung ==
  input # "reading" ~> main # "joining" \/ overlapped \/ SaveLost

-----------------------------------------------------------------------------
(* The inductive invariant behind HangHasCause and DrawSkipsOnlyUntold, proved  *)
(* in RenderLoopProofs: counting the report print_changes began with, reports   *)
(* alternate, and a last `effecting` without its `finished` has a task behind   *)
(* it.                                                                          *)

Held == IF render \in {"report", "print"} THEN 1 ELSE 0
Open == \E s \in Saves : save[s] \in {"told", "saving"}

Alternates ==
  \A i \in DOMAIN effects : effects[i] = "effecting" <=> (i + Held) % 2 = 1

InStep ==
  Alive /\ ~overlapped /\ ~SaveLost =>
    /\ \A s, t \in Saves : Live(s) /\ Live(t) => s = t
    /\ Alternates
    /\ Open <=> (Len(effects) + Held) % 2 = 1

RenderInv == TypeOK /\ InStep /\ HangHasCause

-----------------------------------------------------------------------------
(* Claims of the comments that the code does not keep *)

\* main.rs:935: the captured pointers need not be 'static, for State outlives the
\* save.  Violated by leaving right after asking for a save.
StateOutlivesSaves == ~Alive => \A s \in Saves : ~Live(s)

\* main.rs:2054: Ctrl-C leaves the loop and has render terminate.  Violated after
\* a save that failed, and after two that overlapped.
StopQuits == input # "reading" ~> main # "joining"
=============================================================================
