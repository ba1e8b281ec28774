------------------------------ MODULE Terminal ------------------------------
(***************************************************************************)
(* The program and its terminal: init scans behind a spinner, raw mode and *)
(* the keyboard flags are set, the program draws, now and then behind the  *)
(* spinner again, and main undoes what it has done to the terminal on each *)
(* way out.  Spinner::run_while runs two tasks, a worker that sends it     *)
(* messages and one that draws them, one a tick, until the worker's sender *)
(* is dropped and the channel is empty; it waits for both, but not if the  *)
(* worker panics.                                                          *)
(*                                                                         *)
(* Messages are numbered in the order they are sent.  What render does     *)
(* between two drawings is in RenderLoop, what the scan does in Scan.      *)
(***************************************************************************)
EXTENDS Naturals

CONSTANTS
  MaxMessages,  \* bound: messages a worker sends
  MaxReports    \* bound: saves that are drawn behind the spinner

ASSUME TerminalAssumption == MaxMessages \in Nat /\ MaxReports \in Nat

VARIABLES
  phase,     \* where main is, and with it render
  raw,       \* whether raw mode is on
  flags,     \* whether the keyboard flags are pushed
  worker,    \* the first task of run_while
  sent,      \* messages it has sent
  spinner,   \* the second task of run_while
  received,  \* messages that has received
  reports,   \* saves drawn so far
  (* History, read by the properties only. *)
  painted,   \* the messages that have been on the screen
  fault,     \* whether a write to the terminal has failed
  refused    \* whether raw mode could not be set

screen == <<raw, flags>>
spin   == <<worker, sent, spinner, received, painted>>
vars   == <<phase, screen, spin, reports, fault, refused>>

Phases == {"starting", "scanning", "preparing", "raising", "drawing", "reporting",
           "broken", "closing", "exited"}

TypeOK ==
  /\ phase \in Phases
  /\ raw \in BOOLEAN
  /\ flags \in BOOLEAN
  /\ worker \in {"none", "busy", "ok", "failed", "panicked"}
  /\ sent \in 0..MaxMessages
  /\ spinner \in {"none", "hiding", "polling", "painting", "ended", "failed"}
  /\ received \in 0..sent
  /\ reports \in 0..MaxReports
  /\ painted \subseteq 1..MaxMessages
  /\ fault \in BOOLEAN
  /\ refused \in BOOLEAN

Init ==
  /\ phase = "starting"
  /\ raw = FALSE
  /\ flags = FALSE
  /\ worker = "none"
  /\ sent = 0
  /\ spinner = "none"
  /\ received = 0
  /\ reports = 0
  /\ painted = {}
  /\ fault = FALSE
  /\ refused = FALSE

-----------------------------------------------------------------------------
(* Spinner::run_while *)

Spinning == spinner \in {"hiding", "polling", "painting"}
WorkerOver == worker \in {"ok", "failed", "panicked"}

\* Both tasks are spawned, over a new channel.
Spawn ==
  /\ worker' = "busy"
  /\ sent' = 0
  /\ spinner' = "hiding"
  /\ received' = 0
  /\ painted' = {}

\* The worker sends a message, or ends on finding the receiver dropped.
Send ==
  /\ worker = "busy"
  /\ sent < MaxMessages
  /\ IF Spinning
     THEN sent' = sent + 1 /\ UNCHANGED worker
     ELSE worker' = "failed" /\ UNCHANGED sent
  /\ UNCHANGED <<phase, screen, spinner, received, painted, reports, fault, refused>>

\* The worker ends, and drops its sender.
EndWork ==
  /\ worker = "busy"
  /\ worker' \in {"ok", "failed", "panicked"}
  /\ UNCHANGED <<phase, screen, sent, spinner, received, painted, reports, fault, refused>>

\* The spinner's task hides the cursor and clears the screen.
HideCursor ==
  /\ spinner = "hiding"
  /\ \/ spinner' = "polling" /\ UNCHANGED fault
     \/ spinner' = "failed" /\ fault' = TRUE
  /\ UNCHANGED <<phase, screen, worker, sent, received, painted, reports, refused>>

\* Mutant of Poll: it takes a message to be there.
PollBlindly ==
  /\ spinner = "polling"
  /\ received' = received + 1
  /\ spinner' = "painting"
  /\ UNCHANGED <<phase, screen, worker, sent, painted, reports, fault, refused>>

\* Mutant of Poll: it stops as soon as the worker has.
PollWorker ==
  /\ spinner = "polling"
  /\ IF WorkerOver
     THEN spinner' = "ended" /\ UNCHANGED received
     ELSE spinner' = "painting" /\ received' = IF received < sent THEN received + 1 ELSE received
  /\ UNCHANGED <<phase, screen, worker, sent, painted, reports, fault, refused>>

\* Mutant of Poll: a worker that failed leaves the channel open.
PollForever ==
  /\ spinner = "polling"
  /\ IF received = sent /\ worker = "ok"
     THEN spinner' = "ended" /\ UNCHANGED received
     ELSE spinner' = "painting" /\ received' = IF received < sent THEN received + 1 ELSE received
  /\ UNCHANGED <<phase, screen, worker, sent, painted, reports, fault, refused>>

\* try_recv: the next message, if there is one; the end, if there can be none.
Poll ==
  /\ spinner = "polling"
  /\ \/ received < sent /\ received' = received + 1 /\ spinner' = "painting"
     \/ received = sent /\ ~WorkerOver /\ spinner' = "painting" /\ UNCHANGED received
     \/ received = sent /\ WorkerOver /\ spinner' = "ended" /\ UNCHANGED received
  /\ UNCHANGED <<phase, screen, worker, sent, painted, reports, fault, refused>>

\* The last message is drawn, and the task sleeps for the rest of the tick.
PaintFrame ==
  /\ spinner = "painting"
  /\ \/ /\ spinner' = "polling"
        /\ painted' = (painted \cup {received}) \ {0}
        /\ UNCHANGED fault
     \/ spinner' = "failed" /\ fault' = TRUE /\ UNCHANGED painted
  /\ UNCHANGED <<phase, screen, worker, sent, received, reports, refused>>

\* Mutant of Joined: the worker alone is waited for.
WorkerJoined(ok) == WorkerOver /\ ok = (worker = "ok")

\* try_join over the two handles: a panic ends it at once, and leaves the spinner's
\* task to itself; an error does not, for it is the handle's value.
Joined(ok) ==
  \/ worker = "panicked" /\ ~ok
  \/ worker \in {"ok", "failed"} /\ spinner \in {"ended", "failed"}
       /\ ok = (worker = "ok" /\ spinner = "ended")

-----------------------------------------------------------------------------
(* main *)

\* main returns: raw mode is disabled whatever happened, and tasks are dropped.
Exit ==
  /\ phase' = "exited"
  /\ raw' = FALSE
  /\ spinner' = IF Spinning THEN "failed" ELSE spinner
  /\ UNCHANGED <<worker, sent, received, painted>>

\* init: the cursor's position is saved, and the scan begins behind the spinner.
Start ==
  /\ phase = "starting"
  /\ \/ phase' = "scanning" /\ Spawn /\ UNCHANGED <<raw, fault>>
     \/ Exit /\ fault' = TRUE
  /\ UNCHANGED <<flags, reports, refused>>

\* The scan is over.
Scanned ==
  /\ phase = "scanning"
  /\ \/ Joined(TRUE) /\ phase' = "preparing" /\ UNCHANGED <<raw, spin>>
     \/ Joined(FALSE) /\ Exit
  /\ UNCHANGED <<flags, reports, fault, refused>>

\* prepare_space makes room for the list.
PrepareSpace ==
  /\ phase = "preparing"
  /\ \/ phase' = "raising" /\ UNCHANGED <<raw, spin, fault>>
     \/ Exit /\ fault' = TRUE
  /\ UNCHANGED <<flags, reports, refused>>

\* Raw mode is set and the flags pushed, the one even if the other failed.
Raise ==
  /\ phase = "raising"
  /\ \E rawSet, pushed \in BOOLEAN :
       /\ flags' = pushed
       /\ refused' = ~rawSet
       /\ fault' = (fault \/ ~pushed)
       /\ IF rawSet /\ pushed
          THEN phase' = "drawing" /\ raw' = TRUE /\ UNCHANGED spin
          ELSE Exit
  /\ UNCHANGED reports

\* render draws and waits until the user leaves; or an error, perhaps of a write, or
\* a panic breaks it off.
Draw ==
  /\ phase = "drawing"
  /\ \/ phase' = "closing" /\ UNCHANGED fault
     \/ phase' = "broken" /\ fault' \in {fault, TRUE}
  /\ UNCHANGED <<screen, spin, reports, refused>>

\* A save is drawn behind the spinner.
Report ==
  /\ phase = "drawing"
  /\ reports < MaxReports
  /\ reports' = reports + 1
  /\ phase' = "reporting"
  /\ Spawn
  /\ UNCHANGED <<screen, fault, refused>>

Reported ==
  /\ phase = "reporting"
  /\ \/ Joined(TRUE) /\ phase' = "drawing"
     \/ Joined(FALSE) /\ phase' = "broken"
  /\ UNCHANGED <<screen, spin, reports, fault, refused>>

\* Mutant of Close: an error of render leaves the flags to nobody.
CloseAfterSuccess ==
  /\ phase \in {"broken", "closing"}
  /\ Exit
  /\ IF phase = "closing" THEN flags' = FALSE ELSE UNCHANGED flags
  /\ UNCHANGED <<reports, fault, refused>>

\* The join of input and render is over: whatever its result the flags are popped,
\* if the terminal takes it.
Close ==
  /\ phase \in {"broken", "closing"}
  /\ Exit
  /\ \/ flags' = FALSE /\ UNCHANGED fault
     \/ fault' = TRUE /\ UNCHANGED flags
  /\ UNCHANGED <<reports, refused>>

SpinnerStep == HideCursor \/ Poll \/ PaintFrame

Next ==
  \/ Send \/ EndWork
  \/ SpinnerStep
  \/ Start \/ Scanned \/ PrepareSpace \/ Raise
  \/ Draw \/ Report \/ Reported \/ Close

Spec == Init /\ [][Next]_vars

\* The runtime polls both tasks and the one that joins them; nothing obliges a scan
\* or a save to end.
FairSpec == Spec /\ WF_vars(SpinnerStep) /\ WF_vars(Scanned \/ Reported)

-----------------------------------------------------------------------------
(* Properties *)

Behind == phase \in {"scanning", "reporting"}

\* The spinner's task ends of itself only when every message, also those sent just
\* before the worker ended, has been on the screen.
EveryMessageIsPainted == spinner = "ended" => painted = 1..sent

\* Nobody but the spinner writes to the terminal while it is at work, unless the
\* worker has panicked: run_while then returns with the spinner's task still going.
OneWriter == Spinning /\ ~Behind => worker = "panicked"

\* The list is drawn in raw mode and with the keyboard flags pushed, and they are
\* popped on every way out, unless the terminal refuses to, or raw mode could not be
\* set: main then returns before it can pop what it has pushed.
FlagsArePopped ==
  /\ phase \in {"drawing", "reporting", "broken", "closing"} => raw /\ flags
  /\ phase = "exited" /\ flags => fault \/ refused

\* run_while returns once its worker is over, however that ended.
SpinnerLetsGo == Behind /\ WorkerOver ~> ~Behind

-----------------------------------------------------------------------------
(* The inductive invariant behind them, proved in TerminalProofs. *)

\* The messages received are painted, but for the last while it is being painted.
InOrder ==
  /\ spinner \in {"none", "hiding"} => received = 0 /\ painted = {}
  /\ spinner = "polling" => painted = 1..received
  /\ spinner = "painting" => painted \cup ({received} \ {0}) = 1..received
  /\ spinner = "ended" => painted = 1..received /\ received = sent /\ WorkerOver

Alone ==
  /\ worker = "busy" => Behind
  /\ OneWriter

Set ==
  /\ phase \in {"starting", "scanning", "preparing", "raising"} => ~raw /\ ~flags
  /\ FlagsArePopped

TerminalInv == TypeOK /\ InOrder /\ Alone /\ Set
=============================================================================
