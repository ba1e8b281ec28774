--------------------------- MODULE TerminalProofs ---------------------------
(***************************************************************************)
(* Proofs about Terminal, for any number of messages and of saves.         *)
(***************************************************************************)
EXTENDS Terminal, TLAPS

USE TerminalAssumption

\* TerminalInv holds at the start.
LEMMA InitInv == Init => TerminalInv
<1> SUFFICES ASSUME Init PROVE TerminalInv
  OBVIOUS
<1>1. received \in 0..sent /\ sent \in 0..MaxMessages /\ reports \in 0..MaxReports
  BY DEF Init
<1>2. TypeOK
  BY <1>1 DEF Init, TypeOK, Phases
<1>3. InOrder
  BY DEF Init, InOrder
<1>4. Alone
  BY DEF Init, Alone, OneWriter, Spinning
<1>5. Set
  BY DEF Init, Set, FlagsArePopped
<1> QED
  BY <1>2, <1>3, <1>4, <1>5 DEF TerminalInv

\* The worker's steps.
LEMMA WorkerInv == ASSUME TerminalInv, Send \/ EndWork PROVE TerminalInv'
<1>1. TypeOK'
  <2>1. CASE Send
    <3>1. sent' \in 0..MaxMessages /\ received \in 0..sent'
      BY <2>1 DEF TerminalInv, TypeOK, Send
    <3>2. worker' \in {"busy", "failed"}
      BY <2>1 DEF Send
    <3> QED
      BY <2>1, <3>1, <3>2 DEF TerminalInv, TypeOK, Send, screen
  <2>2. CASE EndWork
    BY <2>2 DEF TerminalInv, TypeOK, EndWork, screen
  <2> QED
    BY <2>1, <2>2
<1>2. InOrder'
  BY DEF TerminalInv, TypeOK, InOrder, Send, EndWork, WorkerOver
<1>3. Alone'
  BY DEF TerminalInv, Alone, OneWriter, Behind, Spinning, Send, EndWork
<1>4. Set'
  BY DEF TerminalInv, Set, FlagsArePopped, Send, EndWork, screen
<1> QED
  BY <1>1, <1>2, <1>3, <1>4 DEF TerminalInv

\* The spinner's steps: it receives one message at a time, and paints it before the
\* next.
LEMMA SpinnerInv == ASSUME TerminalInv, SpinnerStep PROVE TerminalInv'
<1>1. CASE HideCursor
  <2>1. TypeOK' /\ Set'
    BY <1>1 DEF TerminalInv, TypeOK, Set, FlagsArePopped, HideCursor, screen
  <2>2. InOrder'
    BY <1>1 DEF TerminalInv, InOrder, HideCursor
  <2>3. Alone'
    BY <1>1 DEF TerminalInv, Alone, OneWriter, Behind, Spinning, HideCursor
  <2> QED
    BY <2>1, <2>2, <2>3 DEF TerminalInv
<1>2. CASE Poll
  <2>1. TypeOK' /\ Set'
    BY <1>2 DEF TerminalInv, TypeOK, Set, FlagsArePopped, Poll, screen
  <2>2. received \in Nat /\ painted = 1..received
    BY <1>2 DEF TerminalInv, TypeOK, InOrder, Poll
  <2>3. InOrder'
    BY <1>2, <2>2 DEF InOrder, Poll, WorkerOver
  <2>4. Alone'
    BY <1>2 DEF TerminalInv, Alone, OneWriter, Behind, Spinning, Poll
  <2> QED
    BY <2>1, <2>3, <2>4 DEF TerminalInv
<1>3. CASE PaintFrame
  <2>1. /\ sent \in Nat /\ sent <= MaxMessages /\ received \in 0..sent
        /\ painted \cup ({received} \ {0}) = 1..received
        /\ painted \subseteq 1..MaxMessages
    BY <1>3 DEF TerminalInv, TypeOK, InOrder, PaintFrame
  <2>2. 0 \notin painted
    BY <2>1
  <2>3. (painted \cup {received}) \ {0} = 1..received
    BY <2>1, <2>2
  <2>4. painted' \subseteq 1..MaxMessages
    BY <1>3, <2>1, <2>3 DEF PaintFrame
  <2>5. TypeOK' /\ Set'
    BY <1>3, <2>4 DEF TerminalInv, TypeOK, Set, FlagsArePopped, PaintFrame, screen
  <2>6. InOrder'
    BY <1>3, <2>3 DEF InOrder, PaintFrame
  <2>7. Alone'
    BY <1>3 DEF TerminalInv, Alone, OneWriter, Behind, Spinning, PaintFrame
  <2> QED
    BY <2>5, <2>6, <2>7 DEF TerminalInv
<1> QED
  BY <1>1, <1>2, <1>3 DEF SpinnerStep

\* main returns: what is left is gone.
LEMMA ExitInv ==
  ASSUME TerminalInv, Exit, worker # "busy", flags' => fault' \/ refused',
         flags' \in BOOLEAN, fault' \in BOOLEAN, refused' \in BOOLEAN, UNCHANGED reports
  PROVE  TerminalInv'
<1>1. TypeOK'
  BY DEF TerminalInv, TypeOK, Phases, Exit, Spinning
<1>2. InOrder'
  BY DEF TerminalInv, InOrder, Exit, WorkerOver, Spinning
<1>3. Alone'
  BY DEF TerminalInv, Alone, OneWriter, Exit, Spinning
<1>4. Set'
  BY DEF Set, FlagsArePopped, Exit
<1> QED
  BY <1>1, <1>2, <1>3, <1>4 DEF TerminalInv

\* The two tasks are spawned.
LEMMA SpawnInv ==
  ASSUME TerminalInv, Spawn, phase' \in {"scanning", "reporting"}, Set',
         UNCHANGED <<screen, fault, refused>>, reports' \in 0..MaxReports
  PROVE  TerminalInv'
<1>1. TypeOK'
  BY DEF TerminalInv, TypeOK, Phases, Spawn, screen
<1>2. InOrder'
  BY DEF InOrder, Spawn
<1>3. Alone'
  BY DEF Alone, OneWriter, Behind, Spawn
<1> QED
  BY <1>1, <1>2, <1>3 DEF TerminalInv

\* run_while is over: neither task goes on, but for a spinner whose worker panicked.
LEMMA JoinedInv ==
  ASSUME TerminalInv, NEW ok \in BOOLEAN, Joined(ok)
  PROVE  worker # "busy" /\ (Spinning => worker = "panicked")
BY DEF Joined, Spinning

\* main, while the two tasks are not there.
LEMMA QuietInv ==
  ASSUME TerminalInv, UNCHANGED <<spin, reports>>, worker # "busy",
         Spinning => worker = "panicked", phase' \in Phases, Set',
         raw' \in BOOLEAN, flags' \in BOOLEAN, fault' \in BOOLEAN, refused' \in BOOLEAN
  PROVE  TerminalInv'
<1>1. TypeOK'
  BY DEF TerminalInv, TypeOK, spin
<1>2. InOrder'
  BY DEF TerminalInv, InOrder, spin, WorkerOver
<1>3. Alone'
  BY DEF TerminalInv, Alone, OneWriter, spin, Spinning
<1> QED
  BY <1>1, <1>2, <1>3 DEF TerminalInv

\* The steps of main keep TerminalInv.
LEMMA MainInv ==
  ASSUME TerminalInv,
         Start \/ Scanned \/ PrepareSpace \/ Raise \/ Draw \/ Report \/ Reported \/ Close
  PROVE  TerminalInv'
<1>1. TypeOK /\ Set /\ (~Behind => worker # "busy") /\ OneWriter
  BY DEF TerminalInv, Alone
<1>2. CASE Start
  <2>1. ~raw /\ ~flags /\ worker # "busy"
    BY <1>1, <1>2 DEF Start, Set, Behind
  <2>2. CASE phase' = "scanning" /\ Spawn /\ UNCHANGED <<raw, fault>>
    <3>1. Set' /\ UNCHANGED <<screen, fault, refused>> /\ reports' \in 0..MaxReports
      BY <1>1, <1>2, <2>1, <2>2 DEF Start, Set, FlagsArePopped, screen, TypeOK
    <3> QED
      BY <2>2, <3>1, SpawnInv
  <2>3. CASE Exit /\ fault' = TRUE
    BY <1>1, <1>2, <2>1, <2>3, ExitInv DEF Start, TypeOK
  <2> QED
    BY <1>2, <2>2, <2>3 DEF Start
<1>3. CASE Scanned
  <2>1. ~raw /\ ~flags
    BY <1>1, <1>3 DEF Scanned, Set
  <2>2. worker # "busy" /\ (Spinning => worker = "panicked")
    BY <1>3, JoinedInv DEF Scanned
  <2>3. CASE phase' = "preparing" /\ UNCHANGED <<raw, spin>>
    <3>1. Set' /\ phase' \in Phases
      BY <1>3, <2>1, <2>3 DEF Scanned, Set, FlagsArePopped, Phases
    <3> QED
      BY <1>1, <1>3, <2>2, <2>3, <3>1, QuietInv DEF Scanned, TypeOK
  <2>4. CASE Exit
    BY <1>1, <1>3, <2>1, <2>2, <2>4, ExitInv DEF Scanned, TypeOK
  <2> QED
    BY <1>3, <2>3, <2>4 DEF Scanned
<1>4. CASE PrepareSpace
  <2>1. ~raw /\ ~flags /\ worker # "busy" /\ (Spinning => worker = "panicked")
    BY <1>1, <1>4 DEF PrepareSpace, Set, Behind, OneWriter
  <2>2. CASE phase' = "raising" /\ UNCHANGED <<raw, spin, fault>>
    <3>1. Set' /\ phase' \in Phases
      BY <1>4, <2>1, <2>2 DEF PrepareSpace, Set, FlagsArePopped, Phases
    <3> QED
      BY <1>1, <1>4, <2>1, <2>2, <3>1, QuietInv DEF PrepareSpace, TypeOK
  <2>3. CASE Exit /\ fault' = TRUE
    BY <1>1, <1>4, <2>1, <2>3, ExitInv DEF PrepareSpace, TypeOK
  <2> QED
    BY <1>4, <2>2, <2>3 DEF PrepareSpace
<1>5. CASE Raise
  <2>1. worker # "busy" /\ (Spinning => worker = "panicked")
    BY <1>1, <1>5 DEF Raise, Behind, OneWriter
  <2>2. PICK rawSet \in BOOLEAN, pushed \in BOOLEAN :
          /\ flags' = pushed
          /\ refused' = ~rawSet
          /\ fault' = (fault \/ ~pushed)
          /\ IF rawSet /\ pushed
             THEN phase' = "drawing" /\ raw' = TRUE /\ UNCHANGED spin
             ELSE Exit
    BY <1>5, Zenon DEF Raise
  <2>3. flags' \in BOOLEAN /\ refused' \in BOOLEAN /\ fault' \in BOOLEAN /\ UNCHANGED reports
    BY <1>1, <1>5, <2>2 DEF TypeOK, Raise
  <2>4. CASE rawSet /\ pushed
    <3>1. Set' /\ phase' \in Phases /\ raw' \in BOOLEAN /\ UNCHANGED spin
      BY <2>2, <2>4 DEF Set, FlagsArePopped, Phases
    <3> QED
      BY <2>1, <2>3, <3>1, QuietInv
  <2>5. CASE ~(rawSet /\ pushed)
    <3>1. Exit /\ (flags' => fault' \/ refused')
      BY <2>2, <2>5
    <3> QED
      BY <2>1, <2>3, <3>1, ExitInv
  <2> QED
    BY <2>4, <2>5
<1>6. CASE Draw
  <2>1. raw /\ flags /\ worker # "busy" /\ (Spinning => worker = "panicked")
    BY <1>1, <1>6 DEF Draw, Set, FlagsArePopped, Behind, OneWriter
  <2>2. Set' /\ phase' \in Phases /\ fault' \in BOOLEAN
    BY <1>1, <1>6, <2>1 DEF Draw, Set, FlagsArePopped, Phases, TypeOK, screen
  <2> QED
    BY <1>1, <1>6, <2>1, <2>2, QuietInv DEF Draw, TypeOK, screen
<1>7. CASE Report
  <2>1. raw /\ flags
    BY <1>1, <1>7 DEF Report, Set, FlagsArePopped
  <2>2. Set' /\ reports' \in 0..MaxReports
    BY <1>1, <1>7, <2>1 DEF Report, Set, FlagsArePopped, TypeOK, screen
  <2> QED
    BY <1>7, <2>2, SpawnInv DEF Report
<1>8. CASE Reported
  <2>1. raw /\ flags
    BY <1>1, <1>8 DEF Reported, Set, FlagsArePopped
  <2>2. worker # "busy" /\ (Spinning => worker = "panicked")
    BY <1>8, JoinedInv DEF Reported
  <2>3. Set' /\ phase' \in Phases
    BY <1>8, <2>1 DEF Reported, Set, FlagsArePopped, Phases, screen
  <2> QED
    BY <1>1, <1>8, <2>2, <2>3, QuietInv DEF Reported, TypeOK, screen
<1>9. CASE Close
  <2>1. worker # "busy"
    BY <1>1, <1>9 DEF Close, Behind
  <2> QED
    BY <1>1, <1>9, <2>1, ExitInv DEF Close, TypeOK
<1> QED
  BY <1>2, <1>3, <1>4, <1>5, <1>6, <1>7, <1>8, <1>9

\* A stuttering step keeps TerminalInv.
LEMMA StutterInv == ASSUME TerminalInv, UNCHANGED vars PROVE TerminalInv'
BY DEF TerminalInv, TypeOK, InOrder, Alone, OneWriter, Set, FlagsArePopped, Behind, Spinning,
       WorkerOver, vars, spin, screen

-----------------------------------------------------------------------------
\* The spinner paints message after message, alone on the terminal, and what main does
\* to the terminal main undoes.
THEOREM TerminalInvariant == Spec => []TerminalInv
<1>1. TerminalInv /\ [Next]_vars => TerminalInv'
  BY WorkerInv, SpinnerInv, MainInv, StutterInv DEF Next
<1> QED
  BY InitInv, <1>1, PTL DEF Spec

\* No message is received before it is sent.
THEOREM TerminalTypes == Spec => []TypeOK
<1>1. TerminalInv => TypeOK
  BY DEF TerminalInv
<1> QED
  BY <1>1, TerminalInvariant, PTL

\* Every message a worker has sent is shown before the spinner ends of itself.
THEOREM MessagesArePainted == Spec => []EveryMessageIsPainted
<1>1. TerminalInv => EveryMessageIsPainted
  BY DEF TerminalInv, InOrder, EveryMessageIsPainted
<1> QED
  BY <1>1, TerminalInvariant, PTL

\* run_while leaves no task that writes to the terminal, unless its worker panicked.
THEOREM SpinnerIsAlone == Spec => []OneWriter
<1>1. TerminalInv => OneWriter
  BY DEF TerminalInv, Alone
<1> QED
  BY <1>1, TerminalInvariant, PTL

\* The keyboard flags are popped on every way out, but for the two that are named.
THEOREM FlagsGetPopped == Spec => []FlagsArePopped
<1>1. TerminalInv => FlagsArePopped
  BY DEF TerminalInv, Set
<1> QED
  BY <1>1, TerminalInvariant, PTL
=============================================================================
