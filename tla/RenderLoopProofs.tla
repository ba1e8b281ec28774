-------------------------- MODULE RenderLoopProofs --------------------------
(***************************************************************************)
(* Proofs about RenderLoop, for any set of saves and any number of keys,   *)
(* whatever may fail.                                                      *)
(***************************************************************************)
EXTENDS RenderLoop, TLAPS

\* Emptying a channel, or taking its first element, leaves a channel.
LEMMA Channels ==
  /\ \A S : <<>> \in Seq(S)
  /\ \A S : \A s \in Seq(S) : s # <<>> => Head(s) \in S /\ Tail(s) \in Seq(S)
<1>1. \A S : <<>> \in Seq(S)
  OBVIOUS
<1>2. ASSUME NEW S, NEW s \in Seq(S), s # <<>> PROVE Head(s) \in S /\ Tail(s) \in Seq(S)
  BY <1>2
<1> QED
  BY <1>1, <1>2

\* Types are kept by every step.
LEMMA Typing == TypeOK /\ [Next]_vars => TypeOK'
<1> SUFFICES ASSUME TypeOK, [Next]_vars PROVE TypeOK'
  OBVIOUS
<1> USE DEF TypeOK, Events, Reports, Renders, Stages
<1>1. ASSUME NEW e \in Events, Press(e) PROVE TypeOK'
  <2>1. typed' \in 0..MaxKeys
    BY <1>1, RenderAssumption DEF Press
  <2> QED
    BY <1>1, <2>1 DEF Press
<1>2. CASE StopInput
  BY <1>2 DEF StopInput
<1>3. CASE Draw
  <2>1. CASE effects = <<>>
    BY <1>3, <2>1 DEF Draw
  <2>2. CASE effects # <<>>
    <3>1. effects' \in Seq(Reports)
      BY <1>3, <2>2, Channels DEF Draw
    <3> QED
      BY <1>3, <2>2, <3>1 DEF Draw
  <2> QED
    BY <2>1, <2>2
<1>4. CASE SendInitial
  <2>1. events' \in Seq(Events) /\ effects' \in Seq(Reports)
    BY <1>4, Channels DEF SendInitial, RenderOver
  <2> QED
    BY <1>4, <2>1 DEF SendInitial, RenderOver
<1>5. CASE Receive
  <2>1. events' \in Seq(Events) /\ effects' \in Seq(Reports)
    BY <1>5, Channels DEF Receive, RenderOver
  <2> QED
    BY <1>5, <2>1 DEF Receive, RenderOver
<1>6. CASE Paint
  <2>1. events' \in Seq(Events) /\ effects' \in Seq(Reports)
    BY <1>6, Channels DEF Paint, RenderOver
  <2> QED
    BY <1>6, <2>1 DEF Paint, RenderOver
<1>7. CASE Update
  <2>1. events' \in Seq(Events) /\ effects' \in Seq(Reports) /\ render' \in Renders
        /\ spinner' \in {"idle", "on", "broken"}
    BY <1>7, Channels DEF Update, UpdateSave, UpdateElse, RenderOver
  <2>2. save' \in [Saves -> Stages]
    BY <1>7 DEF Update, UpdateSave, UpdateElse
  <2>3. overlapped' \in BOOLEAN
    <3>1. CASE UpdateSave
      BY <3>1 DEF UpdateSave
    <3>2. CASE UpdateElse
      BY <3>2 DEF UpdateElse
    <3> QED
      BY <1>7, <3>1, <3>2 DEF Update
  <2> QED
    BY <1>7, <2>1, <2>2, <2>3 DEF Update
<1>8. CASE Quit
  BY <1>8 DEF Quit, RenderOver
<1>9. CASE SpinnerBreaks
  BY <1>9 DEF SpinnerBreaks
<1>10. ASSUME NEW s \in Saves, SaveStep(s) PROVE TypeOK'
  <2>1. save' \in [Saves -> Stages]
    BY <1>10 DEF SaveStep, Tell, Begin, Finish, Goto
  <2>2. effects' = effects \/ \E r \in Reports : effects' = Append(effects, r)
    BY <1>10 DEF SaveStep, Tell, Begin, Finish
  <2>3. \A r \in Reports : Append(effects, r) \in Seq(Reports)
    OBVIOUS
  <2>4. effects' \in Seq(Reports)
    BY <2>2, <2>3
  <2> QED
    BY <1>10, <2>1, <2>4 DEF SaveStep
<1>11. ASSUME NEW s \in Saves, Dangle(s) PROVE TypeOK'
  <2>1. save' \in [Saves -> Stages]
    BY <1>11 DEF Dangle
  <2> QED
    BY <1>11, <2>1 DEF Dangle
<1>12. CASE Exit
  BY <1>12 DEF Exit
<1>13. CASE UNCHANGED vars
  BY <1>13 DEF vars
<1> QED
  BY <1>1, <1>2, <1>3, <1>4, <1>5, <1>6, <1>7, <1>8, <1>9, <1>10, <1>11, <1>12, <1>13
  DEF Next, RenderStep

-----------------------------------------------------------------------------
\* One more report turns an odd number of them into an even one, and back.
LEMMA Parity == \A n \in Nat : ((n + 1) % 2 = 1) <=> ~(n % 2 = 1)
OBVIOUS

\* Once a step has been taken from a state in which render is gone, a save is
\* lost, or two have overlapped, that is still so.
LEMMA Latches ==
  ASSUME TypeOK, [Next]_vars, Alive', ~overlapped', ~SaveLost'
  PROVE  Alive /\ ~overlapped /\ ~SaveLost
<1> USE DEF TypeOK, Stages
<1>1. Alive
  BY DEF Next, vars, RenderStep, Alive, Press, StopInput, Draw, SendInitial, Receive, Paint,
     Update, Quit, SpinnerBreaks, SaveStep, Dangle, Exit
<1>2. ~overlapped
  <2>1. CASE Update
    BY <2>1 DEF Update, UpdateSave, UpdateElse
  <2>2. CASE ~Update
    BY <2>2 DEF Next, vars, RenderStep, Press, StopInput, Draw, SendInitial, Receive, Paint,
       Quit, SpinnerBreaks, SaveStep, Dangle, Exit
  <2> QED
    BY <2>1, <2>2
<1>3. ASSUME NEW s \in Saves, save[s] = "failed" PROVE FALSE
  <2>1. save'[s] = "failed"
    <3>1. CASE Update
      BY <3>1, <1>3 DEF Update, UpdateSave, UpdateElse
    <3>2. ASSUME NEW t \in Saves, SaveStep(t) PROVE save'[s] = "failed"
      BY <3>2, <1>3 DEF SaveStep, Tell, Begin, Finish, Goto
    <3>3. ASSUME NEW t \in Saves, Dangle(t) PROVE save'[s] = "failed"
      BY <3>3, <1>1 DEF Dangle
    <3>4. CASE UNCHANGED save
      BY <3>4, <1>3
    <3> QED
      BY <3>1, <3>2, <3>3, <3>4 DEF Next, vars, RenderStep, Press, StopInput, Draw, SendInitial,
         Receive, Paint, Quit, SpinnerBreaks, Exit
  <2> QED
    BY <2>1 DEF SaveLost
<1> QED
  BY <1>1, <1>2, <1>3 DEF SaveLost

-----------------------------------------------------------------------------
\* Taking the first of a row of alternating reports leaves an alternating one,
\* if the one taken is counted, or no longer counted, afterwards.
LEMMA TakeOne ==
  ASSUME TypeOK, Alternates, effects # <<>>, effects' = Tail(effects), Held' # Held
  PROVE  Alternates'
<1> SUFFICES ASSUME NEW i \in DOMAIN effects'
             PROVE  effects'[i] = "effecting" <=> (i + Held') % 2 = 1
  BY DEF Alternates
<1>1. effects \in Seq(Reports) /\ Held \in {0, 1} /\ Held' \in {0, 1}
  BY DEF TypeOK, Held
<1>2. i \in Nat /\ i + 1 \in DOMAIN effects /\ effects'[i] = effects[i + 1]
  BY <1>1
<1>3. effects[i + 1] = "effecting" <=> (i + 1 + Held) % 2 = 1
  BY <1>2 DEF Alternates
<1>4. (i + 1 + Held) % 2 = (i + Held') % 2
  <2>1. CASE Held = 0 /\ Held' = 1
    BY <2>1, <1>2
  <2>2. CASE Held = 1 /\ Held' = 0
    BY <2>2, <1>2
  <2> QED
    BY <2>1, <2>2, <1>1
<1> QED
  BY <1>2, <1>3, <1>4

\* Outside overlaps and lost saves, every step keeps reports and tasks in step.
LEMMA StaysInStep == TypeOK /\ InStep /\ [Next]_vars => InStep'
<1> SUFFICES ASSUME TypeOK, InStep, [Next]_vars, Alive', ~overlapped', ~SaveLost'
             PROVE  /\ (\A s, t \in Saves : Live(s) /\ Live(t) => s = t)'
                    /\ Alternates'
                    /\ (Open <=> (Len(effects) + Held) % 2 = 1)'
  BY DEF InStep
<1>0. Alive /\ ~overlapped /\ ~SaveLost
  BY Latches
<1>a. \A s, t \in Saves : Live(s) /\ Live(t) => s = t
  BY <1>0 DEF InStep
<1>b. Alternates
  BY <1>0 DEF InStep
<1>c. Open <=> (Len(effects) + Held) % 2 = 1
  BY <1>0 DEF InStep
<1>d. effects \in Seq(Reports) /\ Held \in {0, 1} /\ Len(effects) \in Nat
      /\ save \in [Saves -> Stages]
  BY DEF TypeOK, Held
<1>1. CASE UNCHANGED <<save, effects, Held>>
  BY <1>1, <1>a, <1>b, <1>c DEF Live, Alternates, Open
<1>2. CASE Draw /\ effects # <<>>
  <2>1. UNCHANGED save /\ effects' = Tail(effects) /\ Held = 0 /\ Held' = 1
    BY <1>2 DEF Draw, Held
  <2>2. Alternates'
    BY <2>1, <1>2, <1>b, TakeOne
  <2>3. Len(effects') + Held' = Len(effects) + Held
    BY <2>1, <1>2, <1>d
  <2> QED
    BY <2>1, <2>2, <2>3, <1>a, <1>c DEF Live, Open
<1>3. CASE Receive
  <2>1. UNCHANGED save /\ effects # <<>> /\ effects' = Tail(effects) /\ Held = 1
    BY <1>3 DEF Receive, Held, RenderOver, Alive
  <2>2. effects[1] # "effecting" /\ Head(effects) = effects[1] /\ effects[1] \in Reports
    <3>1. 1 \in DOMAIN effects /\ (1 + Held) % 2 # 1
      BY <2>1, <1>d
    <3> QED
      BY <3>1, <1>b, <1>d DEF Alternates
  <2>3. Held' = 0
    BY <1>3, <2>2 DEF Receive, Held, Reports, RenderOver, Alive
  <2>4. Alternates'
    BY <2>1, <2>3, <1>b, TakeOne
  <2>5. Len(effects') + Held' = Len(effects) + Held - 2
    BY <2>1, <2>3, <1>d
  <2>6. (Len(effects) + Held - 2) % 2 = (Len(effects) + Held) % 2
    BY <1>d
  <2> QED
    BY <2>1, <2>4, <2>5, <2>6, <1>a, <1>c DEF Live, Open
<1>4. CASE Update
  <2>1. UNCHANGED effects /\ Held = 0 /\ Held' = 0
    BY <1>4 DEF Update, UpdateSave, UpdateElse, RenderOver, Held, Alive
  <2>2. CASE UpdateSave
    <3>1. PICK s \in Saves : save[s] = "none" /\ save' = [save EXCEPT ![s] = "spawned"]
      BY <2>2 DEF UpdateSave
    <3>2. \A t \in Saves : ~Live(t)
      BY <2>2 DEF UpdateSave
    <3>3. \A t, u \in Saves : Live(t)' /\ Live(u)' => t = u
      BY <3>1, <3>2, <1>d DEF Live
    <3>4. Open' <=> Open
      BY <3>1, <1>d DEF Open
    <3> QED
      BY <3>3, <3>4, <2>1, <1>b, <1>c DEF Alternates
  <2>3. CASE UpdateElse
    BY <2>3, <2>1, <1>1 DEF UpdateElse
  <2> QED
    BY <1>4, <2>2, <2>3 DEF Update
<1>5. ASSUME NEW s \in Saves, SaveStep(s)
      PROVE  /\ (\A t, u \in Saves : Live(t) /\ Live(u) => t = u)'
             /\ Alternates'
             /\ (Open <=> (Len(effects) + Held) % 2 = 1)'
  <2>1. Live(s) /\ Held' = Held
    BY <1>5 DEF SaveStep, Tell, Begin, Finish, Live, Held
  <2>2. \A t \in Saves \ {s} : ~Live(t) /\ save'[t] = save[t]
    BY <1>5, <2>1, <1>a, <1>d DEF SaveStep, Tell, Begin, Finish, Goto
  <2>3. \A t, u \in Saves : Live(t)' /\ Live(u)' => t = u
    BY <2>2 DEF Live
  <2>4. Open <=> save[s] \in {"told", "saving"}
    BY <2>2 DEF Open, Live
  <2>5. Open' <=> save'[s] \in {"told", "saving"}
    BY <2>2 DEF Open, Live
  <2>6. CASE Begin(s)
    BY <2>6, <2>1, <2>3, <2>4, <2>5, <1>b, <1>c, <1>d DEF Begin, Goto, Alternates
  <2>7. ASSUME NEW r \in Reports, effects' = Append(effects, r), Open' <=> ~Open,
               r = "effecting" <=> ~Open
        PROVE  Alternates' /\ (Open <=> (Len(effects) + Held) % 2 = 1)'
    <3> DEFINE n == Len(effects) + Held
    <3>1. n \in Nat /\ Len(effects') + Held' = n + 1
      BY <2>7, <2>1, <1>d
    <3>2. (n + 1) % 2 = 1 <=> ~(n % 2 = 1)
      BY <3>1, Parity
    <3>3. ASSUME NEW i \in DOMAIN effects'
          PROVE  effects'[i] = "effecting" <=> (i + Held') % 2 = 1
      <4>1. CASE i \in DOMAIN effects
        BY <4>1, <2>7, <2>1, <1>b, <1>d DEF Alternates
      <4>2. CASE i = Len(effects) + 1
        <5>1. effects'[i] = r /\ i + Held' = n + 1
          BY <4>2, <2>7, <2>1, <1>d
        <5> QED
          BY <5>1, <3>2, <2>7, <1>c
      <4> QED
        BY <4>1, <4>2, <2>7, <1>d
    <3> QED
      BY <3>1, <3>2, <3>3, <2>7, <1>c DEF Alternates
  <2>8. CASE Tell(s)
    BY <2>8, <2>3, <2>4, <2>5, <2>7, <1>d DEF Tell, Goto, Reports
  <2>9. CASE Finish(s)
    <3>1. save'[s] # "failed"
      BY DEF SaveLost
    <3>2. save[s] = "saving" /\ save'[s] = "ended" /\ effects' = Append(effects, "finished")
      BY <2>9, <3>1, <1>d DEF Finish, Goto
    <3> QED
      BY <3>2, <2>3, <2>4, <2>5, <2>7 DEF Reports
  <2> QED
    BY <1>5, <2>3, <2>6, <2>8, <2>9 DEF SaveStep
<1>6. ASSUME NEW s \in Saves, Dangle(s) PROVE FALSE
  BY <1>6, <1>0 DEF Dangle
<1>7. CASE Draw /\ effects = <<>>
  BY <1>7, <1>1 DEF Draw, Held
<1>8. CASE SendInitial \/ Paint \/ Quit
  BY <1>8, <1>1 DEF SendInitial, Paint, Quit, RenderOver, Held, Alive
<1>9. CASE StopInput \/ SpinnerBreaks \/ Exit \/ UNCHANGED vars
  BY <1>9, <1>1 DEF StopInput, SpinnerBreaks, Exit, vars, Held
<1>10. ASSUME NEW e \in Events, Press(e) PROVE UNCHANGED <<save, effects, Held>>
  BY <1>10 DEF Press, Held
<1> QED
  BY <1>1, <1>2, <1>3, <1>4, <1>5, <1>6, <1>7, <1>8, <1>9, <1>10 DEF Next, RenderStep

\* A task is behind the report print_changes waits for.
LEMMA InStepIsLive == TypeOK /\ InStep => HangHasCause
<1> SUFFICES ASSUME TypeOK, InStep, Hung, ~overlapped, ~SaveLost PROVE FALSE
  BY DEF HangHasCause
<1>1. Alive /\ Held = 1 /\ Len(effects) = 0
  BY DEF Hung, Alive, Held
<1>2. Open
  BY <1>1 DEF InStep
<1> QED
  BY <1>2 DEF Open, Hung, Live

-----------------------------------------------------------------------------
\* The types and the agreement of reports with tasks hold of every reachable
\* state of the task graph of main.rs: draw, print_changes, the save tasks.
THEOREM RenderInvariant == Spec => []RenderInv
<1>1. Init => TypeOK /\ InStep
  <2> SUFFICES ASSUME Init PROVE TypeOK /\ InStep
    OBVIOUS
  <2>1. TypeOK
    <3>1. typed \in 0..MaxKeys
      BY RenderAssumption DEF Init
    <3>2. events \in Seq(Events) /\ effects \in Seq(Reports)
      BY Channels DEF Init
    <3>3. save \in [Saves -> Stages]
      BY DEF Init, Stages
    <3> QED
      BY <3>1, <3>2, <3>3 DEF Init, TypeOK, Renders
  <2>2. InStep
    BY DEF Init, InStep, Live, Alternates, Open, Held
  <2> QED
    BY <2>1, <2>2
<1>2. (TypeOK /\ InStep) /\ [Next]_vars => (TypeOK /\ InStep)'
  BY Typing, StaysInStep
<1>3. TypeOK /\ InStep => RenderInv
  BY InStepIsLive DEF RenderInv
<1> QED
  BY <1>1, <1>2, <1>3, PTL DEF Spec

\* Every channel holds its own kind of message, and every task is at one of its
\* stages, whatever fails.
THEOREM RenderTypes == Spec => []TypeOK
<1>1. RenderInv => TypeOK
  BY DEF RenderInv
<1> QED
  BY <1>1, RenderInvariant, PTL

\* print_changes never waits for a report nobody will send, unless a save failed
\* or two saves overlapped.
THEOREM HangsHaveCauses == Spec => []HangHasCause
<1>1. RenderInv => HangHasCause
  BY DEF RenderInv
<1> QED
  BY <1>1, RenderInvariant, PTL

\* Unless a save failed or two overlapped, draw paints without waiting only if no
\* save task has sent its first report.
THEOREM ToldSavesAreAwaited == Spec => DrawSkipsOnlyUntold
<1>1. RenderInv /\ [Next]_vars
        => [render = "draw" /\ render' = "paint" /\ ~overlapped /\ ~SaveLost
              => \A s \in Saves : save[s] \notin {"told", "saving"}]_vars
  <2> SUFFICES ASSUME RenderInv, Next, render = "draw", render' = "paint",
                      ~overlapped, ~SaveLost
               PROVE  \A s \in Saves : save[s] \notin {"told", "saving"}
    BY DEF vars
  <2>1. effects = <<>>
    BY DEF Next, RenderStep, Press, StopInput, Draw, SendInitial, Receive, Paint, Update,
       Quit, SpinnerBreaks, SaveStep, Dangle, Exit
  <2>2. Len(effects) + Held = 0
    BY <2>1 DEF Held
  <2>3. ~Open
    BY <2>2 DEF RenderInv, InStep, Alive
  <2> QED
    BY <2>3 DEF Open
<1> QED
  BY <1>1, RenderInvariant, PTL DEF Spec, DrawSkipsOnlyUntold
=============================================================================
