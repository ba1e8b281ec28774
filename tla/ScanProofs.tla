---------------------------- MODULE ScanProofs ----------------------------
(***************************************************************************)
(* Proofs about Scan, for any files, whatever they hold, however often the *)
(* program is killed and launched again.                                   *)
(***************************************************************************)
EXTENDS Scan, CfgIfProofs

-----------------------------------------------------------------------------
(* Channels *)

\* A new channel holds nothing.
LEMMA EmptyChannel ==
  /\ \A S : <<>> \in Seq(S)
  /\ IsInjective(<<>>)
  /\ \A e : ~Contains(<<>>, e)
BY DEF IsInjective, Contains

\* Sending adds the message, behind what is there.
LEMMA Sending ==
  ASSUME NEW S, NEW s \in Seq(S), NEW e \in S
  PROVE  /\ Append(s, e) \in Seq(S)
         /\ \A x : Contains(Append(s, e), x) <=> Contains(s, x) \/ x = e
         /\ IsInjective(s) /\ ~Contains(s, e) => IsInjective(Append(s, e))
<1> DEFINE t == Append(s, e)
<1>1. t \in Seq(S) /\ Len(t) = Len(s) + 1 /\ DOMAIN t = 1..(Len(s) + 1) /\ DOMAIN s = 1..Len(s)
  OBVIOUS
<1>2. /\ \A i \in 1..Len(s) : t[i] = s[i]
      /\ t[Len(s) + 1] = e
  OBVIOUS
<1>3. Len(s) \in Nat
  OBVIOUS
<1> HIDE DEF t
<1>4. ASSUME NEW x PROVE Contains(t, x) <=> Contains(s, x) \/ x = e
  <2>1. CASE Contains(t, x)
    <3>1. PICK i \in 1..(Len(s) + 1) : t[i] = x
      BY <2>1, <1>1 DEF Contains
    <3>2. i \in 1..Len(s) \/ i = Len(s) + 1
      BY <1>3
    <3> QED
      BY <3>1, <3>2, <1>2, <2>1 DEF Contains
  <2>2. CASE Contains(s, x)
    <3>1. PICK i \in 1..Len(s) : s[i] = x
      BY <2>2 DEF Contains
    <3>2. i \in 1..(Len(s) + 1) /\ t[i] = x
      BY <3>1, <1>2, <1>3
    <3> QED
      BY <3>2, <2>2, <1>1 DEF Contains
  <2>3. CASE x = e
    <3>1. Len(s) + 1 \in 1..(Len(s) + 1)
      BY <1>3
    <3> QED
      BY <3>1, <2>3, <1>1, <1>2 DEF Contains
  <2> QED
    BY <2>1, <2>2, <2>3
<1>5. ASSUME IsInjective(s), ~Contains(s, e) PROVE IsInjective(t)
  <2> SUFFICES ASSUME NEW i \in 1..(Len(s) + 1), NEW j \in 1..(Len(s) + 1), t[i] = t[j]
               PROVE  i = j
    BY <1>1 DEF IsInjective
  <2>1. \A k \in 1..Len(s) : s[k] # e
    BY <1>5 DEF Contains
  <2>2. (i \in 1..Len(s) \/ i = Len(s) + 1) /\ (j \in 1..Len(s) \/ j = Len(s) + 1)
    BY <1>3
  <2>3. CASE i \in 1..Len(s) /\ j \in 1..Len(s)
    BY <2>3, <1>1, <1>2, <1>5 DEF IsInjective
  <2> QED
    BY <2>1, <2>2, <2>3, <1>2
<1> QED
  BY <1>1, <1>4, <1>5 DEF t

\* Receiving takes the first message, and leaves the others.
LEMMA Receiving ==
  ASSUME NEW S, NEW s \in Seq(S), s # <<>>
  PROVE  /\ Head(s) \in S
         /\ Tail(s) \in Seq(S)
         /\ Contains(s, Head(s))
         /\ \A x : Contains(Tail(s), x) => Contains(s, x)
         /\ \A x : Contains(s, x) => x = Head(s) \/ Contains(Tail(s), x)
         /\ IsInjective(s) => IsInjective(Tail(s)) /\ ~Contains(Tail(s), Head(s))
<1> DEFINE t == Tail(s)
<1>1. /\ Head(s) \in S /\ t \in Seq(S) /\ Len(s) \in Nat \ {0} /\ Len(t) = Len(s) - 1
      /\ DOMAIN t = 1..(Len(s) - 1) /\ DOMAIN s = 1..Len(s)
  OBVIOUS
<1>2. /\ \A i \in 1..(Len(s) - 1) : t[i] = s[i + 1]
      /\ Head(s) = s[1]
  OBVIOUS
<1> HIDE DEF t
<1>3. Contains(s, Head(s))
  BY <1>1, <1>2 DEF Contains
<1>4. ASSUME NEW x, Contains(t, x) PROVE Contains(s, x)
  <2>1. PICK i \in 1..(Len(s) - 1) : t[i] = x
    BY <1>4, <1>1 DEF Contains
  <2>2. i + 1 \in 1..Len(s) /\ s[i + 1] = x
    BY <2>1, <1>1, <1>2
  <2> QED
    BY <2>2 DEF Contains
<1>5. ASSUME NEW x, Contains(s, x) PROVE x = Head(s) \/ Contains(t, x)
  <2>1. PICK i \in 1..Len(s) : s[i] = x
    BY <1>5 DEF Contains
  <2>2. CASE i = 1
    BY <2>1, <2>2, <1>2
  <2>3. CASE i # 1
    <3>1. i - 1 \in 1..(Len(s) - 1) /\ (i - 1) + 1 = i
      BY <2>3, <1>1
    <3>2. t[i - 1] = x
      BY <3>1, <2>1, <1>2
    <3> QED
      BY <3>1, <3>2, <1>1 DEF Contains
  <2> QED
    BY <2>2, <2>3
<1>6. ASSUME IsInjective(s) PROVE IsInjective(t) /\ ~Contains(t, Head(s))
  <2>1. ASSUME NEW i \in 1..(Len(s) - 1), NEW j \in 1..(Len(s) - 1), t[i] = t[j]
        PROVE  i = j
    <3>1. i + 1 \in 1..Len(s) /\ j + 1 \in 1..Len(s) /\ s[i + 1] = s[j + 1]
      BY <2>1, <1>1, <1>2
    <3>2. i + 1 = j + 1
      BY <3>1, <1>1, <1>6 DEF IsInjective
    <3> QED
      BY <3>2
  <2>2. ASSUME NEW i \in 1..(Len(s) - 1), t[i] = Head(s) PROVE FALSE
    <3>1. i + 1 \in 1..Len(s) /\ 1 \in 1..Len(s) /\ s[i + 1] = s[1]
      BY <2>2, <1>1, <1>2
    <3>2. i + 1 = 1
      BY <3>1, <1>1, <1>6 DEF IsInjective
    <3> QED
      BY <3>2
  <2> QED
    BY <2>1, <2>2, <1>1 DEF IsInjective, Contains
<1> QED
  BY <1>1, <1>3, <1>4, <1>5, <1>6 DEF t

-----------------------------------------------------------------------------
(* What reading a file gives never changes *)

\* What a file holds is fixed during a scan.
LEMMA FilesStay ==
  ASSUME fate' = fate
  PROVE  /\ \A f : Batch(f)' = Batch(f)
         /\ \A f : Parses(f)' <=> Parses(f)
BY DEF Batch, Parses

\* A batch says which file it is from.
LEMMA BatchesDiffer == \A f, g : Batch(f) = Batch(g) => f = g
BY DEF Batch

\* What holds while a scan is under way.
LEMMA ScanningInv ==
  ASSUME ScanInv, phase = "scanning"
  PROVE  TypeOK /\ Flow
BY DEF ScanInv, Parsing

-----------------------------------------------------------------------------
(* Before the scan *)

\* ScanInv holds at the start.
LEMMA InitInv == Init => ScanInv
<1> SUFFICES ASSUME Init PROVE ScanInv
  OBVIOUS
<1>1. TypeOK
  BY EmptyChannel, ScanAssumption DEF Init, TypeOK, Idle, Places, Phases
<1>2. Fresh
  BY DEF Init, Fresh
<1>3. ~Parsing
  BY DEF Init, Parsing
<1> QED
  BY <1>1, <1>2, <1>3 DEF ScanInv

\* As the two futures start, every file is still to be walked.
LEMMA EnterInv ==
  ASSUME ScanInv, phase \notin {"scanning"} \cup Over, Enter,
         place' \in Places, tree' \subseteq Files,
         UNCHANGED <<fate, runs, paths, task, inner_tx, results, builder>>
  PROVE  ScanInv'
<1>1. /\ TypeOK /\ paths = <<>> /\ task = Idle /\ inner_tx
      /\ results = <<>> /\ builder = <<>>
  BY DEF ScanInv, Fresh
<1>2. TypeOK'
  BY <1>1, EmptyChannel DEF TypeOK, Enter, Phases, Idle
<1>3. Fresh'
  BY DEF Fresh, Enter
<1>4. NoDoubles'
  BY <1>1, EmptyChannel DEF NoDoubles
<1>5. \A f \in Files : OnePlace(f)'
  BY <1>1, EmptyChannel DEF OnePlace, Idle
<1>6. \A f \in tree' : Kept(f)'
  BY DEF Kept, Enter
<1>7. Drained'
  BY <1>1 DEF Drained, Enter
<1> QED
  BY <1>2, <1>3, <1>4, <1>5, <1>6, <1>7 DEF ScanInv, Flow

\* Before the walk nothing is under way.
LEMMA BeforeInv ==
  ASSUME ScanInv, phase \notin {"scanning"} \cup Over,
         phase' \in Phases \ {"scanning", "ok"}, place' \in Places, tree' \subseteq Files,
         UNCHANGED <<fate, runs, parse>>
  PROVE  ScanInv'
<1>1. TypeOK /\ Fresh
  BY DEF ScanInv
<1>2. unwalked = {} /\ paths = <<>> /\ task = Idle /\ inner_tx /\ results = <<>> /\ builder = <<>>
  BY <1>1 DEF Fresh
<1>3. TypeOK'
  BY <1>1, <1>2, EmptyChannel DEF TypeOK, parse, Idle
<1>4. Fresh'
  BY <1>2 DEF Fresh, parse
<1>5. ~Parsing'
  BY DEF Parsing
<1> QED
  BY <1>3, <1>4, <1>5 DEF ScanInv

\* Every step towards the checkout keeps ScanInv.
LEMMA RepoInv == ASSUME ScanInv, RepoStep PROVE ScanInv'
<1>0. TypeOK
  BY DEF ScanInv
<1>1. CASE Canonicalize
  BY <1>0, <1>1, BeforeInv DEF Canonicalize, repo, TypeOK, Phases, Over
<1>2. CASE EnsureLibc
  BY <1>0, <1>2, BeforeInv DEF EnsureLibc, repo, TypeOK, Phases, Over
<1>3. CASE DiscoverRepo
  <2>1. CASE Enter
    BY <1>0, <1>3, <2>1, EnterInv DEF DiscoverRepo, repo, TypeOK, Over
  <2>2. CASE Stop("error")
    BY <1>0, <1>3, <2>2, BeforeInv DEF DiscoverRepo, Stop, repo, parse, TypeOK, Phases, Over
  <2> QED
    BY <1>3, <2>1, <2>2 DEF DiscoverRepo
<1>4. CASE PrepareClone
  BY <1>0, <1>4, BeforeInv DEF PrepareClone, Stop, parse, TypeOK, Phases, Places, Over
<1>5. CASE FetchRepo
  BY <1>0, <1>5, BeforeInv DEF FetchRepo, AbandonClone, Stop, parse, TypeOK, Phases, Places, Over
<1>6. CASE CheckOut
  <2>1. CASE place' = "root" /\ tree' = Files /\ Enter
    BY <1>6, <2>1, EnterInv DEF CheckOut, Places, Over
  <2>2. CASE AbandonClone
    BY <1>6, <2>2, BeforeInv DEF CheckOut, AbandonClone, Stop, parse, Phases, Places, Over
  <2> QED
    BY <1>6, <2>1, <2>2 DEF CheckOut
<1> QED
  BY <1>1, <1>2, <1>3, <1>4, <1>5, <1>6 DEF RepoStep

\* Whatever was under way, a run that is killed returns nothing.
LEMMA KillInv == ASSUME ScanInv, Kill PROVE ScanInv'
<1>1. CASE phase = "checkout"
  BY <1>1, BeforeInv DEF Kill, ScanInv, TypeOK, parse, Phases, Over
<1>2. CASE phase # "checkout"
  <2>1. (\A f : Batch(f)' = Batch(f)) /\ UNCHANGED <<place, tree, fate, runs, parse>>
    BY <1>2, FilesStay DEF Kill
  <2>2. TypeOK'
    BY <2>1 DEF Kill, ScanInv, TypeOK, Phases, parse
  <2> QED
    BY <2>2 DEF Kill, ScanInv, Fresh, Parsing, Over
<1> QED
  BY <1>1, <1>2

\* A launch keeps ScanInv.
LEMMA LaunchInv == ASSUME ScanInv, Launch PROVE ScanInv'
<1>1. TypeOK'
  BY EmptyChannel, ScanAssumption DEF ScanInv, TypeOK, Launch, Idle, Phases
<1>2. Fresh'
  BY DEF Fresh, Launch
<1>3. ~Parsing'
  BY DEF Parsing, Launch
<1> QED
  BY <1>1, <1>2, <1>3 DEF ScanInv

-----------------------------------------------------------------------------
(* The scan *)

\* A file met by the walk keeps ScanInv.
LEMMA WalkInv == ASSUME ScanInv, NEW f \in Files, Walk(f) PROVE ScanInv'
<1>1. TypeOK /\ Flow /\ fate' = fate
  BY ScanningInv DEF Walk, repo
<1>2. \A g : Batch(g)' = Batch(g) /\ (Parses(g)' <=> Parses(g))
  BY <1>1, FilesStay
<1>3. f \in tree /\ paths \in Seq(tree) /\ ~Contains(paths, f) /\ task[f] = "none"
  BY <1>1 DEF TypeOK, Flow, OnePlace, Walk
<1>4. CASE fate[f].kind = "hidden"
  <2>1. paths' = paths /\ ~Parses(f)
    BY <1>4 DEF Walk, Parses
  <2>2. TypeOK'
    BY <1>1, <1>2, <2>1 DEF TypeOK, Walk, repo
  <2>3. NoDoubles' /\ Drained'
    BY <1>1, <2>1 DEF Flow, NoDoubles, Drained, Walk
  <2>4. \A g \in Files : OnePlace(g)'
    BY <1>1, <1>2, <2>1 DEF Flow, OnePlace, Walk, repo
  <2>5. \A g \in tree' : Kept(g)'
    BY <1>1, <1>2, <2>1 DEF Flow, Kept, Walk, repo
  <2> QED
    BY <2>2, <2>3, <2>4, <2>5 DEF ScanInv, Flow, Fresh, Walk
<1>5. CASE fate[f].kind # "hidden"
  <2>1. paths' = Append(paths, f)
    BY <1>5 DEF Walk
  <2>2. /\ paths' \in Seq(tree)
        /\ \A g : Contains(paths', g) <=> Contains(paths, g) \/ g = f
        /\ IsInjective(paths) => IsInjective(paths')
    BY <2>1, <1>3, Sending
  <2>3. TypeOK'
    BY <1>1, <1>2, <2>2 DEF TypeOK, Walk, repo
  <2>4. NoDoubles'
    BY <1>1, <2>2 DEF Flow, NoDoubles, Walk
  <2>5. Drained'
    BY <1>1 DEF Flow, Drained, Walk
  <2>6. \A g \in Files : OnePlace(g)'
    BY <1>1, <1>2, <1>3, <2>2 DEF Flow, OnePlace, Walk, repo
  <2>7. \A g \in tree' : Kept(g)'
    BY <1>1, <1>2, <2>2 DEF Flow, Kept, Walk, repo
  <2> QED
    BY <2>3, <2>4, <2>5, <2>6, <2>7 DEF ScanInv, Flow, Fresh, Walk
<1> QED
  BY <1>4, <1>5

\* The spawn of a task for a file keeps ScanInv.
LEMMA SpawnInv == ASSUME ScanInv, Spawn PROVE ScanInv'
<1> DEFINE f == Head(paths)
<1>1. TypeOK /\ Flow /\ fate' = fate
  BY ScanningInv DEF Spawn, repo
<1>2. \A g : Batch(g)' = Batch(g) /\ (Parses(g)' <=> Parses(g))
  BY <1>1, FilesStay
<1>3. paths \in Seq(tree) /\ paths # <<>> /\ IsInjective(paths)
  BY <1>1 DEF TypeOK, Flow, NoDoubles, Spawn
<1>4. /\ f \in tree /\ paths' \in Seq(tree) /\ Contains(paths, f)
      /\ \A g : Contains(paths', g) => Contains(paths, g)
      /\ \A g : Contains(paths, g) => g = f \/ Contains(paths', g)
      /\ IsInjective(paths') /\ ~Contains(paths', f)
  BY <1>3, Receiving DEF Spawn
<1>5. task \in [Files -> {"none", "reading", "parsing", "ended"}] /\ f \in Files
  BY <1>1, <1>4 DEF TypeOK
<1> HIDE DEF f
<1>6. f \notin unwalked /\ task[f] = "none"
  BY <1>1, <1>4, <1>5 DEF Flow, OnePlace
<1>7. task' = [task EXCEPT ![f] = "reading"]
  BY DEF Spawn, f
<1>8. /\ task' \in [Files -> {"none", "reading", "parsing", "ended"}]
      /\ task'[f] = "reading"
      /\ \A g \in Files \ {f} : task'[g] = task[g]
  BY <1>5, <1>7
<1>9. TypeOK'
  BY <1>1, <1>2, <1>4, <1>8 DEF TypeOK, Spawn, repo
<1>10. NoDoubles'
  BY <1>1, <1>4 DEF Flow, NoDoubles, Spawn
<1>11. Drained'
  BY <1>1, <1>3 DEF Flow, Drained, Spawn
<1>12. ASSUME NEW g \in Files PROVE OnePlace(g)'
  <2>1. CASE g = f
    BY <2>1, <1>1, <1>2, <1>4, <1>5, <1>6, <1>8 DEF Flow, OnePlace, Spawn, repo
  <2>2. CASE g # f
    BY <2>2, <1>1, <1>2, <1>4, <1>8 DEF Flow, OnePlace, Spawn, repo
  <2> QED
    BY <2>1, <2>2
<1>13. ASSUME NEW g \in tree' PROVE Kept(g)'
  <2>1. g \in tree /\ g \in Files
    BY <1>1 DEF Spawn, repo, TypeOK
  <2>2. CASE g = f
    BY <2>2, <1>8 DEF Kept
  <2>3. CASE g # f
    BY <2>1, <2>3, <1>1, <1>2, <1>4, <1>8 DEF Flow, Kept, Spawn
  <2> QED
    BY <2>2, <2>3
<1> QED
  BY <1>9, <1>10, <1>11, <1>12, <1>13 DEF ScanInv, Flow, Fresh, Spawn

\* The end of the walk keeps ScanInv.
LEMMA DropTxInv == ASSUME ScanInv, DropTx PROVE ScanInv'
<1>1. TypeOK /\ Flow /\ fate' = fate
  BY ScanningInv DEF DropTx, repo
<1>2. \A g : Batch(g)' = Batch(g) /\ (Parses(g)' <=> Parses(g))
  BY <1>1, FilesStay
<1>3. TypeOK'
  BY <1>1, <1>2 DEF TypeOK, DropTx, repo
<1>4. NoDoubles' /\ Drained'
  BY <1>1 DEF Flow, NoDoubles, Drained, DropTx
<1>5. \A g \in Files : OnePlace(g)'
  BY <1>1, <1>2 DEF Flow, OnePlace, DropTx, repo
<1>6. \A g \in tree' : Kept(g)'
  BY <1>1, <1>2 DEF Flow, Kept, DropTx, repo
<1> QED
  BY <1>3, <1>4, <1>5, <1>6 DEF ScanInv, Flow, Fresh, DropTx

\* A read keeps ScanInv.
LEMMA ReadInv == ASSUME ScanInv, NEW f \in Files, Read(f) PROVE ScanInv'
<1>1. TypeOK /\ Flow /\ fate' = fate
  BY ScanningInv DEF Read, repo
<1>2. \A g : Batch(g)' = Batch(g) /\ (Parses(g)' <=> Parses(g))
  BY <1>1, FilesStay
<1>3. task \in [Files -> {"none", "reading", "parsing", "ended"}] /\ task[f] = "reading"
  BY <1>1 DEF TypeOK, Read
<1>4. /\ task' \in [Files -> {"none", "reading", "parsing", "ended"}]
      /\ task'[f] = "parsing" \/ (task'[f] = "ended" /\ ~Parses(f))
      /\ \A g \in Files \ {f} : task'[g] = task[g]
  BY <1>3 DEF Read, Parses
<1>5. TypeOK'
  BY <1>1, <1>2, <1>4 DEF TypeOK, Read, repo
<1>6. NoDoubles' /\ Drained'
  BY <1>1 DEF Flow, NoDoubles, Drained, Read
<1>7. ASSUME NEW g \in Files PROVE OnePlace(g)'
  <2>1. CASE g = f
    BY <2>1, <1>1, <1>2, <1>3, <1>4 DEF Flow, OnePlace, Read, repo
  <2>2. CASE g # f
    BY <2>2, <1>1, <1>2, <1>4 DEF Flow, OnePlace, Read, repo
  <2> QED
    BY <2>1, <2>2
<1>8. ASSUME NEW g \in tree' PROVE Kept(g)'
  <2>1. g \in tree /\ g \in Files
    BY <1>1 DEF Read, repo, TypeOK
  <2>2. CASE g = f
    BY <2>2, <1>2, <1>4 DEF Kept
  <2>3. CASE g # f
    BY <2>1, <2>3, <1>1, <1>2, <1>4 DEF Flow, Kept, Read
  <2> QED
    BY <2>2, <2>3
<1> QED
  BY <1>5, <1>6, <1>7, <1>8 DEF ScanInv, Flow, Fresh, Read

\* The parsing of a file keeps ScanInv.
LEMMA ParseInv == ASSUME ScanInv, NEW f \in Files, Parse(f) PROVE ScanInv'
<1>1. TypeOK /\ Flow /\ fate' = fate
  BY ScanningInv DEF Parse, repo
<1>2. \A g : Batch(g)' = Batch(g) /\ (Parses(g)' <=> Parses(g))
  BY <1>1, FilesStay
<1>3. task \in [Files -> {"none", "reading", "parsing", "ended"}] /\ task[f] = "parsing"
  BY <1>1 DEF TypeOK, Parse
<1>4. /\ task' \in [Files -> {"none", "reading", "parsing", "ended"}]
      /\ task'[f] = "ended"
      /\ \A g \in Files \ {f} : task'[g] = task[g]
  BY <1>3 DEF Parse
<1>5. f \in tree /\ f \notin unwalked /\ ~Contains(paths, f)
      /\ ~Contains(results, Batch(f)) /\ ~Contains(builder, Batch(f))
  BY <1>1, <1>3 DEF Flow, OnePlace
<1>6. NoDoubles'
  <2>1. CASE Parses(f)
    <3>1. results \in Seq({Batch(g) : g \in tree}) /\ results' = Append(results, Batch(f))
      BY <1>1, <2>1 DEF TypeOK, Parse
    <3>2. IsInjective(results) => IsInjective(results')
      BY <3>1, <1>5, Sending
    <3> QED
      BY <3>2, <1>1 DEF Flow, NoDoubles, Parse
  <2>2. CASE ~Parses(f)
    BY <2>2, <1>1 DEF Flow, NoDoubles, Parse
  <2> QED
    BY <2>1, <2>2
<1>7. /\ results' \in Seq({Batch(g) : g \in tree})
      /\ \A x : Contains(results', x) <=> Contains(results, x) \/ (x = Batch(f) /\ Parses(f))
  <2>1. results \in Seq({Batch(g) : g \in tree}) /\ Batch(f) \in {Batch(g) : g \in tree}
    BY <1>1, <1>5 DEF TypeOK
  <2>2. CASE Parses(f)
    <3>1. results' = Append(results, Batch(f))
      BY <2>2 DEF Parse
    <3> QED
      BY <2>1, <2>2, <3>1, Sending
  <2>3. CASE ~Parses(f)
    BY <2>1, <2>3 DEF Parse
  <2> QED
    BY <2>2, <2>3
<1>8. TypeOK'
  BY <1>1, <1>2, <1>4, <1>7 DEF TypeOK, Parse, repo
<1>9. Drained'
  BY <1>1 DEF Flow, Drained, Parse
<1>10. ASSUME NEW g \in Files PROVE OnePlace(g)'
  <2>1. CASE g = f
    BY <2>1, <1>1, <1>2, <1>4, <1>5, <1>7 DEF Flow, OnePlace, Parse, repo
  <2>2. CASE g # f
    <3>1. Batch(g) # Batch(f)
      BY <2>2, BatchesDiffer
    <3> QED
      BY <2>2, <3>1, <1>1, <1>2, <1>4, <1>7 DEF Flow, OnePlace, Parse, repo
  <2> QED
    BY <2>1, <2>2
<1>11. ASSUME NEW g \in tree' PROVE Kept(g)'
  <2>1. g \in tree /\ g \in Files
    BY <1>1 DEF Parse, repo, TypeOK
  <2>2. CASE g = f
    BY <2>2, <1>2, <1>7 DEF Kept
  <2>3. CASE g # f
    BY <2>1, <2>3, <1>1, <1>2, <1>4, <1>7 DEF Flow, Kept, Parse
  <2> QED
    BY <2>2, <2>3
<1> QED
  BY <1>6, <1>8, <1>9, <1>10, <1>11 DEF ScanInv, Flow, Fresh, Parse

\* The gatherer keeps ScanInv.
LEMMA GatherInv == ASSUME ScanInv, Gather PROVE ScanInv'
<1> DEFINE b == Head(results)
           Batches == {Batch(g) : g \in tree}
<1>1. TypeOK /\ Flow /\ fate' = fate
  BY ScanningInv DEF Gather, repo
<1>2. \A g : Batch(g)' = Batch(g) /\ (Parses(g)' <=> Parses(g))
  BY <1>1, FilesStay
<1>3. /\ results \in Seq(Batches) /\ results # <<>> /\ IsInjective(results)
      /\ builder \in Seq(Batches) /\ IsInjective(builder)
  BY <1>1 DEF TypeOK, Flow, NoDoubles, Gather
<1> HIDE DEF Batches
<1>4. /\ b \in Batches /\ results' \in Seq(Batches) /\ Contains(results, b)
      /\ \A x : Contains(results', x) => Contains(results, x)
      /\ \A x : Contains(results, x) => x = b \/ Contains(results', x)
      /\ IsInjective(results') /\ ~Contains(results', b)
  BY <1>3, Receiving DEF Gather
<1>5. builder' = Append(builder, b)
  BY DEF Gather
<1> HIDE DEF b
<1>6. PICK f \in tree : b = Batch(f)
  BY <1>4 DEF Batches
<1>7. f \in Files /\ task[f] = "ended" /\ Parses(f) /\ ~Contains(builder, b)
  BY <1>1, <1>4, <1>6 DEF TypeOK, Flow, OnePlace
<1>8. /\ builder' \in Seq(Batches)
      /\ \A x : Contains(builder', x) <=> Contains(builder, x) \/ x = b
      /\ IsInjective(builder')
  BY <1>3, <1>4, <1>5, <1>7, Sending
<1>9. TypeOK'
  BY <1>1, <1>2, <1>4, <1>8 DEF TypeOK, Gather, repo, Batches
<1>10. NoDoubles'
  BY <1>1, <1>4, <1>8 DEF Flow, NoDoubles, Gather
<1>11. Drained'
  BY <1>1 DEF Flow, Drained, Gather
<1>12. ASSUME NEW g \in Files PROVE OnePlace(g)'
  <2>1. CASE g = f
    BY <2>1, <1>1, <1>2, <1>4, <1>6, <1>7, <1>8 DEF Flow, OnePlace, Gather, repo
  <2>2. CASE g # f
    <3>1. Batch(g) # b
      BY <2>2, <1>6, BatchesDiffer
    <3> QED
      BY <3>1, <1>1, <1>2, <1>4, <1>8 DEF Flow, OnePlace, Gather, repo
  <2> QED
    BY <2>1, <2>2
<1>13. \A g \in tree' : Kept(g)'
  BY <1>1, <1>2, <1>4, <1>8 DEF Flow, Kept, Gather, repo
<1> QED
  BY <1>9, <1>10, <1>11, <1>12, <1>13 DEF ScanInv, Flow, Fresh, Gather

\* The end of the scan keeps ScanInv.
LEMMA ReturnInv == ASSUME ScanInv, Return PROVE ScanInv'
<1>1. TypeOK /\ Flow /\ UNCHANGED <<repo, parse>>
  BY ScanningInv DEF Return
<1>2. \A g : Batch(g)' = Batch(g) /\ (Parses(g)' <=> Parses(g))
  BY <1>1, FilesStay DEF repo
<1>3. TypeOK'
  BY <1>1, <1>2 DEF TypeOK, Return, repo, parse, Phases
<1>4. NoDoubles'
  BY <1>1 DEF Flow, NoDoubles, parse
<1>5. Drained'
  BY <1>1 DEF Flow, Drained, Return, parse
<1>6. \A g \in Files : OnePlace(g)'
  BY <1>1, <1>2 DEF Flow, OnePlace, repo, parse
<1>7. \A g \in tree' : Kept(g)'
  BY <1>1, <1>2 DEF Flow, Kept, repo, parse
<1> QED
  BY <1>3, <1>4, <1>5, <1>6, <1>7 DEF ScanInv, Flow, Fresh, Return, Over

\* A stuttering step keeps ScanInv.
LEMMA StutterInv == ASSUME ScanInv, UNCHANGED vars PROVE ScanInv'
<1>1. UNCHANGED <<repo, phase, parse>>
  BY DEF vars
<1>2. \A g : Batch(g)' = Batch(g) /\ (Parses(g)' <=> Parses(g))
  BY <1>1, FilesStay DEF repo
<1>3. TypeOK' /\ Fresh'
  BY <1>1, <1>2 DEF ScanInv, TypeOK, Fresh, repo, parse
<1>4. Parsing => NoDoubles' /\ Drained'
  BY <1>1 DEF ScanInv, Flow, NoDoubles, Drained, parse
<1>5. Parsing => \A g \in Files : OnePlace(g)'
  BY <1>1, <1>2 DEF ScanInv, Flow, OnePlace, repo, parse
<1>6. Parsing => \A g \in tree' : Kept(g)'
  BY <1>1, <1>2 DEF ScanInv, Flow, Kept, repo, parse
<1> QED
  BY <1>1, <1>3, <1>4, <1>5, <1>6 DEF ScanInv, Flow, Parsing

-----------------------------------------------------------------------------
(* Theorems *)

\* Between the walk of a file and the gatherer's receipt of its constants the file is
\* in one place, and leaves it only for the next or because it does not parse.
THEOREM ScanInvariant == Spec => []ScanInv
<1>1. ScanInv /\ [Next]_vars => ScanInv'
  <2> SUFFICES ASSUME ScanInv, [Next]_vars PROVE ScanInv'
    OBVIOUS
  <2>1. CASE RepoStep
    BY <2>1, RepoInv
  <2>2. ASSUME NEW f \in Files, Walk(f) \/ Read(f) \/ Parse(f) PROVE ScanInv'
    BY <2>2, WalkInv, ReadInv, ParseInv
  <2>3. CASE Spawn
    BY <2>3, SpawnInv
  <2>4. CASE DropTx
    BY <2>4, DropTxInv
  <2>5. CASE Gather
    BY <2>5, GatherInv
  <2>6. CASE Return
    BY <2>6, ReturnInv
  <2>7. CASE Kill
    BY <2>7, KillInv
  <2>8. CASE Launch
    BY <2>8, LaunchInv
  <2>9. CASE UNCHANGED vars
    BY <2>9, StutterInv
  <2> QED
    BY <2>1, <2>2, <2>3, <2>4, <2>5, <2>6, <2>7, <2>8, <2>9 DEF Next, ScanStep
<1> QED
  BY InitInv, <1>1, PTL DEF Spec

\* The channels hold paths of the tree and the constants of its files, whole and in
\* their order.
THEOREM ScanTypes == Spec => []TypeOK
<1>1. ScanInv => TypeOK
  BY DEF ScanInv
<1> QED
  BY <1>1, ScanInvariant, PTL

\* What scan returns has every file of the tree that parses, once, and nothing else.
THEOREM ScanCompletes == Spec => []ScanIsComplete
<1>1. ScanInv => ScanIsComplete
  <2> SUFFICES ASSUME ScanInv, phase = "ok" PROVE ScanIsComplete
    BY DEF ScanIsComplete
  <2>1. TypeOK /\ Flow
    BY DEF ScanInv, Parsing
  <2>2. /\ ~inner_tx /\ results = <<>> /\ unwalked = {} /\ paths = <<>>
        /\ \A f \in Files : task[f] \in {"none", "ended"}
    BY <2>1 DEF Flow, Drained
  <2>3. ASSUME NEW f \in tree PROVE Contains(builder, Batch(f)) <=> Parses(f)
    <3>1. f \in Files
      BY <2>1 DEF TypeOK
    <3>2. Contains(builder, Batch(f)) => Parses(f)
      BY <3>1, <2>1 DEF Flow, OnePlace
    <3>3. Parses(f) => Contains(builder, Batch(f))
      BY <3>1, <2>1, <2>2, EmptyChannel DEF Flow, Kept
    <3> QED
      BY <3>2, <3>3
  <2> QED
    BY <2>1, <2>3 DEF ScanIsComplete, Flow, NoDoubles
<1> QED
  BY <1>1, ScanInvariant, PTL

-----------------------------------------------------------------------------
(* The path the user named *)

\* What is at the path is what the launches so far have made of it.
LEMMA RepoShapeHolds == Spec => []RepoShape
<1>1. Init => RepoShape
  BY DEF Init, RepoShape
<1>2. TypeOK /\ RepoShape /\ [Next]_vars => RepoShape'
  <2> SUFFICES ASSUME TypeOK, RepoShape, [Next]_vars PROVE RepoShape'
    OBVIOUS
  <2>0. place \in Places /\ runs \in 1..MaxRuns
    BY DEF TypeOK
  <2>1. CASE Canonicalize
    BY <2>1 DEF Canonicalize, RepoShape, repo
  <2>2. CASE EnsureLibc
    BY <2>2 DEF EnsureLibc, RepoShape, repo
  <2>3. CASE DiscoverRepo
    BY <2>3 DEF DiscoverRepo, Enter, Stop, RepoShape, repo
  <2>4. CASE PrepareClone
    BY <2>4 DEF PrepareClone, Stop, RepoShape
  <2>5. CASE FetchRepo
    BY <2>5 DEF FetchRepo, AbandonClone, Stop, RepoShape
  <2>6. CASE CheckOut
    BY <2>6 DEF CheckOut, AbandonClone, Enter, Stop, RepoShape
  <2>7. CASE Kill
    <3>1. CASE phase = "checkout"
      BY <2>7, <3>1 DEF Kill, RepoShape
    <3>2. CASE phase # "checkout"
      BY <2>7, <3>2 DEF Kill, RepoShape
    <3> QED BY <3>1, <3>2
  <2>8. CASE Launch
    <3>1. runs' # 1 /\ phase' = "locating" /\ UNCHANGED <<place, tree>>
      BY <2>0, <2>8, ScanAssumption DEF Launch
    <3> QED BY <3>1 DEF RepoShape
  <2>9. ASSUME UNCHANGED <<repo, phase>> PROVE RepoShape'
    BY <2>9 DEF RepoShape, repo
  <2>10. ASSUME NEW f \in Files, Walk(f) \/ Read(f) \/ Parse(f) PROVE RepoShape'
    BY <2>9, <2>10 DEF Walk, Read, Parse
  <2>11. CASE Spawn \/ DropTx \/ Gather \/ UNCHANGED vars
    BY <2>9, <2>11 DEF Spawn, DropTx, Gather, vars
  <2>12. CASE Return
    BY <2>12 DEF Return, RepoShape, repo
  <2> QED
    BY <2>1, <2>2, <2>3, <2>4, <2>5, <2>6, <2>7, <2>8, <2>10, <2>11, <2>12
       DEF Next, ScanStep, RepoStep
<1> QED
  BY <1>1, <1>2, ScanTypes, PTL DEF Spec

\* A file is missing from what scan returns only for a reason the user can see: they named
\* a directory below the root, or an earlier launch was cut short.
THEOREM ScanMissesWithCause == Spec => []MissingFilesHaveCauses
<1>1. TypeOK /\ RepoShape /\ ScanIsComplete => MissingFilesHaveCauses
  <2> SUFFICES ASSUME TypeOK, RepoShape, ScanIsComplete, phase = "ok",
                      place # "below", ~(place = "partial" /\ runs > 1),
                      NEW f \in Files, Parses(f)
               PROVE  Contains(builder, Batch(f))
    BY DEF MissingFilesHaveCauses, WholeCodebaseIsWalked
  <2>1. place = "root"
    BY DEF TypeOK, RepoShape, Places
  <2>2. f \in tree
    BY <2>1 DEF RepoShape
  <2> QED
    BY <2>2 DEF ScanIsComplete
<1> QED
  BY <1>1, ScanTypes, RepoShapeHolds, ScanCompletes, PTL

-----------------------------------------------------------------------------
(* What the constants in a batch are *)

\* Where a save would look, it finds what the scan found.
LEMMA VisitedIsParsed ==
  ASSUME NEW C, NEW file, BodiesOf(C, file)
  PROVE  Visited(file) = ParseConstants(file)
<1>1. \A i \in DOMAIN file : file[i].kind = "cfg_if" =>
        MacroContainer(file[i].body) = MacroParser(file[i].body)
  BY TheParsersAgree DEF BodiesOf, ParsersAgree
<1>2. [i \in DOMAIN file |-> CASE file[i].kind = "const"  -> <<file[i].const>>
                               [] file[i].kind = "cfg_if" -> MacroContainer(file[i].body).consts
                               [] OTHER                   -> <<>>]
    = [i \in DOMAIN file |-> CASE file[i].kind = "const"  -> <<file[i].const>>
                               [] file[i].kind = "cfg_if" -> MacroParser(file[i].body).consts
                               [] OTHER                   -> <<>>]
  BY <1>1
<1> QED
  BY <1>2 DEF Visited, ParseConstants

\* The parser of the scan yields what a well formed file declares, and does not panic.
LEMMA DeclaredIsParsed ==
  ASSUME NEW C, NEW file, BodiesOf(C, file), WellFormed(file)
  PROVE  ParseConstants(file) = Declared(file) /\ ~Panics(file)
<1>1. \A i \in DOMAIN file : file[i].kind = "cfg_if" =>
        MacroParser(file[i].body) = Parsed(FlattenSeq(BranchConsts(file[i].body)))
  BY EveryBranchRead DEF BodiesOf, EveryBranchIsRead, WellFormed
<1>2. \A i \in DOMAIN file : file[i].kind = "cfg_if" =>
        /\ MacroParser(file[i].body).consts = FlattenSeq(BranchConsts(file[i].body))
        /\ MacroParser(file[i].body).ok
  <2>1. \A consts : Parsed(consts).consts = consts /\ Parsed(consts).ok
    BY DEF Parsed
  <2> QED
    BY <1>1, <2>1
<1>3. [i \in DOMAIN file |-> CASE file[i].kind = "const"  -> <<file[i].const>>
                               [] file[i].kind = "cfg_if" -> MacroParser(file[i].body).consts
                               [] OTHER                   -> <<>>]
    = [i \in DOMAIN file |-> CASE file[i].kind = "const"  -> <<file[i].const>>
                               [] file[i].kind = "cfg_if" -> FlattenSeq(BranchConsts(file[i].body))
                               [] OTHER                   -> <<>>]
  BY <1>2
<1>4. ParseConstants(file) = Declared(file)
  BY <1>3 DEF ParseConstants, Declared
<1>5. ~Panics(file)
  BY <1>2 DEF Panics
<1> QED
  BY <1>4, <1>5

\* A Rust file holds what a file may hold.
LEMMA ItemsType ==
  ASSUME TypeOK, NEW f \in Files, fate[f].kind = "rust"
  PROVE  fate[f].items \in Contents
<1>1. fate[f] \in Fates
  BY DEF TypeOK
<1> QED
  BY <1>1 DEF Fates

\* Whatever the files hold, a scan that returns has every constant of every branch of
\* every cfg_if that is one.
THEOREM ScanReadsBranches ==
  ASSUME NEW C, \A items \in Contents : BodiesOf(C, items)
  PROVE  Spec => []EveryBranchIsScanned
<1>1. TypeOK /\ ScanIsComplete => EveryBranchIsScanned
  <2> SUFFICES ASSUME TypeOK, ScanIsComplete, phase = "ok", NEW f \in tree,
                      fate[f].kind = "rust", WellFormed(fate[f].items)
               PROVE  Contains(builder, [from |-> f, consts |-> Declared(fate[f].items)])
    BY DEF EveryBranchIsScanned
  <2>1. BodiesOf(C, fate[f].items)
    BY ItemsType DEF TypeOK
  <2>2. ParseConstants(fate[f].items) = Declared(fate[f].items) /\ ~Panics(fate[f].items)
    BY <2>1, DeclaredIsParsed
  <2> QED
    BY <2>2 DEF ScanIsComplete, Parses, Batch
<1> QED
  BY <1>1, ScanTypes, ScanCompletes, PTL

\* Whatever the files hold, the save that follows a scan meets just the constants in
\* the container.
THEOREM SavesMeetScans ==
  ASSUME NEW C, \A items \in Contents : BodiesOf(C, items)
  PROVE  Spec => []SavesFindWhatScansFound
<1>1. TypeOK /\ ScanIsComplete => SavesFindWhatScansFound
  <2> SUFFICES ASSUME TypeOK, ScanIsComplete, phase = "ok", NEW n \in DOMAIN builder
               PROVE  Visited(fate[builder[n].from].items) = builder[n].consts
    BY DEF SavesFindWhatScansFound
  <2>1. builder \in Seq({Batch(f) : f \in tree})
    BY DEF TypeOK
  <2>2. PICK f \in tree : builder[n] = Batch(f)
    BY <2>1
  <2>3. Contains(builder, Batch(f))
    BY <2>1, <2>2 DEF Contains
  <2>4. fate[f].kind = "rust" /\ f \in Files
    BY <2>3 DEF ScanIsComplete, Parses, TypeOK
  <2>5. BodiesOf(C, fate[f].items)
    BY <2>4, ItemsType
  <2>6. Visited(fate[f].items) = ParseConstants(fate[f].items)
    BY <2>5, VisitedIsParsed
  <2> QED
    BY <2>2, <2>6 DEF Batch
<1> QED
  BY <1>1, ScanTypes, ScanCompletes, PTL
=============================================================================
