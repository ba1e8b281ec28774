----------------------------- MODULE CfgIfProofs -----------------------------
(***************************************************************************)
(* Proofs about the two parsers of a cfg_if, for bodies of any length with *)
(* blocks of any statements: they agree, they read every branch of what    *)
(* has the form of a cfg_if and nothing else, and no file with one can be  *)
(* scanned again after a save.                                             *)
(*                                                                         *)
(* The functions of CfgIf are defined by recursion.  Induction over their  *)
(* arguments is stated for sets of numbers, Upwards and Downwards, and     *)
(* proved from the least element that every set of naturals has.  That the *)
(* functions exist at all is proved the same way, by Recursion.            *)
(*                                                                         *)
(* MacroContainer is followed by its states, one per token.  MacroParser   *)
(* is followed by what it reads from each token on: at the `if` of a       *)
(* branch, what the states come to is what they have so far, joined with   *)
(* what it reads (Follows), shown from the last branch to the first.       *)
(***************************************************************************)
EXTENDS CfgIf, WellFoundedInduction, TLAPS

-----------------------------------------------------------------------------
(* Induction *)

\* Every set of naturals has a least element.
LEMMA Least ==
  ASSUME NEW T, T \subseteq Nat, T # {}
  PROVE  \E n \in T : \A m \in T : n <= m
<1>1. IsWellFoundedOn(OpToRel(<, Nat), Nat)
  BY NatLessThanWellFounded
<1>2. PICK n \in T : \A m \in T : <<m, n>> \notin OpToRel(<, Nat)
  BY <1>1, WFMin
<1>3. \A m \in T : ~(m < n)
  BY <1>2 DEF OpToRel
<1>. QED BY <1>3

\* From 0 up.
LEMMA Upwards ==
  ASSUME NEW n \in Nat, NEW T, 0 \in T, \A k \in 1..n : k - 1 \in T => k \in T
  PROVE  \A k \in 0..n : k \in T
<1>. DEFINE Bad == {k \in 0..n : k \notin T}
<1>1. SUFFICES ASSUME Bad # {} PROVE FALSE
  OBVIOUS
<1>2. PICK k \in Bad : \A m \in Bad : k <= m
  <2>1. Bad \subseteq Nat
    OBVIOUS
  <2>. HIDE DEF Bad
  <2>. QED BY <1>1, <2>1, Least
<1>3. k \in 1..n /\ k - 1 \in 0..n
  BY <1>2
<1>4. k - 1 \notin Bad
  BY <1>2, <1>3
<1>. QED BY <1>2, <1>3, <1>4

\* From n down, each number from all those past it.
LEMMA Downwards ==
  ASSUME NEW n \in Nat, NEW T,
         \A k \in 1..n : (\A m \in (k + 1)..n : m \in T) => k \in T
  PROVE  \A k \in 1..n : k \in T
<1>. DEFINE Bad == {b \in Nat : b < n /\ n - b \notin T}
<1>1. SUFFICES ASSUME NEW k \in 1..n, k \notin T PROVE FALSE
  OBVIOUS
<1>2. n - k \in Bad
  <2>1. n - k \in Nat /\ n - (n - k) = k /\ n - k < n
    OBVIOUS
  <2>. QED BY <1>1, <2>1
<1>3. PICK b \in Bad : \A a \in Bad : b <= a
  <2>1. Bad \subseteq Nat
    OBVIOUS
  <2>. HIDE DEF Bad
  <2>. QED BY <1>2, <2>1, Least
<1>4. n - b \in 1..n /\ n - b \notin T
  BY <1>3
<1>5. \A m \in (n - b + 1)..n : m \in T
  <2>. SUFFICES ASSUME NEW m \in (n - b + 1)..n, m \notin T PROVE FALSE
    OBVIOUS
  <2>1. n - m \in Nat /\ n - (n - m) = m /\ n - m < n /\ n - m < b
    BY <1>3, <1>4
  <2>2. n - m \in Bad
    BY <2>1
  <2>3. b \in Nat /\ b <= n - m
    BY <1>3, <2>2
  <2>. QED BY <2>1, <2>3
<1>. QED BY <1>4, <1>5

\* One step per number, from values in V to values in V.
Steps(n, V) == [1..n -> [V -> V]]

\* The functions that take these steps from start on.
Iterations(n, V, start, F) ==
  {g \in [0..n -> V] : g[0] = start /\ \A i \in 1..n : g[i] = F[i][g[i - 1]]}

\* There is such a function: the recursive definitions below mean something.
LEMMA Recursion ==
  ASSUME NEW n \in Nat, NEW V, NEW start \in V, NEW F \in Steps(n, V)
  PROVE  Iterations(n, V, start, F) # {}
<1>. DEFINE Good(k, g) == g \in [0..k -> V] /\ g[0] = start /\ \A i \in 1..k : g[i] = F[i][g[i - 1]]
            T == {k \in 0..n : \E g : Good(k, g)}
<1>1. 0 \in T
  <2>1. Good(0, [i \in 0..0 |-> start])
    OBVIOUS
  <2>. HIDE DEF Good
  <2>2. \E g : Good(0, g)
    BY <2>1
  <2>. QED BY <2>2
<1>2. ASSUME NEW k \in 1..n, k - 1 \in T PROVE k \in T
  <2>1. PICK g : Good(k - 1, g)
    BY <1>2
  <2>. DEFINE h == [i \in 0..k |-> IF i = k THEN F[k][g[k - 1]] ELSE g[i]]
  <2>2. k - 1 \in 0..(k - 1) /\ k - 1 \in Nat /\ k \in 0..k /\ k \in Nat /\ 0 \in 0..(k-1)
    OBVIOUS
  <2>3. F[k] \in [V -> V] /\ g[k - 1] \in V
    BY <2>1, <2>2 DEF Steps
  <2>4. \A i \in 0..k : i # k => i \in 0..(k - 1)
    BY <2>2
  <2>5. h \in [0..k -> V]
    BY <2>1, <2>2, <2>3, <2>4
  <2>6. h[0] = start /\ h[k] = F[k][h[k - 1]]
    BY <2>1, <2>2
  <2>7. ASSUME NEW i \in 1..k, i # k PROVE h[i] = F[i][h[i - 1]]
    <3>1. i \in 1..(k - 1) /\ i - 1 \in 0..k /\ i - 1 # k /\ i \in 0..k
      BY <2>2, <2>7
    <3>. QED BY <2>1, <2>7, <3>1
  <2>8. Good(k, h)
    BY <2>5, <2>6, <2>7
  <2>. HIDE DEF Good, h
  <2>9. \E f : Good(k, f)
    BY <2>8
  <2>. QED BY <2>9
<1>3. n \in T
  <2>. HIDE DEF T
  <2>1. n \in 0..n 
    OBVIOUS
  <2>. QED BY <1>1, <1>2, <2>1, Upwards
<1>4. PICK g : Good(n, g)
  BY <1>3
<1>5. g \in Iterations(n, V, start, F)
  BY <1>4 DEF Iterations
<1>. QED BY <1>5

-----------------------------------------------------------------------------
(* Tokens *)

\* The kinds of token.
Kinds == {"if", "attr", "else", "block", "const", "other"}

\* The tokens whose blocks hold statements from C.
TokensOf(C) == [kind : Kinds, stmts : Seq(C)]

\* The constants of a block are among its statements.
LEMMA ConstStmtsType ==
  ASSUME NEW C, NEW block \in TokensOf(C)
  PROVE  ConstStmts(block) \in Seq(C)
<1>. DEFINE stmts == block.stmts
            n == Len(stmts)
            IsKept(g) == g = [i \in 0..n |-> IF i = 0 THEN <<>>
                                            ELSE IF stmts[i] = OtherStmt THEN g[i - 1]
                                            ELSE Append(g[i - 1], stmts[i])]
            kept == CHOOSE g : IsKept(g)
            F == [i \in 1..n |-> [k \in Seq(C) |->
                    IF stmts[i] = OtherStmt THEN k ELSE Append(k, stmts[i])]]
<1>1. n \in Nat /\ stmts \in Seq(C) /\ <<>> \in Seq(C)
  BY DEF TokensOf
<1>2. \A i \in 1..n : stmts[i] \in C
  BY <1>1
<1>3. F \in Steps(n, Seq(C))
  BY <1>1, <1>2 DEF Steps
<1>4. PICK g \in [0..n -> Seq(C)] : g[0] = <<>> /\ \A i \in 1..n : g[i] = F[i][g[i - 1]]
  <2>1. PICK g : g \in Iterations(n, Seq(C), <<>>, F)
    <3>. HIDE DEF F, n
    <3>. QED BY <1>1, <1>3, Recursion
  <2>. QED BY <2>1 DEF Iterations
<1>5. \A i \in 1..n : i - 1 \in 0..n /\ i \in 0..n /\ i # 0
  BY <1>1
<1>6. IsKept(g)
  <2>1. \A i \in 1..n : g[i] = IF stmts[i] = OtherStmt THEN g[i - 1] ELSE Append(g[i - 1], stmts[i])
    BY <1>4, <1>5
  <2>2. \A i \in 0..n : i = 0 \/ i \in 1..n
    BY <1>1
  <2>. HIDE DEF n, F
  <2>. QED BY <1>4, <2>1, <2>2, <1>1
<1>7. IsKept(kept)
  <2>. HIDE DEF IsKept
  <2>. QED BY <1>6
<1>8. ConstStmts(block) = kept[n]
  BY DEF ConstStmts
<1>9. kept[n] \in Seq(C)
  <2>. DEFINE T == {i \in 0..n : kept[i] \in Seq(C)}
  <2>. HIDE DEF kept
  <2>1. 0 \in T
    BY <1>1, <1>7
  <2>2. ASSUME NEW i \in 1..n, i - 1 \in T PROVE i \in T
    <3>1. kept[i] = IF stmts[i] = OtherStmt THEN kept[i - 1] ELSE Append(kept[i - 1], stmts[i])
      BY <1>5, <1>7
    <3>2. kept[i - 1] \in Seq(C) /\ i \in 0..n /\ stmts[i] \in C
      BY <1>2, <1>5, <2>2
    <3>3. kept[i] \in Seq(C)
      <4>. HIDE DEF stmts
      <4>. QED BY <3>1, <3>2
    <3>. QED BY <3>2, <3>3
  <2>3. n \in T
    <3>. HIDE DEF T, n
    <3>1. n \in 0..n
      BY <1>1
    <3>. QED BY <1>1, <2>1, <2>2, <3>1, Upwards
  <2>. QED BY <2>3
<1>. QED BY <1>8, <1>9

-----------------------------------------------------------------------------
(* The states of MacroContainer *)

\* Where the parser of a save may be.
ParserPlaces == {"if", "cond", "tail", "branch", "end", "failed"}

\* Its states.
States(C) == [at : ParserPlaces, consts : Seq(C)]

\* A token takes a state to a state.
LEMMA ConsumeType ==
  ASSUME NEW C, NEW state \in States(C), NEW token \in TokensOf(C)
  PROVE  Consume(state, token) \in States(C)
<1>1. state.consts \in Seq(C) /\ ConstStmts(token) \in Seq(C) /\ <<>> \in Seq(C)
  BY ConstStmtsType DEF States
<1>2. state.consts \o ConstStmts(token) \in Seq(C)
  BY <1>1
<1>3. \A at \in ParserPlaces, consts \in Seq(C) : Wants(at, consts) \in States(C)
  BY DEF Wants, States
<1>4. {"cond", "tail", "branch", "end", "failed"} \subseteq ParserPlaces
  BY DEF ParserPlaces
<1>. QED BY <1>1, <1>2, <1>3, <1>4 DEF Consume

\* s[i] is the state of MacroContainer::parse after i tokens.
IsContainer(C, tokens, s) ==
  /\ s \in [0..Len(tokens) -> States(C)]
  /\ s[0] = Wants("if", <<>>)
  /\ \A i \in 1..Len(tokens) : s[i] = Consume(s[i - 1], tokens[i])

\* What it returns from its last state.
Outcome(state) == IF state.at \in {"tail", "end"} THEN Parsed(state.consts) ELSE Failed

\* MacroContainer is the outcome of such states.
LEMMA ContainerStates ==
  ASSUME NEW C, NEW tokens \in Seq(TokensOf(C))
  PROVE  \E s : /\ IsContainer(C, tokens, s)
                /\ MacroContainer(tokens) = Outcome(s[Len(tokens)])
<1>. DEFINE n == Len(tokens)
            V == States(C)
            start == Wants("if", <<>>)
            IsState(g) == g = [i \in 0..n |-> IF i = 0 THEN Wants("if", <<>>)
                                              ELSE Consume(g[i - 1], tokens[i])]
            state == CHOOSE g : IsState(g)
            F == [i \in 1..n |-> [s \in V |-> Consume(s, tokens[i])]]
<1>1. n \in Nat /\ start \in V /\ \A i \in 1..n : tokens[i] \in TokensOf(C)
  <2>1. <<>> \in Seq(C)
    OBVIOUS
  <2>. QED BY <2>1 DEF Wants, States, ParserPlaces
<1>2. \A i \in 1..n : i - 1 \in 0..n /\ i \in 0..n /\ i # 0
  BY <1>1
<1>3. \A i \in 1..n, s \in V : Consume(s, tokens[i]) \in V
  BY <1>1, ConsumeType
<1>4. F \in Steps(n, V)
  <2>. HIDE DEF V, n
  <2>. QED BY <1>3 DEF Steps
<1>5. PICK g \in [0..n -> V] : g[0] = start /\ \A i \in 1..n : g[i] = F[i][g[i - 1]]
  <2>1. PICK g : g \in Iterations(n, V, start, F)
    <3>. HIDE DEF F, n, V, start
    <3>. QED BY <1>1, <1>4, Recursion
  <2>. HIDE DEF F, n, V, start
  <2>. QED BY <2>1 DEF Iterations
<1>6. IsState(g)
  <2>1. \A i \in 1..n : g[i] = Consume(g[i - 1], tokens[i])
    <3>. HIDE DEF V, n
    <3>. QED BY <1>2, <1>5
  <2>2. \A i \in 0..n : i = 0 \/ i \in 1..n
    BY <1>1
  <2>. HIDE DEF n, F
  <2>. QED BY <1>5, <2>1, <2>2, <1>1
<1>7. IsState(state)
  <2>. HIDE DEF IsState
  <2>. QED BY <1>6
<1>8. MacroContainer(tokens) = Outcome(state[n])
  BY DEF MacroContainer, Outcome
<1>. HIDE DEF state
<1>9. state[0] = start /\ \A i \in 1..n : state[i] = Consume(state[i - 1], tokens[i])
  <2>. HIDE DEF n
  <2>1. 0 \in 0..n
    BY <1>1
  <2>. QED BY <1>2, <1>7, <2>1
<1>10. \A i \in 0..n : state[i] \in V
  <2>. DEFINE T == {i \in 0..n : state[i] \in V}
  <2>. HIDE DEF V, n
  <2>1. 0 \in T
    BY <1>1, <1>9
  <2>2. ASSUME NEW i \in 1..n, i - 1 \in T PROVE i \in T
    BY <1>2, <1>3, <1>9, <2>2
  <2>3. \A i \in 0..n : i \in T
    <3>. HIDE DEF T
    <3>. QED BY <1>1, <2>1, <2>2, Upwards
  <2>. QED BY <2>3
<1>11. state \in [0..n -> V]
  <2>1. state = [i \in 0..n |-> state[i]]
    <3>. HIDE DEF n
    <3>. QED BY <1>7
  <2>. HIDE DEF V, n
  <2>. QED BY <1>10, <2>1
<1>12. IsContainer(C, tokens, state)
  BY <1>9, <1>11 DEF IsContainer
<1>. QED BY <1>8, <1>12

-----------------------------------------------------------------------------
(* Sequences joined *)

\* Concatenation, kept folded: the provers do badly with more than one in sight.
Joined(r, s) == r \o s

\* V is closed under it.
AreJoined(V) ==
  /\ <<>> \in V
  /\ \A s, t \in V : s \o t \in V
  /\ \A s \in V : <<>> \o s = s

\* f[i] joins the first i sequences of seqs.
AreFlattened(V, seqs, f) ==
  /\ f \in [1..Len(seqs) -> V]
  /\ \A i \in 1..Len(seqs) : f[i] = IF i = 1 THEN seqs[i] ELSE Joined(f[i - 1], seqs[i])

\* FlattenSeq joins them all.
LEMMA Flattened ==
  ASSUME NEW V, NEW seqs \in Seq(V), Len(seqs) # 0,
         AreJoined(V)
  PROVE  \E f : AreFlattened(V, seqs, f) /\ FlattenSeq(seqs) = f[Len(seqs)]
<1>. DEFINE n == Len(seqs)
            IsFlat(g) == g = [i \in 1..n |-> IF i = 1 THEN seqs[i] ELSE g[i - 1] \o seqs[i]]
            flat == CHOOSE g : IsFlat(g)
            F == [i \in 1..n |-> [s \in V |-> s \o seqs[i]]]
<1>1. n \in Nat /\ n # 0 /\ <<>> \in V
  BY DEF AreJoined
<1>2. \A i \in 1..n : seqs[i] \in V
  OBVIOUS
<1>3. \A i \in 1..n, s \in V : s \o seqs[i] \in V
  BY <1>2 DEF AreJoined
<1>4. F \in Steps(n, V)
  <2>. HIDE DEF n
  <2>. QED BY <1>3 DEF Steps
<1>5. PICK g \in [0..n -> V] : g[0] = <<>> /\ \A i \in 1..n : g[i] = F[i][g[i - 1]]
  <2>1. PICK g : g \in Iterations(n, V, <<>>, F)
    <3>. HIDE DEF F, n
    <3>. QED BY <1>1, <1>4, Recursion
  <2>. HIDE DEF F, n
  <2>. QED BY <2>1 DEF Iterations
<1>6. \A i \in 1..n : i - 1 \in 0..n /\ i \in 0..n /\ i # 0 /\ (i # 1 => i - 1 \in 1..n)
  BY <1>1
<1>7. \A i \in 1..n : g[i] = g[i - 1] \o seqs[i]
  <2>. HIDE DEF n
  <2>. QED BY <1>5, <1>6
<1>8. 1 \in 1..n /\ \A i \in 1..n : <<>> \o seqs[i] = seqs[i]
  BY <1>1, <1>2 DEF AreJoined
<1>. DEFINE h == [i \in 1..n |-> g[i]]
<1>9. IsFlat(h)
  <2>1. \A i \in 1..n : i = 1 => g[i] = seqs[i]
    <3>1. \A i \in 1..n : i = 1 => i - 1 = 0
      OBVIOUS
    <3>. HIDE DEF n, F, h
    <3>2. \A i \in 1..n : i = 1 => g[i] = <<>> \o seqs[i]
      BY <1>5, <1>7, <3>1
    <3>. QED BY <1>8, <3>2
  <2>2. \A i \in 1..n : i # 1 => h[i - 1] = g[i - 1]
    BY <1>6
  <2>3. \A i \in 1..n : g[i] = IF i = 1 THEN seqs[i] ELSE h[i - 1] \o seqs[i]
    <3>. HIDE DEF n, h
    <3>. QED BY <1>7, <2>1, <2>2
  <2>. QED BY <2>3
<1>10. IsFlat(flat)
  <2>. HIDE DEF IsFlat, h
  <2>. QED BY <1>9
<1>11. FlattenSeq(seqs) = flat[n]
  BY <1>1 DEF FlattenSeq
<1>. HIDE DEF flat
<1>12. flat[1] = seqs[1] /\ \A i \in 2..n : flat[i] = flat[i - 1] \o seqs[i]
  <2>1. \A i \in 2..n : i \in 1..n /\ i # 1
    BY <1>1
  <2>. HIDE DEF n
  <2>. QED BY <1>8, <1>10, <2>1
<1>13. \A i \in 1..n : flat[i] \in V
  <2>. DEFINE T == {i \in 0..n : i = 0 \/ flat[i] \in V}
  <2>. HIDE DEF n
  <2>1. 0 \in T
    BY <1>1
  <2>2. ASSUME NEW i \in 1..n, i - 1 \in T PROVE i \in T
    <3>1. CASE i = 1
      BY <1>2, <1>6, <1>12, <3>1
    <3>2. CASE i # 1
      <4>1. i \in 2..n /\ flat[i - 1] \in V /\ i - 1 \in 1..n
        BY <1>1, <1>6, <2>2, <3>2
      <4>. QED BY <1>3, <1>6, <1>12, <4>1
    <3>. QED BY <3>1, <3>2
  <2>3. \A i \in 0..n : i \in T
    <3>. HIDE DEF T
    <3>. QED BY <1>1, <2>1, <2>2, Upwards
  <2>. QED BY <1>6, <2>3
<1>14. flat \in [1..n -> V]
  <2>1. flat = [i \in 1..n |-> flat[i]]
    <3>. HIDE DEF n
    <3>. QED BY <1>10
  <2>. HIDE DEF n
  <2>. QED BY <1>13, <2>1
<1>15. \A i \in 1..n : i = 1 \/ i \in 2..n
  BY <1>1
<1>16. AreFlattened(V, seqs, flat)
  <2>1. \A i \in 1..n : flat[i] = IF i = 1 THEN seqs[i] ELSE Joined(flat[i - 1], seqs[i])
    <3>. HIDE DEF n
    <3>. QED BY <1>12, <1>15 DEF Joined
  <2>. QED BY <1>14, <2>1 DEF AreFlattened
<1>. QED BY <1>11, <1>16

-----------------------------------------------------------------------------
(* What MacroParser reads *)

\* PastAttrs is the first token from i on that is no attribute, or the end.
LEMMA PastAttrsStops ==
  ASSUME NEW S, NEW tokens \in Seq(S), NEW i \in 1..(Len(tokens) + 1)
  PROVE  /\ PastAttrs(tokens, i) \in i..(Len(tokens) + 1)
         /\ ~At(tokens, PastAttrs(tokens, i), "attr")
         /\ \A k \in i..(PastAttrs(tokens, i) - 1) : At(tokens, k, "attr")
<1>. DEFINE n == Len(tokens)
            Others == {j \in i..(n + 1) : ~At(tokens, j, "attr")}
            First(j) == ~At(tokens, j, "attr") /\ \A k \in i..(j - 1) : At(tokens, k, "attr")
<1>1. n \in Nat
  OBVIOUS
<1>2. n + 1 \in Others
  BY <1>1 DEF At
<1>3. PICK j \in Others : \A k \in Others : j <= k
  <2>1. Others \subseteq Nat
    BY <1>1
  <2>. HIDE DEF Others
  <2>. QED BY <1>2, <2>1, Least
<1>4. \A k \in i..(j - 1) : At(tokens, k, "attr")
  <2>. SUFFICES ASSUME NEW k \in i..(j - 1), ~At(tokens, k, "attr") PROVE FALSE
    OBVIOUS
  <2>1. k \in Others
    BY <1>1, <1>3
  <2>. QED BY <1>1, <1>3, <2>1
<1>5. PastAttrs(tokens, i) = CHOOSE f \in i..(n + 1) : First(f)
  BY DEF PastAttrs
<1>6. \E f \in i..(n + 1) : First(f)
  BY <1>3, <1>4
<1>7. PastAttrs(tokens, i) \in i..(n + 1) /\ First(PastAttrs(tokens, i))
  <2>. HIDE DEF First, n
  <2>. QED BY <1>5, <1>6
<1>. QED BY <1>7

\* What may be read.
Results(C) == {Failed} \cup {Parsed(consts) : consts \in Seq(C)}

\* A result is a failure without constants, or the constants it holds.
LEMMA ResultsAre ==
  ASSUME NEW C, NEW r \in Results(C)
  PROVE  /\ r.ok \in BOOLEAN /\ r.consts \in Seq(C)
         /\ r.ok => r = Parsed(r.consts)
         /\ ~r.ok => r = Failed
<1>1. <<>> \in Seq(C)
  OBVIOUS
<1>2. CASE r = Failed
  BY <1>1, <1>2 DEF Failed
<1>3. CASE \E consts \in Seq(C) : r = Parsed(consts)
  <2>1. PICK consts \in Seq(C) : r = Parsed(consts)
    BY <1>3
  <2>2. r.ok = TRUE /\ r.consts = consts
    BY <2>1 DEF Parsed
  <2>. QED BY <2>1, <2>2
<1>. QED BY <1>2, <1>3 DEF Results

\* A branch depends on what is read past its first token only.
LEMMA ParseBranchLooksAhead ==
  ASSUME NEW S, NEW tokens \in Seq(S), NEW i \in 1..(Len(tokens) + 1), NEW p, NEW q,
         \A m \in (i + 1)..(Len(tokens) + 1) : p[m] = q[m]
  PROVE  ParseBranch(tokens, i, p) = ParseBranch(tokens, i, q)
<1>. DEFINE j == PastAttrs(tokens, i + 1)
<1>1. CASE ~At(tokens, i, "if")
  BY <1>1 DEF ParseBranch
<1>2. CASE At(tokens, i, "if") /\ ~At(tokens, j + 2, "if")
  BY <1>2 DEF ParseBranch
<1>3. CASE At(tokens, i, "if") /\ At(tokens, j + 2, "if")
  <2>1. j \in (i + 1)..(Len(tokens) + 1)
    BY <1>3, PastAttrsStops DEF At
  <2>2. j + 2 \in (i + 1)..(Len(tokens) + 1)
    BY <1>3, <2>1 DEF At
  <2>3. p[j + 2] = q[j + 2]
    BY <2>2
  <2>. QED BY <2>3 DEF ParseBranch
<1>. QED BY <1>1, <1>2, <1>3

\* A branch read ahead of results is a result.
LEMMA ParseBranchType ==
  ASSUME NEW C, NEW tokens \in Seq(TokensOf(C)), NEW i \in 1..(Len(tokens) + 1), NEW p,
         \A m \in (i + 1)..(Len(tokens) + 1) : p[m] \in Results(C)
  PROVE  ParseBranch(tokens, i, p) \in Results(C)
<1>. DEFINE j == PastAttrs(tokens, i + 1)
            n == Len(tokens)
<1>1. n \in Nat /\ \A m \in 1..n : tokens[m] \in TokensOf(C)
  OBVIOUS
<1>2. \A m \in 1..n : ConstStmts(tokens[m]) \in Seq(C)
  BY <1>1, ConstStmtsType
<1>3. Failed \in Results(C) /\ \A consts \in Seq(C) : Parsed(consts) \in Results(C)
  BY DEF Results
<1>4. CASE ~(At(tokens, i, "if") /\ At(tokens, j, "block"))
  BY <1>3, <1>4 DEF ParseBranch
<1>5. CASE At(tokens, i, "if") /\ At(tokens, j, "block")
  <2>1. j \in (i + 1)..n
    BY <1>1, <1>5, PastAttrsStops DEF At
  <2>2. ConstStmts(tokens[j]) \in Seq(C)
    BY <1>1, <1>2, <2>1
  <2>3. CASE At(tokens, j + 2, "if")
    <3>1. p[j + 2] \in Results(C)
      <4>1. j + 2 \in (i + 1)..(n + 1)
        BY <1>1, <2>1, <2>3 DEF At
      <4>. QED BY <4>1
    <3>2. p[j + 2].consts \in Seq(C)
      BY <3>1, ResultsAre
    <3>3. ConstStmts(tokens[j]) \o p[j + 2].consts \in Seq(C)
      BY <2>2, <3>2
    <3>4. ~At(tokens, j + 2, "block")
      BY <2>3 DEF At
    <3>. QED BY <1>3, <1>5, <2>2, <2>3, <3>3, <3>4 DEF ParseBranch
  <2>4. CASE At(tokens, j + 2, "block")
    <3>1. ConstStmts(tokens[j + 2]) \in Seq(C)
      <4>1. j + 2 \in 1..n
        BY <1>1, <2>1, <2>4 DEF At
      <4>. QED BY <1>2, <4>1
    <3>2. ConstStmts(tokens[j]) \o ConstStmts(tokens[j + 2]) \in Seq(C)
      BY <2>2, <3>1
    <3>3. ~At(tokens, j + 2, "if")
      BY <2>4 DEF At
    <3>. QED BY <1>3, <1>5, <2>2, <2>4, <3>2, <3>3 DEF ParseBranch
  <2>5. CASE ~At(tokens, j + 2, "if") /\ ~At(tokens, j + 2, "block")
    BY <1>3, <1>5, <2>2, <2>5 DEF ParseBranch
  <2>. QED BY <2>3, <2>4, <2>5
<1>. QED BY <1>4, <1>5

\* p[i] is what MacroParser::parse reads from token i on.
AreParsed(C, tokens, p) ==
  \A i \in 1..(Len(tokens) + 1) : p[i] = ParseBranch(tokens, i, p) /\ p[i] \in Results(C)

\* MacroParser is what is read from the first token on.
LEMMA ParserResults ==
  ASSUME NEW C, NEW tokens \in Seq(TokensOf(C))
  PROVE  \E p : AreParsed(C, tokens, p) /\ MacroParser(tokens) = p[1]
<1>. DEFINE n == Len(tokens) + 1
            IsParse(p) == p = [i \in 1..n |-> ParseBranch(tokens, i, p)]
            parse == CHOOSE p : IsParse(p)
            Good(k, p) == \A i \in k..n : p[i] = ParseBranch(tokens, i, p)
            T == {k \in 1..n : \E p : Good(k, p)}
<1>1. n \in Nat /\ 1 \in 1..n
  OBVIOUS
<1>2. ASSUME NEW k \in 1..n, \A m \in (k + 1)..n : m \in T PROVE k \in T
  <2>1. PICK q : Good(k + 1, q)
    <3>1. CASE k = n
      <4>1. (k + 1)..n = {}
        BY <1>1, <3>1
      <4>. QED BY <4>1
    <3>2. CASE k # n
      <4>1. k + 1 \in (k + 1)..n
        BY <1>1, <3>2
      <4>2. k + 1 \in T
        BY <1>2, <4>1
      <4>. QED BY <4>2
    <3>. QED BY <3>1, <3>2
  <2>. DEFINE p == [i \in 1..n |-> IF i = k THEN ParseBranch(tokens, k, q) ELSE q[i]]
  <2>2. \A i \in (k + 1)..n : p[i] = q[i]
    BY <1>1
  <2>3. ASSUME NEW i \in k..n PROVE ParseBranch(tokens, i, p) = ParseBranch(tokens, i, q)
    <3>1. i \in 1..n /\ \A m \in (i + 1)..n : p[m] = q[m]
      BY <1>1, <2>2
    <3>. HIDE DEF p
    <3>. QED BY <3>1, ParseBranchLooksAhead
  <2>4. p[k] = ParseBranch(tokens, k, q)
    OBVIOUS
  <2>5. Good(k, p)
    <3>. SUFFICES ASSUME NEW i \in k..n PROVE p[i] = ParseBranch(tokens, i, p)
      OBVIOUS
    <3>1. ParseBranch(tokens, i, p) = ParseBranch(tokens, i, q)
      BY <2>3
    <3>2. i = k \/ i \in (k + 1)..n
      BY <1>1
    <3>. HIDE DEF p, n
    <3>. QED BY <2>1, <2>2, <2>4, <3>1, <3>2
  <2>6. \E f : Good(k, f)
    <3>. HIDE DEF Good, p
    <3>. QED BY <2>5
  <2>. QED BY <2>6
<1>3. PICK p : Good(1, p)
  <2>1. \A k \in 1..n : k \in T
    <3>. HIDE DEF T, n
    <3>. QED BY <1>1, <1>2, Downwards
  <2>. QED BY <1>1, <2>1
<1>4. IsParse(parse)
  <2>. DEFINE f == [i \in 1..n |-> p[i]]
  <2>1. \A i \in 1..n : ParseBranch(tokens, i, f) = ParseBranch(tokens, i, p)
    <3>. SUFFICES ASSUME NEW i \in 1..n PROVE ParseBranch(tokens, i, f) = ParseBranch(tokens, i, p)
      OBVIOUS
    <3>1. \A m \in (i + 1)..n : f[m] = p[m]
      BY <1>1
    <3>. HIDE DEF f
    <3>. QED BY <3>1, ParseBranchLooksAhead
  <2>2. f = [i \in 1..n |-> ParseBranch(tokens, i, p)]
    <3>. HIDE DEF n
    <3>. QED BY <1>3
  <2>3. IsParse(f)
    <3>. HIDE DEF f, n
    <3>. QED BY <2>1, <2>2
  <2>. HIDE DEF IsParse, f
  <2>. QED BY <2>3
<1>5. MacroParser(tokens) = parse[1]
  BY DEF MacroParser
<1>. HIDE DEF parse
<1>6. \A i \in 1..n : parse[i] = ParseBranch(tokens, i, parse)
  <2>. HIDE DEF n
  <2>. QED BY <1>4
<1>7. \A i \in 1..n : parse[i] \in Results(C)
  <2>. DEFINE U == {i \in 1..n : parse[i] \in Results(C)}
  <2>1. ASSUME NEW k \in 1..n, \A m \in (k + 1)..n : m \in U PROVE k \in U
    <3>1. \A m \in (k + 1)..n : parse[m] \in Results(C)
      BY <2>1
    <3>2. ParseBranch(tokens, k, parse) \in Results(C)
      BY <3>1, ParseBranchType
    <3>. QED BY <1>6, <3>2
  <2>2. \A i \in 1..n : i \in U
    <3>. HIDE DEF U, n
    <3>. QED BY <1>1, <2>1, Downwards
  <2>. QED BY <2>2
<1>. QED BY <1>5, <1>6, <1>7 DEF AreParsed

-----------------------------------------------------------------------------
(* The parsers agree *)

\* No token takes MacroContainer out of a failure.
LEMMA FailsForGood ==
  ASSUME NEW C, NEW tokens \in Seq(TokensOf(C)), NEW s, IsContainer(C, tokens, s),
         NEW k \in 0..Len(tokens), s[k].at = "failed"
  PROVE  s[Len(tokens)].at = "failed"
<1>. DEFINE n == Len(tokens)
            T == {m \in 0..n : m < k \/ s[m].at = "failed"}
<1>1. n \in Nat /\ n \in 0..n /\ 0 \in 0..n /\ ~(n < k)
  OBVIOUS
<1>2. 0 \in T
  BY <1>1
<1>3. ASSUME NEW m \in 1..n, m - 1 \in T PROVE m \in T
  <2>1. m \in 0..n /\ (m < k \/ m = k \/ ~(m - 1 < k))
    BY <1>1
  <2>2. CASE s[m - 1].at = "failed"
    <3>1. s[m] = Consume(s[m - 1], tokens[m])
      BY DEF IsContainer
    <3>2. s[m].at = "failed"
      BY <2>2, <3>1 DEF Consume, Wants
    <3>. QED BY <2>1, <3>2
  <2>3. CASE s[m - 1].at # "failed"
    <3>1. m - 1 < k
      BY <1>3, <2>3
    <3>. QED BY <2>1, <3>1
  <2>. QED BY <2>2, <2>3
<1>4. n \in T
  <2>. HIDE DEF T, n
  <2>. QED BY <1>1, <1>2, <1>3, Upwards
<1>. QED BY <1>1, <1>4

\* Attributes leave its state as it is.
LEMMA AttributesPass ==
  ASSUME NEW C, NEW tokens \in Seq(TokensOf(C)), NEW s, IsContainer(C, tokens, s),
         NEW i \in 1..Len(tokens), s[i].at = "cond",
         NEW j \in (i + 1)..(Len(tokens) + 1), \A k \in (i + 1)..(j - 1) : At(tokens, k, "attr")
  PROVE  s[j - 1] = s[i]
<1>. DEFINE n == j - 1
            T == {m \in 0..n : m < i \/ s[m] = s[i]}
<1>1. n \in Nat /\ n \in 0..n /\ 0 \in 0..n /\ ~(n < i)
  OBVIOUS
<1>2. 0 \in T
  BY <1>1
<1>3. ASSUME NEW m \in 1..n, m - 1 \in T PROVE m \in T
  <2>1. m \in 0..n /\ (m < i \/ m = i \/ (~(m - 1 < i) /\ m \in (i + 1)..(j - 1)))
    BY <1>1
  <2>2. CASE m \in (i + 1)..(j - 1)
    <3>1. s[m - 1] = s[i]
      BY <1>3, <2>2
    <3>2. s[m] = Consume(s[m - 1], tokens[m])
      BY <1>1 DEF IsContainer
    <3>3. tokens[m].kind = "attr"
      BY <2>2 DEF At
    <3>4. s[m] = s[i]
      BY <3>1, <3>2, <3>3 DEF Consume
    <3>. QED BY <2>1, <3>4
  <2>. QED BY <2>1, <2>2
<1>4. n \in T
  <2>. HIDE DEF T, n
  <2>. QED BY <1>1, <1>2, <1>3, Upwards
<1>. QED BY <1>1, <1>4

\* Constants, and a result after them.
Then(consts, result) == IF result.ok THEN Parsed(Joined(consts, result.consts)) ELSE Failed

\* At an `if` that begins a branch, MacroContainer comes to what it has so far and
\* what MacroParser reads from there.
Follows(tokens, s, p, i) ==
  s[i - 1].at \in {"if", "branch"} /\ tokens[i].kind = "if"
    => Outcome(s[Len(tokens)]) = Then(s[i - 1].consts, p[i])

\* Both parsers on the same tokens.
ReadOn(C, tokens, s, p) ==
  /\ tokens \in Seq(TokensOf(C))
  /\ IsContainer(C, tokens, s)
  /\ AreParsed(C, tokens, p)

\* From token i on.
AllFollow(tokens, s, p, i) == \A m \in i..Len(tokens) : Follows(tokens, s, p, m)

\* Results in a row: joining is associative.
LEMMA ThenThen ==
  ASSUME NEW C, NEW before \in Seq(C), NEW consts \in Seq(C), NEW result \in Results(C)
  PROVE  Then(before, Then(consts, result)) = Then(Joined(before, consts), result)
<1>1. result.consts \in Seq(C) /\ result.ok \in BOOLEAN
  BY ResultsAre
<1>2. \A more \in Seq(C) : Joined(Joined(before, consts), more) = Joined(before, Joined(consts, more))
  BY DEF Joined
<1>3. Joined(Joined(before, consts), result.consts) = Joined(before, Joined(consts, result.consts))
  BY <1>1, <1>2
<1>. QED BY <1>3 DEF Then, Parsed, Failed

\* The same of a result that is there.
LEMMA ThenParsed ==
  ASSUME NEW C, NEW before \in Seq(C), NEW consts \in Seq(C), NEW more \in Seq(C)
  PROVE  Then(before, Parsed(Joined(consts, more))) = Parsed(Joined(Joined(before, consts), more))
<1>1. (before \o consts) \o more = before \o (consts \o more)
  OBVIOUS
<1>. QED BY <1>1 DEF Then, Joined, Parsed

\* What MacroParser reads at the `if` of a branch whose block is at j, by what follows it.
LEMMA AfterABranch ==
  ASSUME NEW tokens, Len(tokens) \in Nat, NEW i, NEW p, NEW j, j = PastAttrs(tokens, i + 1),
         At(tokens, i, "if"), At(tokens, j, "block"),
         NEW end, end = Len(tokens) + 1,
         NEW consts, consts = ConstStmts(tokens[j]), NEW more, more = ConstStmts(tokens[j + 2])
  PROVE  /\ j + 1 = end => ParseBranch(tokens, i, p) = Parsed(consts)
         /\ j + 1 # end /\ ~At(tokens, j + 1, "else") => ParseBranch(tokens, i, p) = Failed
         /\ j + 1 # end /\ At(tokens, j + 1, "else") =>
              /\ At(tokens, j + 2, "if")
                   => ParseBranch(tokens, i, p) = Then(consts, p[j + 2])
              /\ At(tokens, j + 2, "block") /\ ~At(tokens, j + 2, "if")
                   => ParseBranch(tokens, i, p) = IF j + 3 = end THEN Parsed(Joined(consts, more)) ELSE Failed
              /\ ~At(tokens, j + 2, "if") /\ ~At(tokens, j + 2, "block")
                   => ParseBranch(tokens, i, p) = Failed
<1>1. ParseBranch(tokens, i, p) =
        CASE j + 1 = end -> Parsed(consts)
          [] At(tokens, j + 1, "else") /\ At(tokens, j + 2, "if") -> Then(consts, p[j + 2])
          [] At(tokens, j + 1, "else") /\ At(tokens, j + 2, "block") /\ j + 3 = end ->
               Parsed(Joined(consts, more))
          [] OTHER -> Failed
  BY DEF ParseBranch, Then, Joined
<1>. DEFINE joined == Parsed(Joined(consts, more))
            result == ParseBranch(tokens, i, p)
            here == j + 1 = end
            else == At(tokens, j + 1, "else")
            if == At(tokens, j + 2, "if")
            block == At(tokens, j + 2, "block")
            last == j + 3 = end
<1>2. result = CASE here -> Parsed(consts)
                 [] else /\ if -> Then(consts, p[j + 2])
                 [] else /\ block /\ last -> joined
                 [] OTHER -> Failed
  BY <1>1
<1>3. (here => ~else) /\ (if => ~block)
  BY DEF At
<1>4. /\ here => result = Parsed(consts)
      /\ ~here /\ ~else => result = Failed
      /\ ~here /\ else =>
           /\ if => result = Then(consts, p[j + 2])
           /\ block /\ ~if => result = IF last THEN joined ELSE Failed
           /\ ~if /\ ~block => result = Failed
  <2>. HIDE DEF joined, result, here, else, if, block, last
  <2>. QED BY <1>2, <1>3
<1>. QED BY <1>4

\* MacroContainer follows MacroParser at token i if it does at all the tokens past it.
LEMMA ContainerFollows ==
  ASSUME NEW C, NEW tokens, NEW s, NEW p, ReadOn(C, tokens, s, p),
         NEW i \in 1..Len(tokens), AllFollow(tokens, s, p, i + 1)
  PROVE  Follows(tokens, s, p, i)
<1>. DEFINE n == Len(tokens)
            j == PastAttrs(tokens, i + 1)
            end == n + 1
            before == s[i - 1].consts
            consts == ConstStmts(tokens[j])
            more == ConstStmts(tokens[j + 2])
            both == Joined(before, consts)
<1>. SUFFICES ASSUME s[i - 1].at \in {"if", "branch"}, tokens[i].kind = "if"
              PROVE  Outcome(s[n]) = Then(before, p[i])
  BY DEF Follows
<1>0. n \in Nat /\ i \in 1..n /\ \A m \in 1..n : tokens[m] \in TokensOf(C)
  BY DEF ReadOn
<1>1. \A m \in 0..n : s[m] \in States(C)
  BY DEF ReadOn, IsContainer
<1>2. \A m \in 1..n : s[m] = Consume(s[m - 1], tokens[m])
  BY DEF ReadOn, IsContainer
<1>3. p[i] = ParseBranch(tokens, i, p)
  BY <1>0 DEF ReadOn, AreParsed
<1>4. At(tokens, i, "if")
  BY DEF At
<1>5. s[i] = Wants("cond", before)
  BY <1>2 DEF Consume
<1>6. j \in (i + 1)..end /\ ~At(tokens, j, "attr") /\ \A k \in (i + 1)..(j - 1) : At(tokens, k, "attr")
  <2>1. i + 1 \in 1..(Len(tokens) + 1)
    BY <1>0
  <2>. QED BY <2>1, PastAttrsStops DEF ReadOn
<1>7. s[j - 1] = Wants("cond", before)
  <2>1. s[i].at = "cond"
    BY <1>5 DEF Wants
  <2>2. s[j - 1] = s[i]
    <3>. HIDE DEF j
    <3>. QED BY <1>6, <2>1, AttributesPass DEF ReadOn
  <2>. QED BY <1>5, <2>2
<1>8. \A m \in 0..n : s[m].at = "failed" => Outcome(s[n]) = Failed
  BY FailsForGood DEF Outcome, ReadOn
<1>9. before \in Seq(C)
  <2>1. i - 1 \in 0..n
    BY <1>0
  <2>. QED BY <1>1, <2>1 DEF States
<1>10. Then(before, Failed) = Failed /\ \A c : Then(before, Parsed(c)) = Parsed(Joined(before, c))
  BY DEF Then, Failed, Parsed
<1>. HIDE DEF j, n, before
<1>11. CASE ~At(tokens, j, "block")
  <2>1. p[i] = Failed
    BY <1>3, <1>4, <1>11 DEF ParseBranch, j
  <2>2. Outcome(s[n]) = Failed
    <3>1. CASE j = end
      <4>1. s[n] = Wants("cond", before)
        BY <1>0, <1>7, <3>1
      <4>. QED BY <4>1 DEF Outcome, Wants
    <3>2. CASE j # end
      <4>1. j \in 1..n /\ j \in 0..n
        BY <1>0, <1>6, <3>2
      <4>2. tokens[j].kind \notin {"attr", "block"}
        BY <1>6, <1>11, <4>1 DEF At, n
      <4>3. s[j] = Consume(s[j - 1], tokens[j])
        BY <1>2, <4>1
      <4>4. s[j].at = "failed"
        BY <1>7, <4>2, <4>3 DEF Consume, Wants
      <4>. QED BY <1>8, <4>1, <4>4
    <3>. QED BY <3>1, <3>2
  <2>. QED BY <1>10, <2>1, <2>2
<1>12. CASE At(tokens, j, "block")
  <2>1. j \in 1..n /\ j \in 0..n /\ tokens[j].kind = "block"
    BY <1>0, <1>6, <1>12 DEF At, n
  <2>2. consts \in Seq(C)
    BY <1>0, <2>1, ConstStmtsType
  <2>3. s[j] = Wants("tail", both)
    <3>1. s[j] = Consume(s[j - 1], tokens[j])
      BY <1>2, <2>1
    <3>. QED BY <1>7, <2>1, <3>1 DEF Consume, Wants, Joined
  <2>4. /\ j + 1 = end => p[i] = Parsed(consts)
        /\ j + 1 # end /\ ~At(tokens, j + 1, "else") => p[i] = Failed
        /\ j + 1 # end /\ At(tokens, j + 1, "else") =>
             /\ At(tokens, j + 2, "if") => p[i] = Then(consts, p[j + 2])
             /\ At(tokens, j + 2, "block") /\ ~At(tokens, j + 2, "if")
                  => p[i] = IF j + 3 = end THEN Parsed(Joined(consts, more)) ELSE Failed
             /\ ~At(tokens, j + 2, "if") /\ ~At(tokens, j + 2, "block") => p[i] = Failed
    <3>. HIDE DEF consts, both, more
    <3>. QED BY <1>0, <1>3, <1>4, <1>12, AfterABranch DEF j, n, consts, more
  <2>. HIDE DEF consts, both, more
  <2>5. CASE j + 1 = end
    <3>1. p[i] = Parsed(consts)
      BY <2>4, <2>5
    <3>2. j = n
      BY <1>0, <2>1, <2>5
    <3>3. Outcome(s[n]) = Parsed(both)
      BY <2>3, <3>2 DEF Outcome, Wants
    <3>. QED BY <1>10, <3>1, <3>3 DEF both
  <2>6. CASE j + 1 # end /\ ~At(tokens, j + 1, "else")
    <3>1. p[i] = Failed
      BY <2>4, <2>6
    <3>2. j + 1 \in 1..n /\ j + 1 \in 0..n /\ (j + 1) - 1 = j
      BY <1>0, <2>1, <2>6
    <3>3. tokens[j + 1].kind # "else"
      BY <2>6, <3>2 DEF At, n
    <3>4. s[j + 1] = Consume(s[j], tokens[j + 1])
      BY <1>2, <3>2
    <3>5. s[j + 1].at = "failed"
      BY <2>3, <3>3, <3>4 DEF Consume, Wants
    <3>. QED BY <1>8, <1>10, <3>1, <3>2, <3>5
  <2>7. CASE j + 1 # end /\ At(tokens, j + 1, "else")
    <3>1. j + 1 \in 1..n /\ j + 1 \in 0..n /\ (j + 1) - 1 = j /\ tokens[j + 1].kind = "else"
      BY <1>0, <2>1, <2>7 DEF At, n
    <3>2. s[j + 1] = Consume(s[j], tokens[j + 1])
      BY <1>2, <3>1
    <3>3. s[j + 1] = Wants("branch", both)
      BY <2>3, <3>1, <3>2 DEF Consume, Wants
    <3>4. CASE j + 2 = end
      <4>1. ~At(tokens, j + 2, "if") /\ ~At(tokens, j + 2, "block")
        BY <1>0, <3>4 DEF At, n
      <4>2. p[i] = Failed
        BY <2>4, <2>7, <4>1
      <4>3. j + 1 = n
        BY <1>0, <2>1, <3>4
      <4>4. Outcome(s[n]) = Failed
        BY <3>3, <4>3 DEF Outcome, Wants
      <4>. QED BY <1>10, <4>2, <4>4
    <3>5. CASE j + 2 # end
      <4>1. j + 2 \in 1..n /\ j + 2 \in 0..n /\ (j + 2) - 1 = j + 1 /\ j + 2 \in (i + 1)..n
        BY <1>0, <1>6, <3>1, <3>5
      <4>2. s[j + 2] = Consume(s[j + 1], tokens[j + 2])
        BY <1>2, <4>1
      <4>3. CASE tokens[j + 2].kind = "if"
        <5>1. At(tokens, j + 2, "if")
          BY <4>1, <4>3 DEF At, n
        <5>2. p[i] = Then(consts, p[j + 2])
          BY <2>4, <2>7, <5>1
        <5>3. Follows(tokens, s, p, j + 2)
          BY <4>1 DEF n, AllFollow
        <5>4. s[j + 1].at = "branch" /\ s[j + 1].consts = both
          BY <3>3 DEF Wants
        <5>5. Outcome(s[n]) = Then(both, p[j + 2])
          BY <4>1, <4>3, <5>3, <5>4 DEF Follows, n
        <5>6. p[j + 2] \in Results(C)
          BY <1>0, <4>1 DEF ReadOn, AreParsed, n
        <5>7. Then(before, Then(consts, p[j + 2])) = Then(both, p[j + 2])
          BY <1>9, <2>2, <5>6, ThenThen DEF both
        <5>. QED BY <5>2, <5>5, <5>7
      <4>4. CASE tokens[j + 2].kind = "block"
        <5>1. At(tokens, j + 2, "block") /\ ~At(tokens, j + 2, "if")
          BY <4>1, <4>4 DEF At, n
        <5>2. more \in Seq(C)
          BY <1>0, <4>1, ConstStmtsType DEF more
        <5>3. s[j + 2] = Wants("end", Joined(both, more))
          BY <3>3, <4>2, <4>4 DEF Consume, Wants, Joined, more
        <5>4. CASE j + 3 = end
          <6>1. p[i] = Parsed(Joined(consts, more))
            BY <2>4, <2>7, <5>1, <5>4
          <6>2. j + 2 = n
            BY <1>0, <2>1, <5>4
          <6>3. Outcome(s[n]) = Parsed(Joined(both, more))
            BY <5>3, <6>2 DEF Outcome, Wants
          <6>4. Then(before, Parsed(Joined(consts, more))) = Parsed(Joined(both, more))
            BY <1>9, <2>2, <5>2, ThenParsed DEF both
          <6>. QED BY <6>1, <6>3, <6>4
        <5>5. CASE j + 3 # end
          <6>1. p[i] = Failed
            BY <2>4, <2>7, <5>1, <5>5
          <6>2. j + 3 \in 1..n /\ j + 3 \in 0..n /\ (j + 3) - 1 = j + 2
            BY <1>0, <2>1, <4>1, <5>5
          <6>3. s[j + 3] = Consume(s[j + 2], tokens[j + 3])
            BY <1>2, <6>2
          <6>4. s[j + 3].at = "failed"
            BY <5>3, <6>3 DEF Consume, Wants
          <6>. QED BY <1>8, <1>10, <6>1, <6>2, <6>4
        <5>. QED BY <5>4, <5>5
      <4>5. CASE tokens[j + 2].kind \notin {"if", "block"}
        <5>1. ~At(tokens, j + 2, "block") /\ ~At(tokens, j + 2, "if")
          BY <4>5 DEF At
        <5>2. p[i] = Failed
          BY <2>4, <2>7, <5>1
        <5>3. s[j + 2].at = "failed"
          BY <3>3, <4>2, <4>5 DEF Consume, Wants
        <5>. QED BY <1>8, <1>10, <4>1, <5>2, <5>3
      <4>. QED BY <4>3, <4>4, <4>5
    <3>. QED BY <3>4, <3>5
  <2>. QED BY <2>5, <2>6, <2>7
<1>. QED BY <1>11, <1>12

\* MacroParser::parse and MacroContainer::parse read the same constants out of every
\* body, and fail on the same ones: a save meets every constant that a scan has found.
THEOREM TheParsersAgree ==
  ASSUME NEW C, NEW tokens \in Seq(TokensOf(C))
  PROVE  ParsersAgree(tokens)
<1>. DEFINE n == Len(tokens)
<1>0. n \in Nat
  OBVIOUS
<1>1. PICK s : IsContainer(C, tokens, s) /\ MacroContainer(tokens) = Outcome(s[n])
  BY ContainerStates
<1>2. PICK p : AreParsed(C, tokens, p) /\ MacroParser(tokens) = p[1]
  BY ParserResults
<1>3. \A i \in 1..n : Follows(tokens, s, p, i)
  <2>. DEFINE T == {i \in 1..n : Follows(tokens, s, p, i)}
  <2>1. ASSUME NEW i \in 1..n, \A m \in (i + 1)..n : m \in T PROVE i \in T
    <3>1. AllFollow(tokens, s, p, i + 1)
      BY <2>1 DEF AllFollow
    <3>2. Follows(tokens, s, p, i)
      BY <1>1, <1>2, <3>1, ContainerFollows DEF ReadOn
    <3>. QED BY <3>2
  <2>2. \A i \in 1..n : i \in T
    <3>. HIDE DEF T, n
    <3>. QED BY <1>0, <2>1, Downwards
  <2>. QED BY <2>2
<1>4. s[0] = Wants("if", <<>>)
  BY <1>1 DEF IsContainer
<1>5. p[1] = ParseBranch(tokens, 1, p) /\ p[1] \in Results(C)
  BY <1>0, <1>2 DEF AreParsed
<1>6. p[1] = Outcome(s[n])
  <2>1. CASE At(tokens, 1, "if")
    <3>1. 1 \in 1..n /\ tokens[1].kind = "if" /\ 1 - 1 = 0
      BY <1>0, <2>1 DEF At
    <3>2. Outcome(s[n]) = Then(<<>>, p[1])
      BY <1>3, <1>4, <3>1 DEF Follows, Wants
    <3>3. <<>> \o p[1].consts = p[1].consts
      BY <1>5, ResultsAre
    <3>. QED BY <1>5, <3>2, <3>3, ResultsAre DEF Then, Joined
  <2>2. CASE ~At(tokens, 1, "if")
    <3>1. p[1] = Failed
      BY <1>5, <2>2 DEF ParseBranch
    <3>2. CASE n = 0
      BY <1>4, <3>1, <3>2 DEF Outcome, Wants
    <3>3. CASE n # 0
      <4>1. 1 \in 1..n /\ 1 \in 0..n /\ tokens[1].kind # "if" /\ 1 - 1 = 0
        BY <1>0, <2>2, <3>3 DEF At
      <4>2. s[1] = Consume(s[0], tokens[1])
        BY <1>1, <4>1 DEF IsContainer
      <4>3. s[1].at = "failed"
        BY <1>4, <4>1, <4>2 DEF Consume, Wants
      <4>4. s[n].at = "failed"
        BY <1>1, <4>1, <4>3, FailsForGood
      <4>. QED BY <3>1, <4>4 DEF Outcome
    <3>. QED BY <3>2, <3>3
  <2>. QED BY <2>1, <2>2
<1>. QED BY <1>1, <1>2, <1>6 DEF ParsersAgree

-----------------------------------------------------------------------------
(* Every branch is read *)

\* The constants of the blocks can be joined token by token.
LEMMA BranchesFlattened ==
  ASSUME NEW C, NEW tokens \in Seq(TokensOf(C)), Len(tokens) # 0
  PROVE  \E f : /\ AreFlattened(Seq(C), BranchConsts(tokens), f)
                /\ FlattenSeq(BranchConsts(tokens)) = f[Len(tokens)]
<1>. DEFINE n == Len(tokens)
            seqs == BranchConsts(tokens)
            V == Seq(C)
<1>1. n \in Nat /\ DOMAIN tokens = 1..n /\ \A i \in 1..n : tokens[i] \in TokensOf(C)
  OBVIOUS
<1>2. AreJoined(V)
  <2>1. <<>> \in V /\ (\A s, t \in V : s \o t \in V) /\ \A s \in V : <<>> \o s = s
    OBVIOUS
  <2>. HIDE DEF V
  <2>. QED BY <2>1 DEF AreJoined
<1>3. \A i \in 1..n : (IF tokens[i].kind = "block" THEN ConstStmts(tokens[i]) ELSE <<>>) \in V
  <2>1. \A i \in 1..n : ConstStmts(tokens[i]) \in V
    BY <1>1, ConstStmtsType
  <2>2. <<>> \in V
    OBVIOUS
  <2>. HIDE DEF V, n
  <2>. QED BY <2>1, <2>2
<1>4. seqs \in [1..n -> V]
  <2>. HIDE DEF V, n
  <2>. QED BY <1>1, <1>3 DEF BranchConsts
<1>5. seqs \in Seq(V) /\ Len(seqs) = n
  <2>. HIDE DEF V, n, seqs
  <2>. QED BY <1>1, <1>4
<1>. HIDE DEF V, seqs
<1>6. PICK f : AreFlattened(V, seqs, f) /\ FlattenSeq(seqs) = f[Len(seqs)]
  BY <1>2, <1>5, Flattened
<1>. QED BY <1>5, <1>6 DEF V, seqs

\* Which tokens may follow which, in a cfg_if.
FitsAfter(prev, token) ==
  CASE token.kind = "if"    -> prev.kind = "else"
    [] token.kind = "attr"  -> prev.kind \in {"if", "attr"}
    [] token.kind = "else"  -> prev.kind = "block"
    [] token.kind = "block" -> prev.kind \in {"if", "attr", "else"}
    [] OTHER                -> FALSE

\* Token i may follow the one before it.
Fits(tokens, i) == FitsAfter(tokens[i - 1], tokens[i])

\* A block right after `else` closes a cfg_if: it is the branch without a condition.
Closes(tokens, i) == tokens[i].kind = "block" /\ tokens[i - 1].kind = "else"

\* The first k tokens begin a cfg_if: nothing follows the block that closes it.
Begins(tokens, k) ==
  /\ tokens[1].kind = "if"
  /\ \A i \in 2..k : Fits(tokens, i)
  /\ \A i \in 2..(k - 1) : ~Closes(tokens, i)

\* Where MacroContainer is after a token.
PlaceFrom(token, closed) ==
  CASE token.kind \in {"if", "attr"} -> "cond"
    [] token.kind = "else"           -> "branch"
    [] token.kind = "block"          -> IF closed THEN "end" ELSE "tail"
    [] OTHER                         -> "failed"

\* Where it is after k tokens that begin a cfg_if.
PlaceAfter(tokens, k) == PlaceFrom(tokens[k], k # 1 /\ Closes(tokens, k))

\* A cfg_if is a body that begins one and ends in a block.
LEMMA CfgIfBegins ==
  ASSUME NEW S, NEW tokens \in Seq(S), Len(tokens) # 0
  PROVE  IsCfgIf(tokens) <=> Begins(tokens, Len(tokens)) /\ tokens[Len(tokens)].kind = "block"
<1>. DEFINE n == Len(tokens)
            fits(i) == CASE tokens[i].kind = "if"    -> tokens[i - 1].kind = "else"
                         [] tokens[i].kind = "attr"  -> tokens[i - 1].kind \in {"if", "attr"}
                         [] tokens[i].kind = "else"  -> tokens[i - 1].kind = "block"
                         [] tokens[i].kind = "block" -> \/ tokens[i - 1].kind \in {"if", "attr"}
                                                        \/ tokens[i - 1].kind = "else" /\ i = n
                         [] OTHER                    -> FALSE
<1>1. n \in Nat /\ n # 0 /\ tokens # <<>>
  OBVIOUS
<1>2. \A i \in 2..n : fits(i) <=> Fits(tokens, i) /\ (i # n => ~Closes(tokens, i))
  <2>. SUFFICES ASSUME NEW i \in 2..n
                PROVE  fits(i) <=> Fits(tokens, i) /\ (i # n => ~Closes(tokens, i))
    OBVIOUS
  <2>. DEFINE last == i = n
  <2>. HIDE DEF last
  <2>1. fits(i) <=> Fits(tokens, i) /\ (~last => ~Closes(tokens, i))
    BY DEF Fits, FitsAfter, Closes, last
  <2>. QED BY <2>1 DEF last
<1>3. (\A i \in 2..n : fits(i))
        <=> (\A i \in 2..n : Fits(tokens, i)) /\ \A i \in 2..(n - 1) : ~Closes(tokens, i)
  <2>1. \A i \in 2..n : i # n => i \in 2..(n - 1)
    BY <1>1
  <2>2. \A i \in 2..(n - 1) : i \in 2..n /\ i # n
    BY <1>1
  <2>. HIDE DEF n, fits
  <2>. QED BY <1>2, <2>1, <2>2
<1>4. IsCfgIf(tokens) <=> /\ tokens[1].kind = "if"
                          /\ tokens[n].kind = "block"
                          /\ \A i \in 2..n : fits(i)
  BY <1>1 DEF IsCfgIf, Last
<1>. HIDE DEF fits, n
<1>. QED BY <1>3, <1>4 DEF Begins, n

\* MacroContainer has failed after k tokens, unless they begin a cfg_if: then it is
\* where they lead, with the constants of all their blocks.
Reached(tokens, s, f, k) ==
  IF Begins(tokens, k) THEN s[k] = Wants(PlaceAfter(tokens, k), f[k]) ELSE s[k].at = "failed"

\* One more token begins a cfg_if if it fits and none was closed before it.
LEMMA BeginsStep ==
  ASSUME NEW tokens, NEW k \in Nat, k > 1
  PROVE  Begins(tokens, k) <=> /\ Begins(tokens, k - 1)
                               /\ Fits(tokens, k)
                               /\ k - 1 # 1 => ~Closes(tokens, k - 1)
<1>1. \A i \in 2..k : i = k \/ i \in 2..(k - 1)
  OBVIOUS
<1>2. k \in 2..k /\ \A i \in 2..(k - 1) : i \in 2..k
  OBVIOUS
<1>3. \A i \in 2..(k - 1) : i = k - 1 \/ i \in 2..((k - 1) - 1)
  OBVIOUS
<1>4. (k - 1 # 1 => k - 1 \in 2..(k - 1)) /\ \A i \in 2..((k - 1) - 1) : i \in 2..(k - 1)
  OBVIOUS
<1>5. ~(1 \in 2..(k - 1))
  OBVIOUS
<1>6. (\A i \in 2..k : Fits(tokens, i)) <=> (\A i \in 2..(k - 1) : Fits(tokens, i)) /\ Fits(tokens, k)
  BY <1>1, <1>2
<1>7. (\A i \in 2..(k - 1) : ~Closes(tokens, i))
        <=> /\ \A i \in 2..((k - 1) - 1) : ~Closes(tokens, i)
            /\ k - 1 # 1 => ~Closes(tokens, k - 1)
  BY <1>3, <1>4, <1>5
<1>. QED BY <1>6, <1>7 DEF Begins

\* What MacroContainer makes of a token, by the token before it.
LEMMA ReachedStep ==
  ASSUME NEW before, NEW prev, NEW token, NEW closed \in BOOLEAN, closed => prev.kind = "block",
         NEW state, state = Wants(PlaceFrom(prev, closed), before)
  PROVE  /\ closed \/ ~FitsAfter(prev, token) => Consume(state, token).at = "failed"
         /\ ~closed /\ FitsAfter(prev, token) =>
              Consume(state, token) =
                Wants(PlaceFrom(token, token.kind = "block" /\ prev.kind = "else"),
                      IF token.kind = "block" THEN Joined(before, ConstStmts(token)) ELSE before)
<1>. USE DEF PlaceFrom, FitsAfter
<1>1. CASE prev.kind \in {"if", "attr"}
  BY <1>1 DEF Consume, Wants, Joined
<1>2. CASE prev.kind = "else"
  BY <1>2 DEF Consume, Wants, Joined
<1>3. CASE prev.kind = "block"
  BY <1>3 DEF Consume, Wants, Joined
<1>4. CASE prev.kind \notin {"if", "attr", "else", "block"}
  BY <1>4 DEF Consume, Wants, Joined
<1>. QED BY <1>1, <1>2, <1>3, <1>4

\* Reached holds after any number of tokens.
LEMMA ContainerReaches ==
  ASSUME NEW C, NEW tokens, tokens \in Seq(TokensOf(C)),
         NEW s, IsContainer(C, tokens, s),
         NEW f, AreFlattened(Seq(C), BranchConsts(tokens), f)
  PROVE  \A k \in 1..Len(tokens) : Reached(tokens, s, f, k)
<1>. DEFINE n == Len(tokens)
            branch(i) == IF tokens[i].kind = "block" THEN ConstStmts(tokens[i]) ELSE <<>>
            V == Seq(C)
<1>0. n \in Nat /\ DOMAIN tokens = 1..n
  OBVIOUS
<1>1. \A k \in 1..n : s[k] = Consume(s[k - 1], tokens[k])
  BY DEF IsContainer
<1>2. \A k \in 1..n : BranchConsts(tokens)[k] = branch(k)
  BY <1>0 DEF BranchConsts
<1>3. Len(BranchConsts(tokens)) = n
  <2>1. BranchConsts(tokens) = [i \in 1..n |-> branch(i)]
    BY <1>0 DEF BranchConsts
  <2>. HIDE DEF branch
  <2>. QED BY <1>0, <2>1
<1>4. \A k \in 1..n : f[k] \in V /\ f[k] = IF k = 1 THEN branch(k) ELSE Joined(f[k - 1], branch(k))
  <2>. HIDE DEF n, branch, V
  <2>. QED BY <1>0, <1>2, <1>3 DEF AreFlattened, V
<1>5. \A r \in V : Joined(r, <<>>) = r
  BY DEF Joined
<1>. DEFINE T == {k \in 0..n : k = 0 \/ Reached(tokens, s, f, k)}
<1>. HIDE DEF V, n
<1>6. 0 \in T
  BY <1>0
<1>7. ASSUME NEW k \in 1..n, k - 1 \in T PROVE Reached(tokens, s, f, k)
  <2>1. CASE k = 1
    <3>1. Begins(tokens, 1) <=> tokens[1].kind = "if"
      <4>1. 2..1 = {} /\ 2..(1 - 1) = {}
        OBVIOUS
      <4>. QED BY <4>1 DEF Begins
    <3>2. s[1] = Consume(Wants("if", <<>>), tokens[1])
      <4>1. s[1] = Consume(s[1 - 1], tokens[1]) /\ 1 - 1 = 0
        BY <1>1, <2>1
      <4>. QED BY <4>1 DEF IsContainer
    <3>3. CASE tokens[1].kind = "if"
      <4>1. f[1] = <<>>
        BY <1>4, <2>1, <3>3
      <4>2. s[1] = Wants("cond", <<>>)
        BY <3>2, <3>3 DEF Consume, Wants
      <4>3. PlaceAfter(tokens, 1) = "cond"
        BY <3>3 DEF PlaceAfter, PlaceFrom
      <4>. QED BY <2>1, <3>1, <3>3, <4>1, <4>2, <4>3 DEF Reached
    <3>4. CASE tokens[1].kind # "if"
      <4>1. s[1].at = "failed"
        BY <3>2, <3>4 DEF Consume, Wants
      <4>. QED BY <2>1, <3>1, <3>4, <4>1 DEF Reached
    <3>. QED BY <3>3, <3>4
  <2>2. CASE k # 1
    <3>. DEFINE prev == tokens[k - 1]
                token == tokens[k]
                closed == k - 1 # 1 /\ Closes(tokens, k - 1)
    <3>1. k \in Nat /\ k > 1 /\ k - 1 \in 1..n /\ k - 1 # 0
      BY <1>0, <2>2
    <3>2. Reached(tokens, s, f, k - 1)
      BY <1>7, <3>1
    <3>3. Begins(tokens, k) <=> Begins(tokens, k - 1) /\ Fits(tokens, k) /\ ~closed
      BY <3>1, BeginsStep
    <3>4. s[k] = Consume(s[k - 1], token)
      BY <1>1
    <3>5. CASE ~Begins(tokens, k - 1)
      <4>1. s[k - 1].at = "failed"
        BY <3>2, <3>5 DEF Reached
      <4>2. s[k].at = "failed"
        BY <3>4, <4>1 DEF Consume, Wants
      <4>. QED BY <3>3, <3>5, <4>2 DEF Reached
    <3>6. CASE Begins(tokens, k - 1)
      <4>. DEFINE before == f[k - 1]
                  fits == FitsAfter(prev, token)
                  moved == Wants(PlaceFrom(token, token.kind = "block" /\ prev.kind = "else"),
                                 IF token.kind = "block" THEN Joined(before, ConstStmts(token)) ELSE before)
      <4>1. s[k - 1] = Wants(PlaceFrom(prev, closed), before)
        BY <3>2, <3>6 DEF Reached, PlaceAfter
      <4>2. closed \in BOOLEAN /\ (closed => prev.kind = "block")
        BY DEF Closes
      <4>3. (closed \/ ~fits => s[k].at = "failed") /\ (~closed /\ fits => s[k] = moved)
        <5>. HIDE DEF prev, token, closed, before
        <5>. QED BY <3>4, <4>1, <4>2, ReachedStep
      <4>. HIDE DEF closed, fits
      <4>4. Begins(tokens, k) <=> fits /\ ~closed
        BY <3>3, <3>6 DEF Fits, fits
      <4>5. CASE ~Begins(tokens, k)
        BY <4>3, <4>4, <4>5 DEF Reached
      <4>6. CASE Begins(tokens, k)
        <5>1. s[k] = moved
          BY <4>3, <4>4, <4>6
        <5>2. f[k] = Joined(before, branch(k)) /\ before \in V
          BY <1>4, <2>2, <3>1
        <5>3. f[k] = IF token.kind = "block" THEN Joined(before, ConstStmts(token)) ELSE before
          BY <1>5, <5>2
        <5>4. PlaceAfter(tokens, k) = PlaceFrom(token, token.kind = "block" /\ prev.kind = "else")
          BY <2>2 DEF PlaceAfter, PlaceFrom, Closes
        <5>. HIDE DEF token, prev, before
        <5>. QED BY <4>6, <5>1, <5>3, <5>4 DEF Reached
      <4>. QED BY <4>5, <4>6
    <3>. QED BY <3>5, <3>6
  <2>. QED BY <2>1, <2>2
<1>8. \A k \in 0..n : k \in T
  <2>1. ASSUME NEW k \in 1..n, k - 1 \in T PROVE k \in T
    BY <1>0, <1>7, <2>1
  <2>. HIDE DEF T
  <2>. QED BY <1>0, <1>6, <2>1, Upwards
<1>9. \A k \in 1..n : k \in 0..n /\ k # 0
  BY <1>0
<1>. QED BY <1>8, <1>9 DEF n

\* MacroParser::parse reads exactly the bodies with the form of a cfg_if, whatever the
\* length of the chain, and yields the constants of every branch in order.
THEOREM EveryBranchRead ==
  ASSUME NEW C, NEW tokens \in Seq(TokensOf(C))
  PROVE  EveryBranchIsRead(tokens)
<1>. DEFINE n == Len(tokens)
<1>0. n \in Nat
  OBVIOUS
<1>1. PICK s : IsContainer(C, tokens, s) /\ MacroContainer(tokens) = Outcome(s[n])
  BY ContainerStates
<1>2. MacroParser(tokens) = Outcome(s[n])
  BY <1>1, TheParsersAgree DEF ParsersAgree
<1>. DEFINE result == IF IsCfgIf(tokens) THEN Parsed(FlattenSeq(BranchConsts(tokens))) ELSE Failed
<1>3. Outcome(s[n]) = result
  <2>1. CASE n = 0
    <3>1. ~IsCfgIf(tokens)
      BY <2>1 DEF IsCfgIf
    <3>2. s[n] = Wants("if", <<>>)
      BY <1>1, <2>1 DEF IsContainer
    <3>. QED BY <3>1, <3>2 DEF Outcome, Wants
  <2>2. CASE n # 0
    <3>1. PICK f : /\ AreFlattened(Seq(C), BranchConsts(tokens), f)
                   /\ FlattenSeq(BranchConsts(tokens)) = f[n]
      BY <2>2, BranchesFlattened
    <3>2. Reached(tokens, s, f, n)
      <4>1. n \in 1..n
        BY <1>0, <2>2
      <4>. QED BY <1>1, <3>1, <4>1, ContainerReaches
    <3>3. IsCfgIf(tokens) <=> Begins(tokens, n) /\ tokens[n].kind = "block"
      BY <2>2, CfgIfBegins
    <3>4. CASE Begins(tokens, n)
      <4>1. s[n] = Wants(PlaceAfter(tokens, n), f[n])
        BY <3>2, <3>4 DEF Reached
      <4>2. PlaceAfter(tokens, n) \in {"tail", "end"} <=> tokens[n].kind = "block"
        BY DEF PlaceAfter, PlaceFrom
      <4>3. Outcome(s[n]) = IF tokens[n].kind = "block" THEN Parsed(f[n]) ELSE Failed
        <5>. HIDE DEF n
        <5>. QED BY <4>1, <4>2 DEF Outcome, Wants
      <4>. HIDE DEF n
      <4>. QED BY <3>1, <3>3, <3>4, <4>3
    <3>5. CASE ~Begins(tokens, n)
      <4>1. Outcome(s[n]) = Failed
        <5>. HIDE DEF n
        <5>. QED BY <3>2, <3>5 DEF Reached, Outcome
      <4>. QED BY <3>3, <3>5, <4>1
    <3>. QED BY <3>4, <3>5
  <2>. QED BY <2>1, <2>2
<1>. QED BY <1>2, <1>3 DEF EveryBranchIsRead, BranchConsts

-----------------------------------------------------------------------------
(* Files *)

\* The bodies in a file hold tokens.
BodiesOf(C, file) == \A i \in DOMAIN file : file[i].kind = "cfg_if" => file[i].body \in Seq(TokensOf(C))

\* A body that does not begin with `if` is not read.
LEMMA WithoutIf ==
  ASSUME NEW C, NEW tokens \in Seq(TokensOf(C)), ~At(tokens, 1, "if")
  PROVE  MacroParser(tokens) = Failed
<1>1. PICK p : AreParsed(C, tokens, p) /\ MacroParser(tokens) = p[1]
  BY ParserResults
<1>2. 1 \in 1..(Len(tokens) + 1)
  OBVIOUS
<1>3. p[1] = ParseBranch(tokens, 1, p)
  BY <1>1, <1>2 DEF AreParsed
<1>. QED BY <1>1, <1>3 DEF ParseBranch

\* MacroContainer::into_token_stream leaves no body that a scan can read.
LEMMA TokenStreamFails ==
  ASSUME NEW D, NEW consts \in Seq(D)
  PROVE  ~MacroParser(TokenStream(consts)).ok
<1>. DEFINE n == Len(consts)
            tokens == TokenStream(consts)
<1>1. n \in Nat /\ DOMAIN consts = 1..n /\ \A k \in 1..n : consts[k] \in D
  OBVIOUS
<1>2. tokens = [k \in 1..n |-> ConstTok(consts[k])]
  BY <1>1 DEF TokenStream
<1>3. \A k \in 1..n : ConstTok(consts[k]) \in TokensOf(D) /\ ConstTok(consts[k]).kind = "const"
  <2>1. \A c \in D : ConstTok(c) \in TokensOf(D) /\ ConstTok(c).kind = "const"
    BY DEF ConstTok, TokensOf, Kinds
  <2>. QED BY <1>1, <2>1
<1>. HIDE DEF tokens, n
<1>4. tokens \in Seq(TokensOf(D)) /\ Len(tokens) = n
  BY <1>1, <1>2, <1>3
<1>5. ~At(tokens, 1, "if")
  BY <1>1, <1>2, <1>3, <1>4 DEF At
<1>6. MacroParser(tokens) = Failed
  BY <1>4, <1>5, WithoutIf
<1>. QED BY <1>6 DEF Failed, tokens

\* MacroContainer returns a result.
LEMMA ContainerResult ==
  ASSUME NEW C, NEW tokens \in Seq(TokensOf(C))
  PROVE  MacroContainer(tokens) \in Results(C)
<1>1. PICK p : AreParsed(C, tokens, p) /\ MacroParser(tokens) = p[1]
  BY ParserResults
<1>2. 1 \in 1..(Len(tokens) + 1)
  OBVIOUS
<1>3. p[1] \in Results(C)
  BY <1>1, <1>2 DEF AreParsed
<1>. QED BY <1>1, <1>3, TheParsersAgree DEF ParsersAgree

\* A save keeps each macro of a file a macro, and leaves none that a scan can read.
LEMMA SavedItem ==
  ASSUME NEW C, NEW file, BodiesOf(C, file), NEW edit, NEW i \in DOMAIN file
  PROVE  /\ Traverse(file, edit)[i].kind = "cfg_if" <=> file[i].kind = "cfg_if"
         /\ file[i].kind = "cfg_if" => ~MacroParser(Traverse(file, edit)[i].body).ok
<1>. DEFINE inner == MacroContainer(file[i].body)
            edited == [k \in DOMAIN inner.consts |-> edit[inner.consts[k]]]
            saved == Traverse(file, edit)[i]
<1>1. saved = CASE file[i].kind = "const" -> ConstItem(edit[file[i].const])
                [] file[i].kind = "cfg_if" /\ inner.ok -> Macro(TokenStream(edited))
                [] OTHER -> file[i]
  BY DEF Traverse
<1>. HIDE DEF saved, edited, inner
<1>2. CASE file[i].kind = "const"
  BY <1>1, <1>2 DEF ConstItem, saved
<1>3. CASE file[i].kind = "cfg_if" /\ inner.ok
  <2>1. saved = Macro(TokenStream(edited))
    BY <1>1, <1>3
  <2>2. inner.consts \in Seq(C)
    BY <1>3, ContainerResult, ResultsAre DEF BodiesOf, inner
  <2>. DEFINE D == {edit[c] : c \in C}
  <2>3. edited \in Seq(D)
    <3>1. DOMAIN inner.consts = 1..Len(inner.consts) /\ Len(inner.consts) \in Nat
      BY <2>2
    <3>2. \A k \in 1..Len(inner.consts) : edit[inner.consts[k]] \in D
      BY <2>2
    <3>. HIDE DEF D
    <3>. QED BY <3>1, <3>2 DEF edited
  <2>4. ~MacroParser(TokenStream(edited)).ok
    <3>. HIDE DEF D
    <3>. QED BY <2>3, TokenStreamFails
  <2>. QED BY <1>3, <2>1, <2>4 DEF Macro, saved
<1>4. CASE file[i].kind # "const" /\ ~(file[i].kind = "cfg_if" /\ inner.ok)
  <2>1. saved = file[i]
    BY <1>1, <1>4
  <2>2. file[i].kind = "cfg_if" => ~MacroParser(file[i].body).ok
    <3>. HAVE file[i].kind = "cfg_if"
    <3>1. MacroParser(file[i].body) = inner
      BY TheParsersAgree DEF BodiesOf, ParsersAgree, inner
    <3>. QED BY <1>4, <3>1
  <2>. QED BY <2>1, <2>2 DEF saved
<1>. QED BY <1>2, <1>3, <1>4

\* traverse_constants leaves no file with a cfg_if that parse_constants does not panic on,
\* and makes no other file panic.
THEOREM EverySaveCostsScan ==
  ASSUME NEW C, NEW file, BodiesOf(C, file)
  PROVE  SaveCostsScan(file)
<1>. DEFINE edit == [c \in ToSet(Visited(file)) |-> c]
            saved == Traverse(file, edit)
<1>1. DOMAIN saved = DOMAIN file
  BY DEF Traverse
<1>2. \A i \in DOMAIN file :
        /\ saved[i].kind = "cfg_if" <=> file[i].kind = "cfg_if"
        /\ file[i].kind = "cfg_if" => ~MacroParser(saved[i].body).ok
  <2>. HIDE DEF edit
  <2>. QED BY SavedItem
<1>3. Panics(saved) <=> \E i \in DOMAIN file : file[i].kind = "cfg_if"
  <2>. HIDE DEF saved
  <2>. QED BY <1>1, <1>2 DEF Panics
<1>. QED BY <1>3 DEF SaveCostsScan

=============================================================================
