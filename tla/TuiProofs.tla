----------------------------- MODULE TuiProofs -----------------------------
(***************************************************************************)
(* Proofs about Tui, for a container of any size, a terminal that changes  *)
(* its size at will, and prompts of any length.                            *)
(***************************************************************************)
EXTENDS Tui, SequenceTheorems, TLAPS

\* What a key means tells the mode it was typed in.
LEMMA Meanings ==
  ASSUME NEW k \in Keys, mode \in {"insert", "normal", "select"}
  PROVE  /\ Interpret(mode, k) \in {"text", "pop"} => mode = "insert"
         /\ Interpret(mode, k) = "search" => mode # "select"
         /\ Interpret(mode, k) \in {"clear", "to_insert", "to_select"} => mode = "normal"
         /\ Interpret(mode, k) = "to_normal" => mode # "normal"
         /\ Interpret(mode, k) \in {"up", "down"} => mode # "insert"
  BY DEF Interpret, Keys, Chars, Motion

\* Pieces of a prompt are prompts.
LEMMA PiecesArePrompts ==
  ASSUME NEW p \in Seq(Bytes), NEW m \in Nat \ {0}, NEW n \in Int, n <= Len(p)
  PROVE  /\ SubSeq(p, m, n) \in Seq(Bytes)
         /\ Len(SubSeq(p, m, n)) = IF m <= n THEN n - m + 1 ELSE 0
         /\ \A i \in 1..(n - m + 1) : SubSeq(p, m, n)[i] = p[m + i - 1]
<1>1. m \in Int /\ \A i \in m..n : p[i] \in Bytes
  OBVIOUS
<1>2. /\ SubSeq(p, m, n) \in Seq(Bytes)
      /\ Len(SubSeq(p, m, n)) = IF m <= n THEN n - m + 1 ELSE 0
  BY <1>1, SubSeqProperties
<1>3. \A i \in 1..(n - m + 1) : SubSeq(p, m, n)[i] = p[m + i - 1]
  BY <1>1, SubSeqProperties
<1> QED
  BY <1>2, <1>3

\* Joining prompts makes a prompt that has the bytes of one, then of the other.
LEMMA Joins ==
  ASSUME NEW p \in Seq(Bytes), NEW q \in Seq(Bytes)
  PROVE  /\ p \o q \in Seq(Bytes)
         /\ Len(p \o q) = Len(p) + Len(q)
         /\ \A i \in 1..Len(p) : (p \o q)[i] = p[i]
         /\ \A i \in 1..Len(q) : (p \o q)[Len(p) + i] = q[i]
<1>1. Len(p) \in Nat /\ Len(q) \in Nat
  OBVIOUS
<1>2. p \o q \in Seq(Bytes) /\ Len(p \o q) = Len(p) + Len(q)
  BY ConcatProperties
<1>3. \A i \in 1..(Len(p) + Len(q)) :
        (p \o q)[i] = IF i <= Len(p) THEN p[i] ELSE q[i - Len(p)]
  BY ConcatProperties
<1>4. ASSUME NEW i \in 1..Len(q) PROVE (p \o q)[Len(p) + i] = q[i]
  <2>1. Len(p) + i \in 1..(Len(p) + Len(q)) /\ ~(Len(p) + i <= Len(p)) /\ Len(p) + i - Len(p) = i
    BY <1>1
  <2> QED
    BY <1>3, <2>1
<1> QED
  BY <1>1, <1>2, <1>3, <1>4

\* The bytes a key types: one letter, unless it is wide.
LEMMA Encodings ==
  ASSUME NEW k
  PROVE  /\ Encoded(k) \in Seq(Bytes)
         /\ k # "wide" => Len(Encoded(k)) = 1 /\ Encoded(k)[1] \in Narrow
<1>1. /\ <<"lead", "cont">> \in Seq(Bytes) /\ <<"a">> \in Seq(Bytes) /\ <<"b">> \in Seq(Bytes)
  BY DEF Bytes, Narrow
<1>2. Encoded(k) = IF k = "wide" THEN <<"lead", "cont">> ELSE IF k = "space" THEN <<"b">> ELSE <<"a">>
  BY DEF Encoded
<1>3. Encoded(k) \in Seq(Bytes)
  BY <1>1, <1>2
<1>4. ASSUME k # "wide" PROVE Len(Encoded(k)) = 1 /\ Encoded(k)[1] \in Narrow
  <2>1. Encoded(k) = <<"a">> \/ Encoded(k) = <<"b">>
    BY <1>2, <1>4
  <2> QED
    BY <2>1 DEF Narrow
<1> QED
  BY <1>3, <1>4

\* Putting bytes in leaves those before them where they are and moves the rest on.
LEMMA Insertions ==
  ASSUME TypeOK, NEW b \in 0..Len(prompt), NEW s \in Seq(Bytes)
  PROVE  /\ Inserted(b, s) \in Seq(Bytes)
         /\ Len(Inserted(b, s)) = Len(prompt) + Len(s)
         /\ \A n \in 1..b : Inserted(b, s)[n] = prompt[n]
         /\ \A n \in 1..Len(s) : Inserted(b, s)[b + n] = s[n]
         /\ \A n \in (b + 1)..Len(prompt) : Inserted(b, s)[n + Len(s)] = prompt[n]
<1> DEFINE before == SubSeq(prompt, 1, b)
           after  == SubSeq(prompt, b + 1, Len(prompt))
<1>1. prompt \in Seq(Bytes) /\ Len(prompt) \in Nat /\ b \in Nat /\ Len(s) \in Nat
  BY DEF TypeOK
<1>2. before \in Seq(Bytes) /\ Len(before) = b /\ \A i \in 1..b : before[i] = prompt[i]
  BY <1>1, PiecesArePrompts
<1>3. /\ after \in Seq(Bytes) /\ Len(after) = Len(prompt) - b
      /\ \A i \in 1..(Len(prompt) - b) : after[i] = prompt[b + i]
  BY <1>1, PiecesArePrompts
<1> HIDE DEF before, after
<1>4. /\ before \o s \in Seq(Bytes) /\ Len(before \o s) = b + Len(s)
      /\ \A i \in 1..b : (before \o s)[i] = before[i]
      /\ \A i \in 1..Len(s) : (before \o s)[b + i] = s[i]
  BY <1>1, <1>2, Joins
<1>5. PICK bs : bs = before \o s
  OBVIOUS
<1>a. bs \in Seq(Bytes) /\ Len(bs) = b + Len(s)
  BY <1>4, <1>5
<1>6. /\ bs \o after \in Seq(Bytes) /\ Len(bs \o after) = Len(prompt) + Len(s)
      /\ \A i \in 1..(b + Len(s)) : (bs \o after)[i] = bs[i]
      /\ \A i \in 1..(Len(prompt) - b) : (bs \o after)[b + Len(s) + i] = after[i]
  <2>1. /\ bs \o after \in Seq(Bytes) /\ Len(bs \o after) = Len(bs) + Len(after)
        /\ \A i \in 1..Len(bs) : (bs \o after)[i] = bs[i]
        /\ \A i \in 1..Len(after) : (bs \o after)[Len(bs) + i] = after[i]
    BY <1>3, <1>a, Joins
  <2>2. Len(bs) + Len(after) = Len(prompt) + Len(s)
    BY <1>1, <1>3, <1>a
  <2> QED
    BY <1>3, <1>a, <2>1, <2>2
<1>7. Inserted(b, s) = bs \o after
  BY <1>5 DEF Inserted, before, after
<1>8. \A n \in (b + 1)..Len(prompt) : (bs \o after)[n + Len(s)] = prompt[n]
  <2> SUFFICES ASSUME NEW n \in (b + 1)..Len(prompt)
               PROVE  (bs \o after)[n + Len(s)] = prompt[n]
    OBVIOUS
  <2>1. n - b \in 1..(Len(prompt) - b) /\ b + Len(s) + (n - b) = n + Len(s) /\ b + (n - b) = n
    BY <1>1
  <2> QED
    BY <1>3, <1>6, <2>1
<1> QED
  BY <1>1, <1>2, <1>4, <1>5, <1>a, <1>6, <1>7, <1>8

\* Backspace leaves a prompt; of single bytes it takes one, if there is any.
LEMMA Pops ==
  ASSUME TypeOK, Boundary(off)
  PROVE  /\ Popped \in Seq(Bytes)
         /\ (\A n \in 1..Len(prompt) : prompt[n] \in Narrow) =>
              /\ Len(Popped) = IF prompt = <<>> THEN 0 ELSE Len(prompt) - 1
              /\ \A n \in 1..Len(Popped) : Popped[n] \in Narrow
<1>1. prompt \in Seq(Bytes) /\ Len(prompt) \in Nat /\ off \in Nat /\ off <= Len(prompt)
  BY DEF TypeOK, Boundary
<1>2. CASE prompt = <<>>
  BY <1>1, <1>2 DEF Popped
<1>3. CASE prompt # <<>> /\ off = Len(prompt)
  <2>1. LastBegins \in Int /\ LastBegins <= Len(prompt) /\ Len(prompt) > 0
    BY <1>1, <1>3 DEF LastBegins
  <2>2. Popped = SubSeq(prompt, 1, LastBegins)
    BY <1>3 DEF Popped
  <2>3. ASSUME \A n \in 1..Len(prompt) : prompt[n] \in Narrow
        PROVE  LastBegins = Len(prompt) - 1
    BY <1>1, <2>1, <2>3 DEF LastBegins, Narrow
  <2> QED
    BY <1>1, <1>3, <2>1, <2>2, <2>3, PiecesArePrompts
<1>4. CASE prompt # <<>> /\ off # Len(prompt)
  <2> DEFINE w      == CharLen(off)
             before == SubSeq(prompt, 1, off)
             after  == SubSeq(prompt, off + w + 1, Len(prompt))
  <2>1. w \in {1, 2} /\ off + 1 \in 1..Len(prompt)
    BY <1>1, <1>4 DEF CharLen
  <2>2. before \in Seq(Bytes) /\ Len(before) = off /\ \A i \in 1..off : before[i] = prompt[i]
    BY <1>1, PiecesArePrompts
  <2>3. /\ after \in Seq(Bytes)
        /\ Len(after) = IF off + w + 1 <= Len(prompt) THEN Len(prompt) - off - w ELSE 0
        /\ \A i \in 1..(Len(prompt) - off - w) : after[i] = prompt[off + w + i]
    <3> HIDE DEF w
    <3>1. off + w + 1 \in Nat \ {0}
      BY <1>1, <2>1
    <3> QED
      BY <1>1, <2>1, <3>1, PiecesArePrompts
  <2> HIDE DEF before, after
  <2>4. /\ before \o after \in Seq(Bytes) /\ Len(before \o after) = off + Len(after)
        /\ \A i \in 1..off : (before \o after)[i] = before[i]
        /\ \A i \in 1..Len(after) : (before \o after)[off + i] = after[i]
    BY <1>1, <2>2, <2>3, Joins
  <2>5. Popped = before \o after
    BY <1>4 DEF Popped, Removed, before, after
  <2>6. ASSUME \A n \in 1..Len(prompt) : prompt[n] \in Narrow
        PROVE  /\ Len(before \o after) = Len(prompt) - 1
               /\ \A n \in 1..Len(before \o after) : (before \o after)[n] \in Narrow
    <3>1. w = 1
      BY <2>1, <2>6 DEF CharLen, Narrow
    <3> HIDE DEF w
    <3>2. Len(after) = Len(prompt) - off - 1 /\ \A i \in 1..Len(after) : after[i] = prompt[off + 1 + i]
      BY <1>1, <2>1, <2>3, <3>1
    <3>3. ASSUME NEW n \in 1..(Len(prompt) - 1)
          PROVE  (before \o after)[n] \in Narrow
      <4>1. CASE n <= off
        BY <1>1, <2>1, <2>2, <2>4, <2>6, <4>1
      <4>2. CASE n > off
        <5>1. n - off \in 1..Len(after) /\ off + (n - off) = n /\ off + 1 + (n - off) = n + 1
          BY <1>1, <3>2, <4>2
        <5>2. PICK i \in 1..Len(after) : n = off + i /\ n + 1 = off + 1 + i
          BY <1>1, <5>1
        <5>3. (before \o after)[off + i] = prompt[off + 1 + i]
          BY <2>4, <3>2
        <5> QED
          BY <1>1, <2>6, <3>3, <5>2, <5>3
      <4>3. n <= off \/ n > off
        BY <1>1, <3>3
      <4> QED
        BY <4>1, <4>2, <4>3, Zenon
    <3> QED
      BY <1>1, <2>4, <3>2, <3>3
  <2> QED
    BY <1>4, <2>4, <2>5, <2>6
<1> QED
  BY <1>2, <1>3, <1>4

\* Typing at the cursor, or removing what is there, leaves a prompt.
LEMMA EditsArePrompts ==
  ASSUME TypeOK, NEW k \in Keys, TextualInput(k) \/ Pop(k)
  PROVE  prompt' \in Seq(Bytes)
<1>1. prompt \in Seq(Bytes)
  BY DEF TypeOK
<1>2. CASE Boundary(off)
  <2>1. off \in 0..Len(prompt)
    BY <1>2 DEF TypeOK, Boundary
  <2>2. Inserted(off, Encoded(k)) \in Seq(Bytes) /\ Popped \in Seq(Bytes)
    BY <1>2, <2>1, Encodings, Insertions, Pops
  <2> QED
    BY <1>2, <2>2 DEF TextualInput, Pop, EditAtCursor
<1>3. CASE ~Boundary(off)
  BY <1>1, <1>3 DEF TextualInput, Pop, EditAtCursor
<1> QED
  BY <1>2, <1>3

\* The cursor steps by one, or stays; in the list it stays among the rows.
LEMMA Steps ==
  ASSUME TypeOK, NEW height \in Heights, NEW width \in Widths
  PROVE  /\ Retracted \in Nat /\ Advanced(height, width) \in Nat
         /\ Retracted = off - 1 \/ (off = 0 /\ Retracted = 0)
         /\ Advanced(height, width) \in {off, off + 1}
         /\ focus = "list" => /\ Retracted < ListRows /\ Retracted < slots
                              /\ Advanced(height, width) < ListRows
                              /\ Advanced(height, width) < slots
<1>1. slots \in Nat /\ off \in Nat /\ height \in Nat /\ width \in Nat
  BY TuiAssumption DEF TypeOK
<1> QED
  BY <1>1 DEF TypeOK, Retracted, Advanced, MayAdvance, ListRows

\* Any three numbers of rows make a selection.
LEMMA Selecting ==
  \A a, b, c \in 0..ListRows : [start |-> a, end |-> b, pivot |-> c] \in Selections
  BY DEF Selections

\* No selection is one of the selections.
LEMMA NothingSelected == NoSelection \in Selections
<1>1. 0 \in 0..ListRows /\ 1 \in 0..ListRows
  BY DEF ListRows
<1> QED
  BY <1>1, Selecting DEF NoSelection

\* What extending does to the ends of the range.
LEMMA Extensions ==
  ASSUME selected \in Selections, NEW row \in Nat
  PROVE  /\ ExtendedUp(row) \in Selections /\ ExtendedDown(row) \in Selections
         /\ ExtendedUp(row).pivot = selected.pivot
         /\ ExtendedUp(row).start = IF row < selected.pivot /\ selected.start > 0
                                    THEN selected.start - 1 ELSE selected.start
         /\ ExtendedUp(row).end =
              IF row >= selected.pivot /\ selected.end > selected.start + 1
              THEN selected.end - 1 ELSE selected.end
         /\ ExtendedDown(row).pivot = selected.pivot
         /\ ExtendedDown(row).start =
              IF row <= selected.pivot /\ selected.start < ListRows - 1
              THEN selected.start + 1 ELSE selected.start
         /\ ExtendedDown(row).end =
              IF ~(row <= selected.pivot /\ selected.start < ListRows - 1)
                   /\ selected.end < ListRows
              THEN selected.end + 1 ELSE selected.end
<1> DEFINE a == selected.start
           b == selected.end
           c == selected.pivot
<1>1. /\ a \in 0..ListRows /\ b \in 0..ListRows /\ c \in 0..ListRows
      /\ selected = [start |-> a, end |-> b, pivot |-> c]
  BY DEF Selections
<1>2. \A d : /\ [selected EXCEPT !.start = d] = [start |-> d, end |-> b, pivot |-> c]
             /\ [selected EXCEPT !.end = d] = [start |-> a, end |-> d, pivot |-> c]
  BY <1>1
<1>3. /\ ExtendedUp(row) =
           IF row < c THEN IF a > 0 THEN [start |-> a - 1, end |-> b, pivot |-> c] ELSE selected
           ELSE IF b > a + 1 THEN [start |-> a, end |-> b - 1, pivot |-> c] ELSE selected
      /\ ExtendedDown(row) =
           IF row <= c /\ a < ListRows - 1 THEN [start |-> a + 1, end |-> b, pivot |-> c]
           ELSE IF b < ListRows THEN [start |-> a, end |-> b + 1, pivot |-> c] ELSE selected
  BY <1>2 DEF ExtendedUp, ExtendedDown
<1>4. /\ a > 0 => a - 1 \in 0..ListRows
      /\ b > a + 1 => b - 1 \in 0..ListRows
      /\ a < ListRows - 1 => a + 1 \in 0..ListRows
      /\ b < ListRows => b + 1 \in 0..ListRows
  BY <1>1 DEF ListRows
<1>5. ExtendedUp(row) \in Selections /\ ExtendedDown(row) \in Selections
  BY <1>1, <1>3, <1>4, Selecting
<1> QED
  BY <1>1, <1>3, <1>5

\* The initial state fits.
LEMMA InitFits == Init => TuiInv
<1> SUFFICES ASSUME Init PROVE TuiInv
  OBVIOUS
<1>1. slots \in Nat /\ <<>> \in Seq(Bytes) /\ NoSelection \in Selections
  BY TuiAssumption, NothingSelected DEF Init
<1>2. TypeOK
  <2>1. prompt \in Seq(Bytes) /\ selected \in Selections
    BY <1>1 DEF Init
  <2>2. matched \in 0..slots /\ off \in Nat
    BY <1>1 DEF Init
  <2> QED
    BY <2>1, <2>2 DEF Init, TypeOK, Loops
<1> QED
  BY <1>2 DEF Init, TuiInv, FocusFitsMode, SelectionEndsWithMode, RangeFits

\* Every key, and every drawing, keeps the invariant.
LEMMA StepFits == TuiInv /\ [Next]_vars => TuiInv'
<1> SUFFICES ASSUME TuiInv, [Next]_vars PROVE TuiInv'
  OBVIOUS
<1> USE DEF TuiInv, FocusFitsMode, SelectionEndsWithMode
<1>0. TypeOK /\ slots \in Nat /\ NoSelection \in Selections
  BY TuiAssumption, NothingSelected DEF TypeOK
<1>1. CASE Draw
  BY <1>0, <1>1 DEF Draw, TypeOK, RangeFits, Loops
<1>2. ASSUME NEW k \in Keys, Update(k) PROVE TuiInv'
  <2>0. mode \in {"insert", "normal", "select"}
    BY <1>0 DEF TypeOK
  <2>b. burst' \in Seq(Bytes) /\ cramped' \in BOOLEAN
    <3>1. burst \o Encoded(k) \in Seq(Bytes)
      BY <1>0, Encodings, Joins DEF TypeOK
    <3>2. CASE TextualInput(k)
      BY <1>0, <3>1, <3>2 DEF TextualInput, TypeOK
    <3>3. CASE burst' = <<>> /\ cramped' = FALSE
      <4>1. burst' \in Seq(Bytes)
        BY <3>3
      <4>2. cramped' \in BOOLEAN
        BY <3>3, Zenon
      <4> QED
        BY <4>1, <4>2
    <3> QED
      BY <1>2, <3>2, <3>3 DEF Update
  <2>1. CASE TextualInput(k)
    <3>1. mode = "insert" /\ focus = "prompt"
      BY <2>0, <2>1, Meanings DEF TextualInput
    <3>2. prompt' \in Seq(Bytes)
      BY <1>0, <2>1, EditsArePrompts
    <3>3. off' \in Nat
      BY <1>0, <2>1, Steps DEF TextualInput, EditAtCursor, TypeOK
    <3> QED
      BY <1>0, <2>b, <2>1, <3>1, <3>2, <3>3 DEF TextualInput, EditAtCursor, TypeOK, RangeFits, Loops
  <2>2. CASE Pop(k)
    <3>1. mode = "insert" /\ focus = "prompt"
      BY <2>0, <2>2, Meanings DEF Pop
    <3>2. prompt' \in Seq(Bytes)
      BY <1>0, <2>2, EditsArePrompts
    <3>3. off' \in Nat
      BY <1>0, <2>2 DEF Pop, EditAtCursor, TypeOK, Retracted
    <3> QED
      BY <1>0, <2>b, <2>2, <3>1, <3>2, <3>3 DEF Pop, EditAtCursor, TypeOK, RangeFits, Loops
  <2>3. CASE Search(k)
    <3>1. mode # "select"
      BY <2>0, <2>3, Meanings DEF Search
    <3> QED
      BY <1>0, <2>b, <2>3, <3>1 DEF Search, TypeOK, RangeFits, ListRows, Loops
  <2>4. CASE ClearPrompt(k)
    <3>1. mode = "normal" /\ <<>> \in Seq(Bytes)
      BY <2>0, <2>4, Meanings DEF ClearPrompt
    <3> QED
      BY <1>0, <2>b, <2>4, <3>1 DEF ClearPrompt, TypeOK, RangeFits, Loops
  <2>5. CASE Switch(k)
    BY <1>0, <2>b, <2>5 DEF Switch, Transition, TypeOK, RangeFits, ListRows, Loops
  <2>6. CASE ToInsert(k)
    <3>1. mode = "normal"
      BY <2>0, <2>6, Meanings DEF ToInsert
    <3> QED
      BY <1>0, <2>b, <2>6, <3>1 DEF ToInsert, Transition, TypeOK, RangeFits, Loops
  <2>7. CASE ToSelect(k)
    <3>1. off \in 0..ListRows /\ off + 1 \in 0..ListRows /\ mode = "normal"
      BY <1>0, <2>0, <2>7, Meanings DEF ToSelect, TypeOK, ListRows
    <3>2. selected' \in Selections
      BY <2>7, <3>1, Selecting DEF ToSelect
    <3>3. RangeFits'
      BY <2>7, <3>1 DEF ToSelect, RangeFits, ListRows
    <3> QED
      BY <1>0, <2>b, <2>7, <3>2, <3>3 DEF ToSelect, TypeOK, Loops
  <2>8. CASE ToNormal(k)
    BY <1>0, <2>b, <2>8 DEF ToNormal, TypeOK, RangeFits, Loops
  <2>9. CASE MoveInPrompt(k)
    <3>1. off' \in Nat /\ loop' \in Loops
      BY <1>0, <2>9, Steps DEF MoveInPrompt, TypeOK, Retracted, Loops
    <3> QED
      BY <1>0, <2>b, <2>9, <3>1 DEF MoveInPrompt, TypeOK, RangeFits
  <2>10. CASE GoUp(k)
    <3>1. focus = "list" /\ mode # "insert"
      BY <1>0, <2>0, <2>10, Meanings DEF GoUp
    <3>2. /\ off' \in Nat /\ off' < ListRows /\ off' < slots
          /\ off' = IF off > 0 THEN off - 1 ELSE 0
      BY <1>0, <2>10, <3>1 DEF GoUp, TypeOK, Retracted, ListRows
    <3>3. selected' \in Selections
      BY <1>0, <2>10, <3>2, Extensions DEF GoUp, TypeOK
    <3>4. RangeFits'
      <4>1. CASE mode = "select" /\ ~stuck
        <5>1. selected \in Selections /\ off \in Nat
          BY <1>0 DEF TypeOK
        <5>2. selected' = ExtendedUp(off')
          BY <2>10, <4>1 DEF GoUp
        <5>3. selected.pivot \in Nat /\ selected.start \in Nat /\ selected.end \in Nat
          BY <5>1 DEF Selections, ListRows
        <5> QED
          BY <3>2, <4>1, <5>1, <5>2, <5>3, Extensions DEF RangeFits
      <4> QED
        BY <2>10, <4>1 DEF GoUp, RangeFits
    <3> QED
      BY <1>0, <2>b, <2>10, <3>1, <3>2, <3>3, <3>4 DEF GoUp, TypeOK, Loops
  <2>11. CASE GoDown(k)
    <3>1. focus = "list" /\ mode # "insert"
      BY <1>0, <2>0, <2>11, Meanings DEF GoDown
    <3>2. off' \in Nat /\ off' < ListRows /\ off' < slots /\ off' \in {off, off + 1}
      BY <1>0, <2>11, <3>1, Steps DEF GoDown
    <3>3. selected' \in Selections
      BY <1>0, <2>11, <3>2, Extensions DEF GoDown, TypeOK
    <3>4. RangeFits'
      <4>1. CASE mode = "select" /\ ~stuck /\ ~stuck'
        <5>1. selected \in Selections /\ off \in Nat
          BY <1>0 DEF TypeOK
        <5>2. selected' = ExtendedDown(off')
          BY <2>11, <4>1 DEF GoDown
        <5>3. selected.pivot \in 0..10 /\ selected.start \in 0..10 /\ selected.end \in 0..10
          BY <5>1 DEF Selections, ListRows
        <5>4. ~(off' = off /\ off < ListRows - 1)
          BY <2>11, <4>1, Zenon DEF GoDown
        <5> QED
          BY <3>2, <4>1, <5>1, <5>2, <5>3, <5>4, Extensions DEF RangeFits, ListRows
      <4> QED
        BY <2>11, <4>1 DEF GoDown, RangeFits
    <3>5. stuck' \in BOOLEAN
      BY <1>0, <2>11 DEF GoDown, TypeOK
    <3> QED
      BY <1>0, <2>b, <2>11, <3>1, <3>2, <3>3, <3>4, <3>5 DEF GoDown, TypeOK, Loops
  <2>12. CASE Elsewhere(k)
    BY <1>0, <2>b, <2>12 DEF Elsewhere, TypeOK, RangeFits, Loops
  <2>13. CASE WithoutSize(k)
    <3>1. prompt' \in Seq(Bytes)
      <4>1. CASE Boundary(off) /\ prompt' = Inserted(off, Encoded(k))
        <5>1. off \in 0..Len(prompt)
          BY <1>0, <4>1 DEF TypeOK, Boundary
        <5> QED
          BY <1>0, <4>1, <5>1, Encodings, Insertions
      <4>2. CASE prompt' = prompt
        BY <1>0, <4>2 DEF TypeOK
      <4> QED
        BY <2>13, <4>1, <4>2 DEF WithoutSize
    <3>2. wide' \in BOOLEAN
      BY <2>13, Zenon DEF WithoutSize
    <3> QED
      BY <1>0, <2>b, <2>13, <3>1, <3>2 DEF WithoutSize, TypeOK, RangeFits, Loops
  <2> QED
    BY <1>2, <2>1, <2>2, <2>3, <2>4, <2>5, <2>6, <2>7, <2>8, <2>9, <2>10, <2>11, <2>12, <2>13
    DEF Update
<1>3. CASE UNCHANGED vars
  BY <1>0, <1>3 DEF vars, TypeOK, RangeFits
<1> QED
  BY <1>1, <1>2, <1>3 DEF Next

\* Every reachable state has its values in range, its cursor where the mode wants
\* it, and a selection that fits the cursor.
THEOREM TuiInvariant == Spec => []TuiInv
<1> QED
  BY InitFits, StepFits, PTL DEF Spec

\* Insert mode stays in the prompt and select mode in the list, however update
\* and draw move the cursor between them.
THEOREM ModesKeepFocus == Spec => []FocusFitsMode
<1>1. TuiInv => FocusFitsMode
  BY DEF TuiInv
<1> QED
  BY <1>1, TuiInvariant, PTL

\* A toggle in select mode reaches the rows from the pivot to the cursor, as long
\* as Selection::extend and Position::advance moved together.
THEOREM TogglesWhatIsSpanned == Spec => []SelectionSpans
<1>1. TuiInv => SelectionSpans
  <2> SUFFICES ASSUME TuiInv, mode = "select", ~stuck PROVE Toggled = Spanned
    BY DEF SelectionSpans
  <2>1. off \in Nat /\ matched \in Nat /\ selected.pivot \in Nat
    BY TuiAssumption DEF TuiInv, TypeOK, Selections, ListRows
  <2>2. CASE off >= selected.pivot /\ selected.start = selected.pivot /\ selected.end = off + 1
    BY <2>1, <2>2 DEF Toggled, Spanned
  <2>3. CASE off < selected.pivot /\ selected.start = off /\ selected.end = selected.pivot + 1
    BY <2>1, <2>3 DEF Toggled, Spanned
  <2> QED
    BY <2>2, <2>3 DEF TuiInv, RangeFits
<1> QED
  BY <1>1, TuiInvariant, PTL

\* Whatever mode is left, the range goes back to nothing selected.
THEOREM SelectionsEnd == Spec => []SelectionEndsWithMode
<1>1. TuiInv => SelectionEndsWithMode
  BY DEF TuiInv
<1> QED
  BY <1>1, TuiInvariant, PTL

\* Modes, cursor, prompt and selection stay in range, whatever is typed and
\* however the terminal is resized.
THEOREM TuiTypes == Spec => []TypeOK
<1>1. TuiInv => TypeOK
  BY DEF TuiInv
<1> QED
  BY <1>1, TuiInvariant, PTL

-----------------------------------------------------------------------------
(* Prompts of single bytes *)

\* Between single bytes every place in the prompt is a boundary.
LEMMA NarrowBoundary ==
  ASSUME TypeOK, NarrowInv, ~wide, focus = "prompt", loop = "wait"
  PROVE  off \in 0..Len(prompt) /\ Boundary(off)
<1>1. off \in 0..Len(prompt)
  BY DEF TypeOK, NarrowInv, NarrowPromptIsSafe
<1> QED
  BY <1>1 DEF TypeOK, NarrowInv, Boundary, Narrow

\* Typing a single byte keeps the prompt narrow and the burst in it.
LEMMA NarrowTyping ==
  ASSUME TypeOK, FocusFitsMode, NarrowInv, loop = "wait", NEW k \in Keys, TextualInput(k)
  PROVE  NarrowInv'
<1>0. mode = "insert" /\ mode' = "insert" /\ focus = "prompt" /\ focus' = "prompt"
  BY Meanings DEF TypeOK, FocusFitsMode, TextualInput, EditAtCursor
<1>1. CASE wide'
  BY <1>0, <1>1 DEF NarrowInv, NarrowPromptIsSafe, TypedInOrder
<1>2. CASE ~wide'
  <2>1. ~wide /\ k # "wide"
    BY <1>2, Zenon DEF TextualInput
  <2>2. off \in 0..Len(prompt) /\ Boundary(off)
    BY <1>0, <2>1, NarrowBoundary
  <2> DEFINE s == Encoded(k)
  <2>3. s \in Seq(Bytes) /\ Len(s) = 1 /\ s[1] \in Narrow
    BY <2>1, Encodings
  <2> HIDE DEF s
  <2>4. prompt' = Inserted(off, s) /\ loop' = "draw" /\ burst' = burst \o s
    BY <2>2 DEF TextualInput, EditAtCursor, s
  <2>5. off' \in {off, off + 1} /\ (~cramped' => ~cramped /\ off' = off + 1)
    <3>1. PICK height \in Heights, width \in Widths :
            /\ off' = Advanced(height, width)
            /\ cramped' = (cramped \/ ~MayAdvance(height, width))
      BY <2>2 DEF TextualInput, EditAtCursor
    <3>2. ~cramped' => ~cramped /\ MayAdvance(height, width)
      BY <3>1, Zenon
    <3> QED
      BY <3>1, <3>2 DEF Advanced
  <2>6. /\ Len(prompt') = Len(prompt) + 1
        /\ \A n \in 1..off : prompt'[n] = prompt[n]
        /\ prompt'[off + 1] = s[1]
        /\ \A n \in (off + 1)..Len(prompt) : prompt'[n + 1] = prompt[n]
    <3>1. /\ Len(prompt') = Len(prompt) + Len(s)
          /\ \A n \in 1..off : prompt'[n] = prompt[n]
          /\ \A n \in 1..Len(s) : prompt'[off + n] = s[n]
          /\ \A n \in (off + 1)..Len(prompt) : prompt'[n + Len(s)] = prompt[n]
      BY <2>2, <2>3, <2>4, Insertions
    <3>2. 1 \in 1..Len(s)
      BY <2>3
    <3> QED
      BY <2>3, <3>1, <3>2
  <2>7. prompt \in Seq(Bytes) /\ Len(prompt) \in Nat /\ off \in Nat
    BY DEF TypeOK
  <2>8. \A n \in 1..Len(prompt') : prompt'[n] \in Narrow
    <3> SUFFICES ASSUME NEW n \in 1..Len(prompt') PROVE prompt'[n] \in Narrow
      OBVIOUS
    <3>1. \A i \in 1..Len(prompt) : prompt[i] \in Narrow
      BY <2>1 DEF NarrowInv
    <3>2. CASE n <= off
      BY <2>2, <2>6, <2>7, <3>1, <3>2
    <3>3. CASE n = off + 1
      BY <2>3, <2>6, <3>3
    <3>4. CASE n > off + 1
      <4>1. n - 1 \in (off + 1)..Len(prompt) /\ n - 1 \in 1..Len(prompt) /\ (n - 1) + 1 = n
        BY <2>2, <2>6, <2>7, <3>4
      <4>2. prompt'[n] = prompt[n - 1]
        BY <2>6, <4>1
      <4> QED
        BY <3>1, <4>1, <4>2
    <3> QED
      BY <2>6, <2>7, <3>2, <3>3, <3>4
  <2>9. NarrowPromptIsSafe'
    BY <2>2, <2>4, <2>5, <2>6, <2>7 DEF NarrowPromptIsSafe
  <2>10. TypedInOrder'
    <3> SUFFICES ASSUME ~cramped'
                 PROVE  /\ Len(burst') <= off'
                        /\ \A n \in 1..Len(burst') : burst'[n] = prompt'[off' - Len(burst') + n]
      BY DEF TypedInOrder
    <3>1. /\ Len(burst) <= off /\ off' = off + 1
          /\ \A n \in 1..Len(burst) : burst[n] = prompt[off - Len(burst) + n]
      BY <2>1, <2>5 DEF NarrowInv, TypedInOrder
    <3>2. burst \in Seq(Bytes) /\ Len(burst) \in Nat
      BY DEF TypeOK
    <3>3. /\ Len(burst') = Len(burst) + 1
          /\ \A n \in 1..Len(burst) : burst'[n] = burst[n]
          /\ burst'[Len(burst) + 1] = s[1]
      <4>1. /\ Len(burst \o s) = Len(burst) + Len(s)
            /\ \A i \in 1..Len(burst) : (burst \o s)[i] = burst[i]
            /\ \A i \in 1..Len(s) : (burst \o s)[Len(burst) + i] = s[i]
        BY <2>3, <3>2, Joins
      <4> QED
        BY <2>3, <2>4, <4>1
    <3>4. ASSUME NEW n \in 1..Len(burst')
          PROVE  burst'[n] = prompt'[off' - Len(burst') + n]
      <4>1. off' - Len(burst') + n = off - Len(burst) + n
        BY <2>7, <3>1, <3>2, <3>3
      <4>2. CASE n <= Len(burst)
        <5>1. n \in 1..Len(burst) /\ off - Len(burst) + n \in 1..off
          BY <2>7, <3>1, <3>2, <3>4, <4>2
        <5> QED
          BY <2>6, <3>1, <3>3, <4>1, <5>1
      <4>3. CASE n = Len(burst) + 1
        <5>1. off - Len(burst) + n = off + 1
          BY <2>7, <3>2, <4>3
        <5> QED
          BY <2>6, <3>3, <4>1, <4>3, <5>1
      <4>4. n <= Len(burst) \/ n = Len(burst) + 1
        BY <3>2, <3>3, <3>4
      <4> QED
        BY <4>2, <4>3, <4>4
    <3> QED
      BY <2>7, <3>1, <3>2, <3>3, <3>4
  <2> QED
    BY <1>0, <2>8, <2>9, <2>10 DEF NarrowInv
<1> QED
  BY <1>1, <1>2

\* Backspace takes one byte and steps back, so the cursor stays within.
LEMMA NarrowPopping ==
  ASSUME TypeOK, FocusFitsMode, NarrowInv, loop = "wait", NEW k \in Keys, Pop(k),
         burst' = <<>>
  PROVE  NarrowInv'
<1>0. mode = "insert" /\ mode' = "insert" /\ focus = "prompt" /\ wide' = wide
  BY Meanings DEF TypeOK, FocusFitsMode, Pop, EditAtCursor
<1>1. CASE wide
  BY <1>0, <1>1 DEF NarrowInv, NarrowPromptIsSafe, TypedInOrder
<1>2. CASE ~wide
  <2>1. off \in 0..Len(prompt) /\ Boundary(off) /\ Len(prompt) \in Nat
    BY <1>0, <1>2, NarrowBoundary DEF TypeOK
  <2>2. prompt' = Popped /\ off' = Retracted /\ loop' = "draw"
    BY <2>1 DEF Pop, EditAtCursor
  <2>3. /\ Len(Popped) = IF prompt = <<>> THEN 0 ELSE Len(prompt) - 1
        /\ \A n \in 1..Len(Popped) : Popped[n] \in Narrow
    BY <1>2, <2>1, Pops DEF NarrowInv
  <2>4. prompt = <<>> => Len(prompt) = 0
    OBVIOUS
  <2>5. off' \in Nat /\ off' <= Len(prompt')
    BY <2>1, <2>2, <2>3, <2>4 DEF Retracted
  <2>6. TypedInOrder'
    BY <2>5 DEF TypedInOrder
  <2> QED
    BY <1>0, <2>2, <2>3, <2>5, <2>6 DEF NarrowInv, NarrowPromptIsSafe
<1> QED
  BY <1>1, <1>2

\* Events that leave the prompt as it is move the cursor within it, and end the
\* burst.
LEMMA NarrowMoving ==
  ASSUME TypeOK, NarrowInv, loop = "wait", burst' = <<>>, wide' = wide, off' \in Nat,
         prompt' = prompt \/ prompt' = <<>>,
         ~wide => /\ loop' # "panicked"
                  /\ focus' = "prompt" => off' <= Len(prompt')
  PROVE  NarrowInv'
<1>1. NarrowPromptIsSafe'
  BY DEF NarrowPromptIsSafe
<1>2. TypedInOrder'
  BY DEF TypedInOrder
<1>3. ~wide' => \A n \in 1..Len(prompt') : prompt'[n] \in Narrow
  BY DEF NarrowInv
<1> QED
  BY <1>1, <1>2, <1>3 DEF NarrowInv

\* NarrowInv is inductive under TuiInv.
LEMMA NarrowStep == TuiInv /\ TuiInv' /\ NarrowInv /\ [Next]_vars => NarrowInv'
<1> SUFFICES ASSUME TuiInv, TuiInv', NarrowInv, [Next]_vars PROVE NarrowInv'
  OBVIOUS
<1>0. /\ TypeOK /\ FocusFitsMode /\ off \in Nat /\ off' \in Nat /\ Len(prompt) \in Nat
      /\ mode \in {"insert", "normal", "select"}
      /\ ~wide /\ focus = "prompt" => off <= Len(prompt)
  BY DEF TuiInv, TypeOK, NarrowInv, NarrowPromptIsSafe
<1>1. CASE Draw
  <2>1. /\ UNCHANGED <<mode, prompt, wide, burst, cramped>>
        /\ loop' # "panicked" /\ loop # "unsized"
        /\ UNCHANGED <<focus, off>> \/ (focus' = "prompt" /\ off' = 0 /\ focus = "list")
    BY <1>1 DEF Draw
  <2>2. burst # <<>> => focus = "prompt"
    BY <1>0 DEF NarrowInv, FocusFitsMode
  <2>3. TypedInOrder'
    <3>1. CASE UNCHANGED <<focus, off>>
      BY <2>1, <3>1 DEF NarrowInv, TypedInOrder
    <3>2. CASE focus' = "prompt" /\ off' = 0 /\ focus = "list"
      BY <2>1, <2>2, <3>2 DEF TypedInOrder
    <3> QED
      BY <2>1, <3>1, <3>2
  <2> QED
    BY <1>0, <2>1, <2>3 DEF NarrowInv, NarrowPromptIsSafe
<1>2. ASSUME NEW k \in Keys, Update(k) PROVE NarrowInv'
  <2>0. loop = "wait"
    BY <1>2 DEF Update
  <2>1. CASE TextualInput(k)
    BY <1>0, <2>0, <2>1, NarrowTyping
  <2>2. CASE ~TextualInput(k)
    <3>1. burst' = <<>>
      BY <1>2, <2>2 DEF Update
    <3>2. CASE Pop(k)
      BY <1>0, <3>1, <2>0, <3>2, NarrowPopping
    <3>3. CASE Search(k)
      BY <1>0, <2>0, <3>1, <3>3, NarrowMoving DEF Search
    <3>4. CASE ClearPrompt(k)
      <4>1. focus' = "prompt" => off' = 0
        BY <3>4 DEF ClearPrompt
      <4>2. prompt' = <<>> /\ wide' = wide /\ loop' # "panicked" /\ Len(prompt') = 0
        BY <3>4 DEF ClearPrompt
      <4> QED
        BY <1>0, <2>0, <3>1, <4>1, <4>2, NarrowMoving
    <3>5. CASE Switch(k)
      BY <1>0, <2>0, <3>1, <3>5, NarrowMoving DEF Switch, Transition
    <3>6. CASE ToInsert(k)
      BY <1>0, <2>0, <3>1, <3>6, NarrowMoving DEF ToInsert, Transition
    <3>7. CASE ToSelect(k)
      BY <1>0, <2>0, <3>1, <3>7, NarrowMoving DEF ToSelect
    <3>8. CASE ToNormal(k)
      BY <1>0, <2>0, <3>1, <3>8, NarrowMoving DEF ToNormal
    <3>9. CASE MoveInPrompt(k)
      <4>1. focus = "prompt" /\ focus' = focus /\ wide' = wide /\ prompt' = prompt
        BY <3>9 DEF MoveInPrompt
      <4>2. ~wide => /\ loop' # "panicked"
                     /\ off' <= Len(prompt)
        <5> SUFFICES ASSUME ~wide PROVE loop' # "panicked" /\ off' <= Len(prompt)
          OBVIOUS
        <5>1. off <= Len(prompt)
          BY <1>0, <4>1
        <5>2. loop' = "draw"
          BY <1>0, <3>9, <5>1 DEF MoveInPrompt
        <5>3. Retracted \in Nat /\ Retracted <= off
          BY <1>0 DEF Retracted
        <5>4. CASE off' = Retracted \/ off' = off
          BY <1>0, <5>1, <5>2, <5>3, <5>4
        <5>5. ASSUME NEW height \in Heights, NEW width \in Widths, off # Len(prompt),
                     off' = Advanced(height, width)
              PROVE  loop' # "panicked" /\ off' <= Len(prompt)
          <6>1. off' \in {off, off + 1}
            BY <1>0, <5>5, Steps
          <6> QED
            BY <1>0, <5>1, <5>2, <5>5, <6>1
        <5> QED
          BY <1>0, <3>9, <5>1, <5>4, <5>5 DEF MoveInPrompt
      <4> QED
        BY <1>0, <2>0, <3>1, <4>1, <4>2, NarrowMoving
    <3>10. CASE GoUp(k)
      <4>1. focus = "list"
        BY <1>0, <3>10, Meanings DEF GoUp, FocusFitsMode
      <4> QED
        BY <1>0, <2>0, <3>1, <3>10, <4>1, NarrowMoving DEF GoUp
    <3>11. CASE GoDown(k)
      <4>1. focus = "list"
        BY <1>0, <3>11, Meanings DEF GoDown, FocusFitsMode
      <4> QED
        BY <1>0, <2>0, <3>1, <3>11, <4>1, NarrowMoving DEF GoDown
    <3>12. CASE Elsewhere(k)
      BY <1>0, <2>0, <3>1, <3>12, NarrowMoving DEF Elsewhere
    <3>13. CASE WithoutSize(k)
      <4>1. loop' = "unsized" /\ loop' # "panicked" /\ UNCHANGED <<focus, off>>
        BY <3>13 DEF WithoutSize
      <4>5. ~wide' => ~wide
        BY <3>13, Zenon DEF WithoutSize
      <4>2. ~wide /\ focus = "prompt" => off <= Len(prompt')
        <5>1. CASE Boundary(off) /\ prompt' = Inserted(off, Encoded(k))
          <6>1. off \in 0..Len(prompt)
            BY <1>0, <5>1 DEF TypeOK, Boundary
          <6>2. Encoded(k) \in Seq(Bytes) /\ Len(Encoded(k)) \in Nat
            BY Encodings
          <6> QED
            BY <1>0, <5>1, <6>1, <6>2, Insertions
        <5>2. CASE prompt' = prompt
          BY <1>0, <5>2
        <5> QED
          BY <3>13, <5>1, <5>2 DEF WithoutSize
      <4>3. NarrowPromptIsSafe'
        BY <4>1, <4>2, <4>5, Zenon DEF NarrowPromptIsSafe
      <4>4. TypedInOrder'
        BY <1>0, <3>1, <4>1 DEF TypedInOrder
      <4> QED
        BY <3>1, <4>1, <4>3, <4>4, Zenon DEF NarrowInv
    <3> QED
      BY <1>2, <2>2, <3>2, <3>3, <3>4, <3>5, <3>6, <3>7, <3>8, <3>9, <3>10, <3>11, <3>12, <3>13
      DEF Update
  <2> QED
    BY <2>1, <2>2
<1>3. CASE UNCHANGED vars
  BY <1>3 DEF vars, NarrowInv, NarrowPromptIsSafe, TypedInOrder
<1> QED
  BY <1>1, <1>2, <1>3 DEF Next

\* It holds at the start.
LEMMA NarrowInit == Init => NarrowInv
BY DEF Init, NarrowInv, NarrowPromptIsSafe, TypedInOrder

\* While only single bytes are typed the cursor stays within the prompt and
\* nothing panics, however long the prompt and whatever else is done between.
THEOREM NarrowPromptsAreSafe == Spec => []NarrowPromptIsSafe
<1>1. NarrowInv => NarrowPromptIsSafe
  BY DEF NarrowInv
<1> QED
  BY <1>1, NarrowInit, NarrowStep, TuiInvariant, PTL DEF Spec

\* What is typed in one go, with a column left for each, is in the prompt in the
\* order it was typed, wherever in the prompt the typing began.
THEOREM TypingKeepsOrder == Spec => []TypedInOrder
<1>1. NarrowInv => TypedInOrder
  BY DEF NarrowInv
<1> QED
  BY <1>1, NarrowInit, NarrowStep, TuiInvariant, PTL DEF Spec
=============================================================================
