-------------------------------- MODULE Tui --------------------------------
(***************************************************************************)
(* The modal interface: how State::update moves between modes, edits the   *)
(* prompt, moves the cursor and extends the selection, one key at a time,  *)
(* with a drawing after each.                                              *)
(*                                                                         *)
(* The prompt is kept as its bytes, for the cursor counts columns where    *)
(* String::insert and remove count bytes: two letters stand for the single *)
(* bytes, a lead and a continuation byte for every wider character.        *)
(* The list is abstracted to how many constants the last regex matched:    *)
(* what filtering and toggling do to them is in ConstContainer, what a     *)
(* save does is in RenderLoop and EffectChanges.  The rows and columns of  *)
(* the terminal grid kept beside the offset are never read, and left out.  *)
(***************************************************************************)
EXTENDS Integers, Sequences

CONSTANTS
  SlotCounts,  \* how many constants a scan may find, hence slots of filter_buf
  Heights,     \* max_row, as the terminal may report it: its rows, less one
  Widths,      \* max_col: its columns, less one
  MaxPrompt,   \* bound: bytes of the prompt
  Debug        \* whether debug assertions are compiled in

ASSUME TuiAssumption ==
  /\ SlotCounts \subseteq Nat
  /\ Heights \subseteq Nat
  /\ Widths \subseteq Nat
  /\ MaxPrompt \in Nat
  /\ Debug \in BOOLEAN

VARIABLES
  slots,     \* filter_buf.len(): every constant, matched or not
  matched,   \* how many of them the last regex matched
  mode,      \* the mode
  focus,     \* pos: in the prompt or in the list
  off,       \* pos: the column, or the row, there
  prompt,    \* the bytes of the prompt
  selected,  \* Selection: the range start..end and the pivot
  loop,      \* where render is, or how it ended
  (* History, read by the properties only. *)
  wide,      \* whether a character of several bytes was ever typed
  stuck,     \* whether this selection was extended down where the cursor stays
  burst,     \* the bytes typed since the last event of another kind
  cramped    \* whether the terminal had no column left for one of them

vars == <<slots, matched, mode, focus, off, prompt, selected, loop, wide, stuck,
          burst, cramped>>

ListRows == 10  \* the rows of the list

Keys == {"h", "j", "k", "l", "i", "v", "wide", "space", "backspace", "return",
         "shift_return", "escape", "tab"}
Chars == {"h", "j", "k", "l", "i", "v", "wide", "space"}

Narrow == {"a", "b"}
Bytes  == Narrow \cup {"lead", "cont"}

Selections == [start : 0..ListRows, end : 0..ListRows, pivot : 0..ListRows]
Loops == {"draw", "wait", "failed", "panicked", "unsized"}

TypeOK ==
  /\ slots \in SlotCounts
  /\ matched \in 0..slots
  /\ mode \in {"insert", "normal", "select"}
  /\ focus \in {"prompt", "list"}
  /\ off \in Nat
  /\ focus = "list" => off < ListRows /\ off < slots
  /\ prompt \in Seq(Bytes)
  /\ selected \in Selections
  /\ loop \in Loops
  /\ wide \in BOOLEAN
  /\ stuck \in BOOLEAN
  /\ burst \in Seq(Bytes)
  /\ cramped \in BOOLEAN

-----------------------------------------------------------------------------
(* What a key means in a mode *)

Motion(k) == CASE k = "h" -> "left" [] k = "l" -> "right"
               [] k = "k" -> "up"   [] k = "j" -> "down"

\* Mode::interpret; handle_input has told space from the other characters.
Interpret(m, k) ==
  CASE m = "insert" /\ k \in Chars                    -> "text"
    [] m = "insert" /\ k = "backspace"                -> "pop"
    [] m # "insert" /\ k \in {"h", "j", "k", "l"}     -> Motion(k)
    [] m = "normal" /\ k = "i"                        -> "to_insert"
    [] m = "normal" /\ k = "v"                        -> "to_select"
    [] m = "normal" /\ k = "shift_return"             -> "effect"
    [] m = "normal" /\ k = "escape"                   -> "clear"
    [] m # "normal" /\ k = "escape"                   -> "to_normal"
    [] m # "select" /\ k = "return"                   -> "search"
    [] m # "insert" /\ k = "space"                    -> "toggle"
    [] k = "tab"                                      -> "switch"
    [] OTHER                                          -> "none"

-----------------------------------------------------------------------------
(* The prompt *)

\* The bytes a key types.
Encoded(k) == CASE k = "wide"  -> <<"lead", "cont">>
                [] k = "space" -> <<"b">>
                [] OTHER       -> <<"a">>

\* str::is_char_boundary
Boundary(b) == b = Len(prompt) \/ (b < Len(prompt) /\ prompt[b + 1] # "cont")

\* Where the character String::pop takes begins, in a prompt that has one.
LastBegins == IF prompt[Len(prompt)] = "cont" THEN Len(prompt) - 2 ELSE Len(prompt) - 1

\* The prompt with bytes s put in at b; without the n bytes from b on.
Inserted(b, s) == SubSeq(prompt, 1, b) \o s \o SubSeq(prompt, b + 1, Len(prompt))
Removed(b, n)  == SubSeq(prompt, 1, b) \o SubSeq(prompt, b + n + 1, Len(prompt))

\* How many bytes the character at b takes.
CharLen(b) == IF prompt[b + 1] = "lead" THEN 2 ELSE 1

-----------------------------------------------------------------------------
(* The cursor and the selection *)

NoSelection == [start |-> 0, end |-> 1, pivot |-> 0]

\* Mutant of MayAdvance: the rows of the terminal are all that bounds the cursor.
MayAdvanceInTerminal(height, width) ==
  off + 1 < IF focus = "prompt" THEN width ELSE height

\* The list is as long as filter_buf, whatever that shows.
MayAdvance(height, width) ==
  \/ focus = "prompt" /\ off + 1 < width
  \/ focus = "list" /\ off + 1 < slots /\ off + 1 < ListRows /\ off + 1 < height

\* Position::advance
Advanced(height, width) == IF MayAdvance(height, width) THEN off + 1 ELSE off

\* Position::retract
Retracted == IF off > 0 THEN off - 1 ELSE 0

\* Mutant of ExtendedUp: the row of the pivot counts as above it.
ExtendedUpEarly(row) ==
  IF row <= selected.pivot
  THEN IF selected.start > 0 THEN [selected EXCEPT !.start = @ - 1] ELSE selected
  ELSE IF selected.end > selected.start + 1 THEN [selected EXCEPT !.end = @ - 1] ELSE selected

\* Selection::extend, with the cursor already moved to row.
ExtendedUp(row) ==
  IF row < selected.pivot
  THEN IF selected.start > 0 THEN [selected EXCEPT !.start = @ - 1] ELSE selected
  ELSE IF selected.end > selected.start + 1 THEN [selected EXCEPT !.end = @ - 1] ELSE selected

ExtendedDown(row) ==
  IF row <= selected.pivot /\ selected.start < ListRows - 1
  THEN [selected EXCEPT !.start = @ + 1]
  ELSE IF selected.end < ListRows THEN [selected EXCEPT !.end = @ + 1] ELSE selected

-----------------------------------------------------------------------------
Init ==
  /\ slots \in SlotCounts
  /\ matched = slots
  /\ mode = "normal"
  /\ focus = "prompt"
  /\ off = 0
  /\ prompt = <<>>
  /\ selected = NoSelection
  /\ loop = "draw"
  /\ wide = FALSE
  /\ stuck = FALSE
  /\ burst = <<>>
  /\ cramped = FALSE

\* State::draw.  With no slot at all the list is left; with the cursor on a row
\* that shows no constant, drawing normal mode is an error and ends render.
Draw ==
  /\ loop = "draw"
  /\ IF slots = 0 /\ focus = "list"
     THEN focus' = "prompt" /\ off' = 0
     ELSE UNCHANGED <<focus, off>>
  /\ loop' = IF mode = "normal" /\ focus' = "list" /\ off' >= matched THEN "failed" ELSE "wait"
  /\ UNCHANGED <<slots, matched, mode, prompt, selected, wide, stuck, burst, cramped>>

\* Editing the prompt at a byte within a character panics, and ends render.
EditAtCursor(edited, moved) ==
  /\ IF Boundary(off)
     THEN prompt' = edited /\ off' = moved /\ loop' = "draw"
     ELSE loop' = "panicked" /\ UNCHANGED <<prompt, off>>
  /\ UNCHANGED <<slots, matched, mode, focus, selected, stuck>>

\* Mutant of TextualInput: a character is put in after the one at the cursor.
TextualInputAfter(k) ==
  /\ Interpret(mode, k) = "text"
  /\ Len(prompt) + Len(Encoded(k)) <= MaxPrompt
  /\ \E height \in Heights, width \in Widths :
       /\ EditAtCursor(Inserted(IF off < Len(prompt) THEN off + 1 ELSE off, Encoded(k)),
                       Advanced(height, width))
       /\ cramped' = (cramped \/ ~MayAdvance(height, width))
  /\ burst' = burst \o Encoded(k)
  /\ wide' = (wide \/ k = "wide")

\* A character is put in at the cursor, and the cursor moves a column on.
TextualInput(k) ==
  /\ Interpret(mode, k) = "text"
  /\ Len(prompt) + Len(Encoded(k)) <= MaxPrompt
  /\ \E height \in Heights, width \in Widths :
       /\ EditAtCursor(Inserted(off, Encoded(k)), Advanced(height, width))
       /\ cramped' = (cramped \/ ~MayAdvance(height, width))
  /\ burst' = burst \o Encoded(k)
  /\ wide' = (wide \/ k = "wide")

\* The prompt after backspace: without its last character if the cursor is behind
\* it, without the one under the cursor otherwise.
Popped ==
  CASE prompt = <<>>                        -> prompt
    [] prompt # <<>> /\ off = Len(prompt)   -> SubSeq(prompt, 1, LastBegins)
    [] prompt # <<>> /\ off # Len(prompt)   -> Removed(off, CharLen(off))

\* Mutant of Pop: the cursor stays.
PopInPlace(k) ==
  /\ Interpret(mode, k) = "pop"
  /\ EditAtCursor(Popped, off)
  /\ UNCHANGED wide

Pop(k) ==
  /\ Interpret(mode, k) = "pop"
  /\ EditAtCursor(Popped, Retracted)
  /\ UNCHANGED wide

\* Filtering by the prompt may match any number of constants, or fail and end
\* render before anything else changes.
Search(k) ==
  /\ Interpret(mode, k) = "search"
  /\ \/ /\ loop' = "failed"
        /\ UNCHANGED <<matched, selected, off>>
     \/ /\ loop' = "draw"
        /\ matched' \in 0..slots
        /\ selected' = NoSelection
        /\ off' = IF focus = "list" THEN 0 ELSE off
  /\ UNCHANGED <<slots, mode, focus, prompt, wide, stuck>>

\* Emptying the prompt brings every constant back.
ClearPrompt(k) ==
  /\ Interpret(mode, k) = "clear"
  /\ prompt # <<>>
  /\ prompt' = <<>>
  /\ off' = IF focus = "prompt" THEN 0 ELSE off
  /\ matched' = slots
  /\ loop' = "draw"
  /\ UNCHANGED <<slots, mode, focus, selected, wide, stuck>>

\* Position::transition
Transition ==
  /\ focus' = IF focus = "prompt" THEN "list" ELSE "prompt"
  /\ off' = 0

\* Mutant of Switch: the selection stays when select mode is left this way.
SwitchSelected(k) ==
  /\ Interpret(mode, k) = "switch"
  /\ slots > 0
  /\ mode' = "normal"
  /\ Transition
  /\ loop' = "draw"
  /\ UNCHANGED <<slots, matched, prompt, selected, wide, stuck>>

\* The prompt and the list change places, in normal mode; the guard counts slots.
Switch(k) ==
  /\ Interpret(mode, k) = "switch"
  /\ slots > 0
  /\ mode' = "normal"
  /\ selected' = IF mode = "select" THEN NoSelection ELSE selected
  /\ Transition
  /\ loop' = "draw"
  /\ UNCHANGED <<slots, matched, prompt, wide, stuck>>

\* Mutant of ToInsert: the cursor stays where it is.
ToInsertHere(k) ==
  /\ Interpret(mode, k) = "to_insert"
  /\ mode' = "insert"
  /\ loop' = "draw"
  /\ UNCHANGED <<slots, matched, focus, off, prompt, selected, wide, stuck>>

\* Only normal mode leads to insert mode; the list is left for it.
ToInsert(k) ==
  /\ Interpret(mode, k) = "to_insert"
  /\ mode' = "insert"
  /\ IF focus = "list" THEN Transition ELSE UNCHANGED <<focus, off>>
  /\ loop' = "draw"
  /\ UNCHANGED <<slots, matched, prompt, selected, wide, stuck>>

ToSelect(k) ==
  /\ Interpret(mode, k) = "to_select"
  /\ focus = "list"
  /\ mode' = "select"
  /\ selected' = [start |-> off, end |-> off + 1, pivot |-> off]
  /\ stuck' = FALSE
  /\ loop' = "draw"
  /\ UNCHANGED <<slots, matched, focus, off, prompt, wide>>

ToNormal(k) ==
  /\ Interpret(mode, k) = "to_normal"
  /\ mode' = "normal"
  /\ selected' = IF mode = "select" THEN NoSelection ELSE selected
  /\ loop' = "draw"
  /\ UNCHANGED <<slots, matched, focus, off, prompt, wide, stuck>>

\* GoLeft and GoRight in the prompt: the cursor comes to rest after the last byte.
MoveInPrompt(k) ==
  /\ mode = "normal"
  /\ focus = "prompt"
  /\ \/ /\ Debug
        /\ Interpret(mode, k) \in {"left", "right"}
        /\ off > Len(prompt)
        /\ loop' = "panicked"
        /\ UNCHANGED off
     \/ /\ Debug => off <= Len(prompt)
        /\ Interpret(mode, k) = "left"
        /\ loop' = "draw"
        /\ off' = Retracted
     \/ /\ Debug => off <= Len(prompt)
        /\ Interpret(mode, k) = "right"
        /\ loop' = "draw"
        /\ \E height \in Heights, width \in Widths :
             off' = IF off = Len(prompt) THEN off ELSE Advanced(height, width)
  /\ UNCHANGED <<slots, matched, mode, focus, prompt, selected, wide, stuck>>

\* GoUp and GoDown in the list; in select mode they extend the selection too.
GoUp(k) ==
  /\ Interpret(mode, k) = "up"
  /\ mode = "normal" => focus = "list"
  /\ off' = Retracted
  /\ selected' = IF mode = "select" THEN ExtendedUp(off') ELSE selected
  /\ loop' = "draw"
  /\ UNCHANGED <<slots, matched, mode, focus, prompt, wide, stuck>>

GoDown(k) ==
  /\ Interpret(mode, k) = "down"
  /\ mode = "normal" => focus = "list"
  /\ \E height \in Heights, width \in Widths : off' = Advanced(height, width)
  /\ selected' = IF mode = "select" THEN ExtendedDown(off') ELSE selected
  /\ stuck' = (stuck \/ (mode = "select" /\ off' = off /\ off < ListRows - 1))
  /\ loop' = "draw"
  /\ UNCHANGED <<slots, matched, mode, focus, prompt, wide>>

\* Every event that advances the cursor asks the terminal for its size, and panics
\* when there is none to be had or, with debug assertions, when it has no column
\* or no row (max_col - 1, max_row - 1; otherwise the 65535 this leaves bounds the
\* cursor like any other).  What is typed is in the prompt by then.
WithoutSize(k) ==
  /\ \/ /\ Interpret(mode, k) = "text"
        /\ Boundary(off)
        /\ Len(prompt) + Len(Encoded(k)) <= MaxPrompt
        /\ prompt' = Inserted(off, Encoded(k))
     \/ /\ Interpret(mode, k) = "right"
        /\ mode = "normal" /\ focus = "prompt"
        /\ off # Len(prompt)
        /\ Debug => off < Len(prompt)
        /\ UNCHANGED prompt
     \/ /\ Interpret(mode, k) = "down"
        /\ mode = "normal" => focus = "list"
        /\ UNCHANGED prompt
  /\ loop' = "unsized"
  /\ wide' = (wide \/ k = "wide")
  /\ UNCHANGED <<slots, matched, mode, focus, off, selected, stuck>>

\* What changes nothing here: a toggle, a save, a key without a meaning in this
\* mode, and events whose guard in update fails.
Elsewhere(k) ==
  LET event == Interpret(mode, k)
  IN  /\ \/ event \in {"toggle", "effect", "none"}
         \/ event = "clear" /\ prompt = <<>>
         \/ event = "switch" /\ slots = 0
         \/ event = "to_select" /\ focus = "prompt"
         \/ event \in {"left", "right"} /\ ~(mode = "normal" /\ focus = "prompt")
         \/ event \in {"up", "down"} /\ mode = "normal" /\ focus = "prompt"
      /\ loop' = "draw"
      /\ UNCHANGED <<slots, matched, mode, focus, off, prompt, selected, wide, stuck>>

\* Any event but typing ends a burst of typing.
Update(k) ==
  /\ loop = "wait"
  /\ \/ TextualInput(k)
     \/ /\ \/ Pop(k) \/ Search(k) \/ ClearPrompt(k) \/ Switch(k)
           \/ ToInsert(k) \/ ToSelect(k) \/ ToNormal(k)
           \/ MoveInPrompt(k) \/ GoUp(k) \/ GoDown(k) \/ WithoutSize(k)
           \/ Elsewhere(k)
        /\ burst' = <<>>
        /\ cramped' = FALSE

Next == Draw \/ \E k \in Keys : Update(k)

Spec == Init /\ [][Next]_vars

-----------------------------------------------------------------------------
(* Properties *)

\* The rows of shown constants a toggle reaches: all of them, or in select mode
\* those in the range, which has no upper end if it is inverted.
Toggled ==
  {row \in 0..(matched - 1) :
     mode = "select" =>
       row >= selected.start /\ (selected.end < selected.start \/ row < selected.end)}

\* What the user sees as selected: the rows from the pivot to the cursor.
Spanned == {row \in 0..(matched - 1) :
              \/ selected.pivot <= row /\ row <= off
              \/ off <= row /\ row <= selected.pivot}

\* Insert mode is for the prompt and select mode for the list, by whatever keys
\* they are reached: drawing calls the rest logically impossible, and update
\* unwraps the position accordingly.
FocusFitsMode ==
  /\ mode = "insert" => focus = "prompt"
  /\ mode = "select" => focus = "list"

\* A toggle in select mode reaches exactly the rows from the pivot to the cursor,
\* until the selection is extended down while the cursor is held by the end of the
\* list or of the terminal (the case the FIXME at main.rs:660 describes).
SelectionSpans == mode = "select" /\ ~stuck => Toggled = Spanned

\* No way out of select mode leaves a range behind.
SelectionEndsWithMode == mode # "select" => selected = NoSelection

\* As long as every character is a single byte the cursor is within the prompt,
\* and no edit or motion panics on where it is (advancing it may still panic, with
\* any prompt, on a terminal without a size: the state "unsized").
NarrowPromptIsSafe ==
  ~wide => /\ loop # "panicked"
           /\ focus = "prompt" => off <= Len(prompt)

\* What is typed in one go stands in the prompt as it was typed, just before the
\* cursor, wherever the typing began: as long as characters are single bytes and
\* the terminal had a column left for each (a cursor that is held puts the next
\* character before the last).
TypedInOrder ==
  ~wide /\ ~cramped =>
    /\ Len(burst) <= off
    /\ \A n \in 1..Len(burst) : burst[n] = prompt[off - Len(burst) + n]

-----------------------------------------------------------------------------
(* The inductive invariants behind these properties, proved in TuiProofs.      *)

\* The range reaches from the pivot to the cursor, both included.
RangeFits ==
  mode = "select" /\ ~stuck =>
    \/ /\ off >= selected.pivot
       /\ selected.start = selected.pivot
       /\ selected.end = off + 1
    \/ /\ off < selected.pivot
       /\ selected.start = off
       /\ selected.end = selected.pivot + 1

\* Single bytes only, and a burst is in the prompt it was typed into.
NarrowInv ==
  /\ ~wide /\ loop # "unsized" => \A n \in 1..Len(prompt) : prompt[n] \in Narrow
  /\ NarrowPromptIsSafe
  /\ TypedInOrder
  /\ burst # <<>> => mode = "insert"

TuiInv == TypeOK /\ FocusFitsMode /\ SelectionEndsWithMode /\ RangeFits

-----------------------------------------------------------------------------
(* A claim of a comment that the code does not keep, and no run checks *)

\* main.rs:1114: the list is not entered while there are no results in it.  The
\* guard of Switch counts the slots of the view, not what they show, and the
\* drawing that follows ends the program with an error.
SwitchNeedsResults ==
  [][focus = "prompt" /\ focus' = "list" => matched > 0]_vars
=============================================================================
