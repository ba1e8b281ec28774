------------------------------- MODULE CfgIf -------------------------------
(***************************************************************************)
(* The constants of a source file: its const items, and those in the       *)
(* branches of its cfg_if macros.  A scan and a save each have a parser of *)
(* their own for the body of that macro: MacroParser panics on a body it   *)
(* does not know, MacroContainer passes it over, and writes a body it does *)
(* know back as its constants alone.                                       *)
(*                                                                         *)
(* A file is the sequence of its items, a body the sequence of its tokens. *)
(* A token is `if`, `else`, an outer attribute, a block with the sequence  *)
(* of its statements, a const item, or another; a group in braces that     *)
(* does not hold statements is another.  An item is a const, a cfg_if with *)
(* its body, or another.  Constants are whatever the caller makes of them. *)
(* A cfg_if has no name: `cfg_if! name {}` is not Rust that compiles, so   *)
(* that the test of `ident` at traversal.rs:29-35 holds of every file.     *)
(***************************************************************************)
EXTENDS Integers, Sequences, SequencesExt

CONSTANT OtherStmt  \* a statement that declares no constant

Tok(kind)    == [kind |-> kind, stmts |-> <<>>]
Block(stmts) == [kind |-> "block", stmts |-> stmts]
ConstTok(c)  == [kind |-> "const", stmts |-> <<c>>]

ConstItem(c) == [kind |-> "const", const |-> c]
Macro(body)  == [kind |-> "cfg_if", body |-> body]

\* What extract_consts! and extract_constants keep of a block.
ConstStmts(block) ==
  LET kept[n \in 0..Len(block.stmts)] ==
        IF n = 0 THEN <<>>
        ELSE IF block.stmts[n] = OtherStmt THEN kept[n - 1]
        ELSE Append(kept[n - 1], block.stmts[n])
  IN  kept[Len(block.stmts)]

\* What parse_body yields: tokens left over are an error too.
Failed         == [ok |-> FALSE, consts |-> <<>>]
Parsed(consts) == [ok |-> TRUE, consts |-> consts]

-----------------------------------------------------------------------------
(* The parser of a scan *)

At(body, i, kind) == i <= Len(body) /\ body[i].kind = kind

\* Mutant of PastAttrs: a branch has one attribute at most.
PastOneAttr(body, i) == IF At(body, i, "attr") THEN i + 1 ELSE i

\* Attribute::parse_outer: the first token from i on that is no attribute.
PastAttrs(body, i) ==
  CHOOSE j \in i..(Len(body) + 1) :
    ~At(body, j, "attr") /\ \A k \in i..(j - 1) : At(body, k, "attr")

\* A branch from token i on and what follows it, to the end of the body; parse[k] is
\* what is read from token k on.
ParseBranch(body, i, parse) ==
  LET end    == Len(body) + 1
      j      == PastAttrs(body, i + 1)
      consts == ConstStmts(body[j])
      else   == parse[j + 2]
  IN  CASE ~At(body, i, "if") \/ ~At(body, j, "block") -> Failed
        [] At(body, i, "if") /\ At(body, j, "block") ->
             CASE j + 1 = end -> Parsed(consts)
               [] At(body, j + 1, "else") /\ At(body, j + 2, "if") ->
                    IF else.ok THEN Parsed(consts \o else.consts) ELSE Failed
               [] At(body, j + 1, "else") /\ At(body, j + 2, "block") /\ j + 3 = end ->
                    Parsed(consts \o ConstStmts(body[j + 2]))
               [] OTHER -> Failed

\* MacroParser::parse, by recursive descent.
MacroParser(body) ==
  LET parse[i \in 1..(Len(body) + 1)] == ParseBranch(body, i, parse)
  IN  parse[1]

-----------------------------------------------------------------------------
(* The parser of a save *)

\* MacroContainer::parse, token by token: where it is, by what it wants next, and
\* the constants so far.  "tail" and "end" are where it may stop.
Wants(at, consts) == [at |-> at, consts |-> consts]

\* Mutant of Consume: the constants of the last branch are forgotten.
ConsumeForgetfully(state, token) ==
  LET kept == state.consts \o ConstStmts(token)
  IN  CASE state.at = "if" /\ token.kind = "if"         -> Wants("cond", state.consts)
        [] state.at = "cond" /\ token.kind = "attr"     -> state
        [] state.at = "cond" /\ token.kind = "block"    -> Wants("tail", kept)
        [] state.at = "tail" /\ token.kind = "else"     -> Wants("branch", state.consts)
        [] state.at = "branch" /\ token.kind = "if"     -> Wants("cond", state.consts)
        [] state.at = "branch" /\ token.kind = "block"  -> Wants("end", state.consts)
        [] OTHER                                        -> Wants("failed", <<>>)

Consume(state, token) ==
  LET kept == state.consts \o ConstStmts(token)
  IN  CASE state.at = "if" /\ token.kind = "if"         -> Wants("cond", state.consts)
        [] state.at = "cond" /\ token.kind = "attr"     -> state
        [] state.at = "cond" /\ token.kind = "block"    -> Wants("tail", kept)
        [] state.at = "tail" /\ token.kind = "else"     -> Wants("branch", state.consts)
        [] state.at = "branch" /\ token.kind = "if"     -> Wants("cond", state.consts)
        [] state.at = "branch" /\ token.kind = "block"  -> Wants("end", kept)
        [] OTHER                                        -> Wants("failed", <<>>)

MacroContainer(body) ==
  LET state[n \in 0..Len(body)] ==
        IF n = 0 THEN Wants("if", <<>>) ELSE Consume(state[n - 1], body[n])
      final == state[Len(body)]
  IN  IF final.at \in {"tail", "end"} THEN Parsed(final.consts) ELSE Failed

-----------------------------------------------------------------------------
(* Files *)

\* parse_constants panics on any macro body it cannot parse, and the file is lost.
Panics(file) ==
  \E i \in DOMAIN file : file[i].kind = "cfg_if" /\ ~MacroParser(file[i].body).ok

\* parse_constants, on a file it does not panic on.
ParseConstants(file) ==
  FlattenSeq([i \in DOMAIN file |->
    CASE file[i].kind = "const"  -> <<file[i].const>>
      [] file[i].kind = "cfg_if" -> MacroParser(file[i].body).consts
      [] OTHER                   -> <<>>])

\* The constants traverse_constants hands to its closure.
Visited(file) ==
  FlattenSeq([i \in DOMAIN file |->
    CASE file[i].kind = "const"  -> <<file[i].const>>
      [] file[i].kind = "cfg_if" -> MacroContainer(file[i].body).consts
      [] OTHER                   -> <<>>])

\* MacroContainer::into_token_stream: what a body is replaced by.
TokenStream(consts) == [k \in DOMAIN consts |-> ConstTok(consts[k])]

\* traverse_constants: the file after its closure has turned each constant c it
\* visits into edit[c].
Traverse(file, edit) ==
  [i \in DOMAIN file |->
    LET inner == MacroContainer(file[i].body)
    IN  CASE file[i].kind = "const" -> ConstItem(edit[file[i].const])
          [] file[i].kind = "cfg_if" /\ inner.ok ->
               Macro(TokenStream([k \in DOMAIN inner.consts |-> edit[inner.consts[k]]]))
          [] OTHER -> file[i]]

-----------------------------------------------------------------------------
(* What a file declares, apart from any parser *)

\* The form of a cfg_if, read off its neighbouring tokens: branches of attributes
\* and a block, chained by `else`, and at most one branch without a condition, last.
IsCfgIf(body) ==
  /\ body # <<>>
  /\ body[1].kind = "if"
  /\ Last(body).kind = "block"
  /\ \A i \in 2..Len(body) :
       CASE body[i].kind = "if"    -> body[i - 1].kind = "else"
         [] body[i].kind = "attr"  -> body[i - 1].kind \in {"if", "attr"}
         [] body[i].kind = "else"  -> body[i - 1].kind = "block"
         [] body[i].kind = "block" -> \/ body[i - 1].kind \in {"if", "attr"}
                                      \/ body[i - 1].kind = "else" /\ i = Len(body)
         [] OTHER                  -> FALSE

\* The constants of each block of a body.
BranchConsts(body) ==
  [i \in DOMAIN body |-> IF body[i].kind = "block" THEN ConstStmts(body[i]) ELSE <<>>]

\* The file is as the authors of libc write it.
WellFormed(file) == \A i \in DOMAIN file : file[i].kind = "cfg_if" => IsCfgIf(file[i].body)

\* Its constants, those of every branch of a cfg_if included, in order.
Declared(file) ==
  FlattenSeq([i \in DOMAIN file |->
    CASE file[i].kind = "const"  -> <<file[i].const>>
      [] file[i].kind = "cfg_if" -> FlattenSeq(BranchConsts(file[i].body))
      [] OTHER                   -> <<>>])

-----------------------------------------------------------------------------
(* What CfgIfProofs shows of every body and every file *)

\* The body is read if it has this form, and then yields the constants of every
\* branch in order: no branch of a chain is passed over, whatever its length.
EveryBranchIsRead(body) ==
  MacroParser(body) =
    IF IsCfgIf(body) THEN Parsed(FlattenSeq(BranchConsts(body))) ELSE Failed

\* The parsers of a scan and of a save read the same constants out of every body,
\* and fail on the same ones: a save meets every constant a scan has found.
ParsersAgree(body) == MacroParser(body) = MacroContainer(body)

\* The cause of SavedFilesScan of Session: a file with a cfg_if is one that a scan
\* panics on once a save has visited it, though the macro held no constant at all.
SaveCostsScan(file) ==
  Panics(Traverse(file, [c \in ToSet(Visited(file)) |-> c]))
    <=> \E i \in DOMAIN file : file[i].kind = "cfg_if"
=============================================================================
