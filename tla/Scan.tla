-------------------------------- MODULE Scan --------------------------------
(***************************************************************************)
(* scan(): the checkout is found or cloned; a blocking thread walks its    *)
(* tree and sends the path of every source file; parse_files spawns a task *)
(* for each, and a gatherer appends the constants each task sends to one   *)
(* builder, in the order they arrive.  The channels close when their last  *)
(* sender is dropped, and that is all that ends the tasks behind them.     *)
(*                                                                         *)
(* The user may kill the program at any time, for the terminal is not in   *)
(* raw mode yet, and launch it again on what a clone has left behind.      *)
(***************************************************************************)
EXTENDS CfgIf, FiniteSets

CONSTANTS
  Files,      \* the .rs files below src/ of libc
  Contents,   \* what such a file may hold: sequences of items
  MaxRuns     \* bound: launches of the program

ASSUME ScanAssumption == MaxRuns \in Nat \ {0}

VARIABLES
  place,     \* what is at the path the user named
  tree,      \* the files that are below <path>/src
  fate,      \* fate[f]: how reading f will go, and what it holds
  runs,      \* launches so far
  phase,     \* where scan is
  unwalked,  \* the files the walk has yet to come to
  paths,     \* the channel from fetch_details to parse_files
  task,      \* task[f]: the task that parses f
  inner_tx,  \* whether parse_files still holds its sender to the gatherer
  results,   \* the channel from these tasks to the gatherer
  builder    \* what the gatherer has so far, by file

repo  == <<place, tree, fate, runs>>
parse == <<unwalked, paths, task, inner_tx, results, builder>>
vars  == <<repo, phase, parse>>

\* An entry the walk cannot read, a file that cannot be read, or that is no valid
\* Rust; all others are Rust, though the parser may panic on them.
Fates ==
  {[kind |-> k, items |-> <<>>] : k \in {"hidden", "unreadable", "malformed"}}
    \cup [kind : {"rust"}, items : Contents]

\* The root of a checkout of libc, a directory below it, a checkout that was cut
\* short, anything else, nothing.
Places == {"root", "below", "partial", "other", "absent"}
Phases == {"locating", "checking", "discovering", "preparing", "fetching", "checkout",
           "scanning", "ok", "error", "killed"}
Over   == {"ok", "error", "killed"}

\* What the task of f sends; the path in each constant says where it is from.
Batch(f) == [from |-> f, consts |-> ParseConstants(fate[f].items)]

TypeOK ==
  /\ place \in Places
  /\ tree \subseteq Files
  /\ fate \in [Files -> Fates]
  /\ runs \in 1..MaxRuns
  /\ phase \in Phases
  /\ unwalked \subseteq tree
  /\ paths \in Seq(tree)
  /\ task \in [Files -> {"none", "reading", "parsing", "ended"}]
  /\ inner_tx \in BOOLEAN
  /\ results \in Seq({Batch(f) : f \in tree})
  /\ builder \in Seq({Batch(f) : f \in tree})

Idle == [f \in Files |-> "none"]

Init ==
  /\ place \in Places \ {"partial"}
  /\ tree = IF place = "root" THEN Files ELSE {}
  /\ fate \in [Files -> Fates]
  /\ runs = 1
  /\ phase = "locating"
  /\ unwalked = {}
  /\ paths = <<>>
  /\ task = Idle
  /\ inner_tx = TRUE
  /\ results = <<>>
  /\ builder = <<>>

-----------------------------------------------------------------------------
(* The repository *)

\* The two futures of the scan are polled from here on.
Enter == phase' = "scanning" /\ unwalked' = tree'

Stop(how) == phase' = how /\ UNCHANGED unwalked

\* fs::canonicalize tells what exists from what is to be cloned.
Canonicalize ==
  /\ phase = "locating"
  /\ phase' = IF place = "absent" THEN "preparing" ELSE "checking"
  /\ UNCHANGED <<repo, parse>>

\* cargo finds the package at the path or above it; it must be libc, or cargo fails.
\* A checkout cut short may have its manifest already.
EnsureLibc ==
  /\ phase = "checking"
  /\ \/ phase' = "discovering" /\ place # "other"
     \/ phase' = "error"
  /\ UNCHANGED <<repo, parse>>

\* gix::discover looks for a repository at the path or above it.
DiscoverRepo ==
  /\ phase = "discovering"
  /\ UNCHANGED <<repo, paths, task, inner_tx, results, builder>>
  /\ Enter \/ Stop("error")

\* A clone that fails removes what it has made, if it can.
AbandonClone ==
  /\ Stop("error")
  /\ \/ place' = "absent" /\ tree' = {}
     \/ place' = "partial" /\ tree' \in SUBSET Files

\* prepare_clone makes the directory.
PrepareClone ==
  /\ phase = "preparing"
  /\ \/ phase' = "fetching" /\ place' = "partial" /\ UNCHANGED <<tree, unwalked>>
     \/ Stop("error") /\ UNCHANGED <<place, tree>>
  /\ UNCHANGED <<fate, runs, paths, task, inner_tx, results, builder>>

FetchRepo ==
  /\ phase = "fetching"
  /\ \/ phase' = "checkout" /\ UNCHANGED <<place, tree, unwalked>>
     \/ AbandonClone /\ tree' = {}
  /\ UNCHANGED <<fate, runs, paths, task, inner_tx, results, builder>>

\* main_worktree writes the files of the checkout.
CheckOut ==
  /\ phase = "checkout"
  /\ \/ place' = "root" /\ tree' = Files /\ Enter
     \/ AbandonClone
  /\ UNCHANGED <<fate, runs, paths, task, inner_tx, results, builder>>

\* The program is killed; a checkout under way stays as far as it has come.
Kill ==
  /\ phase \notin Over
  /\ phase' = "killed"
  /\ IF phase = "checkout" THEN tree' \in SUBSET Files ELSE UNCHANGED tree
  /\ UNCHANGED <<place, fate, runs, parse>>

\* It is launched again.
Launch ==
  /\ phase \in Over
  /\ runs < MaxRuns
  /\ runs' = runs + 1
  /\ phase' = "locating"
  /\ unwalked' = {}
  /\ paths' = <<>>
  /\ task' = Idle
  /\ inner_tx' = TRUE
  /\ results' = <<>>
  /\ builder' = <<>>
  /\ UNCHANGED <<place, tree, fate>>

-----------------------------------------------------------------------------
(* fetch_details and parse_files *)

\* Mutant of Walk: an entry the walk cannot read ends it.
WalkUntilError(f) ==
  /\ phase = "scanning"
  /\ f \in unwalked
  /\ unwalked' = IF fate[f].kind = "hidden" THEN {} ELSE unwalked \ {f}
  /\ paths' = IF fate[f].kind = "hidden" THEN paths ELSE Append(paths, f)
  /\ UNCHANGED <<repo, phase, task, inner_tx, results, builder>>

\* The walk comes to a file, in an order nothing later depends on; an entry it
\* cannot read is passed over.
Walk(f) ==
  /\ phase = "scanning"
  /\ f \in unwalked
  /\ unwalked' = unwalked \ {f}
  /\ paths' = IF fate[f].kind = "hidden" THEN paths ELSE Append(paths, f)
  /\ UNCHANGED <<repo, phase, task, inner_tx, results, builder>>

\* parse_files receives a path and spawns a task for it.
Spawn ==
  /\ phase = "scanning"
  /\ paths # <<>>
  /\ paths' = Tail(paths)
  /\ task' = [task EXCEPT ![Head(paths)] = "reading"]
  /\ UNCHANGED <<repo, phase, unwalked, inner_tx, results, builder>>

\* Mutant of DropTx: inner_tx lives as long as parse_files.
NeverDropTx ==
  /\ phase = "ok"
  /\ inner_tx' = FALSE
  /\ UNCHANGED <<repo, phase, unwalked, paths, task, results, builder>>

\* The walk is over and its paths are all received: inner_tx is dropped.
DropTx ==
  /\ phase = "scanning"
  /\ inner_tx
  /\ unwalked = {}
  /\ paths = <<>>
  /\ inner_tx' = FALSE
  /\ UNCHANGED <<repo, phase, unwalked, paths, task, results, builder>>

\* The file is read, or the task ends; nothing joins it, so nobody learns why.
Read(f) ==
  /\ phase = "scanning"
  /\ task[f] = "reading"
  /\ task' = [task EXCEPT ![f] = IF fate[f].kind = "unreadable" THEN "ended" ELSE "parsing"]
  /\ UNCHANGED <<repo, phase, unwalked, paths, inner_tx, results, builder>>

\* syn::parse_file rejects the file, or a macro in it panics.
Parses(f) == fate[f].kind = "rust" /\ ~Panics(fate[f].items)

\* Mutant of Parse: the first constant of a file is skipped.
ParseTail(f) ==
  /\ phase = "scanning"
  /\ task[f] = "parsing"
  /\ task' = [task EXCEPT ![f] = "ended"]
  /\ results' = IF Parses(f)
                THEN Append(results, [Batch(f) EXCEPT !.consts = SubSeq(@, 2, Len(@))])
                ELSE results
  /\ UNCHANGED <<repo, phase, unwalked, paths, inner_tx, builder>>

\* The file is parsed and its constants sent on, or the task ends.
Parse(f) ==
  /\ phase = "scanning"
  /\ task[f] = "parsing"
  /\ task' = [task EXCEPT ![f] = "ended"]
  /\ results' = IF Parses(f) THEN Append(results, Batch(f)) ELSE results
  /\ UNCHANGED <<repo, phase, unwalked, paths, inner_tx, builder>>

\* The gatherer receives the constants of a file.
Gather ==
  /\ phase = "scanning"
  /\ results # <<>>
  /\ builder' = Append(builder, Head(results))
  /\ results' = Tail(results)
  /\ UNCHANGED <<repo, phase, unwalked, paths, task, inner_tx>>

\* Mutant of Return: the gatherer stops as soon as nothing is waiting for it.
ReturnEarly ==
  /\ phase = "scanning"
  /\ results = <<>>
  /\ ~inner_tx
  /\ phase' = "ok"
  /\ UNCHANGED <<repo, parse>>

\* Every sender is gone, with the tasks that held them: the gatherer ends, and
\* with it parse_files and scan.
Return ==
  /\ phase = "scanning"
  /\ results = <<>>
  /\ ~inner_tx
  /\ \A f \in Files : task[f] \in {"none", "ended"}
  /\ phase' = "ok"
  /\ UNCHANGED <<repo, parse>>

RepoStep == Canonicalize \/ EnsureLibc \/ DiscoverRepo \/ PrepareClone \/ FetchRepo \/ CheckOut

ScanStep ==
  \/ RepoStep
  \/ \E f \in Files : Walk(f) \/ Read(f) \/ Parse(f)
  \/ Spawn
  \/ DropTx
  \/ Gather
  \/ Return

Next == ScanStep \/ Kill \/ Launch

Spec == Init /\ [][Next]_vars

\* The runtime polls what can go on, and cargo, gix and the operating system
\* answer.  Every step brings the scan nearer its end.
FairSpec == Spec /\ WF_vars(ScanStep)

-----------------------------------------------------------------------------
(* Properties *)

\* The container scan returns has the constants of every file of the tree that
\* parses, each file once and its constants in their order, and nothing else: a file
\* that fails takes no other with it, the gatherer does not stop early, and a run
\* is not spoilt by one that was killed before it.
ScanIsComplete ==
  phase = "ok" =>
    /\ \A f \in tree : Contains(builder, Batch(f)) <=> Parses(f)
    /\ IsInjective(builder)

\* Every Rust file of the tree whose cfg_ifs have the form of one is in the container
\* with all the constants it declares, those of every branch of every cfg_if
\* included: attributes, `else if` chains and blocks are read off the text here, not
\* by the parser of the scan.
EveryBranchIsScanned ==
  phase = "ok" =>
    \A f \in tree :
      fate[f].kind = "rust" /\ WellFormed(fate[f].items) =>
        Contains(builder, [from |-> f, consts |-> Declared(fate[f].items)])

\* A save that follows meets in each file just the constants that the scan found
\* there, though it reads cfg_ifs with a parser of its own.
SavesFindWhatScansFound ==
  phase = "ok" =>
    \A n \in DOMAIN builder : Visited(fate[builder[n].from].items) = builder[n].consts

\* Claim of scanner.rs:39: the entire codebase is walked.
WholeCodebaseIsWalked ==
  phase = "ok" =>
    \A f \in Files : Parses(f) => Contains(builder, Batch(f))

\* There are two ways for it to fail, and no third: the user named a directory below
\* the root of the checkout, where there is no src to walk, or an earlier launch has
\* left a clone cut short.
MissingFilesHaveCauses ==
  place = "below" \/ (place = "partial" /\ runs > 1) \/ WholeCodebaseIsWalked

\* scan returns, however many files fail, unless it is killed: no channel is left open.
ScanReturns == phase = "locating" ~> phase \in Over

-----------------------------------------------------------------------------
(* The inductive invariant behind ScanIsComplete, proved in ScanProofs: every   *)
(* file is in one place on its way from the walk to the builder, and only those *)
(* that do not parse leave it.                                                  *)

\* Nothing is under way before the scan begins.
Fresh ==
  phase \notin {"scanning"} \cup Over =>
    /\ unwalked = {} /\ paths = <<>> /\ task = Idle
    /\ inner_tx /\ results = <<>> /\ builder = <<>>

Parsing == phase \in {"scanning", "ok"}

\* No channel holds a file twice.
NoDoubles == IsInjective(paths) /\ IsInjective(results) /\ IsInjective(builder)

\* Where a file is, it is nowhere before, and not behind.
OnePlace(f) ==
  /\ Contains(paths, f) => f \notin unwalked /\ task[f] = "none"
  /\ task[f] # "none" => f \in tree \ unwalked
  /\ Contains(results, Batch(f)) => task[f] = "ended" /\ Parses(f) /\ ~Contains(builder, Batch(f))
  /\ Contains(builder, Batch(f)) => task[f] = "ended" /\ Parses(f)

\* A file that parses is somewhere.
Kept(f) ==
  Parses(f) => \/ f \in unwalked
               \/ Contains(paths, f)
               \/ task[f] \in {"reading", "parsing"}
               \/ Contains(results, Batch(f))
               \/ Contains(builder, Batch(f))

\* The gatherer's end and the return of the scan come after all that.
Drained ==
  /\ ~inner_tx => unwalked = {} /\ paths = <<>>
  /\ phase = "ok" => /\ ~inner_tx /\ results = <<>>
                     /\ \A f \in Files : task[f] \in {"none", "ended"}

Flow ==
  /\ NoDoubles
  /\ \A f \in Files : OnePlace(f)
  /\ \A f \in tree : Kept(f)
  /\ Drained

ScanInv == TypeOK /\ Fresh /\ (Parsing => Flow)

-----------------------------------------------------------------------------
(* What is at the path, also between launches: behind MissingFilesHaveCauses. *)

RepoShape ==
  /\ place = "root" => tree = Files
  /\ phase = "checking" => place # "absent"
  /\ phase \in {"discovering", "scanning", "ok"} => place \notin {"other", "absent"}
  /\ phase \in {"fetching", "checkout"} => place = "partial"
  /\ place = "partial" /\ runs = 1 => phase \in {"fetching", "checkout", "error", "killed"}
=============================================================================
