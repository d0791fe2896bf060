--------------------------- MODULE CompareCommand ---------------------------
(***************************************************************************)
(* The processes of the command line program that write reports: what      *)
(* runCompare, validateOutputTarget and writeReportOutput of               *)
(* cmd/tracedelta/main.go do to the file system, step by step.             *)
(*                                                                         *)
(* Any number of processes run at the same time over one name space.  Each *)
(* checks its --output path, compares the traces, opens the output (with   *)
(* O_EXCL, or with O_TRUNC under --force), writes the report in one call   *)
(* and closes the file; a process without --force whose write fails        *)
(* removes the path again.  Reading, opening, writing and closing may fail *)
(* and a process may be killed anywhere.  Flags, usage texts and reports   *)
(* to standard output, which touch no file, are left out.                  *)
(***************************************************************************)
EXTENDS Naturals, FiniteSets

CONSTANTS Proc,         \* processes
          Path, Input,  \* absolute paths, and those of the two input files
          Old, NoFile,  \* the files that exist before, and no file
          Traces,       \* what the pair of input files may hold
          Result(_),    \* what comparing it ends with: 0, 1, or 2 for an error
          NoExit,       \* the exit code of a process that has not exited
          Killed        \* and that of a killed one

ASSUME CompareCommandAssumption ==
    /\ Input \subseteq Path
    /\ Proc \cap Old = {} /\ NoFile \notin Proc \cup Old
    /\ \A t \in Traces : Result(t) \in 0..2
    /\ NoExit # Killed /\ NoExit \notin 0..2 /\ Killed \notin 0..2

\* A process creates one file at most, which is named after it.
File == Old \cup Proc

(***************************************************************************)
(* What a file holds: nothing, a part of a report, one report over another *)
(* longer one, something else, or the report of a process on some traces.  *)
(***************************************************************************)
Nothing == <<>>
Report(p, t) == <<"report", p, t>>
Content ==
    {Nothing, <<"partial">>, <<"mixed">>, <<"foreign">>}
        \cup {Report(p[1], p[2]) : p \in Proc \X Traces}

VARIABLES
    traces,   \* what the input files hold now
    args,     \* per process: [output, force]
    entry,    \* path -> file
    data,     \* file -> content
    at,       \* per process: what it does next
    seen,     \* per process: the traces it has compared
    handle,   \* per process: the output file it has opened
    code      \* per process: its exit code

vars == <<traces, args, entry, data, at, seen, handle, code>>

Output(p) == args[p].output
Forced(p) == args[p].force

Go(p, place) == at' = [at EXCEPT ![p] = place]

Exit(p, status) ==
    /\ Go(p, "exited")
    /\ code' = [code EXCEPT ![p] = status]

-----------------------------------------------------------------------------
Init ==
    /\ traces \in Traces
    /\ args \in [Proc -> [output : Path, force : BOOLEAN]]
    /\ entry \in [Path -> Old \cup {NoFile}] /\ \A i \in Input : entry[i] # NoFile
    /\ data = [f \in File |-> IF f \in Old THEN <<"foreign">> ELSE Nothing]
    /\ at = [p \in Proc |-> "idle"]
    /\ seen = [p \in Proc |-> traces]
    /\ handle = [p \in Proc |-> NoFile]
    /\ code = [p \in Proc |-> NoExit]

Start(p) ==
    /\ at[p] = "idle"
    /\ Go(p, "validate")
    /\ UNCHANGED <<traces, args, entry, data, seen, handle, code>>

\* Mutant: paths are compared, files are not.
SamePath(p) == Output(p) \in Input

\* sameFileTarget: one path, or two names of one file.
SameTarget(p) ==
    \E i \in Input : Output(p) = i \/ (entry[Output(p)] # NoFile /\ entry[Output(p)] = entry[i])

ValidateOutput(p) ==
    /\ at[p] = "validate"
    /\ IF SameTarget(p) THEN Exit(p, 2) ELSE Go(p, "compare") /\ UNCHANGED code
    /\ UNCHANGED <<traces, args, entry, data, seen, handle>>

\* CompareFiles reads the inputs; the report is rendered in memory.
Compare(p) ==
    /\ at[p] = "compare"
    /\ IF Result(traces) = 2
       THEN Exit(p, 2) /\ UNCHANGED seen
       ELSE Go(p, "open") /\ seen' = [seen EXCEPT ![p] = traces] /\ UNCHANGED code
    /\ UNCHANGED <<traces, args, entry, data, handle>>

\* The path is free: both ways of opening create a file.
Create(p) ==
    /\ at[p] = "open"
    /\ entry[Output(p)] = NoFile
    /\ entry' = [entry EXCEPT ![Output(p)] = p]
    /\ handle' = [handle EXCEPT ![p] = p]
    /\ Go(p, "write")
    /\ UNCHANGED <<traces, args, data, seen, code>>

\* O_EXCL: the path exists and --force is not given.
RefuseToOverwrite(p) ==
    /\ at[p] = "open"
    /\ entry[Output(p)] # NoFile
    /\ ~Forced(p)
    /\ Exit(p, 2)
    /\ UNCHANGED <<traces, args, entry, data, seen, handle>>

\* Mutant: O_TRUNC is set with or without --force.
TruncateAlways(p) ==
    /\ at[p] = "open"
    /\ entry[Output(p)] # NoFile
    /\ handle' = [handle EXCEPT ![p] = entry[Output(p)]]
    /\ data' = [data EXCEPT ![entry[Output(p)]] = Nothing]
    /\ Go(p, "write")
    /\ UNCHANGED <<traces, args, entry, seen, code>>

\* O_TRUNC: the file at the path stays the same file and loses what it held.
Truncate(p) ==
    /\ at[p] = "open"
    /\ entry[Output(p)] # NoFile
    /\ Forced(p)
    /\ handle' = [handle EXCEPT ![p] = entry[Output(p)]]
    /\ data' = [data EXCEPT ![entry[Output(p)]] = Nothing]
    /\ Go(p, "write")
    /\ UNCHANGED <<traces, args, entry, seen, code>>

\* The report is written at the start of the file.  What another process has
\* written there since it was opened stays behind a shorter report.
Written(p) ==
    IF data[handle[p]] = Nothing
    THEN {Report(p, seen[p])}
    ELSE {Report(p, seen[p]), <<"mixed">>}

Write(p) ==
    /\ at[p] = "write"
    /\ \E content \in Written(p) : data' = [data EXCEPT ![handle[p]] = content]
    /\ Go(p, "close")
    /\ UNCHANGED <<traces, args, entry, seen, handle, code>>

\* Mutant: a write that fails is tried again, without a bound.
WriteRetried(p) ==
    /\ at[p] = "write"
    /\ data' = [data EXCEPT ![handle[p]] = IF @ = Nothing THEN <<"partial">> ELSE Nothing]
    /\ UNCHANGED <<traces, args, entry, at, seen, handle, code>>

\* The write fails or is short, with or without a trace in the file.
WriteFails(p) ==
    /\ at[p] = "write"
    /\ \/ UNCHANGED data
       \/ data' = [data EXCEPT ![handle[p]] =
                      IF data[handle[p]] = Nothing THEN <<"partial">> ELSE <<"mixed">>]
    /\ Go(p, "remove")
    /\ UNCHANGED <<traces, args, entry, seen, handle, code>>

\* Mutant: the exit code does not wait for the result of Close.
CloseAnyway(p) ==
    /\ at[p] = "close"
    /\ \/ Exit(p, Result(seen[p])) /\ UNCHANGED data
       \/ Exit(p, Result(seen[p])) /\ data' = [data EXCEPT ![handle[p]] = <<"partial">>]
    /\ UNCHANGED <<traces, args, entry, seen, handle>>

\* Close reports what the file system could not keep.
Close(p) ==
    /\ at[p] = "close"
    /\ \/ Exit(p, Result(seen[p])) /\ UNCHANGED data
       \/ Go(p, "remove") /\ data' = [data EXCEPT ![handle[p]] = <<"partial">>] /\ UNCHANGED code
    /\ UNCHANGED <<traces, args, entry, seen, handle>>

\* Mutant: the output is removed under --force only.
RemoveForced(p) ==
    /\ at[p] = "remove"
    /\ entry' = IF Forced(p) THEN [entry EXCEPT ![Output(p)] = NoFile] ELSE entry
    /\ Exit(p, 2)
    /\ UNCHANGED <<traces, args, data, seen, handle>>

\* removeOnError: whatever the path names now is removed, except under --force.
Remove(p) ==
    /\ at[p] = "remove"
    /\ entry' = IF Forced(p) THEN entry ELSE [entry EXCEPT ![Output(p)] = NoFile]
    /\ Exit(p, 2)
    /\ UNCHANGED <<traces, args, data, seen, handle>>

\* An input cannot be read, a path not examined, the output not opened.
Fail(p) ==
    /\ at[p] \in {"validate", "compare", "open"}
    /\ Exit(p, 2)
    /\ UNCHANGED <<traces, args, entry, data, seen, handle>>

Kill(p) ==
    /\ at[p] \notin {"idle", "exited"}
    /\ Exit(p, Killed)
    /\ UNCHANGED <<traces, args, entry, data, seen, handle>>

\* What a process does once it is started.
Step(p) ==
    \/ ValidateOutput(p) \/ Compare(p)
    \/ Create(p) \/ RefuseToOverwrite(p) \/ Truncate(p)
    \/ Write(p) \/ WriteFails(p) \/ Close(p) \/ Remove(p)
    \/ Fail(p)

Next == \E p \in Proc : Start(p) \/ Step(p) \/ Kill(p)

Spec == Init /\ [][Next]_vars

-----------------------------------------------------------------------------
(* Correctness *)

TypeOK ==
    /\ traces \in Traces
    /\ args \in [Proc -> [output : Path, force : BOOLEAN]]
    /\ entry \in [Path -> File \cup {NoFile}]
    /\ data \in [File -> Content]
    /\ at \in [Proc -> {"idle", "validate", "compare", "open", "write", "close", "remove", "exited"}]
    /\ seen \in [Proc -> Traces]
    /\ handle \in [Proc -> File \cup {NoFile}]
    /\ code \in [Proc -> 0..2 \cup {NoExit, Killed}]
    /\ \A p \in Proc : at[p] \in {"write", "close", "remove"} => handle[p] # NoFile

(***************************************************************************)
(* The input files are never written, removed or replaced: not under their *)
(* own paths, and not under another name of theirs.                        *)
(***************************************************************************)
InputsKept ==
    \A i \in Input : entry[i] \in Old /\ data[entry[i]] = <<"foreign">>

(***************************************************************************)
(* A process without --force that exits with 0 or 1 has left its complete  *)
(* report at its path, and no process fails, is killed or starts later     *)
(* that takes it away, as long as nobody uses --force on the path.         *)
(***************************************************************************)
Replaced(path) == \E q \in Proc : Output(q) = path /\ Forced(q) /\ handle[q] # NoFile

SuccessKept ==
    \A p \in Proc :
        code[p] \in {0, 1} /\ ~Forced(p) /\ ~Replaced(Output(p)) =>
            /\ entry[Output(p)] = p
            /\ data[p] = Report(p, seen[p])
            /\ code[p] = Result(seen[p])

(***************************************************************************)
(* A process without --force that exits with 2 leaves nothing behind: the  *)
(* file it may have created is not at any path.                            *)
(***************************************************************************)
FailureLeavesNothing ==
    \A p \in Proc : code[p] = 2 /\ ~Forced(p) => \A path \in Path : entry[path] # p

(***************************************************************************)
(* Without --force an existing path stays as it is: a file changes only    *)
(* under the hands of the process that created it or of one with --force,  *)
(* and a path is taken from a file only by the process that created it.    *)
(***************************************************************************)
OnlyOwnFiles ==
    [][/\ \A f \in File : data'[f] # data[f] =>
            \E p \in Proc : handle'[p] = f /\ (Forced(p) \/ f = p)
       /\ \A path \in Path : entry[path] # NoFile /\ entry'[path] # entry[path] =>
            \E p \in Proc : entry[path] = p /\ at[p] = "remove" /\ ~Forced(p)
      ]_vars
=============================================================================
