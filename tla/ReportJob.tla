------------------------------ MODULE ReportJob ------------------------------
(***************************************************************************)
(* CI jobs that run the composite Action: scripts/run-action.sh and the    *)
(* scripts/ci-compare.sh it calls.                                         *)
(*                                                                         *)
(* A job makes its report directory, runs one compare command for each of  *)
(* the JSON, the HTML and the text report, and keeps the reports only if   *)
(* all three commands end alike.  Every command reads the inputs again.    *)
(* The jobs here share a workspace, so all of them ask for the same report *)
(* directory; its three report files are the paths of CompareCommand.      *)
(***************************************************************************)
EXTENDS Naturals, FiniteSets

CONSTANTS Job,
          NoJob,
          Traces, Result(_), NoFile, NoExit, Killed,
          InputsChange   \* may the input files change while a job runs?

Format == {"json", "html", "text"}
Command == Job \X Format

ASSUME ReportJobAssumption ==
    /\ NoJob \notin Job
    /\ NoFile \notin Command
    /\ \A t \in Traces : Result(t) \in 0..2
    /\ NoExit # Killed /\ NoExit \notin 0..2 /\ Killed \notin 0..2
    /\ InputsChange \in BOOLEAN

VARIABLES
    traces, args, entry, data, at, seen, handle, code,  \* the commands
    directory,   \* the job that has made the report directory
    step,        \* per job: what its scripts do next
    status,      \* per job: json_status, and then the status of ci-compare.sh
    outcome      \* per job: the exit-code output of the Action

files == <<traces, args, entry, data, at, seen, handle, code>>
vars == <<files, directory, step, status, outcome>>

CLI == INSTANCE CompareCommand WITH
    Proc <- Command, Path <- Format, Input <- {}, Old <- {}

Init ==
    /\ CLI!Init
    /\ args = [c \in Command |-> [output |-> c[2], force |-> FALSE]]
    /\ directory = NoJob
    /\ step = [j \in Job |-> "mkdir"]
    /\ status = [j \in Job |-> NoExit]
    /\ outcome = [j \in Job |-> NoExit]

Goto(j, place) == step' = [step EXCEPT ![j] = place]

\* ci-compare.sh exits with 2, and run-action.sh goes on to its outputs.
GiveUp(j) ==
    /\ status' = [status EXCEPT ![j] = 2]
    /\ Goto(j, "outputs")

\* rm -f on some of the reports.
RemoveReports(formats) ==
    /\ entry' = [f \in Format |-> IF f \in formats THEN NoFile ELSE entry[f]]
    /\ UNCHANGED <<traces, args, data, at, seen, handle, code>>

-----------------------------------------------------------------------------
(* ci-compare.sh *)

\* Mutant: mkdir -p.
MakeDirectoryAnyway(j) ==
    /\ step[j] = "mkdir"
    /\ directory' = j
    /\ CLI!Start(<<j, "json">>)
    /\ Goto(j, "json")
    /\ UNCHANGED <<status, outcome>>

MakeDirectory(j) ==
    /\ step[j] = "mkdir"
    /\ directory = NoJob
    /\ directory' = j
    /\ CLI!Start(<<j, "json">>)
    /\ Goto(j, "json")
    /\ UNCHANGED <<status, outcome>>

\* The binary or an input is missing, or the directory cannot be made.
Refused(j) ==
    /\ step[j] = "mkdir"
    /\ GiveUp(j)
    /\ UNCHANGED <<files, directory, outcome>>

\* A command has exited with 0 or 1 and its report is not empty ([[ -s ]]).
Completed(j, f) ==
    /\ code[<<j, f>>] \in {0, 1}
    /\ entry[f] # NoFile /\ data[entry[f]] # CLI!Nothing

Exited(j, f) == step[j] = f /\ at[<<j, f>>] = "exited"

JsonCompleted(j) ==
    /\ Exited(j, "json") /\ Completed(j, "json")
    /\ status' = [status EXCEPT ![j] = code[<<j, "json">>]]
    /\ CLI!Start(<<j, "html">>)
    /\ Goto(j, "html")
    /\ UNCHANGED <<directory, outcome>>

\* ci-compare.sh exits with the status of the JSON run, and run-action.sh runs
\* the third command.
HtmlCompleted(j) ==
    /\ Exited(j, "html") /\ Completed(j, "html")
    /\ code[<<j, "html">>] = status[j]
    /\ CLI!Start(<<j, "text">>)
    /\ Goto(j, "text")
    /\ UNCHANGED <<directory, status, outcome>>

\* remove_partial_reports: a command failed, or the two disagree.
PartialReports(j) ==
    /\ \E f \in {"json", "html"} :
         /\ Exited(j, f)
         /\ ~Completed(j, f) \/ (f = "html" /\ code[<<j, f>>] # status[j])
    /\ RemoveReports({"json", "html"})
    /\ GiveUp(j)
    /\ UNCHANGED <<directory, outcome>>

-----------------------------------------------------------------------------
(* run-action.sh *)

TextAgrees(j) == Completed(j, "text") /\ code[<<j, "text">>] = status[j]

TextCompleted(j) ==
    /\ Exited(j, "text") /\ TextAgrees(j)
    /\ Goto(j, "outputs")
    /\ UNCHANGED <<files, directory, status, outcome>>

\* Mutant: only the text report is removed.
TextRemoved(j) ==
    /\ Exited(j, "text") /\ ~TextAgrees(j)
    /\ RemoveReports({"text"})
    /\ GiveUp(j)
    /\ UNCHANGED <<directory, outcome>>

TextDisagrees(j) ==
    /\ Exited(j, "text") /\ ~TextAgrees(j)
    /\ RemoveReports(Format)
    /\ GiveUp(j)
    /\ UNCHANGED <<directory, outcome>>

\* The outputs of the Action are written and the script exits.  Any status but 0
\* and 1 is an error, and no report is touched here.
WriteOutputs(j) ==
    /\ step[j] = "outputs"
    /\ outcome' = [outcome EXCEPT ![j] = IF status[j] \in {0, 1} THEN status[j] ELSE 2]
    /\ Goto(j, "done")
    /\ UNCHANGED <<files, directory, status>>

-----------------------------------------------------------------------------
(* The rest of the world *)

\* The runner cancels a job: its scripts stop, a command may still be running.
Cancel(j) ==
    /\ step[j] # "done"
    /\ Goto(j, "cancelled")
    /\ UNCHANGED <<files, directory, status, outcome>>

\* A signal ends ci-compare.sh alone, and run-action.sh goes on; the command that
\* ci-compare.sh was waiting for may still be running.
KillWrapper(j) ==
    /\ step[j] \in {"mkdir", "json", "html"}
    /\ status' = [status EXCEPT ![j] = Killed]
    /\ Goto(j, "outputs")
    /\ UNCHANGED <<files, directory, outcome>>

\* Something writes the input files.
ChangeInputs ==
    /\ InputsChange
    /\ traces' \in Traces \ {traces}
    /\ UNCHANGED <<args, entry, data, at, seen, handle, code, directory, step, status, outcome>>

Commands == \E c \in Command : CLI!Step(c) \/ CLI!Kill(c)

JobStep(j) ==
    \/ MakeDirectory(j) \/ Refused(j)
    \/ JsonCompleted(j) \/ HtmlCompleted(j) \/ PartialReports(j)
    \/ TextCompleted(j) \/ TextDisagrees(j)
    \/ WriteOutputs(j)

Next ==
    \/ Commands /\ UNCHANGED <<directory, step, status, outcome>>
    \/ \E j \in Job : JobStep(j) \/ Cancel(j) \/ KillWrapper(j)
    \/ ChangeInputs

Spec == Init /\ [][Next]_vars

(***************************************************************************)
(* A started command runs until it exits, which no other process can       *)
(* prevent, and a script goes on when the command it waits for has exited. *)
(* Nothing has to be killed, cancelled or changed.                         *)
(***************************************************************************)
FairSpec ==
    /\ Spec
    /\ \A c \in Command : WF_vars(CLI!Step(c) /\ UNCHANGED <<directory, step, status, outcome>>)
    /\ \A j \in Job : WF_vars(JobStep(j))

-----------------------------------------------------------------------------
(* Correctness *)

TypeOK ==
    /\ CLI!TypeOK
    /\ directory \in Job \cup {NoJob}
    /\ step \in [Job -> {"mkdir", "json", "html", "text", "outputs", "done", "cancelled"}]
    /\ status \in [Job -> 0..2 \cup {NoExit, Killed}]
    /\ outcome \in [Job -> 0..2 \cup {NoExit}]

(***************************************************************************)
(* An outcome of 0 or 1 comes with three complete reports of the job's own *)
(* commands, all of them with that result, and they stay: no other job     *)
(* that was given the same directory, before, meanwhile or later, replaces *)
(* or removes one.                                                         *)
(***************************************************************************)
ReportsKept ==
    \A j \in Job : outcome[j] \in {0, 1} =>
        \A f \in Format :
            /\ entry[f] = <<j, f>>
            /\ data[<<j, f>>] = CLI!Report(<<j, f>>, seen[<<j, f>>])
            /\ Result(seen[<<j, f>>]) = outcome[j]

(***************************************************************************)
(* docs/github-action.md: "exit 2 preserves no report".  A job that ends   *)
(* with 2 leaves no report of any of its commands, whichever failed, was   *)
(* killed or disagreed, and at whatever point; only where ci-compare.sh    *)
(* itself was killed there is nobody left to remove what it had made.      *)
(***************************************************************************)
ErrorKeepsNothing ==
    \A j \in Job : outcome[j] = 2 /\ status[j] # Killed =>
        \A f, g \in Format : entry[f] # <<j, g>>

\* A job that is not cancelled reports an outcome.
Ends == \A j \in Job : <>(step[j] \in {"done", "cancelled"})

(***************************************************************************)
(* docs/cli-spec.md: the wrapper "performs the same comparison once per    *)
(* selected format and verifies that both runs agree".  The reports of a   *)
(* completed job tell of the same comparison.                              *)
(***************************************************************************)
RunsAgree ==
    \A j \in Job : outcome[j] \in {0, 1} =>
        \A f, g \in Format : seen[<<j, f>>] = seen[<<j, g>>]
=============================================================================
