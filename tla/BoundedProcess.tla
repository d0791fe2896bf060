--------------------------- MODULE BoundedProcess ---------------------------
(***************************************************************************)
(* One command of the Windows validation under its watchdog:               *)
(* Invoke-TraceDeltaBoundedProcess and Stop-TraceDeltaProcessTree of       *)
(* scripts/windows-check-lib.ps1, and the launcher they start,             *)
(* scripts/windows-check-child.ps1.                                        *)
(*                                                                         *)
(* The call creates a start gate (a named event) and a Job Object whose    *)
(* last handle kills its members, starts the launcher, puts it into the    *)
(* job and sets the gate.  The launcher waits for the gate and then runs   *)
(* the target.  The call waits for the launcher, terminates the job if     *)
(* that takes too long, waits for the output streams, and closes its       *)
(* handles.  What Windows does is part of the model: a process started by  *)
(* a member of the job is a member, and members of a job that is           *)
(* terminated, or whose handle is closed, run no more code and go one by   *)
(* one.  The target may start processes that keep its output streams       *)
(* (piped) or do not (detached).                                           *)
(***************************************************************************)
EXTENDS Naturals, FiniteSets

CONSTANT Call    \* the calls of Invoke-TraceDeltaBoundedProcess

Process == {"launcher", "target", "piped", "detached"}
StreamHolders == {"launcher", "target", "piped"}
Spawned == {"target", "piped", "detached"}

VARIABLES
    at,       \* per call: what the function does next
    handles,  \* per call: does its process hold the gate and the job?
    gate,     \* per call: the event
    job,      \* per call: the Job Object
    outcome,  \* per call: what it returns or throws
    child,    \* per call: where the launcher is in its script
    code,     \* per call: how the launcher and its target ended
    free,     \* per call: the processes that exist outside the job
    members   \* per call: those that exist in the job

parent == <<at, handles, gate, job, outcome>>
tree == <<child, code, free, members>>
vars == <<parent, tree>>

Init ==
    /\ at = [e \in Call |-> "idle"]
    /\ handles = [e \in Call |-> FALSE]
    /\ gate = [e \in Call |-> "none"]
    /\ job = [e \in Call |-> "none"]
    /\ outcome = [e \in Call |-> "none"]
    /\ child = [e \in Call |-> "none"]
    /\ code = [e \in Call |-> "none"]
    /\ free = [e \in Call |-> {}]
    /\ members = [e \in Call |-> {}]

Go(e, place) == at' = [at EXCEPT ![e] = place]
Moves(e, from, to) == at[e] = from /\ Go(e, to)

\* The function ends with a result or an exception, by way of its finally.
Finish(e, result) ==
    /\ Go(e, "close")
    /\ outcome' = [outcome EXCEPT ![e] = result]

Alive(e) == free[e] \cup members[e]

\* The members of the job have to go: they execute nothing any more.
Doomed(e) == job[e] = "terminated" \/ (job[e] = "open" /\ ~handles[e])

\* The processes of a call that execute code.
Running(e) == IF Doomed(e) THEN free[e] ELSE Alive(e)

StreamsClosed(e) == Alive(e) \cap StreamHolders = {}

-----------------------------------------------------------------------------
(* The function *)

Begin(e) ==
    /\ Moves(e, "idle", "gate")
    /\ UNCHANGED <<handles, gate, job, outcome, tree>>

CreateGate(e) ==
    /\ Moves(e, "gate", "job")
    /\ gate' = [gate EXCEPT ![e] = "unset"]
    /\ handles' = [handles EXCEPT ![e] = TRUE]
    /\ UNCHANGED <<job, outcome, tree>>

\* Mutant: the job does not kill its members when it is closed.
CreatePlainJob(e) ==
    /\ Moves(e, "job", "start")
    /\ job' = [job EXCEPT ![e] = "plain"]
    /\ UNCHANGED <<handles, gate, outcome, tree>>

CreateJob(e) ==
    /\ Moves(e, "job", "start")
    /\ job' = [job EXCEPT ![e] = "open"]
    /\ UNCHANGED <<handles, gate, outcome, tree>>

StartLauncher(e) ==
    /\ Moves(e, "start", "assign")
    /\ free' = [free EXCEPT ![e] = {"launcher"}]
    /\ child' = [child EXCEPT ![e] = "open"]
    /\ UNCHANGED <<handles, gate, job, outcome, code, members>>

\* AssignProcessToJobObject: what the launcher has started before stays outside.
EnterJob(e) ==
    /\ free' = [free EXCEPT ![e] = @ \ {"launcher"}]
    /\ members' = [members EXCEPT ![e] = @ \cup {"launcher"}]

Assign(e) ==
    /\ Moves(e, "assign", "release")
    /\ "launcher" \in free[e]
    /\ EnterJob(e)
    /\ UNCHANGED <<handles, gate, job, outcome, child, code>>

(***************************************************************************)
(* The launcher cannot be put into the job.  It has exited by itself, or   *)
(* is killed and gone within 5 s, or is still there.                       *)
(***************************************************************************)
AssignFails(e) ==
    /\ at[e] = "assign"
    /\ \/ /\ free' = [free EXCEPT ![e] = @ \ {"launcher"}]
          /\ child' = [child EXCEPT ![e] = "none"]
          /\ Finish(e, "cleaned")
       \/ "launcher" \in free[e] /\ Finish(e, "leftover") /\ UNCHANGED <<free, child>>
    /\ UNCHANGED <<handles, gate, job, code, members>>

Release(e) ==
    /\ Moves(e, "release", "wait")
    /\ gate' = [gate EXCEPT ![e] = "set"]
    /\ UNCHANGED <<handles, job, outcome, tree>>

\* One of the calls that set the command up throws.
Fail(e) ==
    /\ at[e] \in {"gate", "job", "start", "release"}
    /\ Finish(e, "failed")
    /\ UNCHANGED <<handles, gate, job, tree>>

\* WaitForExit(timeout)
Exited(e) ==
    /\ Moves(e, "wait", "streams")
    /\ "launcher" \notin Alive(e)
    /\ UNCHANGED <<handles, gate, job, outcome, tree>>

\* Mutant: WaitForExit without a timeout.
WaitOn(e) == at[e] = "wait" /\ "launcher" \in Alive(e) /\ UNCHANGED vars

TimesOut(e) ==
    /\ Moves(e, "wait", "terminate")
    /\ "launcher" \in Alive(e)
    /\ UNCHANGED <<handles, gate, job, outcome, tree>>

Terminate(e) ==
    /\ at[e] = "terminate"
    /\ \/ job' = [job EXCEPT ![e] = "terminated"] /\ Go(e, "poll") /\ UNCHANGED outcome
       \/ outcome' = [outcome EXCEPT ![e] = "leftover"] /\ Go(e, "root") /\ UNCHANGED job
    /\ UNCHANGED <<handles, gate, tree>>

\* A step of the cleanup: one that has not succeeded in its time is remembered.
Cleanup(e, from, succeeded, to) ==
    /\ at[e] = from
    /\ outcome' = [outcome EXCEPT ![e] = IF succeeded THEN @ ELSE "leftover"]
    /\ Go(e, to)
    /\ UNCHANGED <<handles, gate, job, tree>>

\* Mutant: TerminateJobObject is taken to have ended the processes.
PollNothing(e) == Cleanup(e, "poll", TRUE, "root")

\* The active processes of the job are counted until there is none, or for 5 s.
Poll(e) == Cleanup(e, "poll", members[e] = {}, "root")

\* WaitForExit(5000)
AwaitRoot(e) == Cleanup(e, "root", "launcher" \notin Alive(e), "drain")

\* WaitAll(streams, 5000), and what the error says of the cleanup.
Drain(e) ==
    /\ at[e] = "drain"
    /\ Finish(e, IF outcome[e] = "none" /\ StreamsClosed(e) THEN "cleaned" ELSE "leftover")
    /\ UNCHANGED <<handles, gate, job, tree>>

\* Mutant: the exit code of the launcher is not looked at.
AwaitStreamsOnly(e) ==
    /\ at[e] = "streams"
    /\ Finish(e, IF StreamsClosed(e) THEN "ok" ELSE "failed")
    /\ UNCHANGED <<handles, gate, job, tree>>

\* WaitAll(outputStreams, 5000) after the launcher has exited, and its code.
AwaitStreams(e) ==
    /\ at[e] = "streams"
    /\ Finish(e, IF StreamsClosed(e) /\ code[e] = "ok" THEN "ok" ELSE "failed")
    /\ UNCHANGED <<handles, gate, job, tree>>

\* finally: the job is closed and the gate disposed.
Close(e) ==
    /\ Moves(e, "close", "returned")
    /\ handles' = [handles EXCEPT ![e] = FALSE]
    /\ UNCHANGED <<gate, job, outcome, tree>>

\* Windows closes the handles of a process that has died.
Rundown(e) ==
    /\ at[e] = "dead"
    /\ handles[e]
    /\ handles' = [handles EXCEPT ![e] = FALSE]
    /\ UNCHANGED <<at, gate, job, outcome, tree>>

CallStep(e) ==
    \/ CreateGate(e) \/ CreateJob(e) \/ StartLauncher(e)
    \/ Assign(e) \/ AssignFails(e) \/ Release(e) \/ Fail(e)
    \/ Exited(e) \/ TimesOut(e) \/ Terminate(e)
    \/ Poll(e) \/ AwaitRoot(e) \/ Drain(e) \/ AwaitStreams(e) \/ Close(e)

-----------------------------------------------------------------------------
(* The launcher, the target and what it starts *)

Launcher(e, place) == "launcher" \in Running(e) /\ child[e] = place

\* Processes of a call end.
Ended(e, processes) ==
    /\ free' = [free EXCEPT ![e] = @ \ processes]
    /\ members' = [members EXCEPT ![e] = @ \ processes]
    /\ child' = IF "launcher" \in processes THEN [child EXCEPT ![e] = "none"] ELSE child

LauncherExits(e, exitCode) ==
    /\ Ended(e, {"launcher"})
    /\ code' = [code EXCEPT ![e] = exitCode]
    /\ UNCHANGED parent

\* The event can be opened as long as the call holds it.
OpenGate(e) ==
    /\ Launcher(e, "open")
    /\ handles[e]
    /\ child' = [child EXCEPT ![e] = "wait"]
    /\ UNCHANGED <<parent, code, free, members>>

\* Exit code 125.
GateGone(e) ==
    /\ Launcher(e, "open")
    /\ ~handles[e]
    /\ LauncherExits(e, "bad")

\* Mutant: the launcher goes on when its wait has timed out.
PassUnset(e) ==
    /\ Launcher(e, "wait")
    /\ child' = [child EXCEPT ![e] = "invoke"]
    /\ UNCHANGED <<parent, code, free, members>>

PassGate(e) ==
    /\ Launcher(e, "wait")
    /\ gate[e] = "set"
    /\ child' = [child EXCEPT ![e] = "invoke"]
    /\ UNCHANGED <<parent, code, free, members>>

\* WaitOne(30000) returns false: exit code 124.
GateTimesOut(e) ==
    /\ Launcher(e, "wait")
    /\ gate[e] = "unset"
    /\ LauncherExits(e, "bad")

\* A process is started by another one, and is in the job if that is.
Starts(e, process, by) ==
    /\ members' = [members EXCEPT ![e] = IF by \in @ THEN @ \cup {process} ELSE @]
    /\ free' = [free EXCEPT ![e] = IF by \in @ THEN @ \cup {process} ELSE @]

Invoke(e) ==
    /\ Launcher(e, "invoke")
    /\ Starts(e, "target", "launcher")
    /\ child' = [child EXCEPT ![e] = "call"]
    /\ UNCHANGED <<parent, code>>

\* Exit code 126.
InvokeFails(e) ==
    /\ Launcher(e, "invoke")
    /\ LauncherExits(e, "bad")

\* The target has ended with $LASTEXITCODE, which is the launcher's.
Return(e) ==
    /\ Launcher(e, "call")
    /\ "target" \notin Alive(e)
    /\ LauncherExits(e, code[e])

LauncherStep(e) ==
    OpenGate(e) \/ GateGone(e) \/ PassGate(e) \/ GateTimesOut(e)
        \/ Invoke(e) \/ InvokeFails(e) \/ Return(e)

Spawn(e) ==
    /\ "target" \in Running(e)
    /\ \E process \in {"piped", "detached"} \ Alive(e) : Starts(e, process, "target")
    /\ UNCHANGED <<parent, child, code>>

TargetExits(e) ==
    /\ "target" \in Running(e)
    /\ Ended(e, {"target"})
    /\ \E status \in {"ok", "bad"} : code' = [code EXCEPT ![e] = status]
    /\ UNCHANGED parent

DescendantExits(e) ==
    /\ \E process \in Running(e) \cap {"piped", "detached"} : Ended(e, {process})
    /\ UNCHANGED <<parent, code>>

\* Windows removes the members of a doomed job, one by one.
JobKills(e) ==
    /\ Doomed(e)
    /\ \E process \in members[e] : Ended(e, {process})
    /\ UNCHANGED <<parent, code>>

TreeStep(e) ==
    LauncherStep(e) \/ Spawn(e) \/ TargetExits(e) \/ DescendantExits(e) \/ JobKills(e)

-----------------------------------------------------------------------------
(* Correctness *)

TypeOK ==
    /\ at \in [Call -> {"idle", "gate", "job", "start", "assign", "release", "wait",
                        "terminate", "poll", "root", "drain", "streams", "close",
                        "returned", "dead"}]
    /\ handles \in [Call -> BOOLEAN]
    /\ gate \in [Call -> {"none", "unset", "set"}]
    /\ job \in [Call -> {"none", "open", "terminated"}]
    /\ outcome \in [Call -> {"none", "ok", "failed", "cleaned", "leftover"}]
    /\ child \in [Call -> {"none", "open", "wait", "invoke", "call"}]
    /\ code \in [Call -> {"none", "ok", "bad"}]
    /\ free \in [Call -> SUBSET Process] /\ members \in [Call -> SUBSET Process]

(***************************************************************************)
(* The launcher exists before it is in the job, but whatever it starts is  *)
(* in the job from its first instruction.                                  *)
(***************************************************************************)
Contained == \A e \in Call : free[e] \cap Spawned = {}

(***************************************************************************)
(* A timeout or a failed assignment that reports that its cleanup has      *)
(* succeeded leaves no process of the command, not even a dying one.       *)
(***************************************************************************)
CleanupTrue == \A e \in Call : outcome[e] = "cleaned" => Alive(e) = {}
=============================================================================
