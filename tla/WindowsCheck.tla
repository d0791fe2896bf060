---------------------------- MODULE WindowsCheck ----------------------------
(***************************************************************************)
(* Windows validations of one repository: scripts/check.ps1 with           *)
(* Enter-TraceDeltaValidationMutex and Remove-TraceDeltaValidationDirectory *)
(* of scripts/windows-check-lib.ps1.                                       *)
(*                                                                         *)
(* A validation takes the mutex of the repository, makes a directory,      *)
(* lists the Go files with git, runs its commands one after the other,     *)
(* each in a call of BoundedProcess, removes the directory and releases    *)
(* the mutex.  Validations may be started at any time and may die at any   *)
(* time, which abandons the mutex.                                         *)
(***************************************************************************)
EXTENDS Naturals, FiniteSets

CONSTANTS Run,        \* validations
          NoRun,
          Commands    \* per validation: how many commands it has, gofmt first

ASSUME WindowsCheckAssumption == NoRun \notin Run /\ Commands \in [Run -> Nat]

Call == UNION {{r} \X (1..Commands[r]) : r \in Run}

VARIABLES
    at, handles, gate, job, outcome,  \* the calls
    child, code, free, members,             \* and their processes
    holder,     \* the validation that owns the mutex
    abandoned,  \* has its last owner died?
    place,      \* per validation: what its script does next
    command,    \* per validation: the command it is at
    directory,  \* per validation: does its directory exist?
    listing,    \* per validation: does its git run?
    verdict     \* per validation: how it ends

calls == <<at, handles, gate, job, outcome, child, code, free, members>>
mutex == <<holder, abandoned>>
script == <<place, command, directory, listing, verdict>>
vars == <<calls, mutex, script>>

Watchdog == INSTANCE BoundedProcess

Init ==
    /\ Watchdog!Init
    /\ holder = NoRun
    /\ abandoned = FALSE
    /\ place = [r \in Run |-> "idle"]
    /\ command = [r \in Run |-> 1]
    /\ directory = [r \in Run |-> FALSE]
    /\ listing = [r \in Run |-> FALSE]
    /\ verdict = [r \in Run |-> "none"]

Goto(r, step) == place' = [place EXCEPT ![r] = step]
Rule(r, result) == verdict' = [verdict EXCEPT ![r] = result]

\* An exception: the finally blocks remove the directory and release the mutex.
Throw(r) == Goto(r, "remove") /\ Rule(r, "failed")

-----------------------------------------------------------------------------
Start(r) ==
    /\ place[r] = "idle"
    /\ Goto(r, "lock")
    /\ UNCHANGED <<calls, mutex, command, directory, listing, verdict>>

\* WaitOne returns true.
Acquire(r) ==
    /\ place[r] = "lock"
    /\ holder = NoRun /\ ~abandoned
    /\ holder' = r
    /\ Goto(r, "directory")
    /\ UNCHANGED <<calls, abandoned, command, directory, listing, verdict>>

\* Mutant: the exception is taken for a failure to get the mutex.
RejectAbandoned(r) ==
    /\ place[r] = "lock"
    /\ holder = NoRun /\ abandoned
    /\ abandoned' = FALSE
    /\ Goto(r, "ended") /\ Rule(r, "refused")
    /\ UNCHANGED <<calls, holder, command, directory, listing>>

\* WaitOne throws AbandonedMutexException: the mutex is owned nevertheless.
AcquireAbandoned(r) ==
    /\ place[r] = "lock"
    /\ holder = NoRun /\ abandoned
    /\ holder' = r /\ abandoned' = FALSE
    /\ Goto(r, "directory")
    /\ UNCHANGED <<calls, command, directory, listing, verdict>>

\* Mutant: what WaitOne returns is not looked at.
RunAnyway(r) ==
    /\ place[r] = "lock"
    /\ holder # NoRun
    /\ Goto(r, "directory")
    /\ UNCHANGED <<calls, mutex, command, directory, listing, verdict>>

\* WaitOne returns false: another validation has it.
Refuse(r) ==
    /\ place[r] = "lock"
    /\ holder # NoRun
    /\ Goto(r, "ended") /\ Rule(r, "refused")
    /\ UNCHANGED <<calls, mutex, command, directory, listing>>

\* New-Item and the search for the tools.
MakeDirectory(r) ==
    /\ place[r] = "directory"
    /\ \/ Goto(r, "list") /\ directory' = [directory EXCEPT ![r] = TRUE] /\ UNCHANGED verdict
       \/ Throw(r) /\ directory' = [directory EXCEPT ![r] = TRUE]
       \/ Throw(r) /\ UNCHANGED directory
    /\ UNCHANGED <<calls, mutex, command, listing>>

\* git ls-files runs in no job and under no timeout.
ListFiles(r) ==
    /\ place[r] = "list" /\ ~listing[r]
    /\ listing' = [listing EXCEPT ![r] = TRUE]
    /\ Goto(r, "listing")
    /\ UNCHANGED <<calls, mutex, command, directory, verdict>>

GitExits(r) ==
    /\ listing[r]
    /\ listing' = [listing EXCEPT ![r] = FALSE]
    /\ UNCHANGED <<calls, mutex, place, command, directory, verdict>>

\* git has failed, or listed Go files, or none: then gofmt is left out.
Listed(r) ==
    /\ place[r] = "listing" /\ ~listing[r]
    /\ \/ Throw(r) /\ UNCHANGED command
       \/ Goto(r, "command") /\ UNCHANGED <<command, verdict>>
       \/ Goto(r, "command") /\ command' = [command EXCEPT ![r] = 2] /\ UNCHANGED verdict
    /\ UNCHANGED <<calls, mutex, directory, listing>>

BeginCommand(r) ==
    /\ place[r] = "command" /\ command[r] <= Commands[r]
    /\ Watchdog!Begin(<<r, command[r]>>)
    /\ Goto(r, "returning")
    /\ UNCHANGED <<mutex, command, directory, listing, verdict>>

\* A call has returned; gofmt must have printed nothing.
CommandReturned(r) ==
    LET e == <<r, command[r]>> IN
    /\ place[r] = "returning" /\ at[e] = "returned"
    /\ \/ /\ outcome[e] = "ok"
          /\ command' = [command EXCEPT ![r] = @ + 1]
          /\ Goto(r, "command") /\ UNCHANGED verdict
       \/ /\ outcome[e] # "ok" \/ command[r] = 1
          /\ Throw(r) /\ UNCHANGED command
    /\ UNCHANGED <<calls, mutex, directory, listing>>

AllPassed(r) ==
    /\ place[r] = "command" /\ command[r] > Commands[r]
    /\ Goto(r, "remove") /\ Rule(r, "passed")
    /\ UNCHANGED <<calls, mutex, command, directory, listing>>

\* Remove-Item fails on a file that is in use: the validation has failed.
RemoveDirectory(r) ==
    /\ place[r] = "remove"
    /\ \/ directory' = [directory EXCEPT ![r] = FALSE] /\ UNCHANGED verdict
       \/ directory[r] /\ Rule(r, "failed") /\ UNCHANGED directory
    /\ Goto(r, "unlock")
    /\ UNCHANGED <<calls, mutex, command, listing>>

Unlock(r) ==
    /\ place[r] = "unlock"
    /\ holder' = NoRun
    /\ Goto(r, "ended")
    /\ UNCHANGED <<calls, abandoned, command, directory, listing, verdict>>

(***************************************************************************)
(* The validation is killed.  Its threads end first, which abandons the    *)
(* mutex; its handles are closed after that (Rundown).                     *)
(***************************************************************************)
Die(r) ==
    /\ place[r] \notin {"idle", "ended", "dead"}
    /\ Goto(r, "dead")
    /\ at' = [e \in Call |->
                IF e[1] = r /\ at[e] \notin {"idle", "returned"} THEN "dead" ELSE at[e]]
    /\ holder' = IF holder = r THEN NoRun ELSE holder
    /\ abandoned' = (abandoned \/ holder = r)
    /\ UNCHANGED <<handles, gate, job, outcome, child, code, free, members,
                   command, directory, listing, verdict>>

CallStep(e) == Watchdog!CallStep(e) /\ UNCHANGED <<mutex, script>>
LauncherStep(e) == Watchdog!LauncherStep(e) /\ UNCHANGED <<mutex, script>>
JobKills(e) == Watchdog!JobKills(e) /\ UNCHANGED <<mutex, script>>
TreeStep(e) == Watchdog!TreeStep(e) /\ UNCHANGED <<mutex, script>>
Rundown(e) == Watchdog!Rundown(e) /\ UNCHANGED <<mutex, script>>

ScriptStep(r) ==
    \/ Acquire(r) \/ AcquireAbandoned(r) \/ Refuse(r)
    \/ MakeDirectory(r) \/ ListFiles(r) \/ Listed(r)
    \/ BeginCommand(r) \/ CommandReturned(r) \/ AllPassed(r)
    \/ RemoveDirectory(r) \/ Unlock(r)

Next ==
    \/ \E r \in Run : Start(r) \/ ScriptStep(r) \/ GitExits(r) \/ Die(r)
    \/ \E e \in Call : CallStep(e) \/ TreeStep(e) \/ Rundown(e)

Spec == Init /\ [][Next]_vars

(***************************************************************************)
(* Every wait of a validation and of the launcher has a timeout, the       *)
(* kernel carries out what it has been told, and git is taken to end.  The *)
(* targets and what they start need not do anything, least of all end.     *)
(***************************************************************************)
Fairness ==
    /\ \A r \in Run : WF_vars(ScriptStep(r)) /\ WF_vars(GitExits(r))
    /\ \A e \in Call : /\ WF_vars(CallStep(e)) /\ WF_vars(LauncherStep(e))
                       /\ WF_vars(JobKills(e)) /\ WF_vars(Rundown(e))

FairSpec == Spec /\ Fairness

-----------------------------------------------------------------------------
(* Correctness *)

TypeOK ==
    /\ Watchdog!TypeOK
    /\ holder \in Run \cup {NoRun} /\ abandoned \in BOOLEAN
    /\ place \in [Run -> {"idle", "lock", "directory", "list", "listing", "command",
                          "returning", "remove", "unlock", "ended", "dead"}]
    /\ command \in [Run -> Nat \ {0}]
    /\ directory \in [Run -> BOOLEAN] /\ listing \in [Run -> BOOLEAN]
    /\ verdict \in [Run -> {"none", "passed", "failed", "refused"}]

Contained == Watchdog!Contained
CleanupTrue == Watchdog!CleanupTrue

\* A command of the validation executes code.
Busy(r) == \E k \in 1..Commands[r] : Watchdog!Running(<<r, k>>) \cap Watchdog!Spawned # {}

(***************************************************************************)
(* One command at a time.  Two commands of a validation never execute      *)
(* code together, and while a validation owns the mutex no other one has   *)
(* a command that does, unless it has died and Windows has not closed its  *)
(* handles yet.                                                            *)
(***************************************************************************)
OneAtATime ==
    /\ \A r \in Run : Busy(r) => holder = r \/ place[r] = "dead"
    /\ \A r \in Run : \A k, l \in 1..Commands[r] :
            Watchdog!Running(<<r, k>>) \cap Watchdog!Spawned # {}
            /\ Watchdog!Running(<<r, l>>) \cap Watchdog!Spawned # {} => k = l

(***************************************************************************)
(* A validation that reports success has run every command, gofmt only if  *)
(* there are Go files, each has ended with exit code 0, and neither its    *)
(* directory nor a running process of it is left.                          *)
(***************************************************************************)
SuccessTrue ==
    \A r \in Run : place[r] = "ended" /\ verdict[r] = "passed" =>
        /\ \A k \in 2..Commands[r] : code[<<r, k>>] = "ok"
        /\ 1 \in 1..Commands[r] /\ at[<<r, 1>>] # "idle" => code[<<r, 1>>] = "ok"
        /\ ~directory[r] /\ ~Busy(r)

(***************************************************************************)
(* A validation is refused only while another one lives and has the mutex: *)
(* one that has died never blocks those that come after it.                *)
(***************************************************************************)
RefusalTrue ==
    [][\A r \in Run : verdict[r] # "refused" /\ verdict'[r] = "refused" =>
            \E q \in Run \ {r} : holder = q /\ place[q] \notin {"ended", "dead"}]_vars

(***************************************************************************)
(* However a call ends, and if the validation dies in the middle of it, no *)
(* process of it stays: not a target that never ends, not a process it has *)
(* detached, not a launcher that did not get into the job.                 *)
(***************************************************************************)
NothingSurvives == \A e \in Call : (at[e] \in {"returned", "dead"}) ~> (Watchdog!Alive(e) = {})

(***************************************************************************)
(* Every validation that starts ends (or is killed), although its commands *)
(* may never do.                                                           *)
(***************************************************************************)
Ends == \A r \in Run : (place[r] = "lock") ~> (place[r] \in {"ended", "dead"})
=============================================================================
