------------------------ MODULE WindowsCheck_proofs ------------------------
(***************************************************************************)
(* Theorems about WindowsCheck, for any number of validations and          *)
(* commands: nothing escapes the Job Object, what is reported of a command *)
(* and of a cleanup is true, commands never run beside each other, and     *)
(* nobody but a living validation causes a refusal.                        *)
(***************************************************************************)
EXTENDS WindowsCheck, TLAPS

-----------------------------------------------------------------------------
(* Calls of the watchdog *)

Before  == {"idle", "gate", "job", "start", "assign"}
Cleaned == {"root", "drain"}
Over    == {"close", "returned", "dead"}

\* Only the launcher is ever outside the job, and only while its gate is shut.
Outside(e) ==
    /\ free[e] \subseteq {"launcher"}
    /\ at[e] \in Before => gate[e] # "set"
    /\ "launcher" \in free[e] =>
         gate[e] # "set" /\ at[e] # "release" /\ child[e] \in {"open", "wait"}

\* The job exists before it has members.
Inside(e) ==
    /\ at[e] \in Before => members[e] = {}
    /\ at[e] \in {"start", "assign"} => job[e] # "none"
    /\ members[e] # {} => job[e] # "none"
    /\ at[e] = "returned" => ~handles[e]

\* What is known of the processes when the function has come so far.
Reports(e) ==
    /\ outcome[e] # "none" => at[e] \in Cleaned \cup Over
    /\ at[e] \in Cleaned => outcome[e] \in {"none", "leftover"}
    /\ at[e] \in Cleaned /\ outcome[e] = "none" => members[e] = {}
    /\ outcome[e] = "cleaned" => free[e] = {} /\ members[e] = {}
    /\ outcome[e] = "ok" =>
         code[e] = "ok" /\ (free[e] \cup members[e]) \cap {"launcher", "target", "piped"} = {}

CallsInv == \A e \in Call : Outside(e) /\ Inside(e) /\ Reports(e)

\* What the function does next keeps this, whichever outcome a wait or a call has.
LEMMA CallProgress ==
    ASSUME Watchdog!TypeOK, CallsInv, NEW e \in Call,
           Watchdog!Begin(e) \/ Watchdog!CallStep(e) \/ Watchdog!Rundown(e)
    PROVE  Watchdog!TypeOK' /\ CallsInv'
<1> SUFFICES ASSUME NEW c \in Call
             PROVE  Watchdog!TypeOK' /\ Outside(c)' /\ Inside(c)' /\ Reports(c)'
  BY DEF CallsInv
<1> USE DEF Watchdog!TypeOK, Watchdog!Process, Outside, Inside, Reports, Before, Cleaned, Over,
            Watchdog!Go, Watchdog!Moves, Watchdog!Finish, Watchdog!Alive, Watchdog!tree
<1>0. /\ Outside(c) /\ Inside(c) /\ Reports(c)
      /\ Outside(e) /\ Inside(e) /\ Reports(e)
  BY DEF CallsInv
<1>1. CASE Watchdog!Begin(e)
  BY <1>0, <1>1 DEF Watchdog!Begin
<1>2. CASE Watchdog!CreateGate(e)
  BY <1>0, <1>2 DEF Watchdog!CreateGate
<1>3. CASE Watchdog!CreateJob(e)
  BY <1>0, <1>3 DEF Watchdog!CreateJob
<1>4. CASE Watchdog!StartLauncher(e)
  BY <1>0, <1>4 DEF Watchdog!StartLauncher
<1>5. CASE Watchdog!Assign(e)
  BY <1>0, <1>5 DEF Watchdog!Assign, Watchdog!EnterJob
<1>6. CASE Watchdog!AssignFails(e)
  BY <1>0, <1>6 DEF Watchdog!AssignFails
<1>7. CASE Watchdog!Release(e)
  BY <1>0, <1>7 DEF Watchdog!Release
<1>8. CASE Watchdog!Fail(e)
  BY <1>0, <1>8 DEF Watchdog!Fail
<1>9. CASE Watchdog!Exited(e) \/ Watchdog!TimesOut(e)
  BY <1>0, <1>9 DEF Watchdog!Exited, Watchdog!TimesOut
<1>10. CASE Watchdog!Terminate(e)
  BY <1>0, <1>10 DEF Watchdog!Terminate
<1>11. CASE Watchdog!Poll(e) \/ Watchdog!AwaitRoot(e)
  BY <1>0, <1>11 DEF Watchdog!Poll, Watchdog!AwaitRoot, Watchdog!Cleanup
<1>12. CASE Watchdog!Drain(e)
  BY <1>0, <1>12 DEF Watchdog!Drain, Watchdog!StreamsClosed, Watchdog!StreamHolders
<1>13. CASE Watchdog!AwaitStreams(e)
  BY <1>0, <1>13 DEF Watchdog!AwaitStreams, Watchdog!StreamsClosed, Watchdog!StreamHolders
<1>14. CASE Watchdog!Close(e)
  BY <1>0, <1>14 DEF Watchdog!Close
<1>15. CASE Watchdog!Rundown(e)
  BY <1>0, <1>15 DEF Watchdog!Rundown
<1> QED BY <1>1, <1>2, <1>3, <1>4, <1>5, <1>6, <1>7, <1>8, <1>9, <1>10, <1>11, <1>12, <1>13,
           <1>14, <1>15 DEF Watchdog!CallStep

\* And so does what the launcher, the target and its descendants do, and what
\* Windows does to them.
LEMMA TreeProgress ==
    ASSUME Watchdog!TypeOK, CallsInv, NEW e \in Call, Watchdog!TreeStep(e)
    PROVE  Watchdog!TypeOK' /\ CallsInv'
<1> SUFFICES ASSUME NEW c \in Call
             PROVE  Watchdog!TypeOK' /\ Outside(c)' /\ Inside(c)' /\ Reports(c)'
  BY DEF CallsInv
<1> USE DEF Watchdog!TypeOK, Watchdog!Process, Outside, Inside, Reports, Before, Cleaned, Over,
            Watchdog!Alive, Watchdog!Doomed, Watchdog!Running, Watchdog!parent,
            Watchdog!Launcher, Watchdog!LauncherExits, Watchdog!Ended, Watchdog!Starts
<1>0. /\ Outside(c) /\ Inside(c) /\ Reports(c)
      /\ Outside(e) /\ Inside(e) /\ Reports(e)
  BY DEF CallsInv
<1>1. CASE Watchdog!OpenGate(e)
  BY <1>0, <1>1 DEF Watchdog!OpenGate
<1>2. CASE Watchdog!GateGone(e)
  BY <1>0, <1>2 DEF Watchdog!GateGone
<1>3. CASE Watchdog!PassGate(e)
  BY <1>0, <1>3 DEF Watchdog!PassGate
<1>4. CASE Watchdog!GateTimesOut(e)
  BY <1>0, <1>4 DEF Watchdog!GateTimesOut
<1>5. CASE Watchdog!Invoke(e)
  BY <1>0, <1>5 DEF Watchdog!Invoke
<1>6. CASE Watchdog!InvokeFails(e)
  BY <1>0, <1>6 DEF Watchdog!InvokeFails
<1>7. CASE Watchdog!Return(e)
  BY <1>0, <1>7 DEF Watchdog!Return
<1>8. CASE Watchdog!Spawn(e)
  BY <1>0, <1>8 DEF Watchdog!Spawn
<1>9. CASE Watchdog!TargetExits(e)
  BY <1>0, <1>9 DEF Watchdog!TargetExits
<1>10. CASE Watchdog!DescendantExits(e)
  BY <1>0, <1>10 DEF Watchdog!DescendantExits
<1>11. CASE Watchdog!JobKills(e)
  BY <1>0, <1>11 DEF Watchdog!JobKills
<1> QED BY <1>1, <1>2, <1>3, <1>4, <1>5, <1>6, <1>7, <1>8, <1>9, <1>10, <1>11
        DEF Watchdog!TreeStep, Watchdog!LauncherStep

\* Of a call that has not begun, or has returned, nothing executes code.
LEMMA QuietCall ==
    ASSUME Watchdog!TypeOK, CallsInv, NEW e \in Call, at[e] \in {"idle", "returned"}
    PROVE  Watchdog!Running(e) \cap Watchdog!Spawned = {}
<1>1. Outside(e) /\ Inside(e)
  BY DEF CallsInv
<1>2. job[e] \in {"none", "open", "terminated"}
  BY DEF Watchdog!TypeOK
<1>3. free[e] \cap Watchdog!Spawned = {}
  BY <1>1 DEF Outside, Watchdog!Spawned
<1>4. members[e] = {} \/ Watchdog!Doomed(e)
  BY <1>1, <1>2 DEF Inside, Watchdog!Doomed, Before
<1> QED BY <1>3, <1>4 DEF Watchdog!Running, Watchdog!Alive

\* A call touches itself only, and only between its beginning and its return.
LEMMA OwnCall ==
    ASSUME Watchdog!TypeOK, NEW e \in Call, Watchdog!CallStep(e) \/ Watchdog!Rundown(e)
    PROVE  /\ at[e] \notin {"idle", "returned"} /\ at'[e] # "idle"
           /\ \A c \in Call \ {e} : at'[c] = at[c] /\ outcome'[c] = outcome[c]
BY DEF Watchdog!TypeOK, Watchdog!CallStep, Watchdog!CreateGate, Watchdog!CreateJob,
       Watchdog!StartLauncher, Watchdog!Assign, Watchdog!AssignFails, Watchdog!Release,
       Watchdog!Fail, Watchdog!Exited, Watchdog!TimesOut, Watchdog!Terminate, Watchdog!Poll,
       Watchdog!AwaitRoot, Watchdog!Cleanup, Watchdog!Drain, Watchdog!AwaitStreams,
       Watchdog!Close, Watchdog!Rundown, Watchdog!Go, Watchdog!Moves, Watchdog!Finish

-----------------------------------------------------------------------------
(* Validations *)

Early  == {"idle", "lock", "directory", "list", "listing"}
Owning == {"directory", "list", "listing", "command", "returning", "remove", "unlock"}

\* The owner of the mutex is the validation that is between taking and releasing it.
Owner == \A r \in Run : holder = r <=> place[r] \in Owning

\* One call is under way, the one the validation is at, and those before it have
\* succeeded; gofmt may be left out.
Progress ==
    /\ \A r \in Run : place[r] \in Early => command[r] = 1
    /\ \A e \in Call :
         /\ place[e[1]] \in Early => at[e] = "idle"
         /\ at[e] \notin {"idle", "returned"} =>
              e[2] = command[e[1]] /\ place[e[1]] \in {"returning", "dead"}
         /\ e[2] < command[e[1]] =>
              \/ at[e] = "idle" /\ e[2] = 1
              \/ at[e] = "returned" /\ outcome[e] = "ok"

\* A validation passes when it has run all of its commands and cleaned up.
Passed ==
    \A r \in Run : verdict[r] = "passed" =>
        /\ command[r] > Commands[r]
        /\ place[r] \in {"remove", "unlock", "ended", "dead"}
        /\ place[r] \in {"unlock", "ended"} => ~directory[r]

IInv == TypeOK /\ CallsInv /\ Owner /\ Progress /\ Passed

LEMMA CallPairs ==
    /\ \A r \in Run : \A k \in 1..Commands[r] : <<r, k>> \in Call
    /\ \A e \in Call : e[1] \in Run /\ e[2] \in 1..Commands[e[1]] /\ e = <<e[1], e[2]>>
BY DEF Call

LEMMA InitInv == Init => IInv
<1> SUFFICES ASSUME Init PROVE IInv
  OBVIOUS
<1> USE DEF Init, Watchdog!Init
<1>1. TypeOK
  <2>1. Watchdog!TypeOK
    <3>1. /\ at \in [Call -> {"idle"}] /\ handles \in [Call -> BOOLEAN]
          /\ gate \in [Call -> {"none"}]
          /\ job \in [Call -> {"none"}] /\ outcome \in [Call -> {"none"}]
          /\ child \in [Call -> {"none"}] /\ code \in [Call -> {"none"}]
      OBVIOUS
    <3>2. /\ free \in [Call -> SUBSET Watchdog!Process]
          /\ members \in [Call -> SUBSET Watchdog!Process]
      OBVIOUS
    <3> QED BY <3>1, <3>2 DEF Watchdog!TypeOK
  <2>2. holder \in Run \cup {NoRun} /\ command \in [Run -> Nat \ {0}]
    OBVIOUS
  <2>3. abandoned \in BOOLEAN
    OBVIOUS
  <2> QED BY <2>1, <2>2, <2>3 DEF TypeOK
<1>2. CallsInv
  BY DEF CallsInv, Outside, Inside, Reports, Before, Cleaned, Over
<1>3. Owner /\ Passed
  BY WindowsCheckAssumption DEF Owner, Owning, Passed
<1>4. Progress
  BY CallPairs DEF Progress, Early
<1> QED BY <1>1, <1>2, <1>3, <1>4 DEF IInv

\* A step of the script that is not of a call.
LEMMA ScriptProgress ==
    ASSUME IInv, NEW r \in Run, UNCHANGED calls,
           \/ Start(r) \/ Acquire(r) \/ AcquireAbandoned(r) \/ Refuse(r) \/ MakeDirectory(r)
           \/ ListFiles(r) \/ Listed(r) \/ GitExits(r) \/ CommandReturned(r) \/ AllPassed(r)
           \/ RemoveDirectory(r) \/ Unlock(r)
    PROVE  IInv'
<1> USE CallPairs, WindowsCheckAssumption
    DEF IInv, TypeOK, Goto, Rule, Throw, script, mutex, calls
<1>1. CallsInv' /\ Watchdog!TypeOK'
  BY DEF CallsInv, Outside, Inside, Reports, Watchdog!TypeOK
<1> DEFINE Rest == TypeOK' /\ Owner' /\ Progress' /\ Passed'
<1> HIDE DEF Rest
<1> USE <1>1
<1>2. CASE Start(r)
  BY <1>2 DEF Rest, Start, Owner, Owning, Progress, Early, Passed
<1>3. CASE Acquire(r) \/ AcquireAbandoned(r)
  <2> USE <1>3 DEF Acquire, AcquireAbandoned
  <2>1. TypeOK'
    OBVIOUS
  <2>2. Owner'
    BY DEF Owner, Owning
  <2>3. Progress'
    BY DEF Progress, Early
  <2>4. Passed'
    BY DEF Passed
  <2> QED BY <2>1, <2>2, <2>3, <2>4 DEF Rest
<1>4. CASE Refuse(r)
  BY <1>4 DEF Rest, Refuse, Owner, Owning, Progress, Early, Passed
<1>5. CASE MakeDirectory(r)
  <2> USE <1>5 DEF MakeDirectory
  <2>1. TypeOK'
    OBVIOUS
  <2>2. Owner'
    BY DEF Owner, Owning
  <2>3. Progress'
    BY DEF Progress, Early
  <2>4. Passed'
    BY DEF Passed
  <2> QED BY <2>1, <2>2, <2>3, <2>4 DEF Rest
<1>6. CASE ListFiles(r) \/ GitExits(r)
  <2> USE <1>6 DEF ListFiles, GitExits
  <2>1. TypeOK'
    OBVIOUS
  <2>2. Owner'
    BY DEF Owner, Owning
  <2>3. Progress'
    BY DEF Progress, Early
  <2>4. Passed'
    BY DEF Passed
  <2> QED BY <2>1, <2>2, <2>3, <2>4 DEF Rest
<1>7. CASE Listed(r)
  BY <1>7 DEF Rest, Listed, Owner, Owning, Progress, Early, Passed
<1>8. CASE CommandReturned(r)
  BY <1>8 DEF Rest, CommandReturned, Owner, Owning, Progress, Early, Passed
<1>9. CASE AllPassed(r)
  BY <1>9 DEF Rest, AllPassed, Owner, Owning, Progress, Early, Passed
<1>10. CASE RemoveDirectory(r)
  <2> USE <1>10 DEF RemoveDirectory
  <2>1. TypeOK'
    OBVIOUS
  <2>2. Owner'
    BY DEF Owner, Owning
  <2>3. Progress'
    BY DEF Progress, Early
  <2>4. Passed'
    BY DEF Passed
  <2> QED BY <2>1, <2>2, <2>3, <2>4 DEF Rest
<1>11. CASE Unlock(r)
  BY <1>11 DEF Rest, Unlock, Owner, Owning, Progress, Early, Passed
<1> QED BY <1>1, <1>2, <1>3, <1>4, <1>5, <1>6, <1>7, <1>8, <1>9, <1>10, <1>11 DEF Rest

\* The next call begins.
LEMMA CallBegins == ASSUME IInv, NEW r \in Run, BeginCommand(r) PROVE IInv'
<1> USE CallPairs DEF IInv, TypeOK, Goto, BeginCommand, mutex
<1> DEFINE e == <<r, command[r]>>
<1>1. e \in Call /\ Watchdog!Begin(e)
  OBVIOUS
<1>2. Watchdog!TypeOK' /\ CallsInv'
  BY <1>1, CallProgress
<1>3. /\ at[e] = "idle" /\ at' = [at EXCEPT ![e] = "gate"] /\ outcome' = outcome
  BY <1>1 DEF Watchdog!Begin, Watchdog!Moves, Watchdog!Go
<1>4. TypeOK'
  BY <1>2
<1>5. Owner' /\ Passed'
  BY DEF Owner, Owning, Passed
<1>6. Progress'
  <2>1. \A s \in Run : place'[s] \in Early => command'[s] = 1
    BY DEF Progress, Early
  <2>2. ASSUME NEW c \in Call, c # e
        PROVE  /\ place'[c[1]] \in Early => at'[c] = "idle"
               /\ at'[c] \notin {"idle", "returned"} =>
                    c[2] = command'[c[1]] /\ place'[c[1]] \in {"returning", "dead"}
               /\ c[2] < command'[c[1]] =>
                    \/ at'[c] = "idle" /\ c[2] = 1
                    \/ at'[c] = "returned" /\ outcome'[c] = "ok"
    BY <1>3, <2>2 DEF Progress, Early
  <2>3. /\ place'[e[1]] \notin Early
        /\ e[2] = command'[e[1]] /\ place'[e[1]] = "returning"
    BY DEF Early
  <2> QED BY <2>1, <2>2, <2>3 DEF Progress
<1> QED BY <1>2, <1>4, <1>5, <1>6

\* A step of a call, of its processes, or of Windows.
LEMMA CallSteps ==
    ASSUME IInv, NEW e \in Call, CallStep(e) \/ TreeStep(e) \/ Rundown(e)
    PROVE  IInv'
<1> USE DEF IInv, TypeOK, CallStep, TreeStep, Rundown, mutex, script
<1>1. UNCHANGED <<mutex, script>>
  OBVIOUS
<1>2. Watchdog!TypeOK' /\ CallsInv'
  BY CallProgress, TreeProgress
<1>3. /\ \A c \in Call \ {e} : at'[c] = at[c] /\ outcome'[c] = outcome[c]
      /\ \/ at[e] \notin {"idle", "returned"} /\ at'[e] # "idle"
         \/ at'[e] = at[e] /\ outcome'[e] = outcome[e]
  <2>1. CASE Watchdog!CallStep(e) \/ Watchdog!Rundown(e)
    BY <2>1, OwnCall
  <2>2. CASE Watchdog!TreeStep(e)
    <3>1. UNCHANGED Watchdog!parent
      BY <2>2 DEF Watchdog!TreeStep, Watchdog!LauncherStep, Watchdog!OpenGate, Watchdog!GateGone,
             Watchdog!PassGate, Watchdog!GateTimesOut, Watchdog!Invoke, Watchdog!InvokeFails,
             Watchdog!Return, Watchdog!LauncherExits, Watchdog!Spawn, Watchdog!TargetExits,
             Watchdog!DescendantExits, Watchdog!JobKills
    <3> QED BY <3>1 DEF Watchdog!parent
  <2> QED BY <2>1, <2>2
<1>4. TypeOK' /\ Owner' /\ Passed'
  BY <1>1, <1>2 DEF Owner, Passed
<1>5. Progress'
  BY <1>1, <1>3, CallPairs DEF Progress, Early
<1> QED BY <1>2, <1>4, <1>5

\* The validation is killed, in a call or between two.
LEMMA Death == ASSUME IInv, NEW r \in Run, Die(r) PROVE IInv'
<1> USE CallPairs, WindowsCheckAssumption DEF IInv, Die, Goto
<1>1. at' \in [Call -> {"dead"} \cup {at[c] : c \in Call}]
      /\ \A c \in Call : \/ at'[c] = at[c]
                         \/ at'[c] = "dead" /\ at[c] \notin {"idle", "returned"} /\ c[1] = r
  OBVIOUS
<1>2. TypeOK'
  BY <1>1 DEF TypeOK, Watchdog!TypeOK
<1>3. CallsInv'
  BY <1>1 DEF CallsInv, Outside, Inside, Reports, Before, Cleaned, Over
<1>4. Owner'
  BY DEF Owner, Owning, TypeOK
<1>5. Progress' /\ Passed'
  BY <1>1 DEF Progress, Early, Passed, TypeOK
<1> QED BY <1>2, <1>3, <1>4, <1>5

LEMMA Stutter == ASSUME IInv, UNCHANGED vars PROVE IInv'
<1> USE DEF vars, calls, mutex, script, IInv
<1>1. TypeOK'
  BY DEF TypeOK, Watchdog!TypeOK
<1>2. CallsInv'
  BY DEF CallsInv, Outside, Inside, Reports
<1>3. Owner' /\ Progress' /\ Passed'
  BY DEF Owner, Progress, Passed
<1> QED BY <1>1, <1>2, <1>3

LEMMA NextStep == ASSUME IInv, [Next]_vars PROVE IInv'
<1>1. CASE UNCHANGED vars
  BY <1>1, Stutter
<1>2. ASSUME NEW r \in Run, Start(r) \/ ScriptStep(r) \/ GitExits(r) \/ Die(r) PROVE IInv'
  <2>1. CASE BeginCommand(r)
    BY <2>1, CallBegins
  <2>2. CASE Die(r)
    BY <2>2, Death
  <2>3. CASE Start(r) \/ GitExits(r) \/ (ScriptStep(r) /\ ~BeginCommand(r))
    <3>1. UNCHANGED calls
      BY <2>3 DEF ScriptStep, Start, GitExits, Acquire, AcquireAbandoned, Refuse, MakeDirectory,
             ListFiles, Listed, CommandReturned, AllPassed, RemoveDirectory, Unlock
    <3> QED BY <2>3, <3>1, ScriptProgress DEF ScriptStep
  <2> QED BY <1>2, <2>1, <2>2, <2>3
<1>3. ASSUME NEW e \in Call, CallStep(e) \/ TreeStep(e) \/ Rundown(e) PROVE IInv'
  BY <1>3, CallSteps
<1> QED BY <1>1, <1>2, <1>3 DEF Next

-----------------------------------------------------------------------------
(* The theorems *)

\* The inductive invariant holds whatever fails, hangs or is killed.
THEOREM Invariance == Spec => []IInv
<1>1. IInv /\ [Next]_vars => IInv'
  BY NextStep
<1> QED BY <1>1, InitInv, PTL DEF Spec

\* The state of the scripts and of their processes stays of its type.
THEOREM TypeCorrect == Spec => []TypeOK
<1>1. IInv => TypeOK
  BY DEF IInv
<1> QED BY <1>1, Invariance, PTL

\* The start gate is enough: no command of a validation ever runs outside the
\* Job Object, although the launcher starts there.
THEOREM NothingEscapes == Spec => []Contained
<1>1. IInv => Contained
  BY DEF IInv, CallsInv, Outside, Contained, Watchdog!Contained, Watchdog!Spawned
<1> QED BY <1>1, Invariance, PTL

\* An error that says the cleanup succeeded is right about every process.
THEOREM CleanupReported == Spec => []CleanupTrue
<1>1. IInv => CleanupTrue
  BY DEF IInv, CallsInv, Reports, CleanupTrue, Watchdog!CleanupTrue, Watchdog!Alive
<1> QED BY <1>1, Invariance, PTL

\* Commands never execute code beside each other, within a validation or across.
THEOREM Exclusive == Spec => []OneAtATime
<1>1. ASSUME IInv PROVE OneAtATime
  <2>1. ASSUME NEW r \in Run, NEW k \in 1..Commands[r],
               Watchdog!Running(<<r, k>>) \cap Watchdog!Spawned # {}
        PROVE  k = command[r] /\ place[r] \in {"returning", "dead"}
    <3>1. <<r, k>> \in Call /\ at[<<r, k>>] \notin {"idle", "returned"}
      BY <1>1, <2>1, CallPairs, QuietCall DEF IInv, TypeOK
    <3> QED BY <1>1, <3>1 DEF IInv, Progress
  <2>2. \A r \in Run : Busy(r) => holder = r \/ place[r] = "dead"
    BY <1>1, <2>1 DEF Busy, IInv, Owner, Owning
  <2> QED BY <2>1, <2>2 DEF OneAtATime
<1>2. IInv => OneAtATime
  BY <1>1
<1> QED BY <1>2, Invariance, PTL

\* A validation that ends with success has run every command to its end, each
\* with exit code 0, and leaves neither a directory nor a process that runs.
THEOREM SuccessEarned == Spec => []SuccessTrue
<1>1. ASSUME IInv, NEW r \in Run, place[r] = "ended", verdict[r] = "passed"
      PROVE  /\ \A k \in 2..Commands[r] : code[<<r, k>>] = "ok"
             /\ 1 \in 1..Commands[r] /\ at[<<r, 1>>] # "idle" => code[<<r, 1>>] = "ok"
             /\ ~directory[r] /\ ~Busy(r)
  <2>1. command[r] > Commands[r] /\ ~directory[r]
    BY <1>1 DEF IInv, Passed
  <2>2. ASSUME NEW k \in 1..Commands[r]
        PROVE  /\ <<r, k>> \in Call
               /\ \/ at[<<r, k>>] = "idle" /\ k = 1
                  \/ at[<<r, k>>] = "returned" /\ code[<<r, k>>] = "ok"
    <3>1. <<r, k>> \in Call /\ k < command[r]
      BY <1>1, <2>1, CallPairs, WindowsCheckAssumption DEF IInv, TypeOK
    <3> QED BY <1>1, <3>1 DEF IInv, Progress, CallsInv, Reports
  <2>3. \A k \in 1..Commands[r] : Watchdog!Running(<<r, k>>) \cap Watchdog!Spawned = {}
    BY <1>1, <2>2, QuietCall DEF IInv, TypeOK
  <2>4. Commands[r] \in Nat
    BY WindowsCheckAssumption
  <2>5. \A k \in 2..Commands[r] : code[<<r, k>>] = "ok"
    <3> SUFFICES ASSUME NEW k \in 2..Commands[r] PROVE code[<<r, k>>] = "ok"
      OBVIOUS
    <3>1. k \in 1..Commands[r] /\ k # 1
      BY <2>4
    <3> QED BY <2>2, <3>1
  <2>6. ~Busy(r)
    BY <2>3 DEF Busy
  <2> QED BY <2>1, <2>2, <2>5, <2>6
<1>2. IInv => SuccessTrue
  BY <1>1 DEF SuccessTrue
<1> QED BY <1>2, Invariance, PTL

\* A validation is refused for a living one only: whoever has the mutex has not
\* ended or died.
THEOREM RefusalJustified == Spec => RefusalTrue
<1> DEFINE A == \A r \in Run : verdict[r] # "refused" /\ verdict'[r] = "refused" =>
                    \E q \in Run \ {r} : holder = q /\ place[q] \notin {"ended", "dead"}
<1>1. ASSUME IInv, Next PROVE A
  <2> SUFFICES ASSUME NEW r \in Run, verdict[r] # "refused", verdict'[r] = "refused"
               PROVE  \E q \in Run \ {r} : holder = q /\ place[q] \notin {"ended", "dead"}
    OBVIOUS
  <2>1. Refuse(r)
    BY <1>1 DEF IInv, TypeOK, Next, Start, ScriptStep, Acquire, AcquireAbandoned, Refuse,
           MakeDirectory, ListFiles, Listed, GitExits, BeginCommand, CommandReturned, AllPassed,
           RemoveDirectory, Unlock, Die, CallStep, TreeStep, Rundown, Goto, Rule, Throw, script
  <2> QED BY <1>1, <2>1 DEF Refuse, IInv, TypeOK, Owner, Owning
<1>2. IInv /\ [Next]_vars => [A]_vars
  BY <1>1
<1> QED BY <1>2, Invariance, PTL DEF Spec, RefusalTrue
=============================================================================
