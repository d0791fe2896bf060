-------------------------- MODULE ReportJob_proofs --------------------------
(***************************************************************************)
(* Theorems about ReportJob, for any number of jobs that are given one     *)
(* report directory: a job that ends with 0 or 1 keeps the three reports   *)
(* of its own commands, and one that ends with an error keeps none.        *)
(***************************************************************************)
EXTENDS ReportJob, TLAPS

-----------------------------------------------------------------------------
(* The inductive invariant *)

Before == {"idle", "validate", "compare", "open"}
Using  == {"write", "close", "remove"}

\* Every command writes its own format, without --force.
Arguments == args = [c \in Command |-> [output |-> c[2], force |-> FALSE]]

\* Only the job that has made the directory has commands at work.
Belongs == \A c \in Command : at[c] # "idle" => c[1] = directory

\* The file of a command is at its own path or at none, and holds what the
\* command has come to write.
Works(c) ==
    /\ at[c] \in Before => handle[c] = NoFile
    /\ at[c] \in Using => handle[c] = c
    /\ handle[c] \in {NoFile, c}
    /\ at[c] \in {"open"} \cup Using => Result(seen[c]) # 2
    /\ code[c] = NoExit <=> at[c] # "exited"
    /\ \A f \in Format : entry[f] = c => f = c[2] /\ handle[c] = c
    /\ handle[c] = NoFile => data[c] = CLI!Nothing
    /\ at[c] = "write" => data[c] = CLI!Nothing
    /\ at[c] = "close" => data[c] = CLI!Report(c, seen[c])
    /\ code[c] \in {0, 1} =>
         /\ handle[c] = c
         /\ data[c] = CLI!Report(c, seen[c])
         /\ code[c] = Result(seen[c])

\* The job has the report in this format, with the result it goes by.
Has(j, f) ==
    /\ at[<<j, f>>] = "exited"
    /\ code[<<j, f>>] = status[j]
    /\ entry[f] = <<j, f>>

\* No command of the job can leave a report any more.
Cleared(j) ==
    \A f \in Format :
        /\ at[<<j, f>>] \in {"idle", "exited"}
        /\ \A g \in Format : entry[g] # <<j, f>>

\* How far a job has come with its three commands.
Advances(j) ==
    /\ directory = j => step[j] # "mkdir"
    /\ step[j] \in {"json", "html", "text"} => directory = j
    /\ step[j] = "mkdir" => status[j] = NoExit
    /\ step[j] = "json" =>
         status[j] = NoExit /\ at[<<j, "html">>] = "idle" /\ at[<<j, "text">>] = "idle"
    /\ step[j] = "html" => status[j] \in {0, 1} /\ Has(j, "json") /\ at[<<j, "text">>] = "idle"
    /\ step[j] = "text" => status[j] \in {0, 1} /\ Has(j, "json") /\ Has(j, "html")
    /\ step[j] \in {"outputs", "done"} =>
         /\ status[j] # NoExit
         /\ status[j] \in {0, 1} => directory = j /\ \A f \in Format : Has(j, f)
    /\ status[j] = 2 => step[j] \in {"outputs", "done", "cancelled"} /\ Cleared(j)
    /\ outcome[j] # NoExit =>
         step[j] = "done" /\ outcome[j] = IF status[j] \in {0, 1} THEN status[j] ELSE 2

IInv ==
    /\ TypeOK /\ Arguments /\ Belongs
    /\ \A c \in Command : Works(c)
    /\ \A j \in Job : Advances(j)

-----------------------------------------------------------------------------
(* Steps of the commands *)

\* A command has taken a step: nothing of another one has changed, and no path
\* but its own.
Alone(c) ==
    /\ args' = args
    /\ \A e \in Command \ {c} :
         /\ at'[e] = at[e] /\ seen'[e] = seen[e] /\ handle'[e] = handle[e]
         /\ code'[e] = code[e] /\ data'[e] = data[e]
    /\ \A f \in Format : entry'[f] = entry[f] \/ (f = c[2] /\ entry'[f] \in {NoFile, c})

CommandsInv == CLI!TypeOK /\ Arguments /\ \A c \in Command : Works(c)

\* What a command does to its own state keeps what is known of it.
LEMMA CommandStep ==
    ASSUME CommandsInv, NEW c \in Command, CLI!Start(c) \/ CLI!Step(c) \/ CLI!Kill(c)
    PROVE  CLI!TypeOK' /\ Alone(c) /\ Works(c)' /\ at'[c] # "idle" /\ at[c] # "exited"
<1> USE ReportJobAssumption
    DEF CommandsInv, CLI!TypeOK, CLI!File, CLI!Output, CLI!Forced, CLI!Go, CLI!Exit,
        Arguments, Alone, Works, Before, Using
<1>0. /\ CLI!Output(c) = c[2] /\ ~CLI!Forced(c) /\ c[2] \in Format /\ c # NoFile
      /\ data[c] \in CLI!Content /\ entry[c[2]] \in Command \cup {NoFile}
  BY DEF Command
<1>c. CLI!Nothing \in CLI!Content /\ <<"partial">> \in CLI!Content /\ <<"mixed">> \in CLI!Content
  BY DEF CLI!Content
<1>1. CASE CLI!Start(c)
  BY <1>0, <1>1 DEF CLI!Start
<1>2. CASE CLI!ValidateOutput(c)
  <2>1. at[c] = "validate" /\ UNCHANGED <<traces, args, entry, data, seen, handle>>
    BY <1>2 DEF CLI!ValidateOutput
  <2>2. CASE CLI!Exit(c, 2)
    BY <1>0, <2>1, <2>2
  <2>3. CASE CLI!Go(c, "compare") /\ UNCHANGED code
    BY <1>0, <2>1, <2>3
  <2> QED BY <1>2, <2>2, <2>3 DEF CLI!ValidateOutput
<1>3. CASE CLI!Compare(c)
  <2>1. at[c] = "compare" /\ UNCHANGED <<traces, args, entry, data, handle>>
    BY <1>3 DEF CLI!Compare
  <2>2. CASE CLI!Exit(c, 2) /\ UNCHANGED seen
    BY <1>0, <2>1, <2>2
  <2>3. CASE /\ Result(traces) # 2 /\ CLI!Go(c, "open")
             /\ seen' = [seen EXCEPT ![c] = traces] /\ UNCHANGED code
    BY <1>0, <2>1, <2>3
  <2> QED BY <1>3, <2>2, <2>3 DEF CLI!Compare
<1>4. CASE CLI!Create(c)
  BY <1>0, <1>4 DEF CLI!Create
<1>5. CASE CLI!RefuseToOverwrite(c)
  BY <1>0, <1>5 DEF CLI!RefuseToOverwrite
<1>6. CASE CLI!Truncate(c)
  BY <1>0, <1>6 DEF CLI!Truncate
<1>7. CASE CLI!Write(c)
  <2>1. /\ at[c] = "write" /\ CLI!Go(c, "close")
        /\ UNCHANGED <<traces, args, entry, seen, handle, code>>
        /\ handle[c] = c /\ data[c] = CLI!Nothing
    BY <1>7 DEF CLI!Write
  <2>2. data' = [data EXCEPT ![c] = CLI!Report(c, seen[c])]
    BY <1>7, <2>1 DEF CLI!Write, CLI!Written
  <2>3. CLI!Report(c, seen[c]) \in CLI!Content
    <3> DEFINE pair == <<c, seen[c]>>
    <3>1. pair \in Command \X Traces
      OBVIOUS
    <3>2. CLI!Report(pair[1], pair[2]) \in CLI!Content
      BY <3>1 DEF CLI!Content
    <3> QED BY <3>2
  <2> QED BY <1>0, <2>1, <2>2, <2>3
<1>8. CASE CLI!WriteFails(c)
  BY <1>0, <1>c, <1>8 DEF CLI!WriteFails
<1>9. CASE CLI!Close(c)
  <2>1. at[c] = "close" /\ handle[c] = c /\ UNCHANGED <<traces, args, entry, seen, handle>>
    BY <1>9 DEF CLI!Close
  <2>2. CASE CLI!Exit(c, Result(seen[c])) /\ UNCHANGED data
    <3>1. Result(seen[c]) \in 0..2 /\ Result(seen[c]) # NoExit
      OBVIOUS
    <3> QED BY <1>0, <2>1, <2>2, <3>1
  <2>3. CASE /\ CLI!Go(c, "remove") /\ UNCHANGED code
             /\ data' = [data EXCEPT ![handle[c]] = <<"partial">>]
    BY <1>0, <1>c, <2>1, <2>3
  <2> QED BY <1>9, <2>2, <2>3 DEF CLI!Close
<1>10. CASE CLI!Remove(c)
  BY <1>0, <1>10 DEF CLI!Remove
<1>11. CASE CLI!Fail(c)
  BY <1>0, <1>11 DEF CLI!Fail
<1>12. CASE CLI!Kill(c)
  BY <1>0, <1>12 DEF CLI!Kill
<1> QED BY <1>1, <1>2, <1>3, <1>4, <1>5, <1>6, <1>7, <1>8, <1>9, <1>10, <1>11, <1>12 DEF CLI!Step

\* It keeps the whole invariant, as a finished command is left alone.
LEMMA CommandsStep ==
    ASSUME IInv, Commands, UNCHANGED <<directory, step, status, outcome>>
    PROVE  IInv'
<1>1. PICK c \in Command : CLI!Step(c) \/ CLI!Kill(c)
  BY DEF Commands
<1>2. at[c] # "idle" /\ at[c] # "exited"
  <2>1. CASE CLI!Kill(c)
    BY <2>1 DEF CLI!Kill
  <2>2. CASE CLI!Step(c)
    BY <2>2 DEF CLI!Step, CLI!ValidateOutput, CLI!Compare, CLI!Create, CLI!RefuseToOverwrite,
                CLI!Truncate, CLI!Write, CLI!WriteFails, CLI!Close, CLI!Remove, CLI!Fail
  <2> QED BY <1>1, <2>1, <2>2
<1>3. CLI!TypeOK' /\ Alone(c) /\ Works(c)' /\ at'[c] # "idle"
  BY <1>1, CommandStep DEF IInv, TypeOK, CommandsInv
<1>4. c[1] = directory
  BY <1>2 DEF IInv, Belongs
<1>5. TypeOK' /\ Arguments'
  BY <1>3 DEF IInv, TypeOK, Arguments, Alone
<1>6. Belongs'
  BY <1>3, <1>4 DEF IInv, Belongs, Alone
<1>7. ASSUME NEW e \in Command PROVE Works(e)'
  <2>1. CASE e = c
    BY <2>1, <1>3
  <2>2. CASE e # c
    <3>1. Works(e) /\ e # NoFile
      BY ReportJobAssumption DEF IInv
    <3>2. \A f \in Format : entry'[f] = e => entry[f] = e
      BY <1>3, <2>2, <3>1 DEF Alone
    <3> QED BY <1>3, <2>2, <3>1, <3>2 DEF Alone, Works
  <2> QED BY <2>1, <2>2
<1>8. ASSUME NEW j \in Job PROVE Advances(j)'
  <2>1. Advances(j)
    BY DEF IInv
  <2>2. ASSUME NEW f \in Format, at[<<j, f>>] \in {"idle", "exited"}
        PROVE  <<j, f>> # c /\ at'[<<j, f>>] = at[<<j, f>>] /\ code'[<<j, f>>] = code[<<j, f>>]
    BY <1>2, <1>3, <2>2 DEF Alone, Command
  <2>3. ASSUME NEW f \in Format, Has(j, f), directory = j PROVE Has(j, f)'
    <3>1. f # c[2]
      BY <1>4, <2>2, <2>3 DEF Has, Command
    <3> QED BY <1>3, <2>2, <2>3, <3>1 DEF Has, Alone
  <2>4. Cleared(j) => Cleared(j)'
    <3> SUFFICES ASSUME Cleared(j), NEW f \in Format, NEW g \in Format
                 PROVE  at'[<<j, f>>] \in {"idle", "exited"} /\ entry'[g] # <<j, f>>
      BY DEF Cleared
    <3>1. at[<<j, f>>] \in {"idle", "exited"} /\ entry[g] # <<j, f>> /\ <<j, f>> # NoFile
      BY ReportJobAssumption DEF Cleared, Command
    <3> QED BY <1>3, <2>2, <3>1 DEF Alone
  <2>5. "html" \in Format /\ "text" \in Format /\ "json" \in Format
    BY DEF Format
  <2> QED BY <2>1, <2>2, <2>3, <2>4, <2>5 DEF Advances
<1> QED BY <1>5, <1>6, <1>7, <1>8 DEF IInv

-----------------------------------------------------------------------------
(* Steps of the scripts *)

\* The entry of a path is a command of the job that has made the directory.
LEMMA OwnEntry ==
    ASSUME IInv, NEW f \in Format, entry[f] # NoFile
    PROVE  directory \in Job /\ entry[f] = <<directory, f>>
<1> DEFINE c == entry[f]
<1>1. c \in Command
  BY DEF IInv, TypeOK, CLI!TypeOK, CLI!File
<1>2. c[2] = f /\ handle[c] = c /\ c # NoFile /\ Works(c)
  BY <1>1, ReportJobAssumption DEF IInv, Works
<1>3. at[c] # "idle"
  BY <1>2 DEF Works, Before
<1> QED BY <1>1, <1>2, <1>3 DEF IInv, Belongs, Command

\* A script starts a command: nothing else in the files changes.
LEMMA StartsCommand ==
    ASSUME IInv, NEW j \in Job, NEW f \in Format, CLI!Start(<<j, f>>), directory' = j,
           directory \in {NoJob, j}
    PROVE  /\ CLI!TypeOK' /\ Arguments' /\ Belongs' /\ \A c \in Command : Works(c)'
           /\ \A c \in Command : c # <<j, f>> => at'[c] = at[c]
           /\ UNCHANGED <<entry, code>>
<1> DEFINE c == <<j, f>>
<1>1. c \in Command
  BY DEF Command
<1>2. CLI!TypeOK' /\ Alone(c) /\ Works(c)'
  BY <1>1, CommandStep DEF IInv, TypeOK, CommandsInv
<1>3. UNCHANGED <<entry, code, data, handle, seen, args>>
  BY DEF CLI!Start
<1>4. \A e \in Command : e # c => at'[e] = at[e]
  BY <1>2 DEF Alone
<1>5. \A e \in Command : at[e] # "idle" => e[1] = j
  BY ReportJobAssumption DEF IInv, Belongs, Command
<1>6. Belongs'
  BY <1>4, <1>5 DEF Belongs
<1>7. ASSUME NEW e \in Command, e # c PROVE Works(e)'
  BY <1>3, <1>4, <1>7 DEF IInv, Works
<1> QED BY <1>2, <1>3, <1>4, <1>6, <1>7 DEF IInv, Arguments

\* A script removes reports when none of its commands is at work.
LEMMA Removal ==
    ASSUME IInv, NEW j \in Job, directory = j,
           \A f \in Format : at[<<j, f>>] \in {"idle", "exited"},
           NEW formats \in SUBSET Format, RemoveReports(formats),
           \A f \in Format \ formats : at[<<j, f>>] = "idle"
    PROVE  /\ CLI!TypeOK' /\ Arguments' /\ \A c \in Command : Works(c)'
           /\ Cleared(j)'
<1> USE DEF RemoveReports
<1>1. \A f \in Format : entry'[f] = IF f \in formats THEN NoFile ELSE entry[f]
  OBVIOUS
<1>2. entry' \in [Format -> Command \cup {NoFile}]
  BY DEF IInv, TypeOK, CLI!TypeOK, CLI!File
<1>3. CLI!TypeOK' /\ Arguments'
  BY <1>2 DEF IInv, TypeOK, CLI!TypeOK, CLI!File, Arguments
<1>4. ASSUME NEW c \in Command PROVE Works(c)'
  <2>1. Works(c) /\ c # NoFile
    BY ReportJobAssumption DEF IInv
  <2>2. \A f \in Format : entry'[f] = c => entry[f] = c
    BY <1>1, <2>1
  <2> QED BY <2>1, <2>2 DEF Works
<1>5. ASSUME NEW f \in Format, NEW g \in Format PROVE entry'[g] # <<j, f>>
  <2>1. <<j, f>> \in Command /\ <<j, f>> # NoFile
    BY ReportJobAssumption DEF Command
  <2>2. CASE g \in formats
    BY <1>1, <2>1, <2>2
  <2>3. CASE g \notin formats
    <3>1. at[<<j, g>>] = "idle" /\ entry'[g] = entry[g]
      BY <1>1, <2>3
    <3>2. entry[g] = <<j, f>> => g = f /\ handle[<<j, f>>] = <<j, f>>
      BY <2>1 DEF IInv, Works
    <3>3. handle[<<j, g>>] = NoFile
      BY <3>1 DEF IInv, Works, Before, Command
    <3> QED BY <2>1, <3>1, <3>2, <3>3
  <2> QED BY <2>2, <2>3
<1> QED BY <1>3, <1>4, <1>5 DEF Cleared

\* A script that touches no file moves the job on.
LEMMA QuietStep ==
    ASSUME IInv, NEW j \in Job, UNCHANGED <<args, entry, data, at, seen, handle, code, directory>>,
           traces' \in Traces,
           step' \in [Job -> {"mkdir", "json", "html", "text", "outputs", "done", "cancelled"}],
           status' \in [Job -> 0..2 \cup {NoExit, Killed}],
           outcome' \in [Job -> 0..2 \cup {NoExit}],
           \A k \in Job \ {j} :
             step'[k] = step[k] /\ status'[k] = status[k] /\ outcome'[k] = outcome[k],
           Advances(j)'
    PROVE  IInv'
<1>1. TypeOK' /\ Arguments' /\ Belongs'
  BY DEF IInv, TypeOK, CLI!TypeOK, CLI!File, Arguments, Belongs
<1>2. \A c \in Command : Works(c)'
  BY DEF IInv, Works
<1>3. ASSUME NEW k \in Job, k # j PROVE Advances(k)'
  BY <1>3 DEF IInv, Advances, Has, Cleared
<1> QED BY <1>1, <1>2, <1>3 DEF IInv

\* A script starts the next command, or removes reports: the others are not
\* concerned, since the directory is not theirs.
LEMMA OthersAdvance ==
    ASSUME IInv, NEW j \in Job, directory \in {NoJob, j}, directory' = j,
           \A k \in Job \ {j} :
             step'[k] = step[k] /\ status'[k] = status[k] /\ outcome'[k] = outcome[k],
           \A c \in Command : c[1] # j => at'[c] = at[c],
           \A f \in Format : entry'[f] \in {NoFile, entry[f]},
           NEW k \in Job \ {j}
    PROVE  Advances(k)'
<1>1. directory # k /\ Advances(k) /\ NoJob # k
  BY ReportJobAssumption DEF IInv
<1>2. /\ step[k] \notin {"json", "html", "text"}
      /\ status[k] \in {0, 1} => step[k] \notin {"outputs", "done"}
  BY <1>1 DEF Advances
<1>3. Cleared(k) => Cleared(k)'
  <2> SUFFICES ASSUME Cleared(k), NEW f \in Format, NEW g \in Format
               PROVE  at'[<<k, f>>] \in {"idle", "exited"} /\ entry'[g] # <<k, f>>
    BY DEF Cleared
  <2>1. at[<<k, f>>] \in {"idle", "exited"} /\ entry[g] # <<k, f>> /\ <<k, f>> # NoFile
    BY ReportJobAssumption DEF Cleared, Command
  <2> QED BY <2>1 DEF Command
<1> QED BY <1>1, <1>2, <1>3 DEF Advances

LEMMA JobProgress == ASSUME IInv, NEW j \in Job, JobStep(j) PROVE IInv'
<1> USE ReportJobAssumption DEF Goto, GiveUp
<1>t. /\ Advances(j) /\ TypeOK /\ traces \in Traces
      /\ \A f \in {"json", "html", "text"} : f \in Format /\ <<j, f>> \in Command
      /\ Format = {"json", "html", "text"}
  BY DEF IInv, TypeOK, CLI!TypeOK, Format, Command
<1>1. CASE MakeDirectory(j)
  <2> USE <1>1 DEF MakeDirectory
  <2>1. /\ CLI!TypeOK' /\ Arguments' /\ Belongs' /\ \A c \in Command : Works(c)'
        /\ \A c \in Command : c # <<j, "json">> => at'[c] = at[c]
        /\ UNCHANGED <<entry, code>>
    BY <1>t, StartsCommand
  <2>2. TypeOK'
    BY <1>t, <2>1 DEF TypeOK
  <2>3. \A k \in Job \ {j} : Advances(k)'
    <3>1. \A c \in Command : c[1] # j => at'[c] = at[c]
      BY <2>1
    <3> QED BY <1>t, <2>1, <3>1, OthersAdvance DEF TypeOK
  <2>4. Advances(j)'
    <3>1. at[<<j, "html">>] = "idle" /\ at[<<j, "text">>] = "idle"
      BY <1>t DEF IInv, Belongs
    <3> QED BY <1>t, <2>1, <3>1 DEF Advances, TypeOK
  <2> QED BY <2>1, <2>2, <2>3, <2>4 DEF IInv
<1>2. CASE Refused(j)
  <2> USE <1>2 DEF Refused, files
  <2>1. directory # j
    BY <1>t DEF Advances
  <2>2. Cleared(j)
    <3>1. \A f \in Format : at[<<j, f>>] = "idle"
      BY <2>1 DEF IInv, Belongs, Command
    <3>2. ASSUME NEW f \in Format, NEW g \in Format, entry[g] = <<j, f>> PROVE FALSE
      <4>1. entry[g] # NoFile
        BY <3>2 DEF Command
      <4> QED BY <2>1, <3>2, <4>1, OwnEntry
    <3> QED BY <3>1, <3>2 DEF Cleared
  <2>3. Advances(j)'
    BY <1>t, <2>1, <2>2 DEF Advances, Cleared, TypeOK
  <2> QED BY <1>t, <2>3, QuietStep DEF TypeOK
<1>3. CASE JsonCompleted(j)
  <2> USE <1>3 DEF JsonCompleted, Exited, Completed
  <2>0. directory = j /\ at[<<j, "text">>] = "idle"
    BY <1>t DEF Advances
  <2>1. /\ CLI!TypeOK' /\ Arguments' /\ Belongs' /\ \A c \in Command : Works(c)'
        /\ \A c \in Command : c # <<j, "html">> => at'[c] = at[c]
        /\ UNCHANGED <<entry, code>>
    BY <1>t, <2>0, StartsCommand
  <2>2. TypeOK'
    BY <1>t, <2>1 DEF TypeOK
  <2>3. \A k \in Job \ {j} : Advances(k)'
    <3>1. \A c \in Command : c[1] # j => at'[c] = at[c]
      BY <2>1
    <3> QED BY <1>t, <2>0, <2>1, <3>1, OthersAdvance DEF TypeOK
  <2>4. entry["json"] = <<j, "json">>
    BY <1>t, <2>0, OwnEntry
  <2>5. Advances(j)'
    BY <1>t, <2>0, <2>1, <2>4 DEF Advances, Has, TypeOK
  <2> QED BY <2>1, <2>2, <2>3, <2>5 DEF IInv
<1>4. CASE HtmlCompleted(j)
  <2> USE <1>4 DEF HtmlCompleted, Exited, Completed
  <2>0. directory = j /\ Has(j, "json")
    BY <1>t DEF Advances
  <2>1. /\ CLI!TypeOK' /\ Arguments' /\ Belongs' /\ \A c \in Command : Works(c)'
        /\ \A c \in Command : c # <<j, "text">> => at'[c] = at[c]
        /\ UNCHANGED <<entry, code>>
    BY <1>t, <2>0, StartsCommand
  <2>2. TypeOK'
    BY <1>t, <2>1 DEF TypeOK
  <2>3. \A k \in Job \ {j} : Advances(k)'
    <3>1. \A c \in Command : c[1] # j => at'[c] = at[c]
      BY <2>1
    <3> QED BY <1>t, <2>0, <2>1, <3>1, OthersAdvance
  <2>4. entry["html"] = <<j, "html">>
    BY <1>t, <2>0, OwnEntry
  <2>5. Advances(j)'
    BY <1>t, <2>0, <2>1, <2>4 DEF Advances, Has, TypeOK
  <2> QED BY <2>1, <2>2, <2>3, <2>5 DEF IInv
<1>5. ASSUME NEW formats \in SUBSET Format, RemoveReports(formats), GiveUp(j),
             UNCHANGED <<directory, outcome>>, directory = j, step[j] \in Format,
             \A f \in Format : at[<<j, f>>] \in {"idle", "exited"},
             \A f \in Format \ formats : at[<<j, f>>] = "idle"
      PROVE  IInv'
  <2> USE <1>5
  <2>1. /\ CLI!TypeOK' /\ Arguments' /\ \A c \in Command : Works(c)'
        /\ Cleared(j)'
    BY Removal
  <2>2. TypeOK' /\ Belongs'
    BY <1>t, <2>1 DEF TypeOK, IInv, Belongs, RemoveReports
  <2>3. \A k \in Job \ {j} : Advances(k)'
    <3>1. \A f \in Format : entry'[f] \in {NoFile, entry[f]}
      BY DEF RemoveReports
    <3>2. at' = at
      BY DEF RemoveReports
    <3> QED BY <1>t, <3>1, <3>2, OthersAdvance DEF TypeOK
  <2>4. Advances(j)'
    BY <1>t, <2>1 DEF Advances, TypeOK
  <2> QED BY <2>1, <2>2, <2>3, <2>4 DEF IInv
<1>6. CASE PartialReports(j)
  <2>1. step[j] \in {"json", "html"} /\ at[<<j, step[j]>>] = "exited"
    BY <1>6 DEF PartialReports, Exited
  <2>2. directory = j /\ at[<<j, "text">>] = "idle"
        /\ at[<<j, "json">>] = "exited" /\ at[<<j, "html">>] \in {"idle", "exited"}
    BY <1>t, <2>1 DEF Advances, Has
  <2> QED BY <1>t, <1>5, <1>6, <2>1, <2>2 DEF PartialReports
<1>7. CASE TextCompleted(j)
  <2> USE <1>7 DEF TextCompleted, Exited, TextAgrees, Completed, files
  <2>1. directory = j
    BY <1>t DEF Advances
  <2>2. entry["text"] = <<j, "text">>
    BY <1>t, <2>1, OwnEntry
  <2>3. Advances(j)'
    BY <1>t, <2>1, <2>2 DEF Advances, Has, TypeOK
  <2> QED BY <1>t, <2>3, QuietStep DEF TypeOK
<1>8. CASE TextDisagrees(j)
  <2>1. step[j] = "text" /\ at[<<j, "text">>] = "exited"
    BY <1>8 DEF TextDisagrees, Exited
  <2>2. directory = j /\ at[<<j, "json">>] = "exited" /\ at[<<j, "html">>] = "exited"
    BY <1>t, <2>1 DEF Advances, Has
  <2> QED BY <1>t, <1>5, <1>8, <2>1, <2>2 DEF TextDisagrees
<1>9. CASE WriteOutputs(j)
  <2> USE <1>9 DEF WriteOutputs, files
  <2>1. Advances(j)'
    BY <1>t DEF Advances, Has, Cleared, TypeOK
  <2> QED BY <1>t, <2>1, QuietStep DEF TypeOK
<1> QED BY <1>1, <1>2, <1>3, <1>4, <1>6, <1>7, <1>8, <1>9 DEF JobStep

-----------------------------------------------------------------------------
(* The theorems *)

LEMMA InitInv == ASSUME Init PROVE IInv
<1> USE ReportJobAssumption DEF Init, CLI!Init
<1>1. \A c \in Command : c \notin {} /\ c # NoFile
  OBVIOUS
<1>2. \A f \in Format : entry[f] = NoFile
  OBVIOUS
<1>3. CLI!TypeOK
  <2>1. args \in [Command -> [output : Format, force : BOOLEAN]]
    BY DEF Command
  <2> QED BY <1>2, <2>1 DEF CLI!TypeOK, CLI!File, CLI!Content
<1>4. TypeOK /\ Arguments /\ Belongs
  BY <1>3 DEF TypeOK, Arguments, Belongs
<1>5. \A c \in Command : Works(c)
  BY <1>1, <1>2 DEF Works, Using, CLI!File
<1>6. \A j \in Job : Advances(j)
  BY DEF Advances
<1> QED BY <1>4, <1>5, <1>6 DEF IInv

LEMMA NextStep == ASSUME IInv, [Next]_vars PROVE IInv'
<1>1. CASE UNCHANGED vars
  <2>1. TypeOK' /\ Arguments' /\ Belongs'
    BY <1>1 DEF vars, files, IInv, TypeOK, CLI!TypeOK, CLI!File, Arguments, Belongs
  <2>2. (\A c \in Command : Works(c)') /\ \A j \in Job : Advances(j)'
    BY <1>1 DEF vars, files, IInv, Works, Advances, Has, Cleared
  <2> QED BY <2>1, <2>2 DEF IInv
<1>2. CASE Commands /\ UNCHANGED <<directory, step, status, outcome>>
  BY <1>2, CommandsStep
<1>3. ASSUME NEW j \in Job, JobStep(j) \/ Cancel(j) \/ KillWrapper(j) PROVE IInv'
  <2>t. Advances(j) /\ TypeOK /\ traces \in Traces
    BY DEF IInv, TypeOK, CLI!TypeOK
  <2>1. CASE Cancel(j)
    <3>1. Advances(j)'
      BY <2>t, <2>1, ReportJobAssumption DEF Cancel, Goto, files, Advances, Cleared, TypeOK
    <3> QED BY <2>t, <2>1, <3>1, QuietStep DEF Cancel, Goto, files, TypeOK
  <2>2. CASE KillWrapper(j)
    <3>1. Advances(j)'
      BY <2>t, <2>2, ReportJobAssumption DEF KillWrapper, Goto, files, Advances, TypeOK
    <3> QED BY <2>t, <2>2, <3>1, QuietStep DEF KillWrapper, Goto, files, TypeOK
  <2> QED BY <1>3, <2>1, <2>2, JobProgress
<1>4. CASE ChangeInputs
  <2> USE <1>4 DEF ChangeInputs
  <2>1. TypeOK' /\ Arguments' /\ Belongs'
    BY DEF IInv, TypeOK, CLI!TypeOK, CLI!File, Arguments, Belongs
  <2>2. (\A c \in Command : Works(c)') /\ \A j \in Job : Advances(j)'
    BY DEF IInv, Works, Advances, Has, Cleared
  <2> QED BY <2>1, <2>2 DEF IInv
<1> QED BY <1>1, <1>2, <1>3, <1>4 DEF Next

\* The inductive invariant holds however jobs compete, fail, are killed or
\* cancelled, and whatever the inputs become meanwhile.
THEOREM Invariance == Spec => []IInv
<1>1. Init => IInv
  BY InitInv
<1>2. IInv /\ [Next]_vars => IInv'
  BY NextStep
<1> QED BY <1>1, <1>2, PTL DEF Spec

\* The state of the scripts, their commands and the reports stays of its type.
THEOREM TypeCorrect == Spec => []TypeOK
<1>1. IInv => TypeOK
  BY DEF IInv
<1> QED BY <1>1, Invariance, PTL

\* An outcome of 0 or 1 promises three complete reports with that result, made
\* by the job's own commands, and they stay.
THEOREM ReportsStay == Spec => []ReportsKept
<1>1. IInv => ReportsKept
  <2> SUFFICES ASSUME IInv, NEW j \in Job, outcome[j] \in {0, 1}, NEW f \in Format
               PROVE  /\ entry[f] = <<j, f>>
                      /\ data[<<j, f>>] = CLI!Report(<<j, f>>, seen[<<j, f>>])
                      /\ Result(seen[<<j, f>>]) = outcome[j]
    BY DEF ReportsKept
  <2>1. outcome[j] # NoExit
    BY ReportJobAssumption
  <2>2. Advances(j)
    BY DEF IInv
  <2>3. outcome[j] = IF status[j] \in {0, 1} THEN status[j] ELSE 2
    BY <2>1, <2>2 DEF Advances
  <2>4. status[j] \in {0, 1} /\ outcome[j] = status[j] /\ step[j] = "done"
    BY <2>1, <2>2, <2>3 DEF Advances
  <2>5. Has(j, f)
    BY <2>2, <2>4 DEF Advances
  <2>6. Works(<<j, f>>)
    BY DEF IInv, Command
  <2> QED BY <2>4, <2>5, <2>6 DEF Has, Works
<1> QED BY <1>1, Invariance, PTL

\* An outcome of 2 promises that no report of the job is left, unless the
\* script that would have removed it was killed.
THEOREM ErrorsClean == Spec => []ErrorKeepsNothing
<1>1. IInv => ErrorKeepsNothing
  <2> SUFFICES ASSUME IInv, NEW j \in Job, outcome[j] = 2, status[j] # Killed
               PROVE  Cleared(j)
    BY DEF ErrorKeepsNothing, Cleared
  <2>1. outcome[j] # NoExit
    BY ReportJobAssumption
  <2>2. Advances(j) /\ status[j] \in 0..2 \cup {NoExit, Killed}
    BY DEF IInv, TypeOK
  <2>3. status[j] \notin {0, 1} /\ step[j] = "done"
    BY <2>1, <2>2 DEF Advances
  <2>4. status[j] # NoExit
    BY <2>2, <2>3 DEF Advances
  <2>5. status[j] = 2
    BY <2>2, <2>3, <2>4
  <2> QED BY <2>2, <2>5 DEF Advances
<1> QED BY <1>1, Invariance, PTL
=============================================================================
