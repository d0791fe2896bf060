----------------------- MODULE CompareCommand_proofs -----------------------
(***************************************************************************)
(* Theorems about CompareCommand, for any number of processes and paths:   *)
(* the inputs are never touched, a success is there to stay, a failure     *)
(* leaves nothing, and without --force nobody touches a foreign file.      *)
(***************************************************************************)
EXTENDS CompareCommand, TLAPS

-----------------------------------------------------------------------------
(* The inductive invariant *)

Before == {"idle", "validate", "compare", "open"}
Using  == {"write", "close", "remove"}

\* Where a process is, whether it has a file, whether it has exited and whether
\* its comparison succeeded go together.
Stages ==
    \A p \in Proc :
        /\ at[p] \in Before => handle[p] = NoFile
        /\ at[p] \in {"open"} \cup Using => Result(seen[p]) # 2
        /\ code[p] = NoExit <=> at[p] # "exited"

\* A validated output stays apart from the inputs: no path is ever given to an
\* old file, so what SameTarget found cannot change for the worse.
Apart ==
    \A p \in Proc : at[p] \in {"compare", "open"} \cup Using =>
        /\ Output(p) \notin Input
        /\ at[p] \in {"compare", "open"} => \A i \in Input : entry[Output(p)] # entry[i]

\* A path names a process's file only if that process has created it there.
Named ==
    \A path \in Path, p \in Proc : entry[path] = p => path = Output(p) /\ handle[p] = p

\* An open file is no input; who has a foreign process's file has it by --force,
\* and at the path of that process.
Handles ==
    \A p \in Proc :
        /\ handle[p] # NoFile => \A i \in Input : handle[p] # entry[i]
        /\ ~Forced(p) => handle[p] \in {NoFile, p}
        /\ \A f \in Proc : handle[p] = f /\ f # p =>
             Forced(p) /\ handle[f] = f /\ Output(p) = Output(f)

\* The path keeps the file of a process without --force until that process
\* removes it or is killed.
Held ==
    \A p \in Proc :
        ~Forced(p) /\ handle[p] = p /\ (at[p] \in Using \/ code[p] \in {0, 1}) =>
            entry[Output(p)] = p

\* What a file holds that nobody with --force has opened.
Unspoilt ==
    \A p \in Proc :
        /\ handle[p] # p => data[p] = Nothing
        /\ ~Forced(p) /\ ~Replaced(Output(p)) =>
             /\ at[p] = "write" => data[p] = Nothing
             /\ at[p] = "close" => data[p] = Report(p, seen[p])

\* A success is one of a process that has opened its output.
Opened == \A p \in Proc : code[p] \in {0, 1} => handle[p] # NoFile

IInv ==
    /\ TypeOK /\ Stages /\ Apart /\ Named /\ Handles /\ Held /\ Unspoilt /\ Opened
    /\ InputsKept /\ SuccessKept /\ FailureLeavesNothing

-----------------------------------------------------------------------------
(* The initial states *)

LEMMA InitInv == ASSUME Init PROVE IInv
<1> USE CompareCommandAssumption DEF Init
<1>1. TypeOK
  BY DEF TypeOK, File, Content
<1>2. \A p \in Proc : at[p] = "idle" /\ handle[p] = NoFile /\ code[p] = NoExit
                       /\ NoFile # p /\ data[p] = Nothing
  BY DEF File
<1>3. \A path \in Path : entry[path] \in Old \cup {NoFile}
  OBVIOUS
<1>4. \A path \in Path, p \in Proc : entry[path] # p
  BY <1>3
<1>5. Stages /\ Apart /\ Held /\ Unspoilt /\ Opened
  <2>1. \A p \in Proc : code[p] # 0 /\ code[p] # 1 /\ code[p] # 2
    BY <1>2
  <2>2. Stages /\ Apart
    BY <1>2 DEF Stages, Apart, Using
  <2>3. Held /\ Unspoilt /\ Opened
    BY <1>2, <2>1 DEF Held, Unspoilt, Opened, Using
  <2> QED BY <2>2, <2>3
<1>6. Handles
  BY <1>2 DEF Handles
<1>7. InputsKept
  BY <1>3 DEF InputsKept, File
<1>8. Named
  BY <1>4 DEF Named
<1>9. SuccessKept /\ FailureLeavesNothing
  BY <1>2, <1>4 DEF SuccessKept, FailureLeavesNothing
<1> QED BY <1>1, <1>5, <1>6, <1>7, <1>8, <1>9 DEF IInv

-----------------------------------------------------------------------------
(* Steps that touch neither a file nor a path *)

Same(q) == at'[q] = at[q] /\ seen'[q] = seen[q] /\ handle'[q] = handle[q] /\ code'[q] = code[q]

\* A process moves on, or exits without success, and touches nothing.
Quiet(p) ==
    /\ UNCHANGED <<traces, args, entry, data, handle>>
    /\ \/ /\ at[p] = "idle" /\ Go(p, "validate") /\ UNCHANGED <<seen, code>>
       \/ /\ at[p] = "validate" /\ ~SameTarget(p) /\ Go(p, "compare") /\ UNCHANGED <<seen, code>>
       \/ /\ at[p] = "compare" /\ Result(traces) # 2 /\ Go(p, "open")
          /\ seen' = [seen EXCEPT ![p] = traces] /\ UNCHANGED code
       \/ /\ at[p] \in Before /\ Exit(p, 2) /\ UNCHANGED seen
       \/ /\ at[p] \notin {"idle", "exited"} /\ Exit(p, Killed) /\ UNCHANGED seen

LEMMA QuietStep == ASSUME IInv, NEW p \in Proc, Quiet(p) PROVE IInv'
<1> USE CompareCommandAssumption DEF IInv
<1>1. /\ UNCHANGED <<traces, args, entry, data, handle>>
      /\ at'[p] \notin Using
      /\ code'[p] # 0 /\ code'[p] # 1
      /\ at'[p] \in Before => at[p] \in Before
      /\ code'[p] = 2 => at[p] \in Before
      /\ code'[p] = NoExit <=> at'[p] # "exited"
      /\ at'[p] \in {"compare", "open"} => at[p] = "compare" \/ ~SameTarget(p)
  <2> USE DEF Quiet, Go, Exit, TypeOK, Stages, Before, Using
  <2>1. CASE at[p] = "idle" /\ Go(p, "validate") /\ UNCHANGED <<seen, code>>
    BY <2>1
  <2>2. CASE at[p] = "validate" /\ ~SameTarget(p) /\ Go(p, "compare") /\ UNCHANGED <<seen, code>>
    BY <2>2
  <2>3. CASE at[p] = "compare" /\ Go(p, "open") /\ UNCHANGED code
    BY <2>3
  <2>4. CASE at[p] \in Before /\ Exit(p, 2)
    BY <2>4
  <2>5. CASE at[p] \notin {"idle", "exited"} /\ Exit(p, Killed)
    BY <2>5
  <2> QED BY <2>1, <2>2, <2>3, <2>4, <2>5
<1>2. \A q \in Proc \ {p} : Same(q)
  BY DEF Quiet, Go, Exit, TypeOK, Same
<1>3. TypeOK'
  <2>1. at' \in [Proc -> {"idle", "validate", "compare", "open", "write", "close", "remove", "exited"}]
    BY DEF TypeOK, Quiet, Go, Exit
  <2>2. seen' \in [Proc -> Traces]
    BY DEF TypeOK, Quiet
  <2>3. code' \in [Proc -> 0..2 \cup {NoExit, Killed}]
    BY DEF TypeOK, Quiet, Exit
  <2>4. \A q \in Proc : at'[q] \in Using => handle[q] # NoFile
    BY <1>1, <1>2 DEF TypeOK, Using, Same
  <2> QED BY <1>1, <2>1, <2>2, <2>3, <2>4 DEF TypeOK, Using
<1>4. Stages'
  <2>1. at'[p] = "open" => Result(seen'[p]) # 2
    BY DEF Quiet, Go, Exit, TypeOK, Before
  <2> QED BY <1>1, <1>2, <2>1 DEF Stages, Same
<1>5. Apart'
  <2> SUFFICES ASSUME NEW q \in Proc, (at[q] \in {"compare", "open"} \cup Using)'
               PROVE  /\ Output(q)' \notin Input
                      /\ at'[q] \in {"compare", "open"} => \A i \in Input : entry[Output(q)] # entry[i]
    BY <1>1 DEF Apart, Output
  <2>1. CASE q # p
    BY <2>1, <1>1, <1>2 DEF Apart, Output, Same
  <2>2. CASE q = p /\ at[p] = "compare"
    BY <2>2, <1>1 DEF Apart, Output
  <2>3. CASE q = p /\ ~SameTarget(p)
    BY <2>3, <1>1 DEF SameTarget, Output, InputsKept, TypeOK
  <2> QED BY <2>1, <2>2, <2>3, <1>1
<1>6. Named' /\ Handles' /\ InputsKept'
  BY <1>1 DEF Named, Handles, InputsKept, Output, Forced
<1>7. Held' /\ Opened'
  BY <1>1, <1>2 DEF Held, Opened, Output, Forced, Same
<1>8. Unspoilt'
  BY <1>1, <1>2 DEF Unspoilt, Replaced, Output, Forced, Using, Same
<1>9. SuccessKept'
  BY <1>1, <1>2 DEF SuccessKept, Replaced, Output, Forced, Same
<1>10. FailureLeavesNothing'
  BY <1>1, <1>2 DEF FailureLeavesNothing, Forced, Stages, Named, Same, TypeOK
<1> QED BY <1>3, <1>4, <1>5, <1>6, <1>7, <1>8, <1>9, <1>10

-----------------------------------------------------------------------------
(* Steps with an output file *)

LEMMA CreateStep == ASSUME IInv, NEW p \in Proc, Create(p) PROVE IInv'
<1> USE CompareCommandAssumption DEF IInv
<1>1. /\ UNCHANGED <<traces, args, data, seen, code>>
      /\ at[p] = "open" /\ at'[p] = "write"
      /\ handle[p] = NoFile /\ handle'[p] = p
      /\ Output(p) \in Path /\ Output(p) \notin Input
      /\ entry[Output(p)] = NoFile /\ entry'[Output(p)] = p
      /\ p \notin Old /\ p # NoFile /\ data[p] = Nothing /\ code[p] = NoExit
  BY DEF Create, Go, TypeOK, Stages, Before, Apart, Unspoilt, Output
<1>2. \A q \in Proc \ {p} : Same(q)
  BY DEF Create, Go, TypeOK, Same
<1>3. \A path \in Path \ {Output(p)} : entry'[path] = entry[path]
  BY DEF Create, TypeOK
<1>4. \A path \in Path : entry[path] # p
  BY <1>1 DEF Named
<1>5. \A path : Replaced(path) => Replaced(path)'
  BY <1>1, <1>2 DEF Replaced, Output, Forced, Same
<1>6. TypeOK'
  <2>1. at' \in [Proc -> {"idle", "validate", "compare", "open", "write", "close", "remove", "exited"}]
    BY DEF TypeOK, Create, Go
  <2>2. entry' \in [Path -> File \cup {NoFile}] /\ handle' \in [Proc -> File \cup {NoFile}]
    BY DEF TypeOK, Create, File
  <2>3. \A q \in Proc : at'[q] \in {"write", "close", "remove"} => handle'[q] # NoFile
    BY <1>1, <1>2 DEF TypeOK, Same
  <2> QED BY <1>1, <2>1, <2>2, <2>3 DEF TypeOK
<1>7. Stages'
  BY <1>1, <1>2 DEF Stages, Same, Before, Using
<1>8. \A i \in Input : i \in Path /\ entry'[i] = entry[i] /\ entry[i] \in Old
  BY <1>1, <1>3 DEF InputsKept
<1>9. InputsKept'
  BY <1>1, <1>8 DEF InputsKept
<1>10. Apart'
  <2> SUFFICES ASSUME NEW q \in Proc, (at[q] \in {"compare", "open"} \cup Using)'
               PROVE  /\ Output(q) \notin Input
                      /\ at'[q] \in {"compare", "open"} => \A i \in Input : entry'[Output(q)] # entry'[i]
    BY <1>1 DEF Apart, Output
  <2>1. CASE q = p
    BY <2>1, <1>1
  <2>2. CASE q # p /\ Output(q) = Output(p)
    BY <2>2, <1>1, <1>8
  <2>3. CASE q # p /\ Output(q) # Output(p)
    BY <2>3, <1>1, <1>2, <1>3, <1>8 DEF Apart, Same, TypeOK, Output
  <2> QED BY <2>1, <2>2, <2>3
<1>11. Named'
  BY <1>1, <1>2, <1>3, <1>4 DEF Named, Same, Output
<1>12. Handles'
  <2>1. handle'[p] # NoFile => \A i \in Input : handle'[p] # entry'[i]
    BY <1>1, <1>8
  <2>2. \A q \in Proc : handle[q] = p => FALSE
    BY <1>1 DEF Handles
  <2> QED BY <1>1, <1>2, <1>8, <2>1, <2>2 DEF Handles, Same, Forced, Output
<1>13. Held'
  BY <1>1, <1>2, <1>3 DEF Held, Same, Forced, Output, TypeOK
<1>14. Unspoilt'
  BY <1>1, <1>2, <1>5 DEF Unspoilt, Same, Forced, Output
<1>15. Opened'
  BY <1>1, <1>2 DEF Opened, Same
<1>16. SuccessKept'
  <2> SUFFICES ASSUME NEW q \in Proc, code[q] \in {0, 1}, ~Forced(q), ~Replaced(Output(q))'
               PROVE  entry'[Output(q)] = q /\ data[q] = Report(q, seen[q]) /\ code[q] = Result(seen[q])
    BY <1>1 DEF SuccessKept, Forced, Output
  <2>1. ~Replaced(Output(q))
    BY <1>1, <1>5 DEF Output
  <2>2. entry[Output(q)] = q /\ data[q] = Report(q, seen[q]) /\ code[q] = Result(seen[q])
    BY <2>1 DEF SuccessKept
  <2>3. Output(q) \in Path /\ q # NoFile
    BY DEF TypeOK, Output
  <2> QED BY <1>1, <1>3, <2>2, <2>3
<1>17. FailureLeavesNothing'
  BY <1>1, <1>2, <1>3 DEF FailureLeavesNothing, Forced, Same
<1> QED BY <1>6, <1>7, <1>9, <1>10, <1>11, <1>12, <1>13, <1>14, <1>15, <1>16, <1>17

\* Write, WriteFails and Close: the file that p has opened may change, and p goes
\* on to close it, to remove it, or exits.
WritesOn(p) ==
    /\ UNCHANGED <<traces, args, entry, seen, handle>>
    /\ \/ data' = data
       \/ \E c \in Content : data' = [data EXCEPT ![handle[p]] = c]
    /\ \/ /\ at[p] = "write" /\ Go(p, "close") /\ UNCHANGED code
          /\ data[handle[p]] = Nothing => data'[handle[p]] = Report(p, seen[p])
       \/ at[p] \in {"write", "close"} /\ Go(p, "remove") /\ UNCHANGED code
       \/ at[p] = "close" /\ Exit(p, Result(seen[p])) /\ UNCHANGED data

LEMMA WritingStep == ASSUME IInv, NEW p \in Proc, WritesOn(p) PROVE IInv'
<1> USE CompareCommandAssumption DEF IInv
<1>1. /\ UNCHANGED <<traces, args, entry, seen, handle>>
      /\ at[p] \in {"write", "close"} /\ at'[p] \in {"close", "remove", "exited"}
      /\ handle[p] \in File
      /\ at'[p] = "close" => at[p] = "write" /\ (data[handle[p]] = Nothing => data'[handle[p]] = Report(p, seen[p]))
      /\ at'[p] = "exited" => at[p] = "close" /\ data' = data /\ code'[p] = Result(seen[p])
      /\ at'[p] # "exited" => code'[p] = NoExit
      /\ Result(seen[p]) \in {0, 1}
  BY DEF WritesOn, Go, Exit, TypeOK, Stages, Using
<1>2. \A q \in Proc \ {p} : Same(q)
  BY DEF WritesOn, Go, Exit, TypeOK, Same
<1>3. \A f \in File : f # handle[p] => data'[f] = data[f]
  BY DEF WritesOn, TypeOK
<1>4. TypeOK'
  <2>1. at' \in [Proc -> {"idle", "validate", "compare", "open", "write", "close", "remove", "exited"}]
    BY DEF TypeOK, WritesOn, Go, Exit
  <2>2. data' \in [File -> Content]
    BY <1>1 DEF TypeOK, WritesOn
  <2>3. code' \in [Proc -> 0..2 \cup {NoExit, Killed}]
    BY <1>1 DEF TypeOK, WritesOn, Exit
  <2>4. \A q \in Proc : at'[q] \in Using => handle[q] # NoFile
    BY <1>1, <1>2 DEF TypeOK, Same, Using
  <2> QED BY <1>1, <2>1, <2>2, <2>3, <2>4 DEF TypeOK, Using
<1>5. Stages'
  BY <1>1, <1>2 DEF Stages, Same, Before, Using
<1>6. Apart' /\ Named' /\ Handles'
  BY <1>1, <1>2 DEF Apart, Named, Handles, Same, Output, Forced, Using
<1>7. InputsKept'
  <2>1. \A i \in Input : entry[i] # handle[p]
    BY <1>1 DEF Handles, File
  <2> QED BY <1>1, <1>3, <2>1 DEF InputsKept, File
<1>8. Held' /\ Opened'
  BY <1>1, <1>2 DEF Held, Opened, Same, Output, Forced, Using, TypeOK
<1>9. \A q \in Proc : ~Forced(q) /\ ~Replaced(Output(q)) /\ q # p => data'[q] = data[q]
  BY <1>1, <1>3 DEF Handles, Replaced, File
<1>10. ~Forced(p) => handle[p] = p
  BY <1>1 DEF Handles, File
<1>11. Unspoilt'
  <2>1. \A q \in Proc : handle[q] # q => data'[q] = Nothing
    BY <1>3 DEF Unspoilt, Handles, File
  <2>2. ASSUME NEW q \in Proc, ~Forced(q), ~Replaced(Output(q))
        PROVE  /\ at'[q] = "write" => data'[q] = Nothing
               /\ at'[q] = "close" => data'[q] = Report(q, seen[q])
    BY <1>1, <1>2, <1>9, <1>10, <2>2 DEF Unspoilt, Same
  <2> QED BY <1>1, <2>1, <2>2 DEF Unspoilt, Replaced, Forced, Output
<1>12. SuccessKept'
  <2> SUFFICES ASSUME NEW q \in Proc, code'[q] \in {0, 1}, ~Forced(q), ~Replaced(Output(q))
               PROVE  entry[Output(q)] = q /\ data'[q] = Report(q, seen[q]) /\ code'[q] = Result(seen[q])
    BY <1>1 DEF SuccessKept, Forced, Output, Replaced
  <2>1. CASE q # p
    BY <2>1, <1>2, <1>9 DEF SuccessKept, Same
  <2>2. CASE q = p
    <3>1. at[p] = "close" /\ data' = data /\ code'[p] = Result(seen[p])
      BY <2>2, <1>1
    <3>2. data[p] = Report(p, seen[p])
      BY <2>2, <3>1 DEF Unspoilt
    <3>3. entry[Output(p)] = p
      BY <2>2, <3>1, <1>10 DEF Held, Using
    <3> QED BY <2>2, <3>1, <3>2, <3>3
  <2> QED BY <2>1, <2>2
<1>13. FailureLeavesNothing'
  BY <1>1, <1>2 DEF FailureLeavesNothing, Forced, Same
<1> QED BY <1>4, <1>5, <1>6, <1>7, <1>8, <1>11, <1>12, <1>13

LEMMA TruncateStep == ASSUME IInv, NEW p \in Proc, Truncate(p) PROVE IInv'
<1> USE CompareCommandAssumption DEF IInv
<1> DEFINE f == entry[Output(p)]
<1>1. /\ UNCHANGED <<traces, args, entry, seen, code>>
      /\ at[p] = "open" /\ at'[p] = "write" /\ code[p] = NoExit
      /\ handle[p] = NoFile /\ handle'[p] = f
      /\ f \in File /\ f # NoFile /\ Forced(p)
      /\ Output(p) \in Path /\ Output(p) \notin Input
      /\ \A i \in Input : f # entry[i]
      /\ data'[f] = Nothing
      /\ \A g \in File \ {f} : data'[g] = data[g]
  BY DEF Truncate, Go, TypeOK, Stages, Before, Apart, Output
<1>2. \A q \in Proc \ {p} : Same(q)
  BY DEF Truncate, Go, TypeOK, Same
<1>3. \A q \in Proc : f = q => handle[q] = q /\ q # p /\ Output(q) = Output(p)
  BY <1>1 DEF Named
<1>4. Replaced(Output(p))' /\ \A path : Replaced(path) => Replaced(path)'
  BY <1>1, <1>2 DEF Replaced, Output, Forced, Same
<1>5. TypeOK'
  <2>1. at' \in [Proc -> {"idle", "validate", "compare", "open", "write", "close", "remove", "exited"}]
    BY DEF TypeOK, Truncate, Go
  <2>2. data' \in [File -> Content] /\ handle' \in [Proc -> File \cup {NoFile}]
    BY <1>1 DEF TypeOK, Truncate, Content
  <2>3. \A q \in Proc : at'[q] \in {"write", "close", "remove"} => handle'[q] # NoFile
    BY <1>1, <1>2 DEF TypeOK, Same
  <2> QED BY <1>1, <2>1, <2>2, <2>3 DEF TypeOK
<1>6. Stages'
  BY <1>1, <1>2 DEF Stages, Same, Before, Using
<1>7. Apart' /\ Named'
  BY <1>1, <1>2, <1>3 DEF Apart, Named, Same, Output, Using
<1>8. InputsKept'
  BY <1>1 DEF InputsKept, File
<1>9. Handles'
  <2>1. \A q \in Proc : handle[q] = p => FALSE
    BY <1>1 DEF Handles
  <2>2. \A g \in Proc : f = g => Forced(p) /\ handle'[g] = g /\ Output(p) = Output(g)
    BY <1>1, <1>2, <1>3 DEF Same
  <2> QED BY <1>1, <1>2, <2>1, <2>2 DEF Handles, Same, Forced, Output
<1>10. Held' /\ Opened'
  BY <1>1, <1>2 DEF Held, Opened, Same, Output, Forced, Using
<1>11. \A q \in Proc : ~Replaced(Output(q))' => Output(q) # Output(p) /\ data'[q] = data[q] /\ ~Replaced(Output(q))
  BY <1>1, <1>3, <1>4 DEF File, Output
<1>12. Unspoilt'
  <2>1. \A q \in Proc : handle'[q] # q => data'[q] = Nothing
    <3>1. p # NoFile
      OBVIOUS
    <3> QED BY <1>1, <1>2, <3>1 DEF Unspoilt, Same, File
  <2> QED BY <1>1, <1>2, <1>11, <2>1 DEF Unspoilt, Same, Forced, Output
<1>13. SuccessKept'
  BY <1>1, <1>11 DEF SuccessKept, Forced, Output
<1>14. FailureLeavesNothing'
  BY <1>1 DEF FailureLeavesNothing, Forced
<1> QED BY <1>5, <1>6, <1>7, <1>8, <1>9, <1>10, <1>12, <1>13, <1>14

LEMMA RemoveStep == ASSUME IInv, NEW p \in Proc, Remove(p) PROVE IInv'
<1> USE CompareCommandAssumption DEF IInv
<1>1. /\ UNCHANGED <<traces, args, data, seen, handle>>
      /\ at[p] = "remove" /\ at'[p] = "exited" /\ code[p] = NoExit /\ code'[p] = 2
      /\ Output(p) \in Path /\ Output(p) \notin Input
      /\ ~Forced(p) => handle[p] = p /\ entry[Output(p)] = p
  BY DEF Remove, Exit, Go, TypeOK, Stages, Using, Apart, Handles, Held, Output
<1>2. \A q \in Proc \ {p} : Same(q)
  BY DEF Remove, Exit, Go, TypeOK, Same
<1>3. \A path \in Path :
        \/ entry'[path] = entry[path]
        \/ path = Output(p) /\ entry[path] = p /\ entry'[path] = NoFile
  <2>1. CASE Forced(p)
    BY <2>1 DEF Remove
  <2>2. CASE ~Forced(p)
    BY <2>2, <1>1 DEF Remove, TypeOK
  <2> QED BY <2>1, <2>2
<1>4. \A i \in Input : i \in Path /\ entry'[i] = entry[i] /\ entry[i] \in Old
  BY <1>1, <1>3 DEF InputsKept
<1>5. TypeOK'
  <2>1. at' \in [Proc -> {"idle", "validate", "compare", "open", "write", "close", "remove", "exited"}]
    BY DEF TypeOK, Remove, Exit, Go
  <2>2. entry' \in [Path -> File \cup {NoFile}]
    <3>1. CASE Forced(p)
      BY <3>1 DEF TypeOK, Remove
    <3>2. CASE ~Forced(p)
      BY <3>2 DEF TypeOK, Remove
    <3> QED BY <3>1, <3>2
  <2>4. code' \in [Proc -> 0..2 \cup {NoExit, Killed}]
    BY DEF TypeOK, Remove, Exit
  <2>3. \A q \in Proc : at'[q] \in {"write", "close", "remove"} => handle[q] # NoFile
    BY <1>1, <1>2 DEF TypeOK, Same
  <2> QED BY <1>1, <2>1, <2>2, <2>3, <2>4 DEF TypeOK
<1>6. Stages'
  BY <1>1, <1>2 DEF Stages, Same, Before, Using
<1>7. Apart'
  <2> SUFFICES ASSUME NEW q \in Proc, (at[q] \in {"compare", "open"} \cup Using)'
               PROVE  /\ Output(q) \notin Input
                      /\ at'[q] \in {"compare", "open"} => \A i \in Input : entry'[Output(q)] # entry'[i]
    BY <1>1 DEF Apart, Output
  <2>1. q # p /\ Same(q) /\ Output(q) \in Path
    BY <1>1, <1>2 DEF Using, TypeOK, Output
  <2>2. CASE entry'[Output(q)] = entry[Output(q)]
    BY <2>1, <2>2, <1>4 DEF Apart, Same
  <2>3. CASE entry'[Output(q)] = NoFile
    BY <2>1, <2>3, <1>4 DEF Apart, Same
  <2> QED BY <2>1, <2>2, <2>3, <1>3
<1>8. Named'
  BY <1>1, <1>3 DEF Named, Output
<1>9. Handles' /\ InputsKept'
  BY <1>1, <1>4 DEF Handles, InputsKept, Forced, Output
<1>10. Held'
  BY <1>1, <1>2, <1>3 DEF Held, Same, Forced, Output, TypeOK, Using
<1>11. Unspoilt' /\ Opened'
  BY <1>1, <1>2 DEF Unspoilt, Opened, Replaced, Same, Forced, Output
<1>12. SuccessKept'
  <2> SUFFICES ASSUME NEW q \in Proc, code'[q] \in {0, 1}, ~Forced(q), ~Replaced(Output(q))
               PROVE  entry'[Output(q)] = q /\ data[q] = Report(q, seen[q]) /\ code'[q] = Result(seen[q])
    BY <1>1 DEF SuccessKept, Forced, Output, Replaced
  <2>1. q # p /\ Same(q) /\ Output(q) \in Path
    BY <1>1, <1>2 DEF TypeOK, Output
  <2> QED BY <1>3, <2>1 DEF SuccessKept, Same
<1>13. FailureLeavesNothing'
  <2>1. ~Forced(p) => \A path \in Path : entry'[path] # p
    BY <1>1, <1>3 DEF Named, Remove, TypeOK
  <2> QED BY <1>1, <1>2, <1>3, <2>1 DEF FailureLeavesNothing, Forced, Same
<1> QED BY <1>5, <1>6, <1>7, <1>8, <1>9, <1>10, <1>11, <1>12, <1>13

LEMMA Stutter == ASSUME IInv, UNCHANGED vars PROVE IInv'
<1> USE DEF vars, IInv
<1>1. TypeOK' /\ Stages' /\ Apart' /\ Named' /\ Handles' /\ Held' /\ Unspoilt' /\ Opened'
  BY DEF TypeOK, Stages, Apart, Named, Handles, Held, Unspoilt, Opened, Replaced, Output, Forced
<1>2. InputsKept' /\ SuccessKept' /\ FailureLeavesNothing'
  BY DEF InputsKept, SuccessKept, FailureLeavesNothing, Replaced, Output, Forced
<1> QED BY <1>1, <1>2

-----------------------------------------------------------------------------
(* The theorems *)

\* Every action is one of the steps above.
LEMMA NextStep == ASSUME IInv, [Next]_vars PROVE IInv'
<1>1. CASE UNCHANGED vars
  BY <1>1, Stutter
<1>2. ASSUME NEW p \in Proc, Start(p) \/ Step(p) \/ Kill(p) PROVE IInv'
  <2>1. CASE Start(p)
    BY <2>1, QuietStep DEF Start, Quiet
  <2>2. CASE ValidateOutput(p)
    BY <2>2, QuietStep DEF ValidateOutput, Quiet, Before
  <2>3. CASE Compare(p)
    BY <2>3, QuietStep DEF Compare, Quiet, Before
  <2>4. CASE Create(p)
    BY <2>4, CreateStep
  <2>5. CASE RefuseToOverwrite(p)
    BY <2>5, QuietStep DEF RefuseToOverwrite, Quiet, Before
  <2>6. CASE Truncate(p)
    BY <2>6, TruncateStep
  <2>7. CASE Write(p)
    <3>1. handle[p] \in File
      BY <2>7 DEF Write, IInv, TypeOK
    <3>2. PICK c \in Written(p) : data' = [data EXCEPT ![handle[p]] = c]
      BY <2>7 DEF Write
    <3>3. seen[p] \in Traces /\ data \in [File -> Content]
      BY DEF IInv, TypeOK
    <3>4. Report(p, seen[p]) \in Content
      <4>1. <<p, seen[p]>> \in Proc \X Traces
        BY <3>3
      <4> DEFINE pair == <<p, seen[p]>>
      <4>2. Report(pair[1], pair[2]) \in Content
        BY <4>1 DEF Content
      <4> QED BY <4>2
    <3>5. c \in Content /\ (data[handle[p]] = Nothing => data'[handle[p]] = Report(p, seen[p]))
      BY <3>1, <3>2, <3>3, <3>4 DEF Written, Content
    <3>6. WritesOn(p)
      BY <2>7, <3>2, <3>5 DEF Write, WritesOn
    <3> QED BY <3>6, WritingStep
  <2>8. CASE WriteFails(p)
    BY <2>8, WritingStep DEF WriteFails, WritesOn, Content
  <2>9. CASE Close(p)
    BY <2>9, WritingStep DEF Close, WritesOn, Content
  <2>10. CASE Remove(p)
    BY <2>10, RemoveStep
  <2>11. CASE Fail(p)
    BY <2>11, QuietStep DEF Fail, Quiet, Before
  <2>12. CASE Kill(p)
    BY <2>12, QuietStep DEF Kill, Quiet
  <2> QED BY <1>2, <2>1, <2>2, <2>3, <2>4, <2>5, <2>6, <2>7, <2>8, <2>9, <2>10, <2>11, <2>12 DEF Step
<1> QED BY <1>1, <1>2 DEF Next

\* The inductive invariant holds whatever the processes do and in whatever order.
THEOREM Invariance == Spec => []IInv
<1>1. Init => IInv
  BY InitInv
<1>2. IInv /\ [Next]_vars => IInv'
  BY NextStep
<1> QED BY <1>1, <1>2, PTL DEF Spec

\* The state of the processes and of the file system stays of its type.
THEOREM TypeCorrect == Spec => []TypeOK
<1>1. IInv => TypeOK
  BY DEF IInv
<1> QED BY <1>1, Invariance, PTL

\* validateOutputTarget is enough: although it looks at the paths long before
\* the output is opened, no process ever writes or removes an input file.
THEOREM InputsUntouched == Spec => []InputsKept
<1>1. IInv => InputsKept
  BY DEF IInv
<1> QED BY <1>1, Invariance, PTL

\* Exit codes 0 and 1 promise a complete report that stays.
THEOREM SuccessStays == Spec => []SuccessKept
<1>1. IInv => SuccessKept
  BY DEF IInv
<1> QED BY <1>1, Invariance, PTL

\* Exit code 2 promises that nothing is left behind.
THEOREM FailureClean == Spec => []FailureLeavesNothing
<1>1. IInv => FailureLeavesNothing
  BY DEF IInv
<1> QED BY <1>1, Invariance, PTL

\* Without --force a file changes only under the hands of the process that has
\* created it, and only that process takes a path from it.
THEOREM OnlyOwn == Spec => OnlyOwnFiles
<1> DEFINE A == /\ \A f \in File : data'[f] # data[f] =>
                     \E p \in Proc : handle'[p] = f /\ (Forced(p) \/ f = p)
                /\ \A path \in Path : entry[path] # NoFile /\ entry'[path] # entry[path] =>
                     \E p \in Proc : entry[path] = p /\ at[p] = "remove" /\ ~Forced(p)
<1>1. IInv /\ [Next]_vars => [A]_vars
  <2> SUFFICES ASSUME IInv, Next PROVE A
    OBVIOUS
  <2> USE DEF IInv
  <2>1. PICK p \in Proc : Start(p) \/ Step(p) \/ Kill(p)
    BY DEF Next
  <2>2. CASE UNCHANGED <<data, entry>>
    BY <2>2
  <2>3. CASE Create(p)
    BY <2>3 DEF Create, TypeOK, Output
  <2>4. CASE Truncate(p)
    <3>1. \A f \in File : data'[f] # data[f] => f = entry[Output(p)]
      BY <2>4 DEF Truncate, TypeOK
    <3>2. handle'[p] = entry[Output(p)] /\ Forced(p) /\ entry' = entry
      BY <2>4 DEF Truncate, TypeOK
    <3> QED BY <3>1, <3>2
  <2>5. CASE UNCHANGED <<entry, handle>> /\ handle[p] # NoFile
             /\ \E c : data' = [data EXCEPT ![handle[p]] = c]
    <3>1. \A f \in File : data'[f] # data[f] => f = handle[p]
      BY <2>5 DEF TypeOK
    <3>2. Forced(p) \/ handle[p] = p
      BY <2>5 DEF Handles
    <3> QED BY <2>5, <3>1, <3>2
  <2>6. CASE Remove(p)
    <3>1. CASE Forced(p)
      BY <2>6, <3>1 DEF Remove
    <3>2. CASE ~Forced(p)
      <4>1. entry[Output(p)] = p
        BY <2>6, <3>2 DEF Remove, TypeOK, Handles, Held, Using
      <4>2. \A path \in Path : entry'[path] # entry[path] => path = Output(p)
        BY <2>6, <3>2 DEF Remove, TypeOK
      <4> QED BY <2>6, <3>2, <4>1, <4>2 DEF Remove
    <3> QED BY <3>1, <3>2
  <2>7. handle[p] # NoFile \/ at[p] \notin Using
    BY DEF TypeOK, Using
  <2>8. Write(p) \/ WriteFails(p) \/ Close(p) \/ Remove(p) \/ Create(p) \/ Truncate(p)
        \/ UNCHANGED <<data, entry>>
    BY <2>1 DEF Start, Step, Kill, ValidateOutput, Compare, RefuseToOverwrite, Fail
  <2>9. CASE Write(p)
    BY <2>5, <2>7, <2>9 DEF Write, Using
  <2>10. CASE WriteFails(p)
    BY <2>2, <2>5, <2>7, <2>10 DEF WriteFails, Using
  <2>11. CASE Close(p)
    BY <2>2, <2>5, <2>7, <2>11 DEF Close, Using
  <2> QED BY <2>2, <2>3, <2>4, <2>6, <2>8, <2>9, <2>10, <2>11
<1> QED BY <1>1, Invariance, PTL DEF Spec, OnlyOwnFiles
=============================================================================
