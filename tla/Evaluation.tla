------------------------------- MODULE Evaluation -------------------------------
(***************************************************************************)
(* evaluation/: processes that run a suite of experiments and write their  *)
(* results into a directory named after the second in which they finish,   *)
(* and the report command, which writes report.md again from summary.json. *)
(* A process may fail or die at any step.                                  *)
(*                                                                         *)
(* Path.write_text empties a file and then fills it: a file is the set of  *)
(* the experiments whose text it holds, {} when it is empty, and None when *)
(* it does not exist.  Two writers at once leave a mixture.  The report is *)
(* a function of the summary, so it counts as text of the experiment that  *)
(* the summary is about.                                                   *)
(*                                                                         *)
(* A definition D_Something is a faulty variant of D.  Nothing uses it; put *)
(* in the place of D it shows that a property can be broken by a bug.      *)
(***************************************************************************)
EXTENDS Naturals, Sequences, FiniteSets

CONSTANTS
    Experiments,  \* calls of `run_benchmark_cli`
    Suites,       \* the names of the suites
    Configs,      \* of a suite: the sequence of its configurations
    UsesMemory,   \* the configurations with a memory store
    Repeat,       \* --repeat
    TaskCount,    \* how many (equal) tasks the factory makes
    Seconds,      \* the seconds that strftime may show, in any order: it is local time
    None

ASSUME SizesAssumption ==
    /\ Repeat \in Nat \ {0} /\ TaskCount \in Nat
    /\ Configs \in [Suites -> Seq(STRING)]
ASSUME NoneAssumption == None \notin Seconds /\ \A S \in SUBSET Experiments : None # S

VARIABLES
    suite,    \* the suite of each experiment
    at,       \* where its process is
    current,  \* the run that is being made
    raw,      \* its finished runs
    second,   \* when it named its directory
    next,     \* the file it writes
    files,    \* of a directory and a file name: what the file holds
    report    \* the report command: where it is, on what

vars == <<suite, at, current, raw, second, next, files, report>>

RawName(s, n) == <<Configs[s][(n - 1) \div Repeat + 1], (n - 1) % Repeat>>
RawFiles(s) == [n \in 1..(Len(Configs[s]) * Repeat) |-> RawName(s, n)]

Files_ReportFirst(s) ==
    <<<<"config.yaml">>>> \o RawFiles(s) \o <<<<"report.md">>, <<"summary.json">>>>

\* The files of a result directory, in the order in which they are written
Files(s) == <<<<"config.yaml">>>> \o RawFiles(s) \o <<<<"summary.json">>, <<"report.md">>>>
Names == UNION {{Files(s)[n] : n \in DOMAIN Files(s)} : s \in Suites}

Dir_WithoutSuite(e) == <<second[e], CHOOSE s \in Suites : TRUE>>
Dir(e) == <<second[e], suite[e]>>
Dirs == Seconds \X Suites

\* run_once opens a store of its own.
Fresh == [tasks |-> 0, ok |-> TRUE, used |-> 0, stored |-> FALSE]
Idle == [at |-> "idle", dir |-> None, of |-> {}]

TypeOK ==
    /\ suite \in [Experiments -> Suites]
    /\ at \in [Experiments -> {"run", "empty", "fill", "done", "dead"}]
    /\ current \in [Experiments ->
          [tasks : 0..TaskCount, ok : BOOLEAN, used : 0..TaskCount, stored : BOOLEAN]]
    /\ raw \in [Experiments -> Seq([ok : BOOLEAN, used : 0..TaskCount])]
    /\ second \in [Experiments -> Seconds \cup {None}]
    /\ next \in [Experiments -> Nat]
    /\ \A e \in Experiments :
        /\ Len(raw[e]) <= Len(RawFiles(suite[e]))
        /\ at[e] \in {"empty", "fill"} => Len(raw[e]) = Len(RawFiles(suite[e]))
        /\ next[e] \in DOMAIN Files(suite[e])
    /\ files \in [Dirs \X Names -> (SUBSET Experiments) \cup {None}]
    /\ report \in [at : {"idle", "empty", "fill"}, dir : Dirs \cup {None},
                   of : SUBSET Experiments]

Init ==
    /\ suite \in [Experiments -> Suites]
    /\ at = [e \in Experiments |-> "run"]
    /\ current = [e \in Experiments |-> Fresh]
    /\ raw = [e \in Experiments |-> <<>>]
    /\ second = [e \in Experiments |-> None]
    /\ next = [e \in Experiments |-> 1]
    /\ files = [p \in Dirs \X Names |-> None]
    /\ report = Idle

\* run_task on the next task of a run: a memory, where there is one, holds what the
\* earlier tasks of the run left.  One that is not accepted without an error (ok) may
\* have stored its result, or reused one, all the same.
RunTask(e, ok) ==
    /\ at[e] = "run"
    /\ Len(raw[e]) < Len(RawFiles(suite[e]))
    /\ current[e].tasks < TaskCount
    /\ LET r == current[e]
           config == RawName(suite[e], Len(raw[e]) + 1)[1]
           hit == r.stored /\ config \in UsesMemory
       IN \E counted \in (IF ok THEN {hit} ELSE {hit, FALSE}),
             stored \in (IF ok THEN {TRUE} ELSE {r.stored, TRUE}) :
             current' = [current EXCEPT ![e] =
                 [tasks |-> r.tasks + 1, ok |-> r.ok /\ ok,
                  used |-> r.used + IF counted THEN 1 ELSE 0, stored |-> stored]]
    /\ UNCHANGED <<suite, at, raw, second, next, files, report>>

FinishRun_KeepsStore(e) ==
    /\ at[e] = "run"
    /\ Len(raw[e]) < Len(RawFiles(suite[e]))
    /\ current[e].tasks = TaskCount
    /\ raw' = [raw EXCEPT ![e] = Append(@, [ok |-> current[e].ok, used |-> current[e].used])]
    /\ current' = [current EXCEPT ![e] = [Fresh EXCEPT !.stored = current[e].stored]]
    /\ UNCHANGED <<suite, at, second, next, files, report>>

\* _aggregate, and on to the next run
FinishRun(e) ==
    /\ at[e] = "run"
    /\ Len(raw[e]) < Len(RawFiles(suite[e]))
    /\ current[e].tasks = TaskCount
    /\ raw' = [raw EXCEPT ![e] = Append(@, [ok |-> current[e].ok, used |-> current[e].used])]
    /\ current' = [current EXCEPT ![e] = Fresh]
    /\ UNCHANGED <<suite, at, second, next, files, report>>

\* write_results names its directory, and takes it as it is if it exists.
MakeDir(e) ==
    /\ at[e] = "run"
    /\ Len(raw[e]) = Len(RawFiles(suite[e]))
    /\ at' = [at EXCEPT ![e] = "empty"]
    /\ \E s \in Seconds : second' = [second EXCEPT ![e] = s]
    /\ UNCHANGED <<suite, current, raw, next, files, report>>

\* The process is gone, with what it had in memory.
End(e, how) ==
    /\ at' = [at EXCEPT ![e] = how]
    /\ current' = [current EXCEPT ![e] = Fresh]
    /\ raw' = [raw EXCEPT ![e] = <<>>]
    /\ next' = [next EXCEPT ![e] = 1]

\* write_text, first and second half
Empty(e) ==
    /\ at[e] = "empty"
    /\ at' = [at EXCEPT ![e] = "fill"]
    /\ files' = [files EXCEPT ![<<Dir(e), Files(suite[e])[next[e]]>>] = {}]
    /\ UNCHANGED <<suite, current, raw, second, next, report>>

Fill_Forever(e) ==
    /\ at[e] = "fill"
    /\ at' = [at EXCEPT ![e] = "empty"]
    /\ next' = [next EXCEPT ![e] = @ + 1]
    /\ files' = [files EXCEPT ![<<Dir(e), Files(suite[e])[next[e]]>>] = @ \cup {e}]
    /\ UNCHANGED <<suite, current, raw, second, report>>

Fill(e) ==
    /\ at[e] = "fill"
    /\ files' = [files EXCEPT ![<<Dir(e), Files(suite[e])[next[e]]>>] = @ \cup {e}]
    /\ \/ next[e] = Len(Files(suite[e])) /\ End(e, "done")
       \/ /\ next[e] < Len(Files(suite[e]))
          /\ at' = [at EXCEPT ![e] = "empty"]
          /\ next' = [next EXCEPT ![e] = @ + 1]
          /\ UNCHANGED <<current, raw>>
    /\ UNCHANGED <<suite, second, report>>

\* An exception (run_suite catches none) or a crash
Dies(e) ==
    /\ at[e] \notin {"done", "dead"}
    /\ End(e, "dead")
    /\ UNCHANGED <<suite, second, files, report>>

\* The report command reads a summary.  Without one, or from an empty one, it makes
\* no report; from a mixture it may.
ReportReads(d) ==
    /\ report.at = "idle"
    /\ files[d, <<"summary.json">>] \notin {None, {}}
    /\ report' = [at |-> "empty", dir |-> d, of |-> files[d, <<"summary.json">>]]
    /\ UNCHANGED <<suite, at, current, raw, second, next, files>>

ReportEmpties ==
    /\ report.at = "empty"
    /\ report' = [report EXCEPT !.at = "fill"]
    /\ files' = [files EXCEPT ![<<report.dir, <<"report.md">>>>] = {}]
    /\ UNCHANGED <<suite, at, current, raw, second, next>>

ReportFills ==
    /\ report.at = "fill"
    /\ report' = Idle
    /\ files' = [files EXCEPT ![<<report.dir, <<"report.md">>>>] = @ \cup report.of]
    /\ UNCHANGED <<suite, at, current, raw, second, next>>

ReportDies ==
    /\ report.at # "idle"
    /\ report' = Idle
    /\ UNCHANGED <<suite, at, current, raw, second, next, files>>

Next ==
    \/ \E e \in Experiments, ok \in BOOLEAN : RunTask(e, ok)
    \/ \E e \in Experiments :
          FinishRun(e) \/ MakeDir(e) \/ Empty(e) \/ Fill(e) \/ Dies(e)
    \/ \E d \in Dirs : ReportReads(d)
    \/ ReportEmpties \/ ReportFills \/ ReportDies

Spec == Init /\ [][Next]_vars

----------------------------------------------------------------------------
\* No other experiment of the suite named its directory in the same second.
OnItsOwn(e) ==
    /\ second[e] # None
    /\ \A f \in Experiments \ {e} : <<second[f], suite[f]>> # <<second[e], suite[e]>>

Holds(e, name) == files[Dir(e), name]

\* A report that can be read comes with all the data behind it: whatever process died
\* when, whether the suite or the command wrote it.
ReportMeansComplete ==
    \A e \in Experiments : OnItsOwn(e) /\ Holds(e, <<"report.md">>) = {e} =>
        \A n \in DOMAIN Files(suite[e]) : Holds(e, Files(suite[e])[n]) = {e}

\* A finished experiment keeps exactly its files, as it wrote them; only its report
\* may be lost, to a report command that died over it.
FinishedIsIntact ==
    \A e \in Experiments : at[e] = "done" /\ OnItsOwn(e) =>
        \A name \in Names :
            Holds(e, name) \in
                IF name = <<"report.md">> THEN {{e}, {}}
                ELSE IF \E n \in DOMAIN Files(suite[e]) : Files(suite[e])[n] = name THEN {{e}}
                ELSE {None}

\* The repetitions of a configuration start alike: when all tasks are accepted without
\* an error they reuse memory equally often.
RepeatsAgree ==
    \A e \in Experiments : \A m, n \in DOMAIN raw[e] :
        /\ RawName(suite[e], m)[1] = RawName(suite[e], n)[1]
        /\ raw[e][m].ok
        /\ raw[e][n].ok
        => raw[e][m].used = raw[e][n].used
=============================================================================
