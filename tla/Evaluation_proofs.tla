---------------------------- MODULE Evaluation_proofs ----------------------------
(***************************************************************************)
(* What a result directory promises, for any suites, number of runs and    *)
(* number of experiments at once.                                          *)
(*                                                                         *)
(* A directory that nobody has named is untouched (Untouched), so that an  *)
(* experiment that has one to itself finds it empty and is the only writer *)
(* but for the report command, which writes of that experiment (Own): the  *)
(* summary appears when all raw files are complete, and a report when the  *)
(* summary is.  With two runs of one name a raw file may be written twice; *)
(* nothing below assumes that it is not.                                   *)
(*                                                                         *)
(* The runs of an experiment are compared through what each must yield:    *)
(* without an error, a run reuses its memory in every task but the first   *)
(* (RunsCount).                                                            *)
(***************************************************************************)
EXTENDS Evaluation, SequenceTheorems, TLAPS

Summary == <<"summary.json">>
Report == <<"report.md">>
Last(e) == Len(Files(suite[e]))
File(e, n) == Files(suite[e])[n]

Writing(e) == at[e] \in {"empty", "fill"}

\* Who writes has a directory, and who still runs has none and begins with the first file.
Named ==
    \A e \in Experiments :
        /\ at[e] = "run" => second[e] = None /\ next[e] = 1
        /\ Writing(e) \/ at[e] = "done" => second[e] # None

\* What is filled was emptied before.
Emptied ==
    /\ \A e \in Experiments : at[e] = "fill" => Holds(e, File(e, next[e])) # None
    /\ report.at # "idle" => report.dir \in Dirs
    /\ report.at = "fill" => files[report.dir, Report] # None

Untouched ==
    \A d \in Dirs :
        (\A e \in Experiments : <<second[e], suite[e]>> # d) =>
            /\ \A name \in Names : files[d, name] = None
            /\ report.at # "idle" => report.dir # d

\* The files h of experiment e, of suite s, which is at file k.
Kept(e, s, where, k, h) ==
    LET F == Files(s)
        L == Len(F)
        writing == where \in {"empty", "fill"}
    IN /\ \A name \in Names : h[name] \in {None, {}, {e}}
       /\ \A name \in Names : (\A n \in 1..L : F[n] # name) => h[name] = None
       /\ writing => \A n \in 1..(k - 1) :
             h[F[n]] = {e} \/ (where = "fill" /\ F[n] = F[k])
       /\ writing /\ k < L => h[Report] = None /\ h[Summary] # {e}
       /\ writing /\ (k < L - 1 \/ (k = L - 1 /\ where = "empty")) => h[Summary] = None
       /\ h[Summary] # None => \A n \in 1..(L - 2) : h[F[n]] = {e}
       /\ h[Report] # None => \A n \in 1..(L - 1) : h[F[n]] = {e}
       /\ where = "done" => h[Report] # None

Held(d) == [name \in Names |-> files[d, name]]

\* An experiment that has its directory to itself
Own(e) ==
    /\ Kept(e, suite[e], at[e], next[e], Held(Dir(e)))
    /\ report.at # "idle" /\ report.dir = Dir(e) =>
          report.of = {e} /\ Holds(e, Summary) = {e}

OwnInv == \A e \in Experiments : OnItsOwn(e) => Own(e)

\* How often a run reuses its memory when all its tasks succeed
Uses(config, tasks) == IF config \in UsesMemory /\ tasks > 0 THEN tasks - 1 ELSE 0

RunsCount ==
    \A e \in Experiments :
        /\ current[e].used <= current[e].tasks
        /\ current[e].tasks = 0 => current[e] = Fresh
        /\ current[e].tasks > 0 => at[e] = "run" /\ Len(raw[e]) < Len(RawFiles(suite[e]))
        /\ current[e].ok /\ current[e].tasks > 0 =>
              /\ current[e].stored
              /\ current[e].used =
                    Uses(RawName(suite[e], Len(raw[e]) + 1)[1], current[e].tasks)
        /\ \A n \in DOMAIN raw[e] : raw[e][n].ok =>
              raw[e][n].used = Uses(RawName(suite[e], n)[1], TaskCount)

Inv == TypeOK /\ Named /\ Emptied /\ Untouched /\ OwnInv /\ RunsCount

----------------------------------------------------------------------------
\* The raw files are as many as the suite has runs.
LEMMA RawFacts ==
    ASSUME NEW s \in Suites
    PROVE  /\ Len(RawFiles(s)) \in Nat
           /\ DOMAIN RawFiles(s) = 1..Len(RawFiles(s))
           /\ \A n \in 1..Len(RawFiles(s)) : RawFiles(s)[n] = RawName(s, n)
<1> DEFINE K == Len(Configs[s]) * Repeat
           S == {RawName(s, n) : n \in 1..K}
<1>1. K \in Nat
  <2>1. Len(Configs[s]) \in Nat
    BY SizesAssumption
  <2> QED BY <2>1, SizesAssumption
<1> HIDE DEF K
<1>2. RawFiles(s) = [n \in 1..K |-> RawName(s, n)]
  BY DEF RawFiles, K
<1>3. [n \in 1..K |-> RawName(s, n)] \in [1..K -> S]
  OBVIOUS
<1>4. RawFiles(s) \in Seq(S)
  BY <1>1, <1>2, <1>3, SeqDef
<1>5. Len(RawFiles(s)) = K
  BY <1>1, <1>2, <1>4, LenProperties
<1> QED BY <1>1, <1>2, <1>5

\* The files of a suite: the configuration, the runs, and at the end the summary and
\* the report, which are no other file.
LEMMA FilesFacts ==
    ASSUME NEW s \in Suites
    PROVE  LET F == Files(s)
               L == Len(F)
           IN /\ L \in Nat /\ L >= 3 /\ L = Len(RawFiles(s)) + 3
              /\ DOMAIN F = 1..L
              /\ F[L - 1] = Summary
              /\ F[L] = Report
              /\ \A n \in 1..(L - 1) : F[n] # Report
              /\ \A n \in 1..(L - 2) : F[n] # Summary
              /\ \A n \in 1..L : F[n] \in Names
<1> DEFINE R == RawFiles(s)
           K == Len(R)
           S == {R[n] : n \in 1..K} \cup {<<"config.yaml">>, Summary, Report}
           A == <<<<"config.yaml">>>>
           B == <<Summary, Report>>
<1>1. K \in Nat /\ DOMAIN R = 1..K /\ \A n \in 1..K : R[n] = RawName(s, n)
  BY RawFacts
<1>2. R \in Seq(S)
  <2>1. R \in [1..K -> S]
    BY <1>1 DEF RawFiles
  <2> QED BY <1>1, <2>1, SeqDef
<1>3. A \in Seq(S) /\ Len(A) = 1 /\ A[1] = <<"config.yaml">>
  OBVIOUS
<1>4. B \in Seq(S) /\ Len(B) = 2 /\ B[1] = Summary /\ B[2] = Report
  OBVIOUS
<1>5. Files(s) = (A \o R) \o B
  BY DEF Files, Summary, Report
<1> HIDE DEF R, S, A, B
<1>6. /\ A \o R \in Seq(S) /\ Len(A \o R) = K + 1
      /\ \A n \in 1..(K + 1) : (A \o R)[n] = IF n <= 1 THEN A[n] ELSE R[n - 1]
  <2>1. /\ A \o R \in Seq(S) /\ Len(A \o R) = Len(A) + Len(R)
        /\ \A n \in 1..(Len(A) + Len(R)) :
              (A \o R)[n] = IF n <= Len(A) THEN A[n] ELSE R[n - Len(A)]
    BY <1>2, <1>3, ConcatProperties
  <2>2. Len(A) + Len(R) = K + 1
    BY <1>1, <1>3
  <2> QED BY <1>3, <2>1, <2>2
<1>7. /\ Files(s) \in Seq(S) /\ Len(Files(s)) = K + 3
      /\ \A n \in 1..(K + 3) :
            Files(s)[n] = IF n <= K + 1 THEN (A \o R)[n] ELSE B[n - (K + 1)]
  <2> DEFINE AR == A \o R
  <2> HIDE DEF AR
  <2>1. AR \in Seq(S) /\ Len(AR) = K + 1
    BY <1>6 DEF AR
  <2>2. /\ AR \o B \in Seq(S) /\ Len(AR \o B) = Len(AR) + Len(B)
        /\ \A n \in 1..(Len(AR) + Len(B)) :
              (AR \o B)[n] = IF n <= Len(AR) THEN AR[n] ELSE B[n - Len(AR)]
    BY <1>4, <2>1, ConcatProperties
  <2>3. Len(AR) + Len(B) = K + 3
    BY <1>1, <1>4, <2>1
  <2>4. Files(s) = AR \o B
    BY <1>5 DEF AR
  <2> QED BY <2>1, <2>2, <2>3, <2>4 DEF AR
<1> DEFINE F == Files(s)
<1>8. DOMAIN F = 1..(K + 3)
  BY <1>7, LenProperties
<1>9. F[K + 2] = Summary /\ F[K + 3] = Report
  BY <1>1, <1>4, <1>7
<1>10. \A n \in 1..(K + 1) : F[n] # Summary /\ F[n] # Report
  <2> SUFFICES ASSUME NEW n \in 1..(K + 1) PROVE F[n] # Summary /\ F[n] # Report
    OBVIOUS
  <2>1. CASE n = 1
    <3>1. F[n] = <<"config.yaml">>
      BY <1>1, <1>3, <1>6, <1>7, <2>1
    <3> QED BY <3>1 DEF Summary, Report
  <2>2. CASE n # 1
    <3>1. F[n] = RawName(s, n - 1)
      <4>1. n \in 1..(K + 3) /\ n <= K + 1 /\ ~ n <= 1 /\ n - 1 \in 1..K
        BY <1>1, <2>2
      <4>2. F[n] = (A \o R)[n] /\ (A \o R)[n] = R[n - 1]
        BY <1>6, <1>7, <4>1
      <4> QED BY <1>1, <4>1, <4>2
    <3>2. \A a, b, c : <<a, b>> # <<c>>
      <4> SUFFICES ASSUME NEW a, NEW b, NEW c, <<a, b>> = <<c>> PROVE FALSE
        OBVIOUS
      <4>1. Len(<<a, b>>) = 2 /\ Len(<<c>>) = 1
        OBVIOUS
      <4> QED BY <4>1
    <3> QED BY <3>1, <3>2 DEF RawName, Summary, Report
  <2> QED BY <2>1, <2>2
<1>11. Summary # Report
  BY DEF Summary, Report
<1>12. \A n \in 1..(K + 3) : F[n] \in Names
  BY <1>8 DEF Names
<1> QED
  <2>1. Len(F) = K + 3 /\ K = Len(RawFiles(s))
    BY <1>7 DEF R
  <2> HIDE DEF F
  <2>2. /\ Len(F) \in Nat /\ Len(F) >= 3
        /\ Len(F) - 1 = K + 2 /\ Len(F) - 2 = K + 1
    BY <1>1, <2>1
  <2>3. \A n \in 1..(Len(F) - 1) : F[n] # Report
    <3> TAKE n \in 1..(Len(F) - 1)
    <3>1. n = K + 2 \/ n \in 1..(K + 1)
      BY <1>1, <2>2
    <3> QED BY <1>9, <1>10, <1>11, <3>1 DEF F
  <2> QED BY <1>8, <1>9, <1>10, <1>12, <2>1, <2>2, <2>3 DEF F

----------------------------------------------------------------------------
(* One lemma per action, or group of actions, shows that it keeps the types. *)

\* What a run leaves behind
Run == [ok : BOOLEAN, used : 0..TaskCount]

LEMMA FreshType ==
    Fresh \in [tasks : 0..TaskCount, ok : BOOLEAN, used : 0..TaskCount, stored : BOOLEAN]
BY SizesAssumption DEF Fresh

LEMMA TypeRunTask ==
    ASSUME TypeOK, RunsCount, NEW e \in Experiments, NEW ok \in BOOLEAN, RunTask(e, ok)
    PROVE  TypeOK'
<1>1. current' \in [Experiments ->
          [tasks : 0..TaskCount, ok : BOOLEAN, used : 0..TaskCount, stored : BOOLEAN]]
  <2>1. PICK counted \in BOOLEAN, stored \in BOOLEAN :
            current' = [current EXCEPT ![e] =
                [tasks |-> current[e].tasks + 1, ok |-> current[e].ok /\ ok,
                 used |-> current[e].used + IF counted THEN 1 ELSE 0, stored |-> stored]]
    BY DEF RunTask, TypeOK
  <2>2. /\ current[e].tasks \in 0..TaskCount /\ current[e].tasks < TaskCount
        /\ current[e].used \in 0..TaskCount /\ current[e].used <= current[e].tasks
    BY DEF RunTask, TypeOK, RunsCount
  <2>3. /\ current[e].tasks + 1 \in 0..TaskCount
        /\ current[e].used + (IF counted THEN 1 ELSE 0) \in 0..TaskCount
    BY <2>2, SizesAssumption
  <2>4. (current[e].ok /\ ok) \in BOOLEAN
    OBVIOUS
  <2> QED BY <2>1, <2>3, <2>4 DEF TypeOK
<1>2. UNCHANGED <<suite, at, raw, second, next, files, report>>
  BY DEF RunTask
<1> QED BY <1>1, <1>2 DEF TypeOK

LEMMA TypeFinishRun ==
    ASSUME TypeOK, NEW e \in Experiments, FinishRun(e)
    PROVE  TypeOK'
<1>1. current' \in [Experiments ->
          [tasks : 0..TaskCount, ok : BOOLEAN, used : 0..TaskCount, stored : BOOLEAN]]
  BY FreshType DEF FinishRun, TypeOK
<1> DEFINE r == [ok |-> current[e].ok, used |-> current[e].used]
<1>2. r \in Run
  BY DEF TypeOK, Run
<1>3. /\ raw' = [raw EXCEPT ![e] = Append(raw[e], r)]
      /\ UNCHANGED <<suite, at, second, next, files, report>>
      /\ at[e] = "run" /\ Len(raw[e]) < Len(RawFiles(suite[e]))
  BY DEF FinishRun
<1>4. raw \in [Experiments -> Seq(Run)]
  BY DEF TypeOK, Run
<1> HIDE DEF r
<1>5. /\ Append(raw[e], r) \in Seq(Run)
      /\ Len(Append(raw[e], r)) = Len(raw[e]) + 1
      /\ Len(raw[e]) \in Nat
  BY <1>2, <1>4
<1>6. raw' \in [Experiments -> Seq(Run)]
  BY <1>3, <1>4, <1>5
<1>7. \A f \in Experiments :
        /\ Len(raw'[f]) <= Len(RawFiles(suite[f]))
        /\ at[f] \in {"empty", "fill"} => Len(raw'[f]) = Len(RawFiles(suite[f]))
  <2> TAKE f \in Experiments
  <2>1. Len(RawFiles(suite[e])) \in Nat
    BY RawFacts DEF TypeOK
  <2>2. CASE f = e
    <3>1. raw'[e] = Append(raw[e], r)
      BY <1>3, <1>4
    <3> QED BY <1>3, <1>5, <2>1, <2>2, <3>1
  <2>3. CASE f # e
    <3>1. raw'[f] = raw[f]
      BY <1>3, <1>4, <2>3
    <3> QED BY <3>1 DEF TypeOK
  <2> QED BY <2>2, <2>3
<1> QED BY <1>1, <1>3, <1>6, <1>7 DEF TypeOK, Run

LEMMA TypeMakeDir ==
    ASSUME TypeOK, NEW e \in Experiments, MakeDir(e)
    PROVE  TypeOK'
<1>1. /\ at' = [at EXCEPT ![e] = "empty"]
      /\ UNCHANGED <<suite, current, raw, next, files, report>>
      /\ Len(raw[e]) = Len(RawFiles(suite[e]))
  BY DEF MakeDir
<1>2. second' \in [Experiments -> Seconds \cup {None}]
  BY DEF MakeDir, TypeOK
<1>3. at' \in [Experiments -> {"run", "empty", "fill", "done", "dead"}]
  BY <1>1 DEF TypeOK
<1>4. \A f \in Experiments :
        at'[f] \in {"empty", "fill"} => Len(raw[f]) = Len(RawFiles(suite[f]))
  BY <1>1 DEF TypeOK
<1> QED BY <1>1, <1>2, <1>3, <1>4 DEF TypeOK

\* A file that an experiment writes is a name in its directory.
LEMMA Addressed ==
    ASSUME TypeOK, Named, NEW e \in Experiments, Writing(e), NEW n \in 1..Last(e)
    PROVE  <<Dir(e), File(e, n)>> \in Dirs \X Names
<1>1. suite[e] \in Suites /\ second[e] \in Seconds
  BY DEF TypeOK, Named, Writing
<1>2. File(e, n) \in Names
  BY <1>1, FilesFacts DEF File, Last
<1> QED BY <1>1, <1>2 DEF Dir, Dirs

LEMMA NextIsAFile ==
    ASSUME TypeOK, NEW e \in Experiments
    PROVE  /\ Last(e) \in Nat /\ Last(e) >= 3
           /\ next[e] \in 1..Last(e)
           /\ DOMAIN Files(suite[e]) = 1..Last(e)
<1>1. suite[e] \in Suites /\ next[e] \in DOMAIN Files(suite[e])
  BY DEF TypeOK
<1> QED BY <1>1, FilesFacts DEF Last

LEMMA TypeEnd ==
    ASSUME TypeOK, NEW e \in Experiments, NEW how \in {"done", "dead"}, End(e, how),
           UNCHANGED <<suite, second, report>>,
           files' \in [Dirs \X Names -> (SUBSET Experiments) \cup {None}]
    PROVE  TypeOK'
<1>1. current' \in [Experiments ->
          [tasks : 0..TaskCount, ok : BOOLEAN, used : 0..TaskCount, stored : BOOLEAN]]
  BY FreshType DEF End, TypeOK
<1>2. raw' = [raw EXCEPT ![e] = <<>>] /\ raw' \in [Experiments -> Seq(Run)]
  <2>1. raw \in [Experiments -> Seq(Run)]
    BY DEF TypeOK, Run
  <2>2. <<>> \in Seq(Run)
    OBVIOUS
  <2> QED BY <2>1, <2>2 DEF End
<1>3. at' = [at EXCEPT ![e] = how]
      /\ at' \in [Experiments -> {"run", "empty", "fill", "done", "dead"}]
  BY DEF End, TypeOK
<1>4. next' = [next EXCEPT ![e] = 1] /\ next' \in [Experiments -> Nat]
  BY DEF End, TypeOK
<1>5. \A f \in Experiments :
        /\ Len(raw'[f]) <= Len(RawFiles(suite[f]))
        /\ at'[f] \in {"empty", "fill"} => Len(raw'[f]) = Len(RawFiles(suite[f]))
        /\ next'[f] \in DOMAIN Files(suite[f])
  <2> TAKE f \in Experiments
  <2>1. CASE f = e
    <3>1. raw'[e] = <<>> /\ at'[e] = how /\ next'[e] = 1
      BY <1>2, <1>3, <1>4 DEF TypeOK
    <3>2. Len(RawFiles(suite[e])) \in Nat /\ 1 \in DOMAIN Files(suite[e])
      <4>1. suite[e] \in Suites
        BY DEF TypeOK
      <4> QED BY <4>1, RawFacts, NextIsAFile
    <3>3. Len(<<>>) = 0
      OBVIOUS
    <3> QED BY <2>1, <3>1, <3>2, <3>3
  <2>2. CASE f # e
    <3>1. raw'[f] = raw[f] /\ at'[f] = at[f] /\ next'[f] = next[f]
      BY <1>2, <1>3, <1>4, <2>2 DEF TypeOK
    <3> QED BY <3>1 DEF TypeOK
  <2> QED BY <2>1, <2>2
<1> QED BY <1>1, <1>2, <1>3, <1>4, <1>5
        DEF TypeOK, Run

LEMMA FilesType ==
    ASSUME TypeOK, NEW p \in Dirs \X Names, NEW content \in SUBSET Experiments,
           files' = [files EXCEPT ![p] = content]
    PROVE  files' \in [Dirs \X Names -> (SUBSET Experiments) \cup {None}]
BY DEF TypeOK

LEMMA TypeWrite ==
    ASSUME TypeOK, Named, Emptied, NEW e \in Experiments, Empty(e) \/ Fill(e)
    PROVE  TypeOK'
<1> DEFINE p == <<Dir(e), File(e, next[e])>>
<1>1. p \in Dirs \X Names
  BY Addressed, NextIsAFile DEF Empty, Fill, Writing
<1>2. CASE Empty(e)
  <2>1. files' = [files EXCEPT ![p] = {}]
    BY <1>2 DEF Empty, File
  <2> HIDE DEF p
  <2>2. files' \in [Dirs \X Names -> (SUBSET Experiments) \cup {None}]
    <3>1. {} \in SUBSET Experiments
      OBVIOUS
    <3> QED BY <1>1, <2>1, <3>1, FilesType
  <2>3. at[e] = "empty" /\ at' = [at EXCEPT ![e] = "fill"]
        /\ UNCHANGED <<suite, current, raw, second, next, report>>
    BY <1>2 DEF Empty
  <2> QED BY <2>2, <2>3 DEF TypeOK
<1>3. CASE Fill(e)
  <2>1. files[p] # None
    BY <1>3 DEF Emptied, Fill, Holds
  <2>2. files' = [files EXCEPT ![p] = files[p] \cup {e}]
    BY <1>3 DEF Fill, File
  <2> HIDE DEF p
  <2>3. files' \in [Dirs \X Names -> (SUBSET Experiments) \cup {None}]
    <3>1. files[p] \cup {e} \in SUBSET Experiments
      BY <1>1, <2>1 DEF TypeOK
    <3> QED BY <1>1, <2>2, <3>1, FilesType
  <2>4. CASE End(e, "done")
    BY <1>3, <2>3, <2>4, TypeEnd DEF Fill
  <2>5. CASE /\ next[e] < Last(e)
             /\ at' = [at EXCEPT ![e] = "empty"]
             /\ next' = [next EXCEPT ![e] = @ + 1]
             /\ UNCHANGED <<current, raw>>
    <3>1. next[e] + 1 \in DOMAIN Files(suite[e])
      BY <2>5, NextIsAFile
    <3>2. at[e] = "fill" /\ UNCHANGED <<suite, second, report>>
      BY <1>3 DEF Fill
    <3>3. /\ next' \in [Experiments -> Nat]
          /\ \A f \in Experiments : next'[f] \in DOMAIN Files(suite[f])
      BY <2>5, <3>1 DEF TypeOK
    <3>4. /\ at' \in [Experiments -> {"run", "empty", "fill", "done", "dead"}]
          /\ \A f \in Experiments : at'[f] \in {"empty", "fill"} => at[f] \in {"empty", "fill"}
      BY <2>5, <3>2 DEF TypeOK
    <3> QED BY <2>3, <2>5, <3>2, <3>3, <3>4 DEF TypeOK
  <2> QED BY <1>3, <2>4, <2>5 DEF Fill, Last
<1> QED BY <1>2, <1>3

\* The report command: where it writes, and what
ReportWrites == ReportEmpties \/ ReportFills

LEMMA TypeReport ==
    ASSUME TypeOK, Emptied,
           (\E d \in Dirs : ReportReads(d)) \/ ReportWrites \/ ReportDies
    PROVE  TypeOK'
<1> DEFINE p == <<report.dir, Report>>
<1>1. UNCHANGED <<suite, at, current, raw, second, next>>
  BY DEF ReportReads, ReportWrites, ReportEmpties, ReportFills, ReportDies
<1>2. Idle \in [at : {"idle", "empty", "fill"}, dir : Dirs \cup {None},
                of : SUBSET Experiments]
  BY DEF Idle
<1> SUFFICES /\ files' \in [Dirs \X Names -> (SUBSET Experiments) \cup {None}]
             /\ report' \in [at : {"idle", "empty", "fill"}, dir : Dirs \cup {None},
                             of : SUBSET Experiments]
  BY <1>1 DEF TypeOK
<1>3. ASSUME NEW d \in Dirs, ReportReads(d)
      PROVE  /\ files' = files
             /\ report' \in [at : {"idle", "empty", "fill"}, dir : Dirs \cup {None},
                             of : SUBSET Experiments]
  <2>1. <<d, Summary>> \in Dirs \X Names
    <3>1. \E s \in Suites : d = <<d[1], s>>
      BY DEF Dirs
    <3>2. Summary \in Names
      BY <3>1, FilesFacts DEF Summary
    <3> QED BY <3>2
  <2>2. files[<<d, Summary>>] \in SUBSET Experiments
    BY <1>3, <2>1 DEF ReportReads, Summary, TypeOK
  <2> QED BY <1>3, <2>2 DEF ReportReads, Summary
<1>4. report.at # "idle" => p \in Dirs \X Names
  <2> SUFFICES ASSUME report.at # "idle" PROVE p \in Dirs \X Names
    OBVIOUS
  <2>1. report.dir \in Dirs
    BY DEF Emptied
  <2>2. \E s \in Suites : report.dir = <<report.dir[1], s>>
    BY <2>1 DEF Dirs
  <2>3. Report \in Names
    BY <2>2, FilesFacts DEF Report
  <2> QED BY <2>1, <2>3
<1>5. CASE ReportEmpties
  <2>1. p \in Dirs \X Names /\ files' = [files EXCEPT ![p] = {}]
    BY <1>4, <1>5 DEF ReportEmpties, Report
  <2>2. report' \in [at : {"idle", "empty", "fill"}, dir : Dirs \cup {None},
                     of : SUBSET Experiments]
    BY <1>5 DEF ReportEmpties, TypeOK
  <2>3. {} \in SUBSET Experiments
    OBVIOUS
  <2> HIDE DEF p
  <2> QED BY <2>1, <2>2, <2>3, FilesType
<1>6. CASE ReportFills
  <2>1. /\ p \in Dirs \X Names /\ files' = [files EXCEPT ![p] = files[p] \cup report.of]
        /\ report' = Idle
    BY <1>4, <1>6 DEF ReportFills, Report
  <2>2. files[p] # None /\ report.of \in SUBSET Experiments
    BY <1>6 DEF ReportFills, Emptied, TypeOK
  <2> HIDE DEF p
  <2>3. files[p] \cup report.of \in SUBSET Experiments
    BY <2>1, <2>2 DEF TypeOK
  <2> QED BY <1>2, <2>1, <2>3, FilesType
<1>7. CASE ReportDies
  BY <1>2, <1>7 DEF ReportDies, TypeOK
<1>8. files \in [Dirs \X Names -> (SUBSET Experiments) \cup {None}]
  BY DEF TypeOK
<1> QED BY <1>3, <1>5, <1>6, <1>7, <1>8 DEF ReportWrites

LEMMA TypeStep ==
    ASSUME TypeOK, Named, Emptied, RunsCount, Next
    PROVE  TypeOK'
<1>1. ASSUME NEW e \in Experiments, Dies(e)
      PROVE  TypeOK'
  <2>1. files' \in [Dirs \X Names -> (SUBSET Experiments) \cup {None}]
    BY <1>1 DEF Dies, TypeOK
  <2> QED BY <1>1, <2>1, TypeEnd DEF Dies
<1> QED BY <1>1, TypeRunTask, TypeFinishRun, TypeMakeDir, TypeWrite, TypeReport
        DEF Next, ReportWrites

----------------------------------------------------------------------------
(* Who writes where, and what it finds there *)

LEMMA NamedStep ==
    ASSUME TypeOK, Named, Next
    PROVE  Named'
<1>1. ASSUME NEW e \in Experiments, NEW ok \in BOOLEAN, RunTask(e, ok)
      PROVE  Named'
  BY <1>1 DEF RunTask, Named, Writing
<1>2. ASSUME NEW e \in Experiments, FinishRun(e)
      PROVE  Named'
  BY <1>2 DEF FinishRun, Named, Writing
<1>3. ASSUME NEW e \in Experiments, MakeDir(e)
      PROVE  Named'
  <2>1. PICK s \in Seconds : second' = [second EXCEPT ![e] = s]
    BY <1>3 DEF MakeDir
  <2>2. at' = [at EXCEPT ![e] = "empty"]
    BY <1>3 DEF MakeDir
  <2>3. next' = next
    BY <1>3 DEF MakeDir
  <2> QED BY <2>1, <2>2, <2>3, NoneAssumption DEF Named, Writing, TypeOK
<1>4. ASSUME NEW e \in Experiments, Empty(e) \/ Fill(e) \/ Dies(e)
      PROVE  Named'
  <2>1. PICK where \in {"empty", "fill", "done", "dead"} :
           /\ at' = [at EXCEPT ![e] = where]
           /\ where \in {"empty", "fill", "done"} => at[e] \in {"empty", "fill"}
    BY <1>4 DEF Empty, Fill, Dies, End
  <2>2. second' = second
    BY <1>4 DEF Empty, Fill, Dies
  <2>3. \A f \in Experiments \ {e} : next'[f] = next[f]
    BY <1>4 DEF Empty, Fill, Dies, End, TypeOK
  <2>4. ASSUME NEW f \in Experiments
        PROVE  /\ at'[f] = "run" => second'[f] = None /\ next'[f] = 1
               /\ Writing(f)' \/ at'[f] = "done" => second'[f] # None
    BY <2>1, <2>2, <2>3 DEF Named, Writing, TypeOK
  <2> QED BY <2>4 DEF Named
<1>5. ASSUME UNCHANGED <<at, second, next>>
      PROVE  Named'
  BY <1>5 DEF Named, Writing
<1>6. (\E d \in Dirs : ReportReads(d)) \/ ReportEmpties \/ ReportFills \/ ReportDies
         => UNCHANGED <<at, second, next>>
  BY DEF ReportReads, ReportEmpties, ReportFills, ReportDies
<1> QED BY <1>1, <1>2, <1>3, <1>4, <1>5, <1>6 DEF Next

\* Nothing is ever removed, and what is written is never None.
LEMMA FilesStay ==
    ASSUME TypeOK, Named, Emptied, Next, NEW p \in Dirs \X Names, files[p] # None
    PROVE  files'[p] # None
<1>1. ASSUME NEW e \in Experiments, Empty(e) \/ Fill(e)
      PROVE  files'[p] # None
  <2>1. PICK q : \/ files' = [files EXCEPT ![q] = {}]
                 \/ files' = [files EXCEPT ![q] = files[q] \cup {e}]
    BY <1>1 DEF Empty, Fill
  <2> QED BY <2>1, NoneAssumption DEF TypeOK
<1>2. ASSUME ReportWrites
      PROVE  files'[p] # None
  <2>1. PICK q : \/ files' = [files EXCEPT ![q] = {}]
                 \/ files' = [files EXCEPT ![q] = files[q] \cup report.of]
    BY <1>2 DEF ReportWrites, ReportEmpties, ReportFills
  <2> QED BY <2>1, NoneAssumption DEF TypeOK
<1>3. ASSUME files' = files
      PROVE  files'[p] # None
  BY <1>3
<1> QED BY <1>1, <1>2, <1>3
        DEF Next, RunTask, FinishRun, MakeDir, Dies, ReportReads, ReportDies, ReportWrites

\* Only two things write, each one file.
LEMMA OnlyWriters ==
    ASSUME TypeOK, Next, NEW p \in Dirs \X Names, files'[p] # files[p]
    PROVE  \/ \E e \in Experiments : (Empty(e) \/ Fill(e)) /\ p = <<Dir(e), File(e, next[e])>>
           \/ ReportWrites /\ p = <<report.dir, Report>>
<1>1. ASSUME NEW e \in Experiments, Empty(e) \/ Fill(e), p # <<Dir(e), File(e, next[e])>>
      PROVE  files'[p] = files[p]
  <2>1. PICK content : files' = [files EXCEPT ![<<Dir(e), File(e, next[e])>>] = content]
    BY <1>1 DEF Empty, Fill, File
  <2> QED BY <1>1, <2>1 DEF TypeOK
<1>2. ASSUME ReportWrites, p # <<report.dir, Report>>
      PROVE  files'[p] = files[p]
  <2>1. PICK content : files' = [files EXCEPT ![<<report.dir, Report>>] = content]
    BY <1>2 DEF ReportWrites, ReportEmpties, ReportFills, Report
  <2> QED BY <1>2, <2>1 DEF TypeOK
<1> QED BY <1>1, <1>2
        DEF Next, RunTask, FinishRun, MakeDir, Dies, ReportReads, ReportDies, ReportWrites

\* An experiment keeps its suite, and the second it named its directory in.
LEMMA SecondStays ==
    ASSUME TypeOK, Named, Next, NEW e \in Experiments
    PROVE  suite' = suite /\ (second[e] # None => second'[e] = second[e])
<1>1. ASSUME NEW f \in Experiments, MakeDir(f), second[e] # None
      PROVE  second'[e] = second[e]
  <2>1. f # e
    BY <1>1 DEF MakeDir, Named
  <2> QED BY <1>1, <2>1 DEF MakeDir, TypeOK
<1>2. ASSUME ~ \E f \in Experiments : MakeDir(f)
      PROVE  second' = second
  BY <1>2 DEF Next, RunTask, FinishRun, Empty, Fill, Dies,
              ReportReads, ReportEmpties, ReportFills, ReportDies
<1>3. suite' = suite
  BY DEF Next, RunTask, FinishRun, MakeDir, Empty, Fill, Dies,
         ReportReads, ReportEmpties, ReportFills, ReportDies
<1> QED BY <1>1, <1>2, <1>3

LEMMA EmptiedStep ==
    ASSUME TypeOK, Named, Emptied, Next
    PROVE  Emptied'
<1>1. ASSUME NEW e \in Experiments, at'[e] = "fill"
      PROVE  Holds(e, File(e, next[e]))' # None
  <2> DEFINE p == <<Dir(e), File(e, next[e])>>
  <2>1. CASE Empty(e)
    <3>1. p \in Dirs \X Names
      BY <2>1, Addressed, NextIsAFile DEF Empty, Writing
    <3>2. files'[p] = {}
      BY <2>1, <3>1 DEF Empty, File, TypeOK
    <3>3. UNCHANGED <<suite, second, next>>
      BY <2>1 DEF Empty
    <3>4. {} # None
      BY NoneAssumption
    <3> QED BY <3>2, <3>3, <3>4 DEF Holds, Dir, File
  <2>2. CASE ~ Empty(e)
    <3>1. at[e] = "fill" /\ next'[e] = next[e]
      <4>1. ASSUME NEW f \in Experiments, Empty(f)
            PROVE  at'[e] = at[e] /\ next' = next
        <5>1. f # e
          BY <2>2, <4>1
        <5> QED BY <4>1, <5>1 DEF Empty, TypeOK
      <4>2. ASSUME NEW f \in Experiments, Fill(f) \/ Dies(f)
            PROVE  at'[e] = at[e] /\ next'[e] = next[e]
        <5>1. PICK where \in {"empty", "done", "dead"} :
                 /\ at' = [at EXCEPT ![f] = where]
                 /\ \E n : next' = [next EXCEPT ![f] = n]
          BY <4>2 DEF Fill, Dies, End
        <5>2. f # e
          BY <1>1, <5>1 DEF TypeOK
        <5> QED BY <5>1, <5>2 DEF TypeOK
      <4>3. ASSUME NEW f \in Experiments, MakeDir(f)
            PROVE  at'[e] = at[e] /\ next' = next
        BY <1>1, <4>3 DEF MakeDir, TypeOK
      <4>4. (~ \E f \in Experiments : Empty(f) \/ Fill(f) \/ Dies(f) \/ MakeDir(f))
               => UNCHANGED <<at, next>>
        BY DEF Next, RunTask, FinishRun, ReportReads, ReportEmpties, ReportFills, ReportDies
      <4> QED BY <1>1, <4>1, <4>2, <4>3, <4>4
    <3>2. files[p] # None
      BY <3>1 DEF Emptied, Holds
    <3>3. p \in Dirs \X Names /\ second[e] # None
      BY <3>1, Addressed, NextIsAFile DEF Writing, Named
    <3> HIDE DEF p
    <3>4. files'[p] # None
      BY <3>2, <3>3, FilesStay
    <3>5. suite' = suite /\ second'[e] = second[e]
      BY <3>3, SecondStays
    <3> QED BY <3>1, <3>4, <3>5 DEF p, Holds, Dir, File
  <2> QED BY <2>1, <2>2
<1>2. /\ report'.at # "idle" => report'.dir \in Dirs
      /\ report'.at = "fill" => files'[report'.dir, Report] # None
  <2> DEFINE p == <<report.dir, Report>>
  <2>0. report.at # "idle" => p \in Dirs \X Names
    <3> SUFFICES ASSUME report.at # "idle" PROVE p \in Dirs \X Names
      OBVIOUS
    <3>1. report.dir \in Dirs
      BY DEF Emptied
    <3>2. \E s \in Suites : report.dir = <<report.dir[1], s>>
      BY <3>1 DEF Dirs
    <3>3. Report \in Names
      BY <3>2, FilesFacts DEF Report
    <3> QED BY <3>1, <3>3
  <2>1. ASSUME NEW d \in Dirs, ReportReads(d)
        PROVE  report'.at = "empty" /\ report'.dir \in Dirs
    BY <2>1 DEF ReportReads
  <2>2. CASE ReportEmpties
    <3>1. report'.dir = report.dir /\ report.at = "empty"
      BY <2>2 DEF ReportEmpties, TypeOK
    <3>2. files'[p] = {}
      BY <2>2, <2>0, <3>1 DEF ReportEmpties, Report, TypeOK
    <3>3. {} # None
      BY NoneAssumption
    <3> QED BY <3>1, <3>2, <3>3 DEF Emptied
  <2>3. CASE ReportFills \/ ReportDies
    <3>1. report'.at = "idle"
      BY <2>3 DEF ReportFills, ReportDies, Idle
    <3> QED BY <3>1
  <2>4. CASE report' = report
    <3>1. report.at = "fill" => files'[p] # None
      <4> SUFFICES ASSUME report.at = "fill" PROVE files'[p] # None
        OBVIOUS
      <4>1. files[p] # None /\ p \in Dirs \X Names
        BY <2>0 DEF Emptied
      <4> HIDE DEF p
      <4> QED BY <4>1, FilesStay
    <3> QED BY <2>4, <3>1 DEF Emptied
  <2>5. \/ \E d \in Dirs : ReportReads(d)
        \/ ReportEmpties \/ ReportFills \/ ReportDies
        \/ report' = report
    BY DEF Next, RunTask, FinishRun, MakeDir, Empty, Fill, Dies
  <2> QED BY <2>1, <2>2, <2>3, <2>4, <2>5
<1> QED BY <1>1, <1>2 DEF Emptied, Report

LEMMA UntouchedStep ==
    ASSUME TypeOK, Named, Emptied, Untouched, Next
    PROVE  Untouched'
<1> SUFFICES ASSUME NEW d \in Dirs, \A e \in Experiments : <<second'[e], suite'[e]>> # d
             PROVE  /\ \A name \in Names : files'[d, name] = None
                    /\ report'.at # "idle" => report'.dir # d
  BY DEF Untouched
<1>1. \A e \in Experiments : <<second[e], suite[e]>> # d
  <2> SUFFICES ASSUME NEW e \in Experiments, <<second[e], suite[e]>> = d
               PROVE  FALSE
    OBVIOUS
  <2>1. second[e] # None
    BY NoneAssumption DEF Dirs
  <2> QED BY <2>1, SecondStays
<1>2. /\ \A name \in Names : files[d, name] = None
      /\ report.at # "idle" => report.dir # d
  BY <1>1 DEF Untouched
<1>3. ASSUME NEW name \in Names
      PROVE  files'[d, name] = None
  <2>1. \A e \in Experiments : d # Dir(e)
    BY <1>1 DEF Dir
  <2>2. ReportWrites => d # report.dir
    BY <1>2 DEF ReportWrites, ReportEmpties, ReportFills
  <2>3. files'[<<d, name>>] = files[<<d, name>>]
    BY <2>1, <2>2, OnlyWriters
  <2> QED BY <1>2, <2>3
<1>4. report'.at # "idle" => report'.dir # d
  <2>1. ASSUME NEW c \in Dirs, ReportReads(c)
        PROVE  report'.dir # d
    <3>1. \E s \in Suites : c = <<c[1], s>>
      BY DEF Dirs
    <3>2. Summary \in Names
      BY <3>1, FilesFacts DEF Summary
    <3>3. files[c, Summary] # None /\ report'.dir = c
      BY <2>1 DEF ReportReads, Summary
    <3> QED BY <1>2, <3>2, <3>3
  <2>2. ReportEmpties => report'.dir = report.dir /\ report.at # "idle"
    BY DEF ReportEmpties, TypeOK
  <2>3. ReportFills \/ ReportDies => report'.at = "idle"
    BY DEF ReportFills, ReportDies, Idle
  <2>4. \/ \E c \in Dirs : ReportReads(c)
        \/ ReportEmpties \/ ReportFills \/ ReportDies
        \/ report' = report
    BY DEF Next, RunTask, FinishRun, MakeDir, Empty, Fill, Dies
  <2> QED BY <1>2, <2>1, <2>2, <2>3, <2>4
<1> QED BY <1>3, <1>4

----------------------------------------------------------------------------
(* What writing a file does to the files of a directory, and nothing else. *)

\* The files of a suite, for the lemmas of this part
IsFiles(F, L) ==
    /\ L \in Nat /\ L >= 3
    /\ F[L - 1] = Summary /\ F[L] = Report
    /\ \A n \in 1..(L - 1) : F[n] # Report
    /\ \A n \in 1..(L - 2) : F[n] # Summary
    /\ \A n \in 1..L : F[n] \in Names

LEMMA SuiteFiles ==
    ASSUME NEW s \in Suites
    PROVE  IsFiles(Files(s), Len(Files(s))) /\ Summary \in Names /\ Report \in Names
           /\ Summary # Report
<1> DEFINE F == Files(s)
           L == Len(F)
<1>1. IsFiles(F, L)
  BY FilesFacts DEF IsFiles
<1> HIDE DEF F, L
<1>2. Summary \in Names /\ Report \in Names
  BY <1>1 DEF IsFiles
<1>3. Summary # Report
  BY DEF Summary, Report
<1> QED BY <1>1, <1>2, <1>3 DEF F, L

\* The two contents of an experiment's file differ, and both from None.
LEMMA Contents ==
    ASSUME NEW e \in Experiments
    PROVE  None # {} /\ None # {e} /\ {} # {e}
<1>1. {} \in SUBSET Experiments /\ {e} \in SUBSET Experiments
  OBVIOUS
<1> QED BY <1>1, NoneAssumption

LEMMA KeptEmpty ==
    ASSUME NEW e \in Experiments, NEW s \in Suites, NEW h, DOMAIN h = Names,
           NEW k \in 1..Len(Files(s)), Kept(e, s, "empty", k, h)
    PROVE  Kept(e, s, "fill", k, [h EXCEPT ![Files(s)[k]] = {}])
<1> DEFINE F == Files(s)
           L == Len(F)
           g == [h EXCEPT ![F[k]] = {}]
<1>1. IsFiles(F, L)
  BY SuiteFiles
<1>2. Summary \in Names /\ Report \in Names /\ Summary # Report
  BY SuiteFiles
<1>3. k \in 1..L
  OBVIOUS
<1>4. /\ \A name \in Names : h[name] \in {None, {}, {e}}
      /\ \A name \in Names : (\A n \in 1..L : F[n] # name) => h[name] = None
      /\ \A n \in 1..(k - 1) : h[F[n]] = {e}
      /\ k < L => h[Report] = None /\ h[Summary] # {e}
      /\ k < L - 1 \/ k = L - 1 => h[Summary] = None
      /\ h[Summary] # None => \A n \in 1..(L - 2) : h[F[n]] = {e}
      /\ h[Report] # None => \A n \in 1..(L - 1) : h[F[n]] = {e}
  BY DEF Kept
<1> HIDE DEF F, L
<1>5. /\ \A name \in Names : g[name] = IF name = F[k] THEN {} ELSE h[name]
      /\ \A n \in 1..L : F[n] \in Names
  BY <1>1 DEF IsFiles
<1> HIDE DEF g
<1>6. /\ \A name \in Names : g[name] \in {None, {}, {e}}
      /\ \A name \in Names : (\A n \in 1..L : F[n] # name) => g[name] = None
      /\ \A n \in 1..(k - 1) : g[F[n]] = {e} \/ F[n] = F[k]
  BY <1>1, <1>3, <1>4, <1>5 DEF IsFiles
<1>7. /\ k < L => g[Report] = None /\ g[Summary] # {e}
      /\ k < L - 1 => g[Summary] = None
  BY <1>1, <1>2, <1>3, <1>4, <1>5, Contents DEF IsFiles
<1>8. ASSUME g[Summary] # None, NEW n \in 1..(L - 2)
      PROVE  g[F[n]] = {e}
  <2>1. k = L - 1 \/ k = L
    BY <1>1, <1>3, <1>7, <1>8 DEF IsFiles
  <2>2. n \in 1..(k - 1) /\ n \in 1..L /\ F[n] # F[k]
    BY <1>1, <1>3, <1>8, <2>1 DEF IsFiles
  <2> QED BY <1>4, <1>5, <2>2
<1>9. ASSUME g[Report] # None, NEW n \in 1..(L - 1)
      PROVE  g[F[n]] = {e}
  <2>1. k = L
    BY <1>1, <1>3, <1>7, <1>9 DEF IsFiles
  <2>2. n \in 1..(k - 1) /\ n \in 1..L /\ F[n] # F[k]
    BY <1>1, <1>3, <1>9, <2>1 DEF IsFiles
  <2> QED BY <1>4, <1>5, <2>2
<1> QED BY <1>6, <1>7, <1>8, <1>9 DEF Kept, F, L, g

\* The last file of all makes the experiment done.
LEMMA KeptFill ==
    ASSUME NEW e \in Experiments, NEW s \in Suites, NEW h, DOMAIN h = Names,
           NEW k \in 1..Len(Files(s)), Kept(e, s, "fill", k, h), h[Files(s)[k]] # None
    PROVE  LET g == [h EXCEPT ![Files(s)[k]] = h[Files(s)[k]] \cup {e}]
           IN /\ k < Len(Files(s)) => Kept(e, s, "empty", k + 1, g)
              /\ k = Len(Files(s)) => Kept(e, s, "done", 1, g)
<1> DEFINE F == Files(s)
           L == Len(F)
           g == [h EXCEPT ![F[k]] = h[F[k]] \cup {e}]
<1>1. IsFiles(F, L)
  BY SuiteFiles
<1>2. Summary \in Names /\ Report \in Names /\ Summary # Report
  BY SuiteFiles
<1>3. k \in 1..L
  OBVIOUS
<1>4. /\ \A name \in Names : h[name] \in {None, {}, {e}}
      /\ \A name \in Names : (\A n \in 1..L : F[n] # name) => h[name] = None
      /\ \A n \in 1..(k - 1) : h[F[n]] = {e} \/ F[n] = F[k]
      /\ k < L => h[Report] = None /\ h[Summary] # {e}
      /\ k < L - 1 => h[Summary] = None
      /\ h[Summary] # None => \A n \in 1..(L - 2) : h[F[n]] = {e}
      /\ h[Report] # None => \A n \in 1..(L - 1) : h[F[n]] = {e}
      /\ h[F[k]] # None
  BY DEF Kept
<1> HIDE DEF F, L
<1>5. \A n \in 1..L : F[n] \in Names
  BY <1>1 DEF IsFiles
<1>6. h[F[k]] \cup {e} = {e}
  <2>1. h[F[k]] \in {{}, {e}}
    BY <1>3, <1>4, <1>5
  <2> QED BY <2>1
<1>7. \A name \in Names : g[name] = IF name = F[k] THEN {e} ELSE h[name]
  BY <1>3, <1>5, <1>6
<1> HIDE DEF g
<1>8. /\ \A name \in Names : g[name] \in {None, {}, {e}}
      /\ \A name \in Names : (\A n \in 1..L : F[n] # name) => g[name] = None
  BY <1>3, <1>4, <1>7
<1>9. \A n \in 1..k : g[F[n]] = {e}
  <2> TAKE n \in 1..k
  <2>1. F[n] \in Names /\ (n \in 1..(k - 1) \/ n = k)
    BY <1>1, <1>3, <1>5 DEF IsFiles
  <2> QED BY <1>4, <1>7, <2>1
<1>10. /\ k < L => g[Report] = None
       /\ k < L - 1 => g[Summary] = None
  BY <1>1, <1>2, <1>3, <1>4, <1>7 DEF IsFiles
<1>11. ASSUME g[Summary] # None, NEW n \in 1..(L - 2)
       PROVE  g[F[n]] = {e}
  <2>1. k = L - 1 \/ k = L
    BY <1>1, <1>3, <1>10, <1>11 DEF IsFiles
  <2>2. n \in 1..k
    BY <1>1, <1>3, <2>1 DEF IsFiles
  <2> QED BY <1>9, <2>2
<1>12. ASSUME g[Report] # None, NEW n \in 1..(L - 1)
       PROVE  g[F[n]] = {e}
  <2>1. k = L
    BY <1>1, <1>3, <1>10, <1>12 DEF IsFiles
  <2>2. n \in 1..k
    BY <1>1, <1>3, <2>1 DEF IsFiles
  <2> QED BY <1>9, <2>2
<1>13. CASE k < L
  <2>1. \A n \in 1..((k + 1) - 1) : g[F[n]] = {e}
    BY <1>3, <1>9
  <2>2. /\ k + 1 < L => g[Report] = None /\ g[Summary] # {e}
        /\ k + 1 < L - 1 \/ k + 1 = L - 1 => g[Summary] = None
    BY <1>1, <1>3, <1>10, <1>13, Contents DEF IsFiles
  <2>3. Kept(e, s, "empty", k + 1, g)
    BY <1>8, <1>11, <1>12, <2>1, <2>2 DEF Kept, F, L
  <2> QED BY <1>13, <2>3 DEF F, L, g
<1>14. CASE k = L
  <2>1. g[Report] # None
    BY <1>1, <1>3, <1>9, <1>14, Contents DEF IsFiles
  <2>2. Kept(e, s, "done", 1, g)
    BY <1>8, <1>11, <1>12, <2>1 DEF Kept, F, L
  <2> QED BY <1>14, <2>2 DEF F, L, g
<1> QED BY <1>1, <1>3, <1>13, <1>14 DEF IsFiles, F, L, g

\* The report command writes when the summary is complete.
LEMMA KeptReport ==
    ASSUME NEW e \in Experiments, NEW s \in Suites, NEW h, DOMAIN h = Names,
           NEW where, NEW k \in 1..Len(Files(s)), Kept(e, s, where, k, h),
           h[Summary] = {e}, NEW content \in {{}, {e}}
    PROVE  Kept(e, s, where, k, [h EXCEPT ![Report] = content])
<1> DEFINE F == Files(s)
           L == Len(F)
           writing == where \in {"empty", "fill"}
           g == [h EXCEPT ![Report] = content]
<1>1. IsFiles(F, L)
  BY SuiteFiles
<1>2. Summary \in Names /\ Report \in Names /\ Summary # Report
  BY SuiteFiles
<1>3. k \in 1..L
  OBVIOUS
<1>4. /\ \A name \in Names : h[name] \in {None, {}, {e}}
      /\ \A name \in Names : (\A n \in 1..L : F[n] # name) => h[name] = None
      /\ writing => \A n \in 1..(k - 1) :
             h[F[n]] = {e} \/ (where = "fill" /\ F[n] = F[k])
      /\ writing => ~ k < L
      /\ \A n \in 1..(L - 2) : h[F[n]] = {e}
  BY Contents DEF Kept
<1> HIDE DEF F, L, writing
<1>5. \A name \in Names : g[name] = IF name = Report THEN content ELSE h[name]
  OBVIOUS
<1>6. content # None
  BY Contents
<1> HIDE DEF g
<1>7. /\ \A name \in Names : g[name] \in {None, {}, {e}}
      /\ \A name \in Names : (\A n \in 1..L : F[n] # name) => g[name] = None
  BY <1>1, <1>3, <1>4, <1>5 DEF IsFiles
<1>8. \A n \in 1..(L - 1) : g[F[n]] = {e}
  <2> TAKE n \in 1..(L - 1)
  <2>1. n \in 1..L /\ (n \in 1..(L - 2) \/ n = L - 1)
    BY <1>1 DEF IsFiles
  <2>2. F[n] \in Names /\ F[n] # Report /\ h[F[n]] = {e}
    BY <1>1, <1>4, <2>1 DEF IsFiles
  <2> QED BY <1>5, <2>2
<1>9. writing => \A n \in 1..(k - 1) : g[F[n]] = {e}
  BY <1>1, <1>3, <1>8 DEF IsFiles
<1>10. \A n \in 1..(L - 2) : g[F[n]] = {e}
  BY <1>1, <1>8 DEF IsFiles
<1>11. writing => ~ k < L - 1 /\ ~ k = L - 1
  BY <1>1, <1>3, <1>4 DEF IsFiles
<1>12. g[Report] # None
  BY <1>2, <1>5, <1>6
<1> QED BY <1>4, <1>7, <1>8, <1>9, <1>10, <1>11, <1>12 DEF Kept, F, L, g, writing

\* To die changes no file, and promises nothing new.
LEMMA KeptDies ==
    ASSUME NEW e \in Experiments, NEW s \in Suites, NEW h, NEW where, NEW k,
           Kept(e, s, where, k, h)
    PROVE  Kept(e, s, "dead", 1, h)
BY DEF Kept

\* An empty directory promises what an experiment that begins needs.
LEMMA KeptNone ==
    ASSUME NEW e \in Experiments, NEW s \in Suites, NEW h, \A name \in Names : h[name] = None
    PROVE  Kept(e, s, "empty", 1, h)
<1>1. Summary \in Names /\ Report \in Names
  BY SuiteFiles
<1>2. 1..(1 - 1) = {}
  OBVIOUS
<1> QED BY <1>1, <1>2, Contents DEF Kept

----------------------------------------------------------------------------
(* Nobody else writes into the directory of an experiment that has it to itself. *)

LEMMA OwnFrame ==
    ASSUME TypeOK, NEW e \in Experiments, Own(e),
           suite'[e] = suite[e], second'[e] = second[e],
           at'[e] = at[e], next'[e] = next[e], report' = report,
           \A name \in Names : files'[Dir(e), name] = files[Dir(e), name]
    PROVE  Own(e)'
<1>1. Dir(e)' = Dir(e)
  BY DEF Dir
<1>2. Held(Dir(e))' = Held(Dir(e))
  BY <1>1 DEF Held
<1>3. Summary \in Names
  BY SuiteFiles DEF TypeOK
<1>4. Holds(e, Summary)' = Holds(e, Summary)
  BY <1>1, <1>3 DEF Holds
<1> QED BY <1>1, <1>2, <1>4 DEF Own

LEMMA OwnMakeDir ==
    ASSUME TypeOK, Named, Untouched, NEW e \in Experiments, MakeDir(e), OnItsOwn(e)',
           Dir(e)' \in Dirs
    PROVE  Own(e)'
<1> DEFINE d == Dir(e)'
<1>1. /\ at'[e] = "empty" /\ next'[e] = 1 /\ second[e] = None /\ suite' = suite
      /\ files' = files /\ report' = report
      /\ \A f \in Experiments \ {e} : second'[f] = second[f]
  BY DEF MakeDir, TypeOK, Named
<1>2. ASSUME NEW f \in Experiments
      PROVE  <<second[f], suite[f]>> # d
  <2>1. CASE f = e
    <3>1. second'[e] # None
      BY DEF OnItsOwn
    <3> QED BY <1>1, <2>1, <3>1 DEF Dir
  <2>2. CASE f # e
    BY <1>1, <2>2 DEF OnItsOwn, Dir
  <2> QED BY <2>1, <2>2
<1>3. /\ \A name \in Names : files[d, name] = None
      /\ report.at # "idle" => report.dir # d
  BY <1>2 DEF Untouched
<1>4. \A name \in Names : Held(Dir(e))'[name] = None
  BY <1>1, <1>3 DEF Held
<1>5. suite[e] \in Suites
  BY DEF TypeOK
<1>6. Kept(e, suite[e], "empty", 1, Held(Dir(e))')
  BY <1>4, <1>5, KeptNone
<1> QED BY <1>1, <1>3, <1>6 DEF Own

LEMMA OwnWrites ==
    ASSUME TypeOK, Named, Emptied, NEW e \in Experiments, Own(e), Empty(e) \/ Fill(e)
    PROVE  Own(e)'
<1> DEFINE s == suite[e]
           k == next[e]
           h == Held(Dir(e))
           p == <<Dir(e), File(e, k)>>
<1>1. s \in Suites /\ k \in 1..Len(Files(s)) /\ DOMAIN h = Names
  BY NextIsAFile DEF TypeOK, Last, Held
<1>2. File(e, k) = Files(s)[k] /\ File(e, k) \in Names /\ p \in Dirs \X Names
  <2>1. p \in Dirs \X Names
    BY Addressed, NextIsAFile DEF Empty, Fill, Writing
  <2> QED BY <2>1 DEF File
<1>3. Kept(e, s, at[e], k, h)
  BY DEF Own
<1>4. suite' = suite /\ Dir(e)' = Dir(e) /\ report' = report
  BY DEF Empty, Fill, Dir
<1>5. ASSUME NEW content, files' = [files EXCEPT ![p] = content]
      PROVE  Held(Dir(e))' = [h EXCEPT ![File(e, k)] = content]
  <2>1. ASSUME NEW name \in Names
        PROVE  files'[Dir(e), name] = IF name = File(e, k) THEN content ELSE files[Dir(e), name]
    <3>1. <<Dir(e), name>> \in Dirs \X Names
      BY <1>2
    <3>2. <<Dir(e), name>> = p <=> name = File(e, k)
      OBVIOUS
    <3> HIDE DEF p
    <3> QED BY <1>5, <3>1, <3>2 DEF TypeOK
  <2> QED BY <1>2, <1>4, <2>1 DEF Held
\* A summary that the report command holds is complete, and another file is written.
<1>6. ASSUME report.at # "idle", report.dir = Dir(e)
      PROVE  report.of = {e} /\ Holds(e, Summary)' = {e}
  <2>1. report.of = {e} /\ h[Summary] = {e} /\ Summary \in Names
    BY <1>1, <1>6, SuiteFiles DEF Own, Held, Holds
  <2>2. ~ k < Len(Files(s))
    <3>1. at[e] \in {"empty", "fill"}
      BY DEF Empty, Fill
    <3> QED BY <1>3, <2>1, <3>1 DEF Kept
  <2>3. File(e, k) # Summary
    BY <1>1, <1>2, <2>2, SuiteFiles DEF IsFiles
  <2>4. Held(Dir(e))'[Summary] = {e}
    <3>1. PICK content : files' = [files EXCEPT ![p] = content]
      BY DEF Empty, Fill, File
    <3> QED BY <1>1, <1>5, <2>1, <2>3, <3>1
  <2> QED BY <1>4, <2>1, <2>4 DEF Held, Holds
<1>7. CASE Empty(e)
  <2>1. at[e] = "empty" /\ at'[e] = "fill" /\ next'[e] = k
    BY <1>7 DEF Empty, TypeOK
  <2>2. files' = [files EXCEPT ![p] = {}]
    BY <1>7 DEF Empty, File
  <2>3. Held(Dir(e))' = [h EXCEPT ![Files(s)[k]] = {}]
    BY <1>2, <1>5, <2>2
  <2> HIDE DEF s, k, h, p
  <2>4. Kept(e, s, "fill", k, Held(Dir(e))')
    <3>1. Kept(e, s, "empty", k, h)
      BY <1>3, <2>1
    <3>2. Kept(e, s, "fill", k, [h EXCEPT ![Files(s)[k]] = {}])
      BY <1>1, <3>1, KeptEmpty
    <3> QED BY <2>3, <3>2
  <2> QED BY <1>4, <1>6, <2>1, <2>4 DEF Own, s
<1>8. CASE Fill(e)
  <2>1. at[e] = "fill"
    BY <1>8 DEF Fill
  <2>2. files[p] = h[Files(s)[k]]
    BY <1>2 DEF Held
  <2>3. files' = [files EXCEPT ![p] = files[p] \cup {e}]
    BY <1>8 DEF Fill, File
  <2>4. Held(Dir(e))' = [h EXCEPT ![Files(s)[k]] = h[Files(s)[k]] \cup {e}]
    BY <1>2, <1>5, <2>2, <2>3
  <2>5. h[Files(s)[k]] # None
    BY <2>1, <1>2 DEF Emptied, Held, Holds
  <2>6. \/ k = Len(Files(s)) /\ at'[e] = "done" /\ next'[e] = 1
        \/ k < Len(Files(s)) /\ at'[e] = "empty" /\ next'[e] = k + 1
    BY <1>8 DEF Fill, End, TypeOK
  <2> HIDE DEF s, k, h, p
  <2>7. /\ k < Len(Files(s)) => Kept(e, s, "empty", k + 1, Held(Dir(e))')
        /\ k = Len(Files(s)) => Kept(e, s, "done", 1, Held(Dir(e))')
    <3>1. Kept(e, s, "fill", k, h)
      BY <1>3, <2>1
    <3> DEFINE g == [h EXCEPT ![Files(s)[k]] = h[Files(s)[k]] \cup {e}]
    <3>2. /\ k < Len(Files(s)) => Kept(e, s, "empty", k + 1, g)
          /\ k = Len(Files(s)) => Kept(e, s, "done", 1, g)
      BY <1>1, <2>5, <3>1, KeptFill
    <3> QED BY <2>4, <3>2
  <2>8. Kept(e, s, at'[e], next'[e], Held(Dir(e))')
    BY <2>6, <2>7
  <2> QED BY <1>4, <1>6, <2>8 DEF Own, s
<1> QED BY <1>7, <1>8

LEMMA OwnReport ==
    ASSUME TypeOK, Named, Emptied, NEW e \in Experiments, second[e] # None, Own(e),
           (\E d \in Dirs : ReportReads(d)) \/ ReportWrites \/ ReportDies
    PROVE  Own(e)'
<1> DEFINE s == suite[e]
           h == Held(Dir(e))
<1>1. UNCHANGED <<suite, at, second, next>> /\ Dir(e)' = Dir(e)
  BY DEF ReportReads, ReportWrites, ReportEmpties, ReportFills, ReportDies, Dir
<1>2. s \in Suites /\ next[e] \in 1..Len(Files(s)) /\ DOMAIN h = Names /\ Dir(e) \in Dirs
  BY NextIsAFile DEF TypeOK, Last, Held, Dir, Dirs
<1>3. Summary \in Names /\ Report \in Names /\ Summary # Report
  BY <1>2, SuiteFiles
<1>4. Kept(e, s, at[e], next[e], h)
  BY DEF Own
<1>5. ASSUME NEW d \in Dirs, ReportReads(d)
      PROVE  Own(e)'
  <2>1. /\ Held(Dir(e))' = h /\ files' = files
        /\ report'.dir = d /\ report'.of = files[d, Summary]
        /\ files[d, Summary] \notin {None, {}}
    BY <1>1, <1>5 DEF ReportReads, Held, Summary
  <2>2. ASSUME d = Dir(e)
        PROVE  files[d, Summary] = {e}
    <3>1. h[Summary] \in {None, {}, {e}}
      BY <1>3, <1>4 DEF Kept
    <3> QED BY <1>3, <2>1, <2>2, <3>1 DEF Held
  <2> QED BY <1>1, <1>4, <2>1, <2>2 DEF Own, Holds
<1>6. CASE ReportDies
  BY <1>1, <1>6 DEF ReportDies, Idle, Own, Held
<1>7. CASE ReportWrites /\ report.dir # Dir(e)
  <2>1. PICK content : files' = [files EXCEPT ![<<report.dir, Report>>] = content]
    BY <1>7 DEF ReportWrites, ReportEmpties, ReportFills, Report
  <2>2. \A name \in Names : files'[Dir(e), name] = files[Dir(e), name]
    BY <1>2, <1>7, <2>1 DEF TypeOK
  <2>3. Held(Dir(e))' = h
    BY <1>1, <2>2 DEF Held
  <2>4. report'.at # "idle" => report'.dir = report.dir
    BY <1>7 DEF ReportWrites, ReportEmpties, ReportFills, Idle, TypeOK
  <2> QED BY <1>1, <1>4, <1>7, <2>3, <2>4 DEF Own
<1>8. CASE ReportWrites /\ report.dir = Dir(e)
  <2>1. report.at # "idle"
    BY <1>8 DEF ReportWrites, ReportEmpties, ReportFills
  <2>2. report.of = {e} /\ h[Summary] = {e}
    BY <1>3, <1>8, <2>1 DEF Own, Holds, Held
  <2>3. PICK content \in {{}, {e}} :
            files' = [files EXCEPT ![<<Dir(e), Report>>] = content]
    <3>1. CASE ReportEmpties
      BY <1>8, <3>1 DEF ReportEmpties, Report
    <3>2. CASE ReportFills
      <4>1. files' = [files EXCEPT ![<<Dir(e), Report>>] = files[Dir(e), Report] \cup {e}]
        BY <1>8, <2>2, <3>2 DEF ReportFills, Report
      <4>2. files[Dir(e), Report] # None /\ files[Dir(e), Report] = h[Report]
        BY <1>3, <1>8, <3>2 DEF ReportFills, Emptied, Held
      <4>3. h[Report] \in {None, {}, {e}}
        BY <1>3, <1>4 DEF Kept
      <4>4. files[Dir(e), Report] \cup {e} = {e}
        BY <4>2, <4>3
      <4> QED BY <4>1, <4>4
    <3> QED BY <1>8, <3>1, <3>2 DEF ReportWrites
  <2>4. Held(Dir(e))' = [h EXCEPT ![Report] = content]
    <3>1. ASSUME NEW name \in Names
          PROVE  files'[Dir(e), name] = IF name = Report THEN content ELSE files[Dir(e), name]
      <4>1. <<Dir(e), name>> \in Dirs \X Names
        BY <1>2
      <4> QED BY <2>3, <4>1 DEF TypeOK
    <3> QED BY <1>1, <1>3, <3>1 DEF Held
  <2> HIDE DEF h, s
  <2>5. Kept(e, s, at[e], next[e], Held(Dir(e))')
    <3>1. Kept(e, s, at[e], next[e], [h EXCEPT ![Report] = content])
      BY <1>2, <1>4, <2>2, KeptReport
    <3> QED BY <2>4, <3>1
  <2>6. Held(Dir(e))'[Summary] = {e}
    BY <1>2, <1>3, <2>2, <2>4
  <2>7. report'.at # "idle" => report'.of = report.of
    BY <1>8 DEF ReportWrites, ReportEmpties, ReportFills, Idle, TypeOK
  <2> QED BY <1>1, <1>3, <2>2, <2>5, <2>6, <2>7 DEF Own, Held, Holds, s
<1> QED BY <1>5, <1>6, <1>7, <1>8

LEMMA OwnStep ==
    ASSUME TypeOK, Named, Emptied, Untouched, OwnInv, Next, TypeOK',
           NEW e \in Experiments, OnItsOwn(e)'
    PROVE  Own(e)'
<1>1. second'[e] # None /\ Dir(e)' \in Dirs
  BY DEF OnItsOwn, TypeOK, Dir, Dirs
<1>2. CASE MakeDir(e)
  BY <1>1, <1>2, OwnMakeDir
<1>3. CASE ~ MakeDir(e)
  <2>1. second'[e] = second[e] /\ suite' = suite
    <3>1. second'[e] = second[e]
      BY <1>3 DEF Next, MakeDir, RunTask, FinishRun, Empty, Fill, Dies,
                  ReportReads, ReportEmpties, ReportFills, ReportDies, TypeOK
    <3> QED BY <3>1, SecondStays
  <2>2. second[e] # None /\ at[e] # "run"
    BY <1>1, <2>1 DEF Named
  <2>3. \A f \in Experiments \ {e} : <<second[f], suite[f]>> # Dir(e)
    <3> SUFFICES ASSUME NEW f \in Experiments \ {e}, <<second[f], suite[f]>> = Dir(e)
                 PROVE  FALSE
      OBVIOUS
    <3>1. second[f] # None
      BY <2>2 DEF Dir
    <3>2. second'[f] = second[f]
      BY <3>1, SecondStays
    <3> QED BY <2>1, <3>2 DEF OnItsOwn, Dir
  <2>4. OnItsOwn(e) /\ Own(e)
    BY <2>2, <2>3 DEF OwnInv, OnItsOwn, Dir
  <2>5. CASE Empty(e) \/ Fill(e)
    BY <2>4, <2>5, OwnWrites
  <2>6. CASE Dies(e)
    <3>1. /\ at'[e] = "dead" /\ next'[e] = 1 /\ Dir(e)' = Dir(e)
          /\ UNCHANGED <<suite, files, report>>
      BY <2>6 DEF Dies, End, TypeOK, Dir
    <3>2. Kept(e, suite[e], "dead", 1, Held(Dir(e)))
      BY <2>4, KeptDies DEF Own, TypeOK
    <3> QED BY <2>4, <3>1, <3>2 DEF Own, Held, Holds
  <2>7. CASE (\E d \in Dirs : ReportReads(d)) \/ ReportWrites \/ ReportDies
    BY <2>2, <2>4, <2>7, OwnReport
  <2>8. ASSUME NEW f \in Experiments,
               \/ \E ok \in BOOLEAN : RunTask(f, ok)
               \/ FinishRun(f) \/ MakeDir(f) \/ Empty(f) \/ Fill(f) \/ Dies(f),
               ~ (Empty(e) \/ Fill(e) \/ Dies(e))
        PROVE  Own(e)'
    <3>1. report' = report
      BY <2>8 DEF RunTask, FinishRun, MakeDir, Empty, Fill, Dies
    <3>2. at'[e] = at[e] /\ next'[e] = next[e]
      <4>1. CASE f = e
        BY <1>3, <2>8, <4>1 DEF RunTask, FinishRun
      <4>2. CASE f # e
        BY <2>8, <4>2 DEF RunTask, FinishRun, MakeDir, Empty, Fill, Dies, End, TypeOK
      <4> QED BY <4>1, <4>2
    <3>3. ASSUME NEW name \in Names
          PROVE  files'[Dir(e), name] = files[Dir(e), name]
      <4>1. CASE Empty(f) \/ Fill(f)
        <5>1. f # e /\ Dir(f) # Dir(e)
          BY <2>3, <2>8, <4>1 DEF Dir
        <5>2. PICK content : files' = [files EXCEPT ![<<Dir(f), File(f, next[f])>>] = content]
          BY <4>1 DEF Empty, Fill, File
        <5>3. <<Dir(e), name>> \in Dirs \X Names
          BY <2>2 DEF TypeOK, Dir, Dirs
        <5> QED BY <5>1, <5>2, <5>3 DEF TypeOK
      <4>2. CASE ~ (Empty(f) \/ Fill(f))
        BY <2>8, <4>2 DEF RunTask, FinishRun, MakeDir, Dies
      <4> QED BY <4>1, <4>2
    <3> QED BY <2>1, <2>4, <3>1, <3>2, <3>3, OwnFrame
  <2> QED BY <2>5, <2>6, <2>7, <2>8 DEF Next, ReportWrites
<1> QED BY <1>2, <1>3

----------------------------------------------------------------------------
(* How often a run reuses its memory *)

LEMMA CountRunTask ==
    ASSUME TypeOK, RunsCount, NEW e \in Experiments, NEW ok \in BOOLEAN, RunTask(e, ok)
    PROVE  RunsCount'
<1> DEFINE r == current[e]
           config == RawName(suite[e], Len(raw[e]) + 1)[1]
           hit == r.stored /\ config \in UsesMemory
<1>1. UNCHANGED <<suite, at, raw>> /\ at[e] = "run"
      /\ Len(raw[e]) < Len(RawFiles(suite[e])) /\ r.tasks < TaskCount
  BY DEF RunTask
<1>2. PICK counted \in (IF ok THEN {hit} ELSE {hit, FALSE}),
           stored \in (IF ok THEN {TRUE} ELSE {r.stored, TRUE}) :
        current' = [current EXCEPT ![e] =
            [tasks |-> r.tasks + 1, ok |-> r.ok /\ ok,
             used |-> r.used + IF counted THEN 1 ELSE 0, stored |-> stored]]
  BY DEF RunTask
<1>3. /\ r.tasks \in Nat /\ r.used \in Nat /\ r.used <= r.tasks
      /\ r.tasks = 0 => r = Fresh
      /\ r.ok /\ r.tasks > 0 => r.stored /\ r.used = Uses(config, r.tasks)
  BY SizesAssumption DEF TypeOK, RunsCount
<1> HIDE DEF config
<1> DEFINE q == current'[e]
<1>4. /\ q.tasks = r.tasks + 1 /\ q.ok = (r.ok /\ ok) /\ q.stored = stored
      /\ q.used = r.used + IF counted THEN 1 ELSE 0
      /\ \A f \in Experiments \ {e} : current'[f] = current[f]
  BY <1>2 DEF TypeOK
<1>5. q.used <= q.tasks /\ q.tasks > 0
  BY <1>3, <1>4
<1>6. q.ok => q.stored /\ q.used = Uses(config, q.tasks)
  <2> SUFFICES ASSUME q.ok PROVE q.stored /\ q.used = Uses(config, q.tasks)
    OBVIOUS
  <2>1. r.ok /\ ok /\ q.stored /\ counted = hit
    BY <1>2, <1>4
  <2>2. CASE r.tasks = 0
    <3>1. r.used = 0 /\ ~ r.stored
      BY <1>3, <2>2 DEF Fresh
    <3>2. ~ counted
      BY <2>1, <3>1
    <3>3. q.used = 0 /\ q.tasks = 1
      BY <1>4, <2>2, <3>1, <3>2
    <3> QED BY <2>1, <3>3 DEF Uses
  <2>3. CASE r.tasks > 0
    <3>1. r.stored /\ r.used = Uses(config, r.tasks)
      BY <1>3, <2>1, <2>3
    <3>2. counted <=> config \in UsesMemory
      BY <2>1, <3>1
    <3> QED BY <1>3, <1>4, <2>1, <2>3, <3>1, <3>2 DEF Uses
  <2> QED BY <1>3, <2>2, <2>3
<1> HIDE DEF r, hit, q
<1> QED BY <1>1, <1>4, <1>5, <1>6 DEF RunsCount, config, q

LEMMA CountFinishRun ==
    ASSUME TypeOK, RunsCount, NEW e \in Experiments, FinishRun(e)
    PROVE  RunsCount'
<1> DEFINE r == [ok |-> current[e].ok, used |-> current[e].used]
<1>1. /\ raw' = [raw EXCEPT ![e] = Append(raw[e], r)]
      /\ current' = [current EXCEPT ![e] = Fresh]
      /\ UNCHANGED <<suite, at>>
      /\ current[e].tasks = TaskCount
  BY DEF FinishRun
<1>2. r.ok => r.used = Uses(RawName(suite[e], Len(raw[e]) + 1)[1], TaskCount)
  <2>1. CASE TaskCount > 0
    BY <1>1, <2>1 DEF RunsCount
  <2>2. CASE TaskCount = 0
    BY <1>1, <2>2 DEF RunsCount, Fresh, Uses
  <2> QED BY <2>1, <2>2, SizesAssumption
<1>3. raw[e] \in Seq(Run) /\ r \in Run
  BY DEF TypeOK, Run
<1> HIDE DEF r
<1>4. /\ DOMAIN Append(raw[e], r) = 1..(Len(raw[e]) + 1)
      /\ DOMAIN raw[e] = 1..Len(raw[e]) /\ Len(raw[e]) \in Nat
      /\ Append(raw[e], r)[Len(raw[e]) + 1] = r
      /\ \A n \in 1..Len(raw[e]) : Append(raw[e], r)[n] = raw[e][n]
  BY <1>3
<1>5. raw'[e] = Append(raw[e], r) /\ current'[e] = Fresh
  BY <1>1 DEF TypeOK
<1>6. \A n \in DOMAIN raw'[e] : raw'[e][n].ok =>
          raw'[e][n].used = Uses(RawName(suite[e], n)[1], TaskCount)
  <2> TAKE n \in DOMAIN raw'[e]
  <2>1. CASE n \in DOMAIN raw[e]
    BY <1>4, <1>5, <2>1 DEF RunsCount
  <2>2. CASE n = Len(raw[e]) + 1
    BY <1>2, <1>4, <1>5, <2>2
  <2> QED BY <1>4, <1>5, <2>1, <2>2
<1>7. \A f \in Experiments \ {e} : raw'[f] = raw[f] /\ current'[f] = current[f]
  BY <1>1 DEF TypeOK
<1>8. Fresh.used = 0 /\ Fresh.tasks = 0
  BY DEF Fresh
<1> QED BY <1>1, <1>5, <1>6, <1>7, <1>8 DEF RunsCount

\* A process that ends takes its runs with it; the other steps leave the runs alone.
LEMMA CountOther ==
    ASSUME TypeOK, RunsCount,
           \/ \E e \in Experiments : MakeDir(e) \/ Empty(e) \/ Fill(e) \/ Dies(e)
           \/ \E d \in Dirs : ReportReads(d)
           \/ ReportWrites \/ ReportDies
    PROVE  RunsCount'
<1>1. ASSUME NEW e \in Experiments, NEW how, End(e, how), suite' = suite
      PROVE  RunsCount'
  <2>1. raw'[e] = <<>> /\ current'[e] = Fresh
    BY <1>1 DEF End, TypeOK
  <2>2. \A f \in Experiments \ {e} :
           raw'[f] = raw[f] /\ current'[f] = current[f] /\ at'[f] = at[f]
    BY <1>1 DEF End, TypeOK
  <2>3. Fresh.used = 0 /\ Fresh.tasks = 0 /\ DOMAIN <<>> = {}
    BY DEF Fresh
  <2> QED BY <1>1, <2>1, <2>2, <2>3 DEF RunsCount
<1>2. ASSUME UNCHANGED <<suite, raw, current>>,
             \A e \in Experiments : current[e].tasks > 0 => at'[e] = "run"
      PROVE  RunsCount'
  BY <1>2 DEF RunsCount
<1>3. ASSUME NEW e \in Experiments, MakeDir(e)
      PROVE  RunsCount'
  <2>1. ~ current[e].tasks > 0
    BY <1>3, SizesAssumption DEF MakeDir, RunsCount, TypeOK
  <2>2. \A f \in Experiments : current[f].tasks > 0 => at'[f] = "run"
    BY <1>3, <2>1 DEF MakeDir, RunsCount, TypeOK
  <2> QED BY <1>2, <1>3, <2>2 DEF MakeDir
<1>4. ASSUME NEW e \in Experiments, Empty(e) \/ (Fill(e) /\ raw' = raw /\ current' = current)
      PROVE  RunsCount'
  <2>1. at[e] # "run" /\ \A f \in Experiments \ {e} : at'[f] = at[f]
    BY <1>4 DEF Empty, Fill, End, TypeOK
  <2>2. UNCHANGED <<suite, raw, current>>
    BY <1>4 DEF Empty, Fill
  <2>3. \A f \in Experiments : current[f].tasks > 0 => at'[f] = "run"
    BY <2>1 DEF RunsCount
  <2> QED BY <1>2, <2>2, <2>3
<1>5. ASSUME NEW e \in Experiments, Fill(e) \/ Dies(e)
      PROVE  RunsCount'
  BY <1>1, <1>4, <1>5 DEF Fill, Dies
<1>6. ASSUME UNCHANGED <<suite, raw, current, at>>
      PROVE  RunsCount'
  BY <1>2, <1>6 DEF RunsCount
<1> QED BY <1>3, <1>4, <1>5, <1>6
        DEF ReportReads, ReportWrites, ReportEmpties, ReportFills, ReportDies

----------------------------------------------------------------------------
LEMMA InitInv ==
    Init => Inv
<1> SUFFICES ASSUME Init PROVE Inv
  OBVIOUS
<1>1. TypeOK
  <2>1. \A e \in Experiments :
          /\ Len(raw[e]) <= Len(RawFiles(suite[e]))
          /\ next[e] \in DOMAIN Files(suite[e])
    <3> TAKE e \in Experiments
    <3>1. suite[e] \in Suites /\ raw[e] = <<>> /\ next[e] = 1
      BY DEF Init
    <3>2. Len(RawFiles(suite[e])) \in Nat /\ 1 \in DOMAIN Files(suite[e]) /\ Len(<<>>) = 0
      BY <3>1, RawFacts, FilesFacts
    <3> QED BY <3>1, <3>2
  <2>2. raw \in [Experiments -> Seq([ok : BOOLEAN, used : 0..TaskCount])]
    <3>1. <<>> \in Seq([ok : BOOLEAN, used : 0..TaskCount])
      OBVIOUS
    <3> QED BY <3>1 DEF Init
  <2>3. report \in [at : {"idle", "empty", "fill"}, dir : Dirs \cup {None},
                    of : SUBSET Experiments]
    BY DEF Init, Idle
  <2> QED BY <2>1, <2>2, <2>3, FreshType DEF Init, TypeOK
<1>2. Named /\ Emptied
  BY DEF Init, Named, Emptied, Writing, Idle
<1>3. Untouched /\ OwnInv
  BY DEF Init, Untouched, OwnInv, OnItsOwn, Idle
<1>4. RunsCount
  <2>1. \A e \in Experiments : current[e] = Fresh /\ raw[e] = <<>>
    BY DEF Init
  <2>2. Fresh.used = 0 /\ Fresh.tasks = 0 /\ DOMAIN <<>> = {}
    BY DEF Fresh
  <2> QED BY <2>1, <2>2 DEF RunsCount
<1> QED BY <1>1, <1>2, <1>3, <1>4 DEF Inv

LEMMA NextInv ==
    Inv /\ [Next]_vars => Inv'
<1> SUFFICES ASSUME Inv, [Next]_vars PROVE Inv'
  OBVIOUS
<1> USE DEF Inv
<1>1. CASE Next
  <2>1. TypeOK'
    BY <1>1, TypeStep
  <2>2. Named' /\ Emptied' /\ Untouched'
    BY <1>1, NamedStep, EmptiedStep, UntouchedStep
  <2>3. OwnInv'
    BY <1>1, <2>1, OwnStep DEF OwnInv
  <2>4. RunsCount'
    BY <1>1, CountRunTask, CountFinishRun, CountOther DEF Next, ReportWrites
  <2> QED BY <2>1, <2>2, <2>3, <2>4
<1>2. CASE UNCHANGED vars
  <2> USE <1>2 DEF vars
  <2>1. TypeOK'
    BY DEF TypeOK
  <2>2. Untouched'
    BY DEF Untouched
  <2>3. RunsCount'
    BY DEF RunsCount
  <2>4. Named' /\ Emptied'
    BY DEF Named, Emptied, Writing, Holds, Dir, File
  <2>5. OwnInv'
    BY DEF OwnInv, OnItsOwn, Own, Held, Holds, Dir
  <2> QED BY <2>1, <2>2, <2>3, <2>4, <2>5
<1> QED BY <1>1, <1>2

\* All reachable states have the invariant.
THEOREM EvaluationInv == Spec => []Inv
BY InitInv, NextInv, PTL DEF Spec

\* A process is at one of the steps of an evaluation, with as many results as that step
\* takes, and at a file that its suite has (evaluation/runner.py).
THEOREM TypeCorrect == Spec => []TypeOK
<1>1. Inv => TypeOK
  BY DEF Inv
<1> QED BY <1>1, EvaluationInv, PTL

\* A report that can be read comes with all the data behind it, whatever process died when
\* and however many wrote reports: write_results fills the report last, and the report
\* command starts from a complete summary.
THEOREM ReportsMeanComplete == Spec => []ReportMeansComplete
<1>1. Inv => ReportMeansComplete
  <2> SUFFICES ASSUME Inv, NEW e \in Experiments, OnItsOwn(e), Holds(e, Report) = {e},
                      NEW n \in DOMAIN Files(suite[e])
               PROVE  Holds(e, Files(suite[e])[n]) = {e}
    BY DEF ReportMeansComplete, Report
  <2> DEFINE F == Files(suite[e])
             L == Len(F)
             h == Held(Dir(e))
  <2>1. suite[e] \in Suites
    BY DEF Inv, TypeOK
  <2>2. Kept(e, suite[e], at[e], next[e], h)
    BY DEF Inv, OwnInv, Own
  <2>3. IsFiles(F, L) /\ DOMAIN F = 1..L /\ Report \in Names
    BY <2>1, SuiteFiles, FilesFacts
  <2>4. h[Report] # None
    BY <2>3, Contents DEF Held, Holds
  <2>5. \A m \in 1..(L - 1) : h[F[m]] = {e}
    BY <2>2, <2>4 DEF Kept
  <2> HIDE DEF F, L
  <2>6. n \in 1..(L - 1) \/ n = L
    BY <2>3 DEF IsFiles, F
  <2>7. F[n] \in Names /\ h[F[n]] = {e}
    <3>1. h[Report] = {e}
      BY <2>3 DEF Held, Holds
    <3>2. \A m \in 1..L : F[m] \in Names
      BY <2>3 DEF IsFiles
    <3>3. n \in 1..L
      BY <2>3, <2>6 DEF F
    <3> QED BY <2>3, <2>5, <2>6, <3>1, <3>2, <3>3 DEF IsFiles
  <2> QED BY <2>7 DEF F, Held, Holds
<1> QED BY <1>1, EvaluationInv, PTL

\* What an experiment has finished stays as it wrote it, in the directory that its suite and
\* second name, but for a report that a report command died over: no later suite and no
\* dying process undoes it.
THEOREM FinishedStaysIntact == Spec => []FinishedIsIntact
<1>1. Inv => FinishedIsIntact
  <2> SUFFICES ASSUME Inv, NEW e \in Experiments, at[e] = "done", OnItsOwn(e),
                      NEW name \in Names
               PROVE  Holds(e, name) \in
                        IF name = Report THEN {{e}, {}}
                        ELSE IF \E n \in DOMAIN Files(suite[e]) : Files(suite[e])[n] = name
                             THEN {{e}}
                        ELSE {None}
    BY DEF FinishedIsIntact, Report
  <2> DEFINE F == Files(suite[e])
             L == Len(F)
             h == Held(Dir(e))
  <2>1. suite[e] \in Suites
    BY DEF Inv, TypeOK
  <2>2. Kept(e, suite[e], "done", next[e], h)
    BY DEF Inv, OwnInv, Own
  <2>3. IsFiles(F, L) /\ DOMAIN F = 1..L /\ Report \in Names
    BY <2>1, SuiteFiles, FilesFacts
  <2>4. /\ h[Report] # None
        /\ \A m \in 1..(L - 1) : h[F[m]] = {e}
        /\ h[name] \in {None, {}, {e}}
        /\ (\A n \in 1..L : F[n] # name) => h[name] = None
    BY <2>2 DEF Kept
  <2> HIDE DEF F, L
  <2>5. CASE name = Report
    BY <2>4, <2>5 DEF Held, Holds
  <2>6. CASE name # Report /\ \E n \in 1..L : F[n] = name
    <3>1. PICK n \in 1..L : F[n] = name
      BY <2>6
    <3>2. n \in 1..(L - 1)
      BY <2>3, <2>6, <3>1 DEF IsFiles
    <3>3. h[name] = {e}
      BY <2>4, <3>1, <3>2
    <3> QED BY <2>3, <2>6, <3>3 DEF Held, Holds, F
  <2>7. CASE name # Report /\ ~ \E n \in 1..L : F[n] = name
    BY <2>3, <2>4, <2>7 DEF Held, Holds, F
  <2> QED BY <2>5, <2>6, <2>7
<1> QED BY <1>1, EvaluationInv, PTL

\* The repetitions of a configuration that all go well reuse memory equally often, for any
\* number of tasks: run_once opens a store of its own.
THEOREM RepetitionsAgree == Spec => []RepeatsAgree
<1>1. Inv => RepeatsAgree
  BY DEF Inv, RunsCount, RepeatsAgree
<1> QED BY <1>1, EvaluationInv, PTL

=============================================================================
