------------------------------ MODULE MCMemoryReuse ------------------------------
(***************************************************************************)
(* Sums over facts that are 1: `once` and `twice` have the same evidence,  *)
(* and so one signature, with different results; `other` shares it with    *)
(* none.  The code tasks are those of src/scenarios: a1 and b1 bring a     *)
(* strategy, a2 and b2 need one; logging also repairs what guard repairs.  *)
(***************************************************************************)
EXTENDS MemoryReuse

CONSTANTS divide, modulo, process_a, process_b, test, guard, logging

Total(op, values) == IF op = "sum" THEN Len(values) ELSE None

Sum(operands) ==
    [topic |-> "demo", op |-> "sum", operands |-> operands, expected |-> Len(operands),
     facts |-> [a |-> 1, b |-> 1]]
once == Sum(<<"a">>)
twice == Sum(<<"a", "a">>)
other == Sum(<<"a", "b">>)
noop == [once EXCEPT !.op = "noop"]

Fix(topic, module, strategy) ==
    [topic |-> topic, op |-> "codefix", operands |-> <<"module", "test", "strategy">>,
     facts |-> [module |-> module, test |-> test, strategy |-> strategy], expected |-> 1]
a1 == Fix("zero-division", divide, guard)
a2 == Fix("zero-division", modulo, None)
b1 == Fix("robustness", process_a, logging)
b2 == Fix("robustness", process_b, None)

AllTasks == {once, twice, other, noop, a1, a2, b1, b2}
Together == {{once, twice}, {once, other, noop, a1}, {a1, a2, b1}, {a2, b1, b2}}
Values_ == {0, 1, 2, divide, modulo, process_a, process_b, test, guard, logging}
Repairs ==
    ({divide, modulo, process_a, process_b} \X {test} \X {logging})
        \cup ({divide, modulo} \X {test} \X {guard})

Contents == {Says(t, v) : t \in AllTasks, v \in Values_}
Identity == [c \in Contents |-> c]
\* Contents that differ in the result only are near duplicates.
Near(c, d) ==
    IF c = d THEN 2
    ELSE IF [c EXCEPT !.value = 0] = [d EXCEPT !.value = 0] THEN 1 ELSE 0
Similarity == [p \in Contents \X Contents |-> Near(p[1], p[2])]
NumContents == Cardinality(Contents)
AllRecords == 1..NumContents

\* In hundredths
Closeness ==
    [p \in AllTasks \X Contents |->
        IF p[1].op # p[2].op THEN 10 ELSE IF p[1].topic # p[2].topic THEN 40 ELSE 50]
Keywords ==
    [p \in AllTasks \X Contents |->
        IF p[1].op # p[2].op THEN 0
        ELSE IF p[1].topic # p[2].topic THEN 20
        ELSE IF Range(p[1].operands) \subseteq Range(p[2].operands) THEN 25 ELSE 16]
=============================================================================
