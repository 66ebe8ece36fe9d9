------------------------------ MODULE Sandbox_proofs ------------------------------
(***************************************************************************)
(* The safety invariants of a sandbox run.  They hold at "returned"        *)
(* because they hold from the kill, or from the end of the child, on: a    *)
(* child that is dead starts no helper (Inv names what is known at each    *)
(* place of run).                                                          *)
(***************************************************************************)
EXTENDS Sandbox, TLAPS

Unspawned == pc \in {"begin", "write", "spawn", "raised"} => child = "none" /\ ~ timedOut
Waiting == pc = "wait" => ~ timedOut
Dead ==
    pc \in {"drain", "cleanup", "returned"} =>
        /\ child = "running" => backend = "podman" /\ error /\ ~ timedOut
        /\ timedOut /\ backend # "podman" /\ helper # None => ~ helper.inGroup
NoneUnlessForked == ~ forked => helper = None
ByAProcess == forked \/ spoiled => child # "none"
Killed ==
    /\ pc \in {"kill", "drain"} => timedOut
    /\ pc = "drain" => child # "running"

\* The second communicate has no timeout, and yet a run can hang in it only over a helper
\* that keeps the pipe open out of the reach of the kill: the step behind Returns that
\* does not depend on fairness.
OnlyHelpersBlock == pc = "drain" /\ ~ Drained => OutOfReach

Inv ==
    /\ TypeOK
    /\ Unspawned
    /\ Waiting
    /\ Dead
    /\ NoneUnlessForked
    /\ ByAProcess
    /\ Killed
    /\ WorkdirIsRemoved

\* A run starts within the invariant.
LEMMA InitInv == Init => Inv
  BY DEF Init, Selectable, Inv, TypeOK, Unspawned, Waiting, Dead, NoneUnlessForked, ByAProcess,
         Killed, WorkdirIsRemoved

\* The invariant is inductive: one case per action.
LEMMA NextInv == Inv /\ [Next]_vars => Inv'
<1> SUFFICES ASSUME Inv, [Next]_vars PROVE Inv'
  OBVIOUS
<1> USE DEF Inv, TypeOK, Unspawned, Waiting, Dead, NoneUnlessForked, ByAProcess, Killed,
            WorkdirIsRemoved, World, Idle, Goto
<1>1. CASE Begin
  BY <1>1 DEF Begin
<1>2. CASE WriteScript
  BY <1>2 DEF WriteScript
<1>3. CASE Spawn
  BY <1>3 DEF Spawn
<1>4. CASE Collect("wait")
  BY <1>4 DEF Collect, Drained
<1>5. CASE Collect("drain")
  BY <1>5 DEF Collect, Drained
<1>6. CASE Timeout
  BY <1>6 DEF Timeout
<1>7. CASE Kill
  BY <1>7 DEF Kill
<1>8. CASE Cleanup
  BY <1>8 DEF Cleanup
<1>9. CASE ChildEnds
  BY <1>9 DEF ChildEnds
<1>10. CASE ChildForks
  BY <1>10 DEF ChildForks
<1>11. CASE HelperEnds
  BY <1>11 DEF HelperEnds
<1>14. CASE ScriptSpoils
  BY <1>14 DEF ScriptSpoils
<1>12. CASE EncodeFails
  BY <1>12 DEF EncodeFails
<1>13. CASE UNCHANGED vars
  BY <1>13 DEF vars
<1> QED BY <1>1, <1>2, <1>3, <1>4, <1>5, <1>6, <1>7, <1>8, <1>9, <1>10, <1>11, <1>12, <1>13,
           <1>14
        DEF Next, Executor

\* Types: whatever is installed, run takes a back end that is there.
THEOREM TypeCorrect == Spec => []TypeOK
<1>1. Inv => TypeOK BY DEF Inv
<1> QED BY <1>1, InitInv, NextInv, PTL DEF Spec

\* When run returns the child is dead, and after a timeout its group is too.
THEOREM NothingOutlivesTheRun == Spec => []NothingRunsOn
<1>1. Inv => NothingRunsOn BY DEF Inv, Dead, NothingRunsOn
<1> QED BY <1>1, InitInv, NextInv, PTL DEF Spec

\* Whoever leaves a directory behind, it is not run itself: either there was no process
\* yet when it raised, or the process of the script had a hand in it.
THEOREM WorkdirAlwaysRemoved == Spec => []WorkdirIsRemoved
<1>1. Inv => WorkdirIsRemoved BY DEF Inv
<1> QED BY <1>1, InitInv, NextInv, PTL DEF Spec

\* A run that cannot read the rest of the output waits for a helper that _kill did not
\* reach (CodeActExecutor.run, after the timeout).
THEOREM WaitsForHelpersOnly == Spec => []OnlyHelpersBlock
<1>1. Inv => OnlyHelpersBlock
  BY DEF Inv, TypeOK, Dead, Killed, OnlyHelpersBlock, Drained, OutOfReach
<1> QED BY <1>1, InitInv, NextInv, PTL DEF Spec
=============================================================================
