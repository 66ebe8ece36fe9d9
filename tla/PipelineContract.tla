----------------------------- MODULE PipelineContract -----------------------------
(***************************************************************************)
(* What Orchestrator.run_task promises to its caller, whatever the agents  *)
(* do: the stages are accepted one after the other, each after at most     *)
(* MaxTries attempts, the call returns without an error exactly when every *)
(* stage was accepted, and its final message is sent in the name of the    *)
(* last stage accepted.                                                    *)
(***************************************************************************)
EXTENDS Integers

CONSTANTS
    Stages,
    MaxTries,
    Signer(_)   \* who speaks for the first i stages

VARIABLES
    accepted,  \* how many stages were accepted
    tries,     \* failed attempts of the current stage
    phase,     \* "running", "completed", "aborting", "returned" or "raised"
    outcome,   \* whether the returned RunResult carries an error
    signed     \* the source of its final message

vars == <<accepted, tries, phase, outcome, signed>>

Init ==
    /\ accepted = 0
    /\ tries = 0
    /\ phase = "running"
    /\ outcome = "none"
    /\ signed = "none"

FailAttempt ==
    /\ phase = "running"
    /\ tries < MaxTries
    /\ tries' = tries + 1
    /\ phase' = IF tries + 1 = MaxTries THEN "aborting" ELSE "running"
    /\ UNCHANGED <<accepted, outcome, signed>>

Accept ==
    /\ phase = "running"
    /\ accepted < Stages
    /\ accepted' = accepted + 1
    /\ tries' = 0
    /\ phase' = IF accepted + 1 = Stages THEN "completed" ELSE "running"
    /\ UNCHANGED <<outcome, signed>>

Reject ==
    /\ phase = "running"
    /\ phase' = "aborting"
    /\ UNCHANGED <<accepted, tries, outcome, signed>>

Return ==
    /\ phase \in {"completed", "aborting"}
    /\ phase' = "returned"
    /\ outcome' = IF phase = "completed" THEN "ok" ELSE "error"
    /\ signed' = Signer(accepted)
    /\ UNCHANGED <<accepted, tries>>

Raise ==
    /\ phase = "running"
    /\ phase' = "raised"
    /\ UNCHANGED <<accepted, tries, outcome, signed>>

Next == FailAttempt \/ Accept \/ Reject \/ Return \/ Raise

Spec == Init /\ [][Next]_vars
=============================================================================
