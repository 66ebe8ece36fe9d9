---------------------------- MODULE OrchestratorStart ----------------------------
(***************************************************************************)
(* Orchestrator.__init__: every agent of the team shakes hands with the    *)
(* registry, in the order of the agents dictionary, and then every stage   *)
(* of the pipeline is resolved to the first agent discovered for the       *)
(* capability it needs.  Agents are keyed by their own names, as           *)
(* build_default_agents does.  The registry is that of AgentRegistry.      *)
(*                                                                         *)
(* A definition D_Something is a faulty variant of D.  Nothing uses it; put *)
(* in the place of D it shows that a property can be broken by a bug.      *)
(***************************************************************************)
EXTENDS AgentRegistry, FiniteSets, SequencesExt

CONSTANT Needed   \* PIPELINE_STAGES: the capability each stage needs

ASSUME NeededAssumption == Needed \in Seq(Capability)

VARIABLES
    team,      \* the agents given to the constructor, in order; never changes
    offer,     \* the card each of them makes of itself; never changes
    pos,       \* the next agent to register, then the next stage to resolve
    resolved,  \* _resolved: the agent names of the stages resolved so far
    phase      \* "register", "resolve", "ready", or what the constructor raises

startVars == <<vars, team, offer, pos, resolved, phase>>

StartTypeOK ==
    /\ team \in Seq(Agent)
    /\ offer \in [Agent -> Card]
    /\ TypeOK
    /\ pos \in Nat \ {0}
    /\ resolved \in Seq(Agent)
    /\ phase \in {"register", "resolve", "ready", "refused", "unstaffed"}

\* The keys of a dictionary in insertion order: a sequence without repetition.
Teams == {t \in SeqOf(Agent, Cardinality(Agent)) : IsInjective(t)}

StartInit ==
    /\ team \in Teams
    /\ offer \in [Agent -> Card]
    /\ Init
    /\ pos = 1
    /\ resolved = <<>>
    /\ phase = "register"

Shake_ChecksLater ==
    /\ phase = "register"
    /\ pos <= Len(team)
    /\ Register(team[pos], offer[team[pos]])
    /\ pos' = pos + 1
    /\ UNCHANGED <<team, offer, resolved, phase>>

\* registry.handshake(agent.card()); a refused agent makes the constructor raise.
Shake ==
    /\ phase = "register"
    /\ pos <= Len(team)
    /\ Handshake(team[pos], offer[team[pos]])
    /\ IF offer[team[pos]].compatible
       THEN pos' = pos + 1 /\ phase' = phase
       ELSE pos' = pos /\ phase' = "refused"
    /\ UNCHANGED <<team, offer, resolved>>

AllShaken ==
    /\ phase = "register"
    /\ pos > Len(team)
    /\ pos' = 1
    /\ phase' = "resolve"
    /\ UNCHANGED <<team, offer, vars, resolved>>

Candidates_Last(c) == Reverse(Found(byCapability, c))

\* registry.discover(capability)
Candidates(c) == Found(byCapability, c)

Resolve_AllCandidates ==
    /\ phase = "resolve"
    /\ pos <= Len(Needed)
    /\ resolved' = Append(resolved, Candidates(Needed[pos]))
    /\ pos' = pos + 1
    /\ UNCHANGED <<team, offer, vars, phase>>

\* The stage gets candidates[0]; without a candidate the constructor raises.
Resolve ==
    /\ phase = "resolve"
    /\ pos <= Len(Needed)
    /\ IF Candidates(Needed[pos]) = <<>>
       THEN /\ phase' = "unstaffed"
            /\ UNCHANGED <<pos, resolved>>
       ELSE /\ resolved' = Append(resolved, Head(Candidates(Needed[pos])))
            /\ pos' = pos + 1
            /\ UNCHANGED phase
    /\ UNCHANGED <<team, offer, vars>>

AllResolved ==
    /\ phase = "resolve"
    /\ pos > Len(Needed)
    /\ phase' = "ready"
    /\ UNCHANGED <<team, offer, vars, pos, resolved>>

StartNext == Shake \/ AllShaken \/ Resolve \/ AllResolved

StartSpec == StartInit /\ [][StartNext]_startVars

----------------------------------------------------------------------------
Offers(i, c) == c \in offer[team[i]].capabilities

\* Once constructed, each stage runs on the first member of the team that has
\* the capability the stage needs (the registry found it from the cards alone).
StagesAreStaffed ==
    phase = "ready" =>
        /\ Len(resolved) = Len(Needed)
        /\ \A s \in DOMAIN Needed : \E i \in DOMAIN team :
              /\ team[i] = resolved[s]
              /\ Offers(i, Needed[s])
              /\ \A j \in 1..(i - 1) : ~ Offers(j, Needed[s])

Incompatible == \E i \in DOMAIN team : ~ offer[team[i]].compatible
Unstaffed == \E s \in DOMAIN Needed : \A i \in DOMAIN team : ~ Offers(i, Needed[s])

\* The constructor raises for the right reason: ProtocolError exactly for teams
\* with an incompatible agent, ValueError for a capability that nobody has.
RaisesForAReason ==
    /\ phase = "refused" => Incompatible
    /\ phase = "unstaffed" => Unstaffed /\ ~ Incompatible
    /\ phase = "ready" => ~ Incompatible /\ ~ Unstaffed
=============================================================================
