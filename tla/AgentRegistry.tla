------------------------------ MODULE AgentRegistry ------------------------------
(***************************************************************************)
(* registry/registry.py: the cards of the registered agents and the two    *)
(* indexes, by capability and by action, from which agents are discovered. *)
(*                                                                         *)
(* A definition D_Something is a faulty variant of D.  Nothing uses it; put *)
(* in the place of D it shows that a property can be broken by a bug.      *)
(***************************************************************************)
EXTENDS Sequences, Integers

CONSTANTS
    Agent,        \* agent names
    Capability,   \* capability names
    Action        \* action names

VARIABLES
    cards,          \* _cards: agent_name -> AgentCard
    byCapability,   \* _by_capability: capability -> agent names, oldest first
    byAction        \* _by_action: action -> agent names, oldest first

vars == <<cards, byCapability, byAction>>

\* An AgentCard without its name; `compatible` is is_compatible(protocol_version).
Card == [compatible : BOOLEAN, capabilities : SUBSET Capability, actions : SUBSET Action]

TypeOK ==
    /\ DOMAIN cards \subseteq Agent
    /\ cards \in [DOMAIN cards -> Card]
    /\ DOMAIN byCapability \subseteq Capability
    /\ byCapability \in [DOMAIN byCapability -> Seq(Agent)]
    /\ DOMAIN byAction \subseteq Action
    /\ byAction \in [DOMAIN byAction -> Seq(Agent)]

Empty == [x \in {} |-> <<>>]

Init ==
    /\ cards = Empty
    /\ byCapability = Empty
    /\ byAction = Empty

\* index.get(key, []), for discover and discover_by_action
Found(index, key) == IF key \in DOMAIN index THEN index[key] ELSE <<>>

Lists(list, a) == \E i \in DOMAIN list : list[i] = a

\* A list after `if agent_name not in list: list.append(agent_name)`
Listing(list, a) == IF Lists(list, a) THEN list ELSE Append(list, a)

Indexed_Overwrites(index, keys, a) ==
    [k \in DOMAIN index \cup keys |-> IF k \in keys THEN <<a>> ELSE index[k]]

\* The index after the agent was entered under each of the keys.
Indexed(index, keys, a) ==
    [k \in DOMAIN index \cup keys |->
        IF k \in keys THEN Listing(Found(index, k), a) ELSE index[k]]

\* Adds or replaces a card; what the agent was indexed under stays.
Register(a, card) ==
    /\ cards' = [x \in DOMAIN cards \cup {a} |-> IF x = a THEN card ELSE cards[x]]
    /\ byCapability' = Indexed(byCapability, card.capabilities, a)
    /\ byAction' = Indexed(byAction, card.actions, a)

\* An incompatible card is refused and leaves the registry as it is.
Handshake(a, card) ==
    IF card.compatible THEN Register(a, card) ELSE UNCHANGED vars

Next ==
    \E a \in Agent, card \in Card : Handshake(a, card) \/ Register(a, card)

Spec == Init /\ [][Next]_vars

----------------------------------------------------------------------------
\* An agent can be discovered under every capability and action of the card it
\* registered last, however often cards were replaced.
CardsAreDiscoverable ==
    \A a \in DOMAIN cards :
        /\ \A c \in cards[a].capabilities : Lists(Found(byCapability, c), a)
        /\ \A x \in cards[a].actions : Lists(Found(byAction, x), a)
=============================================================================
