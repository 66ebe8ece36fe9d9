----------------------------- MODULE Registry_proofs -----------------------------
(***************************************************************************)
(* The invariants of the registry, for any sets of agents, capabilities    *)
(* and actions.  Both indexes grow through Indexed alone, so the argument  *)
(* is made once, for one index, in the lemmas.                             *)
(*                                                                         *)
(* Then the constructor of the orchestrator, for any team, cards and       *)
(* pipeline.  Of an index list only the head matters to it: it is the      *)
(* first member of the team, among those registered so far, that offers    *)
(* the capability, and the list is empty exactly when none of them offers  *)
(* it (IndexInv).                                                          *)
(***************************************************************************)
EXTENDS OrchestratorStart, TLAPS

\* Each list of an index names members of names, each at most once
ListsOnly(index, names) ==
    \A k \in DOMAIN index :
        /\ \A i \in DOMAIN index[k] : index[k][i] \in names
        /\ \A i, j \in DOMAIN index[k] : index[k][i] = index[k][j] => i = j

\* An index lists registered agents only, and none of them twice: the card of
\* whatever discover returns exists, a refused handshake has indexed nothing.
IndexesListRegistered ==
    ListsOnly(byCapability, DOMAIN cards) /\ ListsOnly(byAction, DOMAIN cards)

\* A step only appends to the lists of both indexes, or starts new ones
KeepsOrder ==
    /\ \A c \in Capability : \A i \in DOMAIN Found(byCapability, c) :
          /\ i \in DOMAIN Found(byCapability', c)
          /\ Found(byCapability', c)[i] = Found(byCapability, c)[i]
    /\ \A x \in Action : \A i \in DOMAIN Found(byAction, x) :
          /\ i \in DOMAIN Found(byAction', x)
          /\ Found(byAction', x)[i] = Found(byAction, x)[i]

\* A registration never changes the order of the agents already found: the
\* first candidate, which the orchestrator takes, stays the first.
DiscoveryOrderIsStable == [][KeepsOrder]_vars

\* A list with an agent entered: it names the agent, keeps every place it had,
\* and names nobody else.
LEMMA ListingFacts ==
    ASSUME NEW list \in Seq(Agent), NEW a \in Agent
    PROVE  /\ Listing(list, a) \in Seq(Agent)
           /\ Lists(Listing(list, a), a)
           /\ \A i \in DOMAIN list : /\ i \in DOMAIN Listing(list, a)
                                     /\ Listing(list, a)[i] = list[i]
           /\ \A j \in DOMAIN Listing(list, a) :
                 Listing(list, a)[j] = a \/ Lists(list, Listing(list, a)[j])
<1>1. CASE Lists(list, a)
  BY <1>1 DEF Listing, Lists
<1>2. CASE ~ Lists(list, a)
  <2>1. Listing(list, a) = Append(list, a)
    BY <1>2 DEF Listing
  <2>2. /\ Append(list, a) \in Seq(Agent)
        /\ DOMAIN list = 1..Len(list)
        /\ DOMAIN Append(list, a) = 1..(Len(list) + 1)
        /\ Append(list, a)[Len(list) + 1] = a
        /\ \A i \in 1..Len(list) : Append(list, a)[i] = list[i]
        /\ Len(list) \in Nat
    OBVIOUS
  <2> QED BY <2>1, <2>2 DEF Lists
<1> QED BY <1>1, <1>2

\* Entering an agent never makes a list name anybody twice.
LEMMA ListingKeepsUnique ==
    ASSUME NEW list \in Seq(Agent), NEW a \in Agent,
           \A i, j \in DOMAIN list : list[i] = list[j] => i = j
    PROVE  \A i, j \in DOMAIN Listing(list, a) :
              Listing(list, a)[i] = Listing(list, a)[j] => i = j
<1>1. CASE Lists(list, a)
  BY <1>1 DEF Listing
<1>2. CASE ~ Lists(list, a)
  <2>1. Listing(list, a) = Append(list, a)
    BY <1>2 DEF Listing
  <2>2. /\ DOMAIN list = 1..Len(list)
        /\ DOMAIN Append(list, a) = 1..(Len(list) + 1)
        /\ Append(list, a)[Len(list) + 1] = a
        /\ \A i \in 1..Len(list) : Append(list, a)[i] = list[i]
        /\ Len(list) \in Nat
    OBVIOUS
  <2> QED BY <1>2, <2>1, <2>2 DEF Lists
<1> QED BY <1>1, <1>2

IsIndex(index, Key) ==
    /\ DOMAIN index \subseteq Key
    /\ index \in [DOMAIN index -> Seq(Agent)]

\* Entering an agent keeps an index an index.
LEMMA TypeAfterIndexed ==
    ASSUME NEW Key, NEW index, IsIndex(index, Key), NEW keys \in SUBSET Key, NEW a \in Agent
    PROVE  IsIndex(Indexed(index, keys, a), Key)
<1>1. \A x \in Key : Found(index, x) \in Seq(Agent)
  BY DEF Found, IsIndex
<1>2. \A x \in Key : Listing(Found(index, x), a) \in Seq(Agent)
  BY <1>1, ListingFacts
<1> QED BY <1>2 DEF IsIndex, Indexed

\* What was found under a key keeps its place.
LEMMA StableAfterIndexed ==
    ASSUME NEW Key, NEW index, IsIndex(index, Key), NEW keys \in SUBSET Key, NEW a \in Agent,
           NEW k \in Key, NEW i \in DOMAIN Found(index, k)
    PROVE  /\ i \in DOMAIN Found(Indexed(index, keys, a), k)
           /\ Found(Indexed(index, keys, a), k)[i] = Found(index, k)[i]
<1>1. /\ Found(index, k) \in Seq(Agent)
      /\ Found(Indexed(index, keys, a), k) =
            IF k \in keys THEN Listing(Found(index, k), a) ELSE Found(index, k)
  BY DEF Indexed, Found, IsIndex
<1> QED BY <1>1, ListingFacts

----------------------------------------------------------------------------
\* The empty registry satisfies the invariants.
LEMMA InitInv == Init => TypeOK /\ CardsAreDiscoverable /\ IndexesListRegistered
  BY DEF Init, Empty, TypeOK, CardsAreDiscoverable, IndexesListRegistered, ListsOnly

\* Who was found under a key still is, and the agent entered now is too.
LEMMA CoversAfterIndexed ==
    ASSUME NEW Key, NEW index, IsIndex(index, Key), NEW keys \in SUBSET Key, NEW a \in Agent,
           NEW b \in Agent, NEW k \in Key, Lists(Found(index, k), b) \/ (b = a /\ k \in keys)
    PROVE  Lists(Found(Indexed(index, keys, a), k), b)
<1>1. /\ Found(index, k) \in Seq(Agent)
      /\ Found(Indexed(index, keys, a), k) =
            IF k \in keys THEN Listing(Found(index, k), a) ELSE Found(index, k)
  BY DEF Indexed, Found, IsIndex
<1>2. /\ Lists(Listing(Found(index, k), a), a)
      /\ \A i \in DOMAIN Found(index, k) :
            /\ i \in DOMAIN Listing(Found(index, k), a)
            /\ Listing(Found(index, k), a)[i] = Found(index, k)[i]
  BY <1>1, ListingFacts
<1> QED BY <1>1, <1>2 DEF Lists

\* An index that lists only known names, each once, does so after one of them
\* was entered.
LEMMA ListsOnlyAfterIndexed ==
    ASSUME NEW Key, NEW index, IsIndex(index, Key), NEW keys \in SUBSET Key, NEW a \in Agent,
           NEW E, NEW D, E \subseteq D, a \in D, ListsOnly(index, E)
    PROVE  ListsOnly(Indexed(index, keys, a), D)
<1> DEFINE m == Indexed(index, keys, a)
<1> SUFFICES \A k \in DOMAIN m :
                /\ \A i \in DOMAIN m[k] : m[k][i] \in D
                /\ \A i, j \in DOMAIN m[k] : m[k][i] = m[k][j] => i = j
  BY DEF ListsOnly
<1> TAKE k \in DOMAIN m
<1>1. k \in DOMAIN index \cup keys
  BY DEF Indexed
<1>2. m[k] = IF k \in keys THEN Listing(Found(index, k), a) ELSE index[k]
  BY <1>1 DEF Indexed
<1>3. CASE k \notin keys
  BY <1>1, <1>2, <1>3 DEF ListsOnly
<1>4. CASE k \in keys
  <2> DEFINE f == Found(index, k)
  <2>1. f \in Seq(Agent) /\ \A i \in DOMAIN f : f[i] \in E
    BY <1>4 DEF Found, IsIndex, ListsOnly
  <2>2. \A i, j \in DOMAIN f : f[i] = f[j] => i = j
    BY DEF Found, ListsOnly
  <2>3. m[k] = Listing(f, a)
    BY <1>2, <1>4
  <2> HIDE DEF f
  <2>4. \A i, j \in DOMAIN m[k] : m[k][i] = m[k][j] => i = j
    BY <2>1, <2>2, <2>3, ListingKeepsUnique
  <2>5. \A j \in DOMAIN m[k] : m[k][j] = a \/ Lists(f, m[k][j])
    BY <2>1, <2>3, ListingFacts
  <2>6. \A j \in DOMAIN m[k] : m[k][j] \in D
    BY <2>1, <2>5 DEF Lists
  <2> QED BY <2>4, <2>6
<1> QED BY <1>3, <1>4

\* A registration keeps the types,
LEMMA TypeAfterRegister ==
    ASSUME TypeOK, NEW a \in Agent, NEW card \in Card, Register(a, card)
    PROVE  TypeOK'
<1>1. /\ card.capabilities \in SUBSET Capability
      /\ card.actions \in SUBSET Action
  BY DEF Card
<1>2. /\ DOMAIN cards' \subseteq Agent
      /\ cards' \in [DOMAIN cards' -> Card]
  BY DEF TypeOK, Register
<1>3. IsIndex(byCapability, Capability) /\ IsIndex(byAction, Action)
  BY DEF TypeOK, IsIndex
<1>4. IsIndex(Indexed(byCapability, card.capabilities, a), Capability)
  BY <1>1, <1>3, TypeAfterIndexed
<1>5. IsIndex(Indexed(byAction, card.actions, a), Action)
  BY <1>1, <1>3, TypeAfterIndexed
<1> QED BY <1>2, <1>4, <1>5 DEF TypeOK, Register, IsIndex

\* keeps every agent discoverable by its latest card,
LEMMA CoversAfterRegister ==
    ASSUME TypeOK, CardsAreDiscoverable, NEW a \in Agent, NEW card \in Card, Register(a, card)
    PROVE  CardsAreDiscoverable'
<1>1. /\ card.capabilities \in SUBSET Capability
      /\ card.actions \in SUBSET Action
      /\ IsIndex(byCapability, Capability)
      /\ IsIndex(byAction, Action)
  BY DEF Card, TypeOK, IsIndex
<1> SUFFICES ASSUME NEW b \in DOMAIN cards'
             PROVE  /\ \A c \in cards'[b].capabilities : Lists(Found(byCapability', c), b)
                    /\ \A x \in cards'[b].actions : Lists(Found(byAction', x), b)
  BY DEF CardsAreDiscoverable
<1>2. b \in Agent /\ cards'[b] \in Card
  BY TypeAfterRegister DEF TypeOK
<1>3. IF b = a THEN cards'[b] = card ELSE b \in DOMAIN cards /\ cards'[b] = cards[b]
  BY DEF Register
<1>4. ASSUME NEW c \in cards'[b].capabilities PROVE Lists(Found(byCapability', c), b)
  <2>1. c \in Capability
    BY <1>2, <1>4 DEF Card
  <2>2. Lists(Found(byCapability, c), b) \/ (b = a /\ c \in card.capabilities)
    BY <1>3, <1>4 DEF CardsAreDiscoverable
  <2> QED BY <1>1, <1>2, <2>1, <2>2, CoversAfterIndexed DEF Register
<1>5. ASSUME NEW x \in cards'[b].actions PROVE Lists(Found(byAction', x), b)
  <2>1. x \in Action
    BY <1>2, <1>5 DEF Card
  <2>2. Lists(Found(byAction, x), b) \/ (b = a /\ x \in card.actions)
    BY <1>3, <1>5 DEF CardsAreDiscoverable
  <2> QED BY <1>1, <1>2, <2>1, <2>2, CoversAfterIndexed DEF Register
<1> QED BY <1>4, <1>5

\* lists registered agents only, each once,
LEMMA ListsRegisteredAfterRegister ==
    ASSUME TypeOK, IndexesListRegistered, NEW a \in Agent, NEW card \in Card, Register(a, card)
    PROVE  IndexesListRegistered'
<1>1. /\ card.capabilities \in SUBSET Capability
      /\ card.actions \in SUBSET Action
      /\ IsIndex(byCapability, Capability)
      /\ IsIndex(byAction, Action)
  BY DEF Card, TypeOK, IsIndex
<1>2. a \in DOMAIN cards' /\ DOMAIN cards \subseteq DOMAIN cards'
  BY DEF Register
<1>3. /\ byCapability' = Indexed(byCapability, card.capabilities, a)
      /\ byAction' = Indexed(byAction, card.actions, a)
  BY DEF Register
<1>4. ListsOnly(byCapability, DOMAIN cards) /\ ListsOnly(byAction, DOMAIN cards)
  BY DEF IndexesListRegistered
<1>5. ListsOnly(byCapability', DOMAIN cards')
  BY <1>1, <1>2, <1>3, <1>4, ListsOnlyAfterIndexed
<1>6. ListsOnly(byAction', DOMAIN cards')
  BY <1>1, <1>2, <1>3, <1>4, ListsOnlyAfterIndexed
<1> QED BY <1>5, <1>6 DEF IndexesListRegistered, ListsOnly

\* and moves nobody in a list.
LEMMA StableAfterRegister ==
    ASSUME TypeOK, NEW a \in Agent, NEW card \in Card, Register(a, card)
    PROVE  KeepsOrder
<1>1. /\ card.capabilities \in SUBSET Capability
      /\ card.actions \in SUBSET Action
      /\ IsIndex(byCapability, Capability)
      /\ IsIndex(byAction, Action)
  BY DEF Card, TypeOK, IsIndex
<1>2. /\ byCapability' = Indexed(byCapability, card.capabilities, a)
      /\ byAction' = Indexed(byAction, card.actions, a)
  BY DEF Register
<1>3. ASSUME NEW c \in Capability, NEW i \in DOMAIN Found(byCapability, c)
      PROVE  /\ i \in DOMAIN Found(byCapability', c)
             /\ Found(byCapability', c)[i] = Found(byCapability, c)[i]
  BY <1>1, <1>2, StableAfterIndexed
<1>4. ASSUME NEW x \in Action, NEW i \in DOMAIN Found(byAction, x)
      PROVE  /\ i \in DOMAIN Found(byAction', x)
             /\ Found(byAction', x)[i] = Found(byAction, x)[i]
  BY <1>1, <1>2, StableAfterIndexed
<1> QED BY <1>3, <1>4 DEF KeepsOrder

----------------------------------------------------------------------------
RegistryInv == TypeOK /\ CardsAreDiscoverable /\ IndexesListRegistered

\* A step of the registry registers a card or changes nothing.
LEMMA StepCases ==
    ASSUME [Next]_vars
    PROVE  UNCHANGED vars \/ \E a \in Agent, card \in Card : Register(a, card)
  BY DEF Next, Handshake

\* The invariants are inductive together.
LEMMA NextInv == RegistryInv /\ [Next]_vars => RegistryInv'
<1> SUFFICES ASSUME RegistryInv, [Next]_vars PROVE RegistryInv'
  OBVIOUS
<1>1. CASE UNCHANGED vars
  BY <1>1 DEF RegistryInv, vars, TypeOK, CardsAreDiscoverable, IndexesListRegistered, ListsOnly
<1>2. ASSUME NEW a \in Agent, NEW card \in Card, Register(a, card) PROVE RegistryInv'
  BY <1>2, TypeAfterRegister, CoversAfterRegister, ListsRegisteredAfterRegister DEF RegistryInv
<1> QED BY <1>1, <1>2, StepCases

\* Cards and indexes are well formed.
THEOREM TypeCorrect == Spec => []TypeOK
<1>1. Init => RegistryInv BY InitInv DEF RegistryInv
<1>2. RegistryInv => TypeOK BY DEF RegistryInv
<1> QED BY <1>1, <1>2, NextInv, PTL DEF Spec

\* An agent is found under everything its card declares (AgentRegistry.register).
THEOREM CardsStayDiscoverable == Spec => []CardsAreDiscoverable
<1>1. Init => RegistryInv BY InitInv DEF RegistryInv
<1>2. RegistryInv => CardsAreDiscoverable BY DEF RegistryInv
<1> QED BY <1>1, <1>2, NextInv, PTL DEF Spec

\* Whoever is discovered is registered, and is listed once.
THEOREM OnlyRegisteredAreListed == Spec => []IndexesListRegistered
<1>1. Init => RegistryInv BY InitInv DEF RegistryInv
<1>2. RegistryInv => IndexesListRegistered BY DEF RegistryInv
<1> QED BY <1>1, <1>2, NextInv, PTL DEF Spec

\* No registration changes who comes before whom in what discover returns.
THEOREM OrderNeverChanges == Spec => DiscoveryOrderIsStable
<1>1. Init => RegistryInv BY InitInv DEF RegistryInv
<1>2. RegistryInv /\ [Next]_vars => [KeepsOrder]_vars
  BY StepCases, StableAfterRegister DEF RegistryInv
<1> QED BY <1>1, <1>2, NextInv, PTL DEF Spec, DiscoveryOrderIsStable
----------------------------------------------------------------------------
\* How many members of the team are registered
Registered == IF phase \in {"register", "refused"} THEN pos - 1 ELSE Len(team)

IndexInv ==
    \A c \in Capability :
        LET found == Found(byCapability, c)
        IN IF found = <<>>
           THEN \A i \in 1..Registered : ~ Offers(i, c)
           ELSE \E i \in 1..Registered :
                   /\ found[1] = team[i]
                   /\ Offers(i, c)
                   /\ \A j \in 1..(i - 1) : ~ Offers(j, c)

\* A stage that is resolved runs on the first member that offers its capability.
ResolvedInv ==
    \A s \in DOMAIN resolved : \E i \in DOMAIN team :
        /\ team[i] = resolved[s]
        /\ Offers(i, Needed[s])
        /\ \A j \in 1..(i - 1) : ~ Offers(j, Needed[s])

PhaseInv ==
    /\ phase = "register" => pos <= Len(team) + 1 /\ resolved = <<>>
    /\ phase = "refused" => pos <= Len(team) /\ ~ offer[team[pos]].compatible
    /\ phase # "register" => Len(resolved) <= Len(Needed)
    /\ phase = "resolve" => pos = Len(resolved) + 1
    /\ phase = "ready" => Len(resolved) = Len(Needed)
    /\ phase = "unstaffed" => Unstaffed
    /\ \A i \in 1..Registered : offer[team[i]].compatible

StartInv == StartTypeOK /\ PhaseInv /\ IndexInv /\ ResolvedInv

----------------------------------------------------------------------------
\* An index list keeps its head when an agent is entered, unless it was empty.
LEMMA ListingHead ==
    ASSUME NEW list \in Seq(Agent), NEW a \in Agent
    PROVE  /\ Listing(list, a) \in Seq(Agent)
           /\ Listing(list, a) # <<>>
           /\ Listing(list, a)[1] = IF list = <<>> THEN a ELSE list[1]
<1>1. CASE list = <<>>
  BY <1>1 DEF Listing, Lists
<1>2. CASE list # <<>>
  BY <1>2 DEF Listing, Lists
<1> QED BY <1>1, <1>2

\* What an index holds after an agent was entered under some keys.
LEMMA FoundAfterIndexed ==
    ASSUME NEW index, NEW keys, NEW a, NEW k
    PROVE  Found(Indexed(index, keys, a), k) =
               IF k \in keys THEN Listing(Found(index, k), a)
               ELSE Found(index, k)
  BY DEF Found, Indexed

\* Nobody is registered at first.
LEMMA StartInitInv == StartInit => StartInv
<1> SUFFICES ASSUME StartInit PROVE StartInv
  OBVIOUS
<1>1. team \in Seq(Agent)
  BY DEF StartInit, Teams, SeqOf
<1>2. /\ cards = <<>> /\ byCapability = <<>> /\ byAction = <<>>
      /\ DOMAIN cards = {} /\ DOMAIN byCapability = {} /\ DOMAIN byAction = {}
  BY DEF StartInit, Init, Empty
<1>3. StartTypeOK
  BY <1>1, <1>2 DEF StartInit, StartTypeOK, TypeOK, Init, Empty
<1>4. Registered = 0
  BY DEF StartInit, Registered
<1>5. PhaseInv
  BY <1>1, <1>4 DEF StartInit, PhaseInv
<1>6. IndexInv
  BY <1>2, <1>4 DEF IndexInv, Found
<1>7. ResolvedInv
  BY DEF StartInit, ResolvedInv
<1> QED BY <1>3, <1>5, <1>6, <1>7 DEF StartInv

\* The next agent is registered, or refused.
LEMMA ShakeInv == ASSUME StartInv, Shake PROVE StartInv'
<1> DEFINE a == team[pos]
           card == offer[a]
<1>0. /\ StartTypeOK /\ PhaseInv /\ IndexInv /\ ResolvedInv /\ TypeOK
      /\ team \in Seq(Agent) /\ pos \in 1..Len(team) /\ phase = "register"
      /\ team' = team /\ offer' = offer /\ resolved' = resolved /\ resolved = <<>>
  BY DEF StartInv, StartTypeOK, Shake, PhaseInv
<1>1. a \in Agent /\ card \in Card /\ Registered = pos - 1
  BY <1>0 DEF StartTypeOK, Registered
<1>2. CASE ~ card.compatible
  <2>1. /\ cards' = cards /\ byCapability' = byCapability /\ byAction' = byAction
        /\ pos' = pos /\ phase' = "refused"
    BY <1>2 DEF Shake, Handshake, vars
  <2>2. Registered' = pos - 1
    BY <1>0, <2>1 DEF Registered
  <2>3. StartTypeOK'
    BY <1>0, <2>1 DEF StartTypeOK, TypeOK
  <2>4. PhaseInv'
    BY <1>0, <1>1, <1>2, <2>1, <2>2 DEF PhaseInv
  <2>5. IndexInv'
    BY <1>0, <1>1, <2>1, <2>2 DEF IndexInv, Found, Offers
  <2> QED BY <1>0, <2>3, <2>4, <2>5 DEF StartInv, ResolvedInv
<1>3. CASE card.compatible
  <2>1. /\ cards' = [x \in DOMAIN cards \cup {a} |-> IF x = a THEN card ELSE cards[x]]
        /\ byCapability' = Indexed(byCapability, card.capabilities, a)
        /\ byAction' = Indexed(byAction, card.actions, a)
        /\ pos' = pos + 1 /\ phase' = "register"
    BY <1>0, <1>3 DEF Shake, Handshake, Register
  <2>2. Registered' = pos
    BY <1>0, <2>1 DEF Registered
  <2>3. Register(a, card)
    BY <1>3 DEF Shake, Handshake
  <2>4. StartTypeOK'
    <3>1. TypeOK'
      <4> HIDE DEF a, card
      <4> QED BY <1>0, <1>1, <2>3, TypeAfterRegister
    <3> QED BY <1>0, <2>1, <3>1 DEF StartTypeOK, Card
  <2>5. PhaseInv'
    BY <1>0, <1>1, <1>3, <2>1, <2>2 DEF PhaseInv
  <2>6. IndexInv'
    <3> SUFFICES ASSUME NEW c \in Capability
                 PROVE  LET found == Found(byCapability', c)
                        IN IF found = <<>>
                           THEN \A i \in 1..pos : ~ Offers(i, c)
                           ELSE \E i \in 1..pos :
                                   /\ found[1] = team[i]
                                   /\ Offers(i, c)
                                   /\ \A j \in 1..(i - 1) : ~ Offers(j, c)
      BY <1>0, <2>2 DEF IndexInv, Offers, Found
    <3> DEFINE old == Found(byCapability, c)
               new == Found(byCapability', c)
    <3>1. old \in Seq(Agent)
      BY <1>0 DEF TypeOK, Found
    <3>2. new = IF c \in card.capabilities THEN Listing(old, a) ELSE old
      BY <2>1, FoundAfterIndexed
    <3>3. Offers(pos, c) <=> c \in card.capabilities
      BY DEF Offers
    <3>4. IF old = <<>>
          THEN \A i \in 1..(pos - 1) : ~ Offers(i, c)
          ELSE \E i \in 1..(pos - 1) :
                  /\ old[1] = team[i]
                  /\ Offers(i, c)
                  /\ \A j \in 1..(i - 1) : ~ Offers(j, c)
      BY <1>0, <1>1 DEF IndexInv
    <3> HIDE DEF old, new
    <3>5. CASE c \in card.capabilities
      <4>1. new # <<>> /\ new[1] = IF old = <<>> THEN a ELSE old[1]
        BY <1>1, <3>1, <3>2, <3>5, ListingHead
      <4> QED BY <1>0, <3>3, <3>4, <3>5, <4>1 DEF new
    <3>6. CASE c \notin card.capabilities
      BY <1>0, <3>2, <3>3, <3>4, <3>6 DEF new
    <3> QED BY <3>5, <3>6
  <2> QED BY <1>0, <2>4, <2>5, <2>6 DEF StartInv, ResolvedInv
<1> QED BY <1>2, <1>3

\* All are registered: the stages come next.
LEMMA AllShakenInv == ASSUME StartInv, AllShaken PROVE StartInv'
<1>0. /\ StartTypeOK /\ PhaseInv /\ IndexInv /\ ResolvedInv
      /\ team \in Seq(Agent) /\ pos = Len(team) + 1 /\ phase = "register" /\ resolved = <<>>
      /\ team' = team /\ offer' = offer /\ resolved' = resolved
      /\ cards' = cards /\ byCapability' = byCapability /\ byAction' = byAction
      /\ pos' = 1 /\ phase' = "resolve"
  BY DEF StartInv, StartTypeOK, AllShaken, PhaseInv, vars
<1>1. Registered = Len(team) /\ Registered' = Len(team)
  BY <1>0 DEF Registered
<1>2. StartTypeOK'
  BY <1>0 DEF StartTypeOK, TypeOK
<1>3. PhaseInv'
  BY <1>0, <1>1, NeededAssumption DEF PhaseInv
<1>4. IndexInv'
  BY <1>0, <1>1 DEF IndexInv, Found, Offers
<1> QED BY <1>0, <1>2, <1>3, <1>4 DEF StartInv, ResolvedInv

\* The next stage gets the head of its index list, or the constructor raises.
LEMMA ResolveInv == ASSUME StartInv, Resolve PROVE StartInv'
<1> DEFINE c == Needed[pos]
           found == Found(byCapability, c)
<1>0. /\ StartTypeOK /\ PhaseInv /\ IndexInv /\ ResolvedInv
      /\ team \in Seq(Agent) /\ resolved \in Seq(Agent) /\ phase = "resolve"
      /\ pos = Len(resolved) + 1 /\ pos \in DOMAIN Needed /\ Len(resolved) + 1 <= Len(Needed)
      /\ team' = team /\ offer' = offer
      /\ cards' = cards /\ byCapability' = byCapability /\ byAction' = byAction
  BY NeededAssumption DEF StartInv, StartTypeOK, Resolve, PhaseInv, vars
<1>1. /\ c \in Capability
      /\ Registered = Len(team)
      /\ found \in Seq(Agent)
  BY <1>0, NeededAssumption DEF Registered, StartTypeOK, TypeOK, Found
<1>2. Registered' = Len(team)
  BY <1>0 DEF Resolve, Registered
<1>3. IndexInv'
  BY <1>0, <1>1, <1>2 DEF IndexInv, Found, Offers
<1>4. IF found = <<>>
      THEN \A i \in 1..Len(team) : ~ Offers(i, c)
      ELSE \E i \in 1..Len(team) :
              /\ found[1] = team[i]
              /\ Offers(i, c)
              /\ \A j \in 1..(i - 1) : ~ Offers(j, c)
  BY <1>0, <1>1 DEF IndexInv
<1>5. CASE found = <<>>
  <2>1. phase' = "unstaffed" /\ pos' = pos /\ resolved' = resolved
    BY <1>5 DEF Resolve, Candidates
  <2>2. Unstaffed
    BY <1>0, <1>4, <1>5 DEF Unstaffed
  <2>3. PhaseInv'
    BY <1>0, <1>1, <1>2, <2>1, <2>2 DEF PhaseInv, Unstaffed, Offers
  <2>4. StartTypeOK'
    BY <1>0, <2>1 DEF StartTypeOK, TypeOK
  <2> QED BY <1>0, <1>3, <2>1, <2>3, <2>4 DEF StartInv, ResolvedInv, Offers
<1>6. CASE found # <<>>
  <2>1. phase' = "resolve" /\ pos' = pos + 1 /\ resolved' = Append(resolved, found[1])
    BY <1>0, <1>1, <1>6 DEF Resolve, Candidates
  <2>2. found[1] \in Agent
    BY <1>1, <1>6
  <2>3. StartTypeOK'
    BY <1>0, <2>1, <2>2 DEF StartTypeOK, TypeOK
  <2>4. PhaseInv'
    BY <1>0, <1>1, <1>2, <2>1, <2>2, NeededAssumption DEF PhaseInv
  <2>5. ResolvedInv'
    <3> SUFFICES ASSUME NEW s \in DOMAIN resolved'
                 PROVE  \E i \in DOMAIN team :
                            /\ team[i] = resolved'[s]
                            /\ Offers(i, Needed[s])
                            /\ \A j \in 1..(i - 1) : ~ Offers(j, Needed[s])
      BY <1>0 DEF ResolvedInv, Offers
    <3> HIDE DEF found
    <3>1. CASE s \in DOMAIN resolved
      <4>1. resolved'[s] = resolved[s]
        BY <1>0, <2>1, <2>2, <3>1
      <4> QED BY <1>0, <3>1, <4>1 DEF ResolvedInv
    <3>2. CASE s \notin DOMAIN resolved
      <4>1. s = pos /\ resolved'[s] = found[1]
        BY <1>0, <2>1, <2>2, <3>2
      <4> QED BY <1>0, <1>4, <1>6, <4>1
    <3> QED BY <3>1, <3>2
  <2> QED BY <1>3, <2>3, <2>4, <2>5 DEF StartInv
<1> QED BY <1>5, <1>6

\* The invariant is inductive.
LEMMA StartNextInv == StartInv /\ [StartNext]_startVars => StartInv'
<1> SUFFICES ASSUME StartInv, [StartNext]_startVars PROVE StartInv'
  OBVIOUS
<1>1. CASE AllResolved
  <2>0. /\ StartTypeOK /\ PhaseInv /\ IndexInv /\ ResolvedInv
        /\ team' = team /\ offer' = offer /\ resolved' = resolved /\ pos' = pos
        /\ cards' = cards /\ byCapability' = byCapability /\ byAction' = byAction
        /\ phase = "resolve" /\ phase' = "ready" /\ pos > Len(Needed)
    BY <1>1 DEF StartInv, AllResolved, vars
  <2>1. Registered = Len(team) /\ Registered' = Len(team)
    BY <2>0 DEF Registered
  <2>2. StartTypeOK'
    BY <2>0 DEF StartTypeOK, TypeOK
  <2>3. PhaseInv'
    BY <2>0, <2>1, NeededAssumption DEF PhaseInv, StartTypeOK
  <2>4. IndexInv' /\ ResolvedInv'
    BY <2>0, <2>1 DEF IndexInv, ResolvedInv, Found, Offers
  <2> QED BY <2>2, <2>3, <2>4 DEF StartInv
<1>2. CASE UNCHANGED startVars
  <2>0. /\ team' = team /\ offer' = offer /\ resolved' = resolved /\ pos' = pos
        /\ cards' = cards /\ byCapability' = byCapability /\ byAction' = byAction
        /\ phase' = phase
    BY <1>2 DEF startVars, vars
  <2>1. Registered' = Registered
    BY <2>0 DEF Registered
  <2>2. StartTypeOK' /\ PhaseInv'
    BY <2>0, <2>1 DEF StartInv, StartTypeOK, TypeOK, PhaseInv, Unstaffed, Offers
  <2>3. IndexInv' /\ ResolvedInv'
    BY <2>0, <2>1 DEF StartInv, IndexInv, ResolvedInv, Found, Offers
  <2> QED BY <2>2, <2>3 DEF StartInv
<1> QED
  BY <1>1, <1>2, ShakeInv, AllShakenInv, ResolveInv DEF StartNext

\* Registry, team and stages are well formed.
THEOREM StartTypeCorrect == StartSpec => []StartTypeOK
<1>1. StartInv => StartTypeOK
  BY DEF StartInv
<1> QED BY <1>1, StartInitInv, StartNextInv, PTL DEF StartSpec

\* Once constructed, each stage runs on the first member of the team, in the order of
\* the dictionary, that has the capability it needs.
THEOREM StagesAreAlwaysStaffed == StartSpec => []StagesAreStaffed
<1>1. StartInv => StagesAreStaffed
  <2> SUFFICES ASSUME StartInv, phase = "ready"
               PROVE  /\ Len(resolved) = Len(Needed)
                      /\ \A s \in DOMAIN Needed : \E i \in DOMAIN team :
                            /\ team[i] = resolved[s]
                            /\ Offers(i, Needed[s])
                            /\ \A j \in 1..(i - 1) : ~ Offers(j, Needed[s])
    BY DEF StagesAreStaffed
  <2>1. Len(resolved) = Len(Needed) /\ resolved \in Seq(Agent)
    BY DEF StartInv, PhaseInv, StartTypeOK
  <2>2. DOMAIN resolved = DOMAIN Needed
    BY <2>1, NeededAssumption
  <2> QED BY <2>1, <2>2 DEF StartInv, ResolvedInv
<1> QED BY <1>1, StartInitInv, StartNextInv, PTL DEF StartSpec

\* The constructor refuses a team for an incompatible member, or for a capability
\* nobody has, and only then.
THEOREM AlwaysRaisesForAReason == StartSpec => []RaisesForAReason
<1>1. StartInv => RaisesForAReason
  <2> SUFFICES ASSUME StartInv PROVE RaisesForAReason
    OBVIOUS
  <2>0. /\ team \in Seq(Agent) /\ PhaseInv /\ ResolvedInv /\ pos \in Nat \ {0}
        /\ resolved \in Seq(Agent)
    BY DEF StartInv, StartTypeOK
  <2>1. phase = "refused" => Incompatible
    <3> SUFFICES ASSUME phase = "refused" PROVE Incompatible
      OBVIOUS
    <3>1. pos \in DOMAIN team /\ ~ offer[team[pos]].compatible
      BY <2>0 DEF PhaseInv
    <3> QED BY <3>1 DEF Incompatible
  <2>2. phase \in {"unstaffed", "ready"} => ~ Incompatible
    BY <2>0 DEF PhaseInv, Registered, Incompatible
  <2>3. phase = "ready" => ~ Unstaffed
    <3> SUFFICES ASSUME phase = "ready", NEW s \in DOMAIN Needed
                 PROVE  \E i \in DOMAIN team : Offers(i, Needed[s])
      BY DEF Unstaffed
    <3>1. DOMAIN resolved = DOMAIN Needed
      BY <2>0, NeededAssumption DEF PhaseInv
    <3> QED BY <2>0, <3>1 DEF ResolvedInv
  <2> QED BY <2>0, <2>1, <2>2, <2>3 DEF RaisesForAReason, PhaseInv
<1> QED BY <1>1, StartInitInv, StartNextInv, PTL DEF StartSpec

\* The constructor uses the registry as AgentRegistry describes it: what holds of every
\* registry holds of the orchestrator's.
THEOREM StartUsesTheRegistry == StartSpec => Spec
<1>1. StartInit => Init
  BY DEF StartInit
<1>2. StartInv /\ [StartNext]_startVars => [Next]_vars
  <2> SUFFICES ASSUME StartInv, StartNext PROVE Next \/ UNCHANGED vars
    BY DEF startVars
  <2>1. CASE Shake
    <3>1. pos \in DOMAIN team /\ team \in Seq(Agent) /\ offer \in [Agent -> Card]
      BY <2>1 DEF Shake, StartInv, StartTypeOK
    <3>2. team[pos] \in Agent /\ offer[team[pos]] \in Card
      BY <3>1
    <3> QED BY <2>1, <3>2 DEF Shake, Next
  <2>2. CASE AllShaken \/ Resolve \/ AllResolved
    BY <2>2 DEF AllShaken, Resolve, AllResolved
  <2> QED BY <2>1, <2>2 DEF StartNext
<1> QED BY <1>1, <1>2, StartInitInv, StartNextInv, PTL DEF StartSpec, Spec
=============================================================================
