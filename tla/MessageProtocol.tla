----------------------------- MODULE MessageProtocol -----------------------------
(***************************************************************************)
(* The wire formats of protocol/ and the idempotency cache.  Requests are  *)
(* relayed through any mix of text and structured hops, asked of a         *)
(* receiver that answers repeated requests from its cache, and the replies *)
(* are relayed back the same way.                                          *)
(*                                                                         *)
(* A message is what the formats tell apart: `about` stands for task_id,   *)
(* step_id and the action asked for; `route` for source, target, trace,    *)
(* capability and the action ERROR of a failure; `refs` for the artifact,  *)
(* evidence and state references and the dependencies.  message_id,        *)
(* timestamp and metrics identify nothing here and are left out.  Names    *)
(* hold no quotation mark, nor the words that stand before one.            *)
(* Parameters and results may hold any text, also a sentence such as       *)
(* "status is 'error'", which a reader takes for one about the message.    *)
(*                                                                         *)
(* A definition D_Something is a faulty variant of D.  Nothing uses it; put *)
(* in the place of D it shows that a property can be broken by a bug.      *)
(***************************************************************************)
EXTENDS Integers

CONSTANTS
    About,       \* tasks, steps and actions
    Keys,        \* idempotency keys
    Short,       \* parameters and results that are sent as they are
    Long,        \* those with a string over 64 characters or a list over 8 elements
    Summary,     \* what _compact_params makes of each of them
    Said,        \* the status that a reader finds in the text of each of them all, or None
    None,        \* Python's None
    Empty,       \* the empty dict or list
    Exchange,    \* the requests, each with its reply
    MaxRelays    \* bound: the number of hops explored, all messages together

Summaries == {Summary[v] : v \in Long}
Status == {"pending", "ok", "error", "timeout", "retry", "skipped"}

ASSUME MaxRelaysAssumption == MaxRelays \in Nat
ASSUME ValuesAssumption ==
    /\ DOMAIN Summary = Long
    /\ Summaries \cap (Short \cup Long) = {}
    /\ Short \cap Long = {}
    /\ {None, Empty} \cap (Short \cup Long \cup Summaries \cup Keys) = {}
    /\ {None, Empty} \cap {"set", "exact", "rounded"} = {}
    /\ None # Empty /\ None \notin Exchange \cup Status
    /\ Said \in [Short \cup Long \cup Summaries -> {None} \cup Status]

VARIABLES
    request,   \* the requests as the senders made them; never changes
    origin,    \* the message now on its way, as it was made: the request, then the reply
    message,   \* what has become of it
    carried,   \* history: the modes it has been carried in
    heard,     \* history: the modes the request had been carried in when it was asked
    cache,     \* IdempotencyCache: the exchange and the reply, per fingerprint
    answer,    \* the exchange whose reply each request got, None before
    relays

vars == <<request, origin, message, carried, heard, cache, answer, relays>>

Mode == {"text", "structured"}
Fields == {"about", "route", "status", "params", "result", "refs", "confidence", "error", "key"}
Detail == {Empty} \cup Short \cup Long \cup Summaries

Message ==
    [about : About, route : {"there", "back", "failed"}, status : Status,
     params : Detail, result : {None} \cup Detail, refs : {Empty, "set"},
     confidence : {None, "exact", "rounded"}, error : {None, "set"}, key : {None} \cup Keys]

\* What the orchestrator asks: no result, no confidence, no error yet.
Requests ==
    {m \in Message : /\ m.route = "there" /\ m.status = "ok"
                     /\ m.result = None /\ m.confidence = None /\ m.error = None
                     /\ m.params \notin Summaries}

\* BaseAgent.reply: the orchestrator's agents always give it a result, also in a
\* reply whose status is an error.
Reply(m, status, refs, result) ==
    [about |-> m.about, route |-> "back", status |-> status, params |-> Empty,
     result |-> result, refs |-> refs, confidence |-> "exact", error |-> None, key |-> None]

\* BaseAgent._error_message: the confidence is 0.0, which rounding does not change.
ErrorMessage(m, status) ==
    [about |-> m.about, route |-> "failed", status |-> status, params |-> Empty,
     result |-> None, refs |-> Empty, confidence |-> "rounded", error |-> "set", key |-> None]

Replies(m) ==
    {Reply(m, s, r, v) : s \in {"ok", "error"}, r \in {Empty, "set"}, v \in Short \cup Long}
        \cup {ErrorMessage(m, s) : s \in {"error", "timeout"}}

TypeOK ==
    /\ request \in [Exchange -> Message]
    /\ origin \in [Exchange -> Message]
    /\ message \in [Exchange -> Message]
    /\ carried \in [Exchange -> SUBSET Mode]
    /\ heard \in [Exchange -> SUBSET Mode]
    /\ \A f \in DOMAIN cache : cache[f] \in [of : Exchange, reply : Message]
    /\ answer \in [Exchange -> {None} \cup Exchange]
    /\ relays \in 0..MaxRelays

Init ==
    /\ request \in [Exchange -> Requests]
    /\ origin = request
    /\ message = request
    /\ carried = [x \in Exchange |-> {}]
    /\ heard = [x \in Exchange |-> {}]
    /\ cache = <<>>
    /\ answer = [x \in Exchange |-> None]
    /\ relays = 0

----------------------------------------------------------------------------
\* _compact_params: a long value is replaced by a dict, which stays as it is.
Compact(v) == IF v \in Long THEN Summary[v] ELSE v

Always == {"about", "route", "status"}

Sent_WithoutKey(m) ==
    {f \in Fields \ {"key"} :
        f \in Always \/ m[f] \notin (IF f = "result" THEN {None} ELSE {None, Empty})}

\* The fields encode_structured writes: the others are left out when they are
\* None or empty, the result only when it is None.
Sent(m) ==
    {f \in Fields : f \in Always \/ m[f] \notin (IF f = "result" THEN {None} ELSE {None, Empty})}

EncodeStructured(m) ==
    [f \in Sent(m) |->
        CASE f \in {"params", "result"} -> Compact(m[f])
          [] f = "confidence"           -> "rounded"
          [] OTHER                      -> m[f]]

Default_None(f) == None

\* AgentMessage(**data): what the wire does not have gets its default.
Default(f) == IF f \in {"params", "refs"} THEN Empty ELSE None

DecodeStructured(wire) ==
    [f \in Fields |-> IF f \in DOMAIN wire THEN wire[f] ELSE Default(f)]

\* What a reader of the parameters, or of the result, takes for a status; what is no
\* status, or no closed quotation, is taken for "ok".
Says(v) == IF v \in DOMAIN Said THEN Said[v] ELSE None

\* render_text, as far as it is read again: the names, and the statements about a
\* status in the order of the text.  The dependencies, between the result and the status,
\* are names; an error comes after it.
RenderText(m) ==
    [about |-> m.about, route |-> m.route,
     statements |-> <<Says(m.params), Says(m.result), m.status>>]

\* The search for a pattern stops at its first match.
FirstOf(statements) ==
    IF statements[1] # None THEN statements[1]
    ELSE IF statements[2] # None THEN statements[2]
    ELSE statements[3]

DecodeText_NoStatus(wire) ==
    [f \in Fields |->
        CASE f \in {"about", "route"} -> wire[f]
          [] f = "status"             -> "ok"
          [] OTHER                    -> Default(f)]

\* _decode_text: what the patterns find, and the defaults of the rest.
DecodeText(wire) ==
    [f \in Fields |->
        CASE f \in {"about", "route"} -> wire[f]
          [] f = "status"             -> FirstOf(wire.statements)
          [] OTHER                    -> Default(f)]

\* from_wire of to_wire
Hop(m, mode) ==
    IF mode = "text" THEN DecodeText(RenderText(m)) ELSE DecodeStructured(EncodeStructured(m))

\* A message is carried over one hop.
Relay(x, mode) ==
    /\ relays < MaxRelays
    /\ relays' = relays + 1
    /\ message' = [message EXCEPT ![x] = Hop(@, mode)]
    /\ carried' = [carried EXCEPT ![x] = @ \cup {mode}]
    /\ UNCHANGED <<request, origin, heard, cache, answer>>

HasKey(m) == m.key # None

Fingerprint_KeyOnly(m) == IF HasKey(m) THEN <<m.about, "key", m.key>> ELSE <<m.about, "params">>

Fingerprint_KeyAndParams(m) == <<m.about, m.key, m.params>>

\* fingerprint: the explicit key, or a digest of the parameters.
Fingerprint(m) ==
    IF HasKey(m) THEN <<m.about, "key", m.key>> ELSE <<m.about, "params", m.params>>

Extended(f, k, v) == [d \in DOMAIN f \cup {k} |-> IF d = k THEN v ELSE f[d]]

\* The reply of exchange y goes out as the answer to x.
Answers(x, y, reply) ==
    /\ answer' = [answer EXCEPT ![x] = y]
    /\ origin' = [origin EXCEPT ![x] = reply]
    /\ message' = [message EXCEPT ![x] = reply]
    /\ heard' = [heard EXCEPT ![x] = carried[x]]
    /\ carried' = [carried EXCEPT ![x] = {}]
    /\ UNCHANGED <<request, relays>>

\* seen: the cached reply, whether it is a result or an error
Repeat(x) ==
    /\ answer[x] = None
    /\ Fingerprint(message[x]) \in DOMAIN cache
    /\ LET entry == cache[Fingerprint(message[x])]
       IN  Answers(x, entry.of, entry.reply)
    /\ UNCHANGED cache

\* not seen: the agent runs, and the reply is remembered
Compute(x) ==
    /\ answer[x] = None
    /\ Fingerprint(message[x]) \notin DOMAIN cache
    /\ \E reply \in Replies(message[x]) :
          /\ Answers(x, x, reply)
          /\ cache' = Extended(cache, Fingerprint(message[x]), [of |-> x, reply |-> reply])

Next ==
    \E x \in Exchange : Repeat(x) \/ Compute(x) \/ \E mode \in Mode : Relay(x, mode)

Spec == Init /\ [][Next]_vars

----------------------------------------------------------------------------
\* What a value may have become on structured hops.
Copies(v) == {v} \cup (IF v \in Long THEN {Summary[v]} ELSE {})

\* What a message may be taken to say of its status: its parameters and its result are
\* part of the text.
Overheard(m) == {Says(v) : v \in Copies(m.params) \cup Copies(m.result)} \ {None}

\* Whatever mix of hops a message takes, the two modes agree on what it is about and on
\* its route, and on its status as well unless a text hop took a sentence of its
\* parameters or its result for it: semantically_equivalent of the message and its copy.
CoreSurvives ==
    \A x \in Exchange :
        /\ message[x].about = origin[x].about
        /\ message[x].route = origin[x].route
        /\ message[x].status \in
              {origin[x].status} \cup (IF "text" \in carried[x] THEN Overheard(origin[x]) ELSE {})

\* Structured hops, however many, lose detail only: a long value turns into its
\* own summary, and no reference, error, key or result goes missing.
StructuredKeepsReferences ==
    \A x \in Exchange : "text" \notin carried[x] =>
        /\ \A f \in {"refs", "error", "key"} : message[x][f] = origin[x][f]
        /\ \A f \in {"params", "result"} : message[x][f] \in Copies(origin[x][f])

\* message.py: the same task, step, action and key, or the same parameters when
\* there is no key, is the same request.
Same(m, n) ==
    /\ m.about = n.about
    /\ m.key = n.key
    /\ ~ HasKey(m) => m.params = n.params

\* A request the receiver can recognise: no text hop took its key or parameters,
\* and without a key no hop has to summarise the parameters.
Recognisable(x) == "text" \notin heard[x] /\ (HasKey(request[x]) \/ request[x].params \notin Long)

\* The cache never answers a request with the reply to a different one, whatever
\* hops the two took, as long as both are recognisable.
AnswersOwnRequest ==
    \A x, y \in Exchange :
        answer[x] = y /\ Recognisable(x) /\ Recognisable(y) => Same(request[x], request[y])

\* And it answers the same request once: neither a hop nor a lost reference
\* makes the receiver compute it again.
ComputedOnce ==
    \A x, y \in Exchange :
        /\ answer[x] # None /\ answer[y] # None
        /\ Recognisable(x) /\ Recognisable(y)
        /\ Same(request[x], request[y])
        => answer[x] = answer[y]
=============================================================================
