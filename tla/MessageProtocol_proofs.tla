------------------------- MODULE MessageProtocol_proofs -------------------------
(***************************************************************************)
(* For any mix of hops and any number of exchanges: what a hop keeps is    *)
(* shown first, for one message; then Inv, which ties the cache entry that *)
(* answers a request to the fingerprint of the request as it was made; and *)
(* from Inv the invariants that the run checks on two exchanges.           *)
(***************************************************************************)
EXTENDS MessageProtocol, TLAPS

\* What a text hop makes of a message.
LEMMA TextHop ==
    ASSUME NEW m \in Message
    PROVE  LET h == Hop(m, "text")
           IN  /\ h = [f \in Fields |-> h[f]]
               /\ h["about"] = m.about /\ h["route"] = m.route
               /\ h["status"] = FirstOf(<<Says(m.params), Says(m.result), m.status>>)
               /\ \A f \in Fields \ Always : h[f] = Default(f)
<1>1. Hop(m, "text") = DecodeText(RenderText(m))
  BY DEF Hop
<1> QED BY <1>1 DEF DecodeText, RenderText, Fields, Always

\* What a structured hop makes of it.
LEMMA StructuredHop ==
    ASSUME NEW m \in Message
    PROVE  LET h == Hop(m, "structured")
           IN  /\ h = [f \in Fields |-> h[f]]
               /\ \A f \in {"about", "route", "status", "refs", "error", "key"} : h[f] = m[f]
               /\ \A f \in {"params", "result"} : h[f] = Compact(m[f])
               /\ h["confidence"] \in {None, "rounded"}
<1> DEFINE wire == EncodeStructured(m)
           h == Hop(m, "structured")
<1>1. DOMAIN wire = Sent(m)
  BY DEF EncodeStructured
<1>2. h = DecodeStructured(wire)
  BY DEF Hop
<1>3. \A f \in Sent(m) :
         wire[f] = CASE f \in {"params", "result"} -> Compact(m[f])
                     [] f = "confidence"           -> "rounded"
                     [] OTHER                      -> m[f]
  BY DEF EncodeStructured
<1> HIDE DEF wire
<1>4. h = [f \in Fields |-> IF f \in Sent(m) THEN wire[f] ELSE Default(f)]
  BY <1>1, <1>2 DEF DecodeStructured
<1> HIDE DEF h
<1>5. /\ Compact(None) = None /\ Compact(Empty) = Empty
      /\ None \notin {"set", "exact", "rounded"} \cup Keys
      /\ Empty \notin {"set", "exact", "rounded"} \cup Keys
  BY ValuesAssumption DEF Compact
<1>6. /\ m["params"] # None
      /\ m["refs"] # None /\ m["error"] # Empty /\ m["key"] # Empty
  BY <1>5, ValuesAssumption DEF Message, Detail
<1>7. ASSUME NEW f \in {"about", "route", "status", "refs", "error", "key"}
      PROVE  h[f] = m[f]
  <2>1. f \in Sent(m) => h[f] = m[f]
    BY <1>3, <1>4 DEF Fields
  <2>2. f \notin Sent(m) => h[f] = Default(f) /\ m[f] \in {None, Empty} /\ f \notin Always
    BY <1>4 DEF Sent, Fields
  <2> QED BY <1>6, <2>1, <2>2 DEF Always, Default
<1>8. ASSUME NEW f \in {"params", "result"}
      PROVE  h[f] = Compact(m[f])
  <2>1. f \in Sent(m) => h[f] = Compact(m[f])
    BY <1>3, <1>4 DEF Fields
  <2>2. f \notin Sent(m) =>
           h[f] = Default(f) /\ m[f] \in (IF f = "result" THEN {None} ELSE {None, Empty})
    BY <1>4 DEF Sent, Fields
  <2> QED BY <1>5, <1>6, <2>1, <2>2 DEF Default
<1>9. h["confidence"] \in {None, "rounded"}
  BY <1>3, <1>4 DEF Fields, Default
<1>10. h = [f \in Fields |-> h[f]]
  BY <1>4
<1> QED BY <1>7, <1>8, <1>9, <1>10 DEF h

\* The first statement about a status is that of a value, or the message's own.
LEMMA StatusRead ==
    ASSUME NEW m \in Message
    PROVE  /\ FirstOf(<<Says(m.params), Says(m.result), m.status>>)
                 \in ({Says(m.params), Says(m.result)} \ {None}) \cup {m.status}
           /\ FirstOf(<<Says(m.params), Says(m.result), m.status>>) \in Status
<1>1. /\ Says(m.params) \in {None} \cup Status
      /\ Says(m.result) \in {None} \cup Status
  BY ValuesAssumption DEF Says
<1>2. m.status \in Status
  BY DEF Message
<1> QED BY <1>1, <1>2 DEF FirstOf

\* A hop yields a message.
LEMMA HopTyped ==
    ASSUME NEW m \in Message, NEW mode \in Mode
    PROVE  Hop(m, mode) \in Message
<1> DEFINE h == Hop(m, mode)
<1>1. /\ \A v \in Detail : Compact(v) \in Detail
      /\ Compact(None) = None /\ Empty \in Detail
  BY ValuesAssumption DEF Compact, Detail, Summaries
<1>2. /\ m.about \in About /\ m.route \in {"there", "back", "failed"} /\ m.status \in Status
      /\ m.params \in Detail /\ m.result \in {None} \cup Detail
      /\ m.refs \in {Empty, "set"} /\ m.error \in {None, "set"} /\ m.key \in {None} \cup Keys
  BY DEF Message
<1>3. /\ h["about"] \in About
      /\ h["route"] \in {"there", "back", "failed"}
      /\ h["status"] \in Status
      /\ h["params"] \in Detail
      /\ h["result"] \in {None} \cup Detail
      /\ h["refs"] \in {Empty, "set"}
      /\ h["confidence"] \in {None, "exact", "rounded"}
      /\ h["error"] \in {None, "set"}
      /\ h["key"] \in {None} \cup Keys
      /\ h = [f \in Fields |-> h[f]]
  <2>1. CASE mode = "structured"
    <3>1. /\ h = [f \in Fields |-> h[f]]
          /\ \A f \in {"about", "route", "status", "refs", "error", "key"} : h[f] = m[f]
          /\ \A f \in {"params", "result"} : h[f] = Compact(m[f])
          /\ h["confidence"] \in {None, "rounded"}
      BY <2>1, StructuredHop
    <3> HIDE DEF h
    <3> QED BY <1>1, <1>2, <3>1
  <2>2. CASE mode = "text"
    <3>1. /\ h = [f \in Fields |-> h[f]]
          /\ h["about"] = m.about /\ h["route"] = m.route /\ h["status"] \in Status
          /\ \A f \in Fields \ Always : h[f] = Default(f)
      BY <2>2, TextHop, StatusRead
    <3> HIDE DEF h
    <3> QED BY <1>1, <1>2, <3>1 DEF Fields, Always, Default
  <2> QED BY <2>1, <2>2 DEF Mode
<1> HIDE DEF h
<1>4. h = [about |-> h["about"], route |-> h["route"], status |-> h["status"],
           params |-> h["params"], result |-> h["result"], refs |-> h["refs"],
           confidence |-> h["confidence"], error |-> h["error"], key |-> h["key"]]
  BY <1>3 DEF Fields
<1>5. h \in Message
  BY <1>3, <1>4 DEF Message
<1> QED BY <1>5 DEF h

\* What structured hops leave of the message o.
Kept(m, o) ==
    /\ \A f \in {"status", "refs", "error", "key"} : m[f] = o[f]
    /\ \A f \in {"params", "result"} : m[f] \in Copies(o[f])

\* A structured hop loses no more than the hops before it.
LEMMA HopKeeps ==
    ASSUME NEW m \in Message, NEW o \in Message, Kept(m, o)
    PROVE  Kept(Hop(m, "structured"), o)
<1> DEFINE h == Hop(m, "structured")
<1>1. /\ \A f \in {"params", "result"} : h[f] = Compact(m[f])
      /\ \A f \in {"status", "refs", "error", "key"} : h[f] = m[f]
  BY StructuredHop
<1> HIDE DEF h
<1>2. ASSUME NEW f \in {"params", "result"}
      PROVE  h[f] \in Copies(o[f])
  <2>1. h[f] = Compact(m[f])
    BY <1>1
  <2>2. \A v \in Long : Summary[v] \notin Long
    BY ValuesAssumption DEF Summaries
  <2> QED BY <2>1, <2>2 DEF Compact, Kept, Copies
<1>3. \A f \in {"status", "refs", "error", "key"} : h[f] = o[f]
  BY <1>1 DEF Kept
<1>4. Kept(h, o)
  BY <1>2, <1>3 DEF Kept
<1> QED BY <1>4 DEF h

\* What has been on a text hop has no parameters and no result any more that could be
\* heard a second time, and its status is one that could be heard then.
Heard(m, o) ==
    /\ m.params = Empty /\ m.result = None
    /\ m.status \in {o.status} \cup Overheard(o)

\* A first text hop hears the message's own status or that of one of its values.
LEMMA FirstTextHop ==
    ASSUME NEW m \in Message, NEW o \in Message, Kept(m, o)
    PROVE  Heard(Hop(m, "text"), o)
<1> DEFINE h == Hop(m, "text")
<1>1. /\ h["status"] \in ({Says(m.params), Says(m.result)} \ {None}) \cup {m.status}
      /\ h["params"] = Empty /\ h["result"] = None
  BY TextHop, StatusRead DEF Fields, Always, Default
<1> HIDE DEF h
<1>2. m["params"] \in Copies(o["params"]) /\ m["result"] \in Copies(o["result"])
  BY DEF Kept
<1>3. m["status"] = o["status"]
  BY DEF Kept
<1>4. Heard(h, o)
  BY <1>1, <1>2, <1>3 DEF Heard, Overheard
<1> QED BY <1>4 DEF h

\* No hop after it hears anything else.
LEMMA LaterHop ==
    ASSUME NEW m \in Message, NEW o \in Message, NEW mode \in Mode, Heard(m, o)
    PROVE  Heard(Hop(m, mode), o)
<1> DEFINE h == Hop(m, mode)
<1>1. /\ Says(Empty) = None /\ Says(None) = None
      /\ Compact(Empty) = Empty /\ Compact(None) = None
  BY ValuesAssumption DEF Says, Compact
<1>2. m["params"] = Empty /\ m["result"] = None
  BY DEF Heard
<1>3. h["status"] = m["status"] /\ h["params"] = Empty /\ h["result"] = None
  <2>1. CASE mode = "structured"
    BY <1>1, <1>2, <2>1, StructuredHop
  <2>2. CASE mode = "text"
    <3>1. h["status"] = FirstOf(<<None, None, m.status>>)
      BY <1>1, <1>2, <2>2, TextHop
    <3>2. h["params"] = Empty /\ h["result"] = None
      BY <2>2, TextHop DEF Fields, Always, Default
    <3> HIDE DEF h
    <3> QED BY <3>1, <3>2 DEF FirstOf
  <2> QED BY <2>1, <2>2 DEF Mode
<1> HIDE DEF h
<1>4. Heard(h, o)
  BY <1>3 DEF Heard
<1> QED BY <1>4 DEF h

\* A reply is a message.
LEMMA RepliesTyped ==
    ASSUME NEW m \in Message, NEW reply \in Replies(m)
    PROVE  reply \in Message
<1>1. Empty \in Detail /\ Short \cup Long \subseteq Detail /\ m.about \in About
  BY DEF Detail, Message
<1>2. ASSUME NEW s \in {"ok", "error"}, NEW r \in {Empty, "set"}, NEW v \in Short \cup Long
      PROVE  Reply(m, s, r, v) \in Message
  BY <1>1 DEF Reply, Message, Status
<1>3. ASSUME NEW s \in {"error", "timeout"}
      PROVE  ErrorMessage(m, s) \in Message
  BY <1>1 DEF ErrorMessage, Message, Status
<1> QED BY <1>2, <1>3 DEF Replies

\* A recognisable request is asked under its own fingerprint.
LEMMA AskedUnderOwnFingerprint ==
    ASSUME NEW m \in Message, NEW o \in Message, Kept(m, o), m.about = o.about,
           HasKey(o) \/ o.params \notin Long
    PROVE  Fingerprint(m) = Fingerprint(o)
<1>1. m["key"] = o["key"]
  BY DEF Kept
<1>2. o["params"] \notin Long => m["params"] = o["params"]
  BY DEF Kept, Copies
<1> QED BY <1>1, <1>2 DEF Fingerprint, HasKey

\* One fingerprint, one request.
LEMMA SameFingerprint ==
    ASSUME NEW m, NEW n
    PROVE  Fingerprint(m) = Fingerprint(n) <=> Same(m, n)
  BY DEF Fingerprint, Same, HasKey

----------------------------------------------------------------------------
\* What the properties need besides themselves: a message on its way keeps what it is
\* about and its route, on structured hops the rest, and from the first text hop on has
\* nothing left to be overheard; an unanswered exchange carries its
\* request; and a recognisable request was answered by the cache entry of its
\* own fingerprint, which belongs to the exchange that was computed under it.
Carried ==
    \A x \in Exchange : /\ message[x].about = origin[x].about
                        /\ message[x].route = origin[x].route
                        /\ IF "text" \in carried[x]
                           THEN Heard(message[x], origin[x])
                           ELSE Kept(message[x], origin[x])

Unasked == \A x \in Exchange : answer[x] = None => origin[x] = request[x]

Answered ==
    \A x \in Exchange : answer[x] # None =>
        /\ answer[answer[x]] = answer[x]
        /\ Recognisable(x) => /\ Fingerprint(request[x]) \in DOMAIN cache
                              /\ cache[Fingerprint(request[x])].of = answer[x]

Computed ==
    /\ \A f \in DOMAIN cache : answer[cache[f].of] = cache[f].of
    /\ \A f, g \in DOMAIN cache : cache[f].of = cache[g].of => f = g

Inv ==
    /\ TypeOK
    /\ Carried
    /\ Unasked
    /\ Answered
    /\ Computed

\* The invariant holds initially.
LEMMA InitInv == Init => Inv
<1> SUFFICES ASSUME Init PROVE Inv
  OBVIOUS
<1>1. Requests \subseteq Message
  BY DEF Requests
<1>2. DOMAIN cache = {}
  BY DEF Init
<1>3. TypeOK
  BY <1>1, <1>2, MaxRelaysAssumption DEF Init, TypeOK
<1>4. Carried /\ Unasked
  BY DEF Init, Carried, Unasked, Kept, Copies
<1>5. Answered /\ Computed
  BY <1>2 DEF Init, Answered, Computed
<1> QED BY <1>3, <1>4, <1>5 DEF Inv

\* A hop of one message keeps the invariant.
LEMMA RelayInv ==
    ASSUME Inv, NEW x \in Exchange, NEW mode \in Mode, Relay(x, mode)
    PROVE  Inv'
<1> DEFINE hop == Hop(message[x], mode)
<1>0. /\ message[x] \in Message /\ origin[x] \in Message
      /\ carried[x] \in SUBSET Mode
  BY DEF Inv, TypeOK
<1>1. /\ hop \in Message
      /\ hop.about = message[x].about
      /\ hop.route = message[x].route
  <2>1. hop \in Message
    BY <1>0, HopTyped
  <2>2. CASE mode = "structured"
    BY <1>0, <2>1, <2>2, StructuredHop
  <2>3. CASE mode = "text"
    BY <1>0, <2>1, <2>3, TextHop
  <2> QED BY <2>1, <2>2, <2>3 DEF Mode
<1>2. IF "text" \in carried[x] \cup {mode}
      THEN Heard(hop, origin[x])
      ELSE Kept(hop, origin[x])
  <2>1. CASE "text" \in carried[x]
    <3>1. Heard(message[x], origin[x])
      BY <2>1 DEF Inv, Carried
    <3> QED BY <1>0, <2>1, <3>1, LaterHop
  <2>2. CASE "text" \notin carried[x]
    <3>1. Kept(message[x], origin[x])
      BY <2>2 DEF Inv, Carried
    <3>2. CASE mode = "structured"
      BY <1>0, <2>2, <3>1, <3>2, HopKeeps
    <3>3. CASE mode = "text"
      BY <1>0, <3>1, <3>3, FirstTextHop
    <3> QED BY <3>2, <3>3 DEF Mode
  <2> QED BY <2>1, <2>2
<1> HIDE DEF hop
<1>3. /\ message' = [message EXCEPT ![x] = hop]
      /\ carried' = [carried EXCEPT ![x] = @ \cup {mode}]
      /\ relays < MaxRelays /\ relays' = relays + 1
      /\ UNCHANGED <<request, origin, heard, cache, answer>>
  BY DEF Relay, hop
<1>4. TypeOK'
  <2>1. message' \in [Exchange -> Message] /\ carried' \in [Exchange -> SUBSET Mode]
    BY <1>1, <1>3 DEF Inv, TypeOK
  <2>2. relays' \in 0..MaxRelays
    BY <1>3, MaxRelaysAssumption DEF Inv, TypeOK
  <2> QED BY <1>3, <2>1, <2>2 DEF Inv, TypeOK
<1>5. Carried'
  <2> SUFFICES ASSUME NEW y \in Exchange
               PROVE  /\ message'[y].about = origin[y].about
                      /\ message'[y].route = origin[y].route
                      /\ IF "text" \in carried'[y]
                         THEN Heard(message'[y], origin[y])
                         ELSE Kept(message'[y], origin[y])
    BY <1>3 DEF Carried, Kept, Heard
  <2>1. CASE y = x
    <3>1. message'[x] = hop /\ carried'[x] = carried[x] \cup {mode}
      BY <1>3 DEF Inv, TypeOK
    <3> QED BY <1>1, <1>2, <2>1, <3>1 DEF Inv, Carried
  <2>2. CASE y # x
    <3>1. message'[y] = message[y] /\ carried'[y] = carried[y]
      BY <1>3, <2>2 DEF Inv, TypeOK
    <3> QED BY <3>1 DEF Inv, Carried
  <2> QED BY <2>1, <2>2
<1>6. Unasked' /\ Answered' /\ Computed'
  BY <1>3 DEF Inv, Unasked, Answered, Computed, Recognisable
<1> QED BY <1>4, <1>5, <1>6 DEF Inv

\* What any answer keeps, whether it is computed or comes from the cache.
LEMMA AnswersInv ==
    ASSUME Inv, NEW x \in Exchange, NEW y \in Exchange, NEW reply \in Message,
           Answers(x, y, reply)
    PROVE  /\ request' \in [Exchange -> Message] /\ origin' \in [Exchange -> Message]
           /\ message' \in [Exchange -> Message] /\ carried' \in [Exchange -> SUBSET Mode]
           /\ heard' \in [Exchange -> SUBSET Mode]
           /\ answer' \in [Exchange -> {None} \cup Exchange]
           /\ relays' \in 0..MaxRelays
           /\ Carried'
           /\ Unasked'
<1>1. /\ request' \in [Exchange -> Message] /\ origin' \in [Exchange -> Message]
      /\ message' \in [Exchange -> Message] /\ carried' \in [Exchange -> SUBSET Mode]
      /\ heard' \in [Exchange -> SUBSET Mode]
      /\ answer' \in [Exchange -> {None} \cup Exchange]
      /\ relays' \in 0..MaxRelays
  BY DEF Inv, TypeOK, Answers
<1>2. ASSUME NEW z \in Exchange
      PROVE  /\ message'[z].about = origin'[z].about
             /\ message'[z].route = origin'[z].route
             /\ IF "text" \in carried'[z]
                THEN Heard(message'[z], origin'[z])
                ELSE Kept(message'[z], origin'[z])
             /\ answer'[z] = None => origin'[z] = request'[z]
  <2>1. CASE z = x
    <3>1. message'[x] = reply /\ origin'[x] = reply /\ answer'[x] = y /\ carried'[x] = {}
      BY DEF Inv, TypeOK, Answers
    <3>2. Kept(reply, reply)
      BY DEF Kept, Copies
    <3> QED BY <2>1, <3>1, <3>2, ValuesAssumption
  <2>2. CASE z # x
    <3>1. /\ message'[z] = message[z] /\ origin'[z] = origin[z] /\ carried'[z] = carried[z]
          /\ answer'[z] = answer[z] /\ request' = request
      BY <2>2 DEF Inv, TypeOK, Answers
    <3> QED BY <3>1 DEF Inv, Carried, Unasked
  <2> QED BY <2>1, <2>2
<1>3. Carried' /\ Unasked'
  BY <1>2 DEF Carried, Unasked, Kept, Heard
<1> QED BY <1>1, <1>3

\* A request is recognised under the fingerprint it was asked with.
LEMMA RecognisedAsAsked ==
    ASSUME Inv, NEW x \in Exchange, answer[x] = None, "text" \notin carried[x],
           HasKey(request[x]) \/ request[x].params \notin Long
    PROVE  Fingerprint(message[x]) = Fingerprint(request[x])
<1>1. /\ origin[x] = request[x]
      /\ message[x] \in Message /\ request[x] \in Message
      /\ Kept(message[x], origin[x]) /\ message[x].about = origin[x].about
  BY DEF Inv, TypeOK, Unasked, Carried
<1> QED BY <1>1, AskedUnderOwnFingerprint

\* An answer from the cache keeps it: the entry is that of the request's own
\* fingerprint, and the exchange it belongs to was answered by itself.
LEMMA RepeatInv ==
    ASSUME Inv, NEW x \in Exchange, Repeat(x)
    PROVE  Inv'
<1> DEFINE fp == Fingerprint(message[x])
           y == cache[fp].of
<1>1. /\ answer[x] = None /\ fp \in DOMAIN cache /\ UNCHANGED cache
      /\ Answers(x, y, cache[fp].reply)
      /\ y \in Exchange /\ cache[fp].reply \in Message
      /\ answer[y] = y /\ y # x
  <2>1. answer[x] = None /\ fp \in DOMAIN cache /\ UNCHANGED cache
        /\ Answers(x, y, cache[fp].reply)
    BY DEF Repeat
  <2>2. y \in Exchange /\ cache[fp].reply \in Message
    BY <2>1 DEF Inv, TypeOK
  <2>3. answer[y] = y
    BY <2>1 DEF Inv, Computed
  <2> QED BY <2>1, <2>2, <2>3, ValuesAssumption
<1>2. "text" \notin carried[x] /\ (HasKey(request[x]) \/ request[x].params \notin Long)
         => fp = Fingerprint(request[x])
  BY <1>1, RecognisedAsAsked
<1> HIDE DEF fp
<1>3. /\ answer' = [answer EXCEPT ![x] = y]
      /\ heard' = [heard EXCEPT ![x] = carried[x]]
      /\ request' = request
      /\ answer \in [Exchange -> {None} \cup Exchange] /\ heard \in [Exchange -> SUBSET Mode]
  BY <1>1 DEF Answers, Inv, TypeOK
<1>4. TypeOK' /\ Carried' /\ Unasked'
  <2>1. \A f \in DOMAIN cache' : cache'[f] \in [of : Exchange, reply : Message]
    BY <1>1 DEF Inv, TypeOK
  <2> QED BY <1>1, <2>1, AnswersInv DEF TypeOK
<1>5. Answered'
  <2> SUFFICES ASSUME NEW z \in Exchange, answer'[z] # None
               PROVE  /\ answer'[answer'[z]] = answer'[z]
                      /\ Recognisable(z)' => /\ Fingerprint(request[z]) \in DOMAIN cache
                                             /\ cache[Fingerprint(request[z])].of = answer'[z]
    BY <1>1, <1>3 DEF Answered
  <2>1. CASE z = x
    <3>1. answer'[x] = y /\ answer'[y] = y /\ heard'[x] = carried[x]
      BY <1>1, <1>3
    <3>2. Recognisable(x)' => fp = Fingerprint(request[x])
      BY <1>2, <1>3, <3>1 DEF Recognisable
    <3> QED BY <1>1, <2>1, <3>1, <3>2
  <2>2. CASE z # x
    <3>1. answer'[z] = answer[z] /\ heard'[z] = heard[z] /\ answer[z] # None
      BY <1>3, <2>2
    <3>2. answer[answer[z]] = answer[z] /\ answer[z] # x /\ answer[z] \in Exchange
      BY <1>1, <1>3, <3>1 DEF Inv, Answered
    <3>3. answer'[answer'[z]] = answer'[z]
      BY <1>3, <3>1, <3>2
    <3>4. Recognisable(z)' => Recognisable(z)
      BY <1>3, <3>1 DEF Recognisable
    <3> QED BY <3>1, <3>3, <3>4 DEF Inv, Answered
  <2> QED BY <2>1, <2>2
<1>6. Computed'
  <2>1. \A f \in DOMAIN cache : cache[f].of \in Exchange /\ answer[cache[f].of] = cache[f].of
    BY DEF Inv, TypeOK, Computed
  <2>2. \A f \in DOMAIN cache : answer'[cache[f].of] = cache[f].of
    BY <1>1, <1>3, <2>1, ValuesAssumption
  <2> QED BY <1>1, <2>2 DEF Inv, Computed
<1> QED BY <1>4, <1>5, <1>6 DEF Inv

\* A computed answer keeps it: the exchange had no entry before, so its new entry
\* is its only one.
LEMMA ComputeInv ==
    ASSUME Inv, NEW x \in Exchange, Compute(x)
    PROVE  Inv'
<1> DEFINE fp == Fingerprint(message[x])
<1>1. PICK reply \in Replies(message[x]) :
         /\ Answers(x, x, reply)
         /\ cache' = Extended(cache, fp, [of |-> x, reply |-> reply])
  BY DEF Compute
<1>2. answer[x] = None /\ fp \notin DOMAIN cache /\ reply \in Message
  BY RepliesTyped DEF Compute, Inv, TypeOK
<1>3. "text" \notin carried[x] /\ (HasKey(request[x]) \/ request[x].params \notin Long)
         => fp = Fingerprint(request[x])
  BY <1>2, RecognisedAsAsked
<1> HIDE DEF fp
<1>4. /\ answer' = [answer EXCEPT ![x] = x]
      /\ heard' = [heard EXCEPT ![x] = carried[x]]
      /\ request' = request
      /\ answer \in [Exchange -> {None} \cup Exchange] /\ heard \in [Exchange -> SUBSET Mode]
  BY <1>1 DEF Answers, Inv, TypeOK
<1>5. /\ DOMAIN cache' = DOMAIN cache \cup {fp}
      /\ cache'[fp] = [of |-> x, reply |-> reply]
      /\ \A f \in DOMAIN cache : cache'[f] = cache[f]
  BY <1>1, <1>2 DEF Extended
<1>6. TypeOK' /\ Carried' /\ Unasked'
  <2>1. \A f \in DOMAIN cache' : cache'[f] \in [of : Exchange, reply : Message]
    BY <1>2, <1>5 DEF Inv, TypeOK
  <2> QED BY <1>1, <1>2, <2>1, AnswersInv DEF TypeOK
<1>7. Answered'
  <2> SUFFICES ASSUME NEW z \in Exchange, answer'[z] # None
               PROVE  /\ answer'[answer'[z]] = answer'[z]
                      /\ Recognisable(z)' => /\ Fingerprint(request[z]) \in DOMAIN cache'
                                             /\ cache'[Fingerprint(request[z])].of = answer'[z]
    BY <1>4 DEF Answered
  <2>1. CASE z = x
    <3>1. answer'[x] = x /\ heard'[x] = carried[x]
      BY <1>4
    <3>2. Recognisable(x)' => fp = Fingerprint(request[x])
      BY <1>3, <1>4, <3>1 DEF Recognisable
    <3> QED BY <1>5, <2>1, <3>1, <3>2
  <2>2. CASE z # x
    <3>1. answer'[z] = answer[z] /\ heard'[z] = heard[z] /\ answer[z] # None
      BY <1>4, <2>2
    <3>2. answer[answer[z]] = answer[z] /\ answer[z] # x /\ answer[z] \in Exchange
      BY <1>2, <1>4, <3>1 DEF Inv, Answered
    <3>3. answer'[answer'[z]] = answer'[z]
      BY <1>4, <3>1, <3>2
    <3>4. Recognisable(z)' => Recognisable(z)
      BY <1>4, <3>1 DEF Recognisable
    <3> QED BY <1>5, <3>1, <3>3, <3>4 DEF Inv, Answered
  <2> QED BY <2>1, <2>2
<1>8. Computed'
  <2>1. \A f \in DOMAIN cache :
           cache[f].of \in Exchange /\ answer[cache[f].of] = cache[f].of /\ cache[f].of # x
    BY <1>2, ValuesAssumption DEF Inv, TypeOK, Computed
  <2>2. \A f \in DOMAIN cache' : answer'[cache'[f].of] = cache'[f].of
    BY <1>4, <1>5, <2>1
  <2>3. \A f, g \in DOMAIN cache' : cache'[f].of = cache'[g].of => f = g
    BY <1>5, <2>1 DEF Inv, Computed
  <2> QED BY <2>2, <2>3 DEF Computed
<1> QED BY <1>6, <1>7, <1>8 DEF Inv

\* The invariant is inductive.
LEMMA NextInv == Inv /\ [Next]_vars => Inv'
<1> SUFFICES ASSUME Inv, [Next]_vars PROVE Inv'
  OBVIOUS
<1>1. ASSUME NEW x \in Exchange, Repeat(x) PROVE Inv'
  BY <1>1, RepeatInv
<1>2. ASSUME NEW x \in Exchange, Compute(x) PROVE Inv'
  BY <1>2, ComputeInv
<1>3. ASSUME NEW x \in Exchange, NEW mode \in Mode, Relay(x, mode) PROVE Inv'
  BY <1>3, RelayInv
<1>4. CASE UNCHANGED vars
  BY <1>4 DEF vars, Inv, TypeOK, Carried, Unasked, Answered, Computed, Recognisable
<1> QED BY <1>1, <1>2, <1>3, <1>4 DEF Next

----------------------------------------------------------------------------
\* Types: in particular a hop of either mode always yields a message.
THEOREM TypeCorrect == Spec => []TypeOK
<1>1. Inv => TypeOK BY DEF Inv
<1> QED BY <1>1, InitInv, NextInv, PTL DEF Spec

\* No mix of hops changes what a message is about or its route, and only a text hop its
\* status, into one that its parameters or its result speak of.
THEOREM CoreAlwaysSurvives == Spec => []CoreSurvives
<1>1. Inv => CoreSurvives
  BY DEF Inv, Carried, CoreSurvives, Kept, Heard
<1> QED BY <1>1, InitInv, NextInv, PTL DEF Spec

\* Structured hops lose detail only.
THEOREM ReferencesAreKept == Spec => []StructuredKeepsReferences
<1>1. Inv => StructuredKeepsReferences BY DEF Inv, Carried, Kept, StructuredKeepsReferences
<1> QED BY <1>1, InitInv, NextInv, PTL DEF Spec

\* A recognisable request never gets the reply to a different one.
THEOREM AnswersAreOwn == Spec => []AnswersOwnRequest
<1>1. Inv => AnswersOwnRequest
  <2> SUFFICES ASSUME Inv, NEW x \in Exchange, NEW y \in Exchange,
                      answer[x] = y, Recognisable(x), Recognisable(y)
               PROVE  Same(request[x], request[y])
    BY DEF AnswersOwnRequest
  <2>1. answer[x] # None /\ answer[y] = y
    BY ValuesAssumption DEF Inv, Answered
  <2>2. /\ Fingerprint(request[x]) \in DOMAIN cache /\ cache[Fingerprint(request[x])].of = y
        /\ Fingerprint(request[y]) \in DOMAIN cache /\ cache[Fingerprint(request[y])].of = y
    BY <2>1, ValuesAssumption DEF Inv, Answered
  <2>3. Fingerprint(request[x]) = Fingerprint(request[y])
    BY <2>2 DEF Inv, Computed
  <2> QED BY <2>3, SameFingerprint
<1> QED BY <1>1, InitInv, NextInv, PTL DEF Spec

\* And the same request, as long as it is recognisable, is computed once.
THEOREM RequestsComputedOnce == Spec => []ComputedOnce
<1>1. Inv => ComputedOnce
  <2> SUFFICES ASSUME Inv, NEW x \in Exchange, NEW y \in Exchange,
                      answer[x] # None, answer[y] # None, Recognisable(x), Recognisable(y),
                      Same(request[x], request[y])
               PROVE  answer[x] = answer[y]
    BY DEF ComputedOnce
  <2>1. Fingerprint(request[x]) = Fingerprint(request[y])
    BY SameFingerprint
  <2> QED BY <2>1 DEF Inv, Answered
<1> QED BY <1>1, InitInv, NextInv, PTL DEF Spec
=============================================================================
