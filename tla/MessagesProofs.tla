--------------------------- MODULE MessagesProofs ---------------------------
(***************************************************************************)
(* Proofs about the two ends of a message to the operator, for every value *)
(* of the constants: the lead's tool (NotifyTool) and the router of the    *)
(* listener's process (OperatorDM).                                        *)
(*                                                                         *)
(* NotifyTool: what a call posts is sound from the moment it is posted, a  *)
(* call has an entry in the store exactly if its request says so, and a    *)
(* call that has read an answer is over without passing through "silent".  *)
(*                                                                         *)
(* OperatorDM: the text of a message and the way it is cut are recursive   *)
(* functions, so each is unfolded one place at a time and AccShows carries *)
(* what a prefix of the text already shows. RouterInv says what each call  *)
(* of the router has read of the switch and has sent; AlarmInv what an     *)
(* alarm has recorded.                                                     *)
(***************************************************************************)
EXTENDS OperatorDM, NotifyTool, SequenceTheorems, WellFoundedInduction, TLAPS

(***************************************************************************)
(* The lead's tool                                                         *)
(***************************************************************************)
AnyPayload  == UNION {Payloads(type) : type \in ValidTypes}
SoundEvents == {e \in [type : ValidTypes, payload : AnyPayload] :
                  e.payload \in Payloads(e.type) /\ Sound(e)}

(* A call has posted a sound event once there is a request for it.         *)
PostedOK ==
  /\ event \in [ToolCalls -> SoundEvents \cup {NoEvent}]
  /\ \A c \in ToolCalls : request[c] # "none" => event[c] \in SoundEvents
  /\ \A c \in ToolCalls : tool[c] = "new" => request[c] = "none"
(* The store holds what was posted, and all requests that are stored.      *)
StoreOK ==
  /\ store \in Seq(ToolCalls \X SoundEvents)
  /\ \A n \in 1..Len(store) : /\ request[store[n][1]] = "stored"
                              /\ store[n][2] = event[store[n][1]]
  /\ \A c \in ToolCalls : request[c] = "stored" => \E n \in 1..Len(store) : store[n][1] = c
  /\ \A c \in ToolCalls : stored_id[c] # 0 => store[stored_id[c]][1] = c
(* Who has read an answer, and who has tried to alert, is done.            *)
OutcomeOK ==
  \A c \in ToolCalls :
    /\ c \in answered \cup alerts \cup unheard => tool[c] = "returned"
    /\ c \in answered => c \notin alerts
    /\ tool[c] = "returned" /\ c \notin answered => ~webhook \/ c \in alerts \cup unheard

ToolInv == ToolTypeOK /\ PostedOK /\ StoreOK /\ OutcomeOK
-----------------------------------------------------------------------------
LEMMA Types ==
  ValidTypes = {"STARTED", "MILESTONE", "COMPLETED", "NEEDS_INPUT", "ERROR"}
BY DEF ValidTypes, Fields

LEMMA NoEventIsNone == NoEvent \notin SoundEvents
BY Types DEF NoEvent, SoundEvents

LEMMA SoundIn ==
  ASSUME NEW type \in ValidTypes, NEW payload \in Payloads(type),
         Sound([type |-> type, payload |-> payload])
  PROVE  [type |-> type, payload |-> payload] \in SoundEvents
<1>. DEFINE e == [type |-> type, payload |-> payload]
<1>1. e \in [type : ValidTypes, payload : AnyPayload] /\ e.type = type /\ e.payload = payload
  BY DEF AnyPayload
<1>2. Sound(e)
  OBVIOUS
<1>. HIDE DEF e
<1>3. e \in SoundEvents
  BY <1>1, <1>2, Zenon DEF SoundEvents
<1>. QED
  BY <1>3 DEF e

(* The required fields of a type and the others do not overlap, so that    *)
(* what _normalize_payload changes was validated as optional.              *)
LEMMA NormalizedSound ==
  ASSUME NEW type \in ValidTypes, NEW payload \in Payloads(type), Validated(type, payload)
  PROVE  [type |-> type, payload |-> Normalized(type, payload)] \in SoundEvents
<1>. DEFINE new == Normalized(type, payload)
            e   == [type |-> type, payload |-> new]
<1>1. CASE type # "ERROR"
  <2>1. new = payload
    BY <1>1 DEF Normalized
  <2>. HIDE DEF new
  <2>2. /\ \A f \in Fields[type].required : payload[f] = "fine"
        /\ \A f \in Fields[type].optional : payload[f] \in Allowed(f)
    BY DEF Validated
  <2>3. \A f \in Fields[type].optional \ {"traceback"} : payload[f] \notin {"long", "wrong"}
    BY <1>1, <2>2, Types DEF Fields, Allowed
  <2>4. type = "COMPLETED" => payload["paths"] # "null" /\ payload["urls"] # "null"
    BY <2>2 DEF Fields, Allowed
  <2>5. Sound(e)
    BY <1>1, <2>1, <2>2, <2>3, <2>4 DEF Sound
  <2>. QED
    BY <2>1, <2>5, SoundIn, Zenon DEF new
<1>2. CASE type = "ERROR"
  <2>. DEFINE names == {"error", "context", "recoverable", "traceback"}
  <2>1. /\ Fields[type].required = {"error", "context"}
        /\ Fields[type].optional = {"recoverable", "traceback"}
        /\ Payloads(type) = [names -> Kinds]
    BY <1>2 DEF Fields, Payloads
  <2>2. /\ payload["error"] = "fine" /\ payload["context"] = "fine"
        /\ payload["recoverable"] \in {"missing", "null", "fine"}
        /\ payload["traceback"] \in Kinds
    BY <2>1 DEF Validated, Allowed
  <2>3. /\ new \in [names -> Kinds]
        /\ new["error"] = "fine" /\ new["context"] = "fine"
        /\ new["recoverable"] \in {"null", "fine"}
        /\ new["traceback"] # "long"
    BY <1>2, <2>1, <2>2 DEF Normalized, Kinds
  <2>. HIDE DEF new
  <2>4. Sound(e)
    BY <1>2, <2>1, <2>3 DEF Sound
  <2>. QED
    <3>1. new \in Payloads(type)
      BY <2>1, <2>3
    <3>. QED
      BY <2>4, <3>1, SoundIn, Zenon DEF new
<1>. QED
  BY <1>1, <1>2
-----------------------------------------------------------------------------
LEMMA ToolInitInv == ToolInit => ToolInv
<1>. SUFFICES ASSUME ToolInit PROVE ToolInv
  OBVIOUS
<1>1. ToolTypeOK
  BY DEF ToolInit, ToolTypeOK
<1>2. PostedOK
  BY DEF ToolInit, PostedOK
<1>3. StoreOK
  BY DEF ToolInit, StoreOK
<1>4. OutcomeOK
  BY DEF ToolInit, OutcomeOK
<1>. QED
  BY <1>1, <1>2, <1>3, <1>4 DEF ToolInv

LEMMA NotifyStep ==
  ASSUME ToolInv, ToolAssumption, NEW c \in ToolCalls, NotifyOrchestrator(c)
  PROVE  ToolInv'
<1>1. PICK type \in TypesOf[c] : \E payload \in Payloads(type) :
        IF Validated(type, payload)
        THEN /\ event' = [event EXCEPT ![c] = [type |-> type, payload |-> Normalized(type, payload)]]
             /\ request' = [request EXCEPT ![c] = IF up THEN "flying" ELSE "gone"]
             /\ tool' = [tool EXCEPT ![c] = "waiting"]
        ELSE tool' = [tool EXCEPT ![c] = "raised"] /\ UNCHANGED <<event, request>>
  BY DEF NotifyOrchestrator
<1>2. PICK payload \in Payloads(type) :
        IF Validated(type, payload)
        THEN /\ event' = [event EXCEPT ![c] = [type |-> type, payload |-> Normalized(type, payload)]]
             /\ request' = [request EXCEPT ![c] = IF up THEN "flying" ELSE "gone"]
             /\ tool' = [tool EXCEPT ![c] = "waiting"]
        ELSE tool' = [tool EXCEPT ![c] = "raised"] /\ UNCHANGED <<event, request>>
  BY <1>1
<1>3. /\ tool[c] = "new"
      /\ UNCHANGED <<up, webhook, stored_id, store, alerts, unheard, answered, outages>>
  BY DEF NotifyOrchestrator
<1>4. type \in ValidTypes
  BY DEF ToolAssumption
<1>5. \A n \in 1..Len(store) : store[n][1] # c
  BY <1>3 DEF ToolInv, PostedOK, StoreOK
<1>6. CASE Validated(type, payload)
  <2>. DEFINE e == [type |-> type, payload |-> Normalized(type, payload)]
  <2>1. e \in SoundEvents
    BY <1>4, <1>6, NormalizedSound
  <2>2. e.type \in ValidTypes
    BY <1>4
  <2>3. event' = [event EXCEPT ![c] = e]
    BY <1>2, <1>6
  <2>. HIDE DEF e
  <2>4. /\ request' = [request EXCEPT ![c] = IF up THEN "flying" ELSE "gone"]
        /\ tool' = [tool EXCEPT ![c] = "waiting"]
    BY <1>2, <1>6
  <2>5. ToolTypeOK'
    BY <1>3, <2>2, <2>3, <2>4 DEF ToolInv, ToolTypeOK, PostedOK
  <2>6. PostedOK'
    BY <2>1, <2>3, <2>4 DEF ToolInv, ToolTypeOK, PostedOK
  <2>7. StoreOK'
    BY <1>3, <1>5, <2>3, <2>4 DEF ToolInv, ToolTypeOK, StoreOK, PostedOK
  <2>8. OutcomeOK'
    BY <1>3, <2>4 DEF ToolInv, ToolTypeOK, OutcomeOK
  <2>. QED
    BY <2>5, <2>6, <2>7, <2>8 DEF ToolInv
<1>7. CASE ~Validated(type, payload)
  <2>1. tool' = [tool EXCEPT ![c] = "raised"] /\ UNCHANGED <<event, request>>
    BY <1>2, <1>7
  <2>2. ToolTypeOK'
    BY <1>3, <2>1 DEF ToolInv, ToolTypeOK
  <2>3. PostedOK'
    BY <2>1 DEF ToolInv, ToolTypeOK, PostedOK
  <2>4. StoreOK'
    BY <1>3, <2>1 DEF ToolInv, StoreOK
  <2>5. OutcomeOK'
    BY <1>3, <2>1 DEF ToolInv, ToolTypeOK, OutcomeOK
  <2>. QED
    BY <2>2, <2>3, <2>4, <2>5 DEF ToolInv
<1>. QED
  BY <1>6, <1>7

LEMMA IngestStep ==
  ASSUME ToolInv, NEW c \in ToolCalls, Ingest(c)
  PROVE  ToolInv'
<1>1. /\ request[c] = "flying"
      /\ UNCHANGED <<up, webhook, tool, event, stored_id, alerts, unheard, answered, outages>>
  BY DEF Ingest
<1>2. event[c] \in SoundEvents /\ tool[c] # "new"
  BY <1>1 DEF ToolInv, PostedOK
<1>3. \A n \in 1..Len(store) : store[n][1] # c
  BY <1>1 DEF ToolInv, StoreOK
<1>4. OutcomeOK'
  BY <1>1 DEF ToolInv, OutcomeOK
<1>5. CASE store' = Append(store, <<c, event[c]>>) /\ request' = [request EXCEPT ![c] = "stored"]
  <2>. DEFINE row == <<c, event[c]>>
  <2>1. row \in ToolCalls \X SoundEvents /\ row[1] = c /\ row[2] = event[c]
    BY <1>2
  <2>. HIDE DEF row
  <2>2. /\ store \in Seq(ToolCalls \X SoundEvents)
        /\ store' = Append(store, row)
    BY <1>5 DEF ToolInv, StoreOK, row
  <2>3. /\ store' \in Seq(ToolCalls \X SoundEvents)
        /\ Len(store') = Len(store) + 1 /\ Len(store) \in Nat
        /\ store'[Len(store) + 1] = row
        /\ \A n \in 1..Len(store) : store'[n] = store[n]
    BY <2>1, <2>2
  <2>. HIDE <2>2
  <2>4. ToolTypeOK'
    BY <1>1, <1>5, <2>3 DEF ToolInv, ToolTypeOK
  <2>5. PostedOK'
    BY <1>1, <1>2, <1>5 DEF ToolInv, ToolTypeOK, PostedOK
  <2>6. StoreOK'
    <3>1. ASSUME NEW n \in 1..Len(store')
          PROVE  request'[store'[n][1]] = "stored" /\ store'[n][2] = event'[store'[n][1]]
      <4>1. CASE n = Len(store) + 1
        BY <1>1, <1>5, <2>1, <2>3, <4>1 DEF ToolInv, ToolTypeOK
      <4>2. CASE n \in 1..Len(store)
        <5>1. store'[n] = store[n] /\ store[n][1] \in ToolCalls
          BY <2>2, <2>3, <4>2, ElementOfSeq
        <5>. QED
          BY <1>1, <1>3, <1>5, <4>2, <5>1 DEF ToolInv, StoreOK, ToolTypeOK
      <4>. QED
        BY <2>3, <4>1, <4>2
    <3>2. ASSUME NEW d \in ToolCalls, request'[d] = "stored"
          PROVE  \E n \in 1..Len(store') : store'[n][1] = d
      <4>1. CASE d = c
        BY <2>1, <2>3, <4>1
      <4>2. CASE d # c
        <5>1. request[d] = "stored"
          BY <1>5, <3>2, <4>2 DEF ToolInv, ToolTypeOK
        <5>. QED
          BY <2>3, <5>1 DEF ToolInv, StoreOK
      <4>. QED
        BY <4>1, <4>2
    <3>3. ASSUME NEW d \in ToolCalls, stored_id'[d] # 0
          PROVE  store'[stored_id'[d]][1] = d
      <4>1. stored_id[d] \in 1..Len(store) /\ stored_id'[d] = stored_id[d]
        BY <1>1, <2>3, <3>3 DEF ToolInv, ToolTypeOK
      <4>. QED
        BY <2>3, <4>1 DEF ToolInv, StoreOK
    <3>. QED
      BY <2>3, <3>1, <3>2, <3>3 DEF StoreOK
  <2>. QED
    BY <1>4, <2>4, <2>5, <2>6 DEF ToolInv
<1>6. CASE /\ request' \in {[request EXCEPT ![c] = "refused"], [request EXCEPT ![c] = "gone"]}
           /\ UNCHANGED store
  <2>0. PICK r \in {"refused", "gone"} : request' = [request EXCEPT ![c] = r]
    BY <1>6
  <2>1. ToolTypeOK'
    BY <1>1, <1>6, <2>0 DEF ToolInv, ToolTypeOK
  <2>2. PostedOK'
    BY <1>1, <1>2, <2>0 DEF ToolInv, ToolTypeOK, PostedOK
  <2>3. StoreOK'
    <3>1. store' = store /\ event' = event /\ stored_id' = stored_id
      BY <1>1, <1>6
    <3>2. \A d \in ToolCalls : request'[d] = "stored" <=> request[d] = "stored"
      BY <1>1, <2>0 DEF ToolInv, ToolTypeOK
    <3>3. \A n \in 1..Len(store) : store[n][1] \in ToolCalls
      BY DEF ToolInv, StoreOK
    <3>4. \A n \in 1..Len(store) : request'[store[n][1]] = "stored" /\ store[n][2] = event[store[n][1]]
      BY <3>2, <3>3 DEF ToolInv, StoreOK
    <3>. QED
      BY <3>1, <3>2, <3>4 DEF ToolInv, StoreOK
  <2>. QED
    BY <1>4, <2>1, <2>2, <2>3 DEF ToolInv
<1>. QED
  BY <1>5, <1>6 DEF Ingest

LEMMA AnsweredStep ==
  ASSUME ToolInv, NEW c \in ToolCalls, Answered(c)
  PROVE  ToolInv'
<1>1. /\ tool[c] = "waiting" /\ request[c] = "stored"
      /\ tool' = [tool EXCEPT ![c] = "returned"] /\ stored_id' = [stored_id EXCEPT ![c] = IdOf(c)]
      /\ answered' = answered \cup {c}
      /\ UNCHANGED <<up, webhook, event, request, store, alerts, unheard, outages>>
  BY DEF Answered
<1>2. IdOf(c) \in 1..Len(store) /\ store[IdOf(c)][1] = c
  <2>1. \E n \in DOMAIN store : store[n][1] = c
    BY <1>1 DEF ToolInv, StoreOK
  <2>2. DOMAIN store = 1..Len(store)
    BY DEF ToolInv, StoreOK
  <2>. QED
    BY <2>1, <2>2 DEF IdOf
<1>3. ToolTypeOK'
  BY <1>1, <1>2 DEF ToolInv, ToolTypeOK
<1>4. PostedOK'
  BY <1>1 DEF ToolInv, ToolTypeOK, PostedOK
<1>5. StoreOK'
  BY <1>1, <1>2 DEF ToolInv, ToolTypeOK, StoreOK
<1>6. OutcomeOK'
  BY <1>1 DEF ToolInv, ToolTypeOK, OutcomeOK
<1>. QED
  BY <1>3, <1>4, <1>5, <1>6 DEF ToolInv

LEMMA RefusedStep ==
  ASSUME ToolInv, NEW c \in ToolCalls, AnsweredWithError(c)
  PROVE  ToolInv'
<1>1. /\ tool[c] = "waiting" /\ tool' = [tool EXCEPT ![c] = "returned"]
      /\ answered' = answered \cup {c}
      /\ UNCHANGED <<up, webhook, event, request, stored_id, store, alerts, unheard, outages>>
  BY DEF AnsweredWithError, CaughtAsHTTPError
<1>2. ToolTypeOK'
  BY <1>1 DEF ToolInv, ToolTypeOK
<1>3. PostedOK'
  BY <1>1 DEF ToolInv, ToolTypeOK, PostedOK
<1>4. StoreOK'
  BY <1>1 DEF ToolInv, StoreOK
<1>5. OutcomeOK'
  BY <1>1 DEF ToolInv, ToolTypeOK, OutcomeOK
<1>. QED
  BY <1>2, <1>3, <1>4, <1>5 DEF ToolInv

LEMMA SilentSteps ==
  ASSUME ToolInv, NEW c \in ToolCalls, NotAnswered(c) \/ DegradedAlert(c)
  PROVE  ToolInv'
<1>1. /\ tool[c] # "new"
      /\ UNCHANGED <<up, webhook, event, request, stored_id, store, answered, outages>>
  BY DEF NotAnswered, DegradedAlert
<1>2. /\ ToolTypeOK' /\ PostedOK'
  <2>1. tool' \in {[tool EXCEPT ![c] = "silent"], [tool EXCEPT ![c] = "returned"]}
    BY DEF NotAnswered, DegradedAlert
  <2>2. alerts' \cup unheard' \subseteq ToolCalls
    BY DEF NotAnswered, DegradedAlert, ToolInv, ToolTypeOK
  <2>. QED
    BY <1>1, <2>1, <2>2 DEF ToolInv, ToolTypeOK, PostedOK
<1>3. StoreOK'
  BY <1>1 DEF ToolInv, StoreOK
<1>4. OutcomeOK'
  <2>1. CASE NotAnswered(c)
    BY <2>1 DEF NotAnswered, ToolInv, ToolTypeOK, OutcomeOK
  <2>2. CASE DegradedAlert(c)
    <3>1. tool[c] = "silent" /\ tool' = [tool EXCEPT ![c] = "returned"]
      BY <2>2 DEF DegradedAlert
    <3>2. c \notin answered
      BY <3>1 DEF ToolInv, OutcomeOK
    <3>3. /\ alerts \subseteq alerts' /\ alerts' \subseteq alerts \cup {c}
          /\ unheard \subseteq unheard' /\ unheard' \subseteq unheard \cup {c}
          /\ webhook => c \in alerts' \cup unheard'
      BY <2>2 DEF DegradedAlert
    <3>. QED
      BY <1>1, <3>1, <3>2, <3>3 DEF ToolInv, ToolTypeOK, OutcomeOK
  <2>. QED
    BY <2>1, <2>2
<1>. QED
  BY <1>2, <1>3, <1>4 DEF ToolInv

LEMMA OutageStep ==
  ASSUME ToolInv, ListenerDown \/ ListenerUp \/ UNCHANGED toolVars
  PROVE  ToolInv'
<1>1. /\ UNCHANGED <<webhook, tool, event, stored_id, store, alerts, unheard, answered>>
      /\ up' \in BOOLEAN
  BY DEF ListenerDown, ListenerUp, toolVars, ToolInv, ToolTypeOK
<1>2. /\ request' \in [ToolCalls -> {"none", "flying", "refused", "stored", "gone"}]
      /\ \A c \in ToolCalls : request'[c] = request[c] \/ (request[c] = "flying" /\ request'[c] = "gone")
  <2>1. CASE ListenerDown
    BY <2>1 DEF ListenerDown, ToolInv, ToolTypeOK
  <2>2. CASE ListenerUp \/ UNCHANGED toolVars
    BY <2>2 DEF ListenerUp, toolVars, ToolInv, ToolTypeOK
  <2>. QED
    BY <2>1, <2>2
<1>3. ToolTypeOK'
  BY <1>1, <1>2 DEF ToolInv, ToolTypeOK
<1>4. PostedOK'
  BY <1>1, <1>2 DEF ToolInv, PostedOK
<1>5. StoreOK'
  <2>1. \A n \in 1..Len(store) : store[n][1] \in ToolCalls
    BY ElementOfSeq DEF ToolInv, StoreOK
  <2>. QED
    BY <1>1, <1>2, <2>1 DEF ToolInv, StoreOK
<1>6. OutcomeOK'
  BY <1>1 DEF ToolInv, OutcomeOK
<1>. QED
  BY <1>3, <1>4, <1>5, <1>6 DEF ToolInv

LEMMA ToolNextInv == ToolInv /\ [ToolNext]_toolVars => ToolInv'
BY NotifyStep, IngestStep, AnsweredStep, RefusedStep, SilentSteps, OutageStep, ToolAssumption, Zenon
   DEF ToolNext

(* The types of the tool's variables.                                      *)
THEOREM ToolTyped == ToolSpec => []ToolTypeOK
<1>1. ToolInv => ToolTypeOK
  BY DEF ToolInv
<1>. QED
  BY <1>1, ToolInitInv, ToolNextInv, PTL DEF ToolSpec

(* notify_orchestrator alerts the operator only if it has read no answer   *)
(* of the listener, and it does not return in silence without one, if the  *)
(* host of the lead has a webhook.                                         *)
THEOREM AlertsOnlyIfUnanswered == ToolSpec => []DegradedIfUnanswered
<1>1. ToolInv => DegradedIfUnanswered
  <2>. SUFFICES ASSUME ToolInv PROVE DegradedIfUnanswered
    OBVIOUS
  <2>1. alerts \subseteq ToolCalls
    BY DEF ToolInv, ToolTypeOK
  <2>. QED
    BY <2>1 DEF ToolInv, OutcomeOK, DegradedIfUnanswered
<1>. QED
  BY <1>1, ToolInitInv, ToolNextInv, PTL DEF ToolSpec

(* What the validators let through and _normalize_payload has changed is   *)
(* sound, and so is all of the listener's store, whichever calls are       *)
(* answered, lost or late; an id that a call returns is that of its event. *)
THEOREM StoredEventsAreSound == ToolSpec => []StoredIsSound
<1>1. ToolInv => StoredIsSound
  <2>. SUFFICES ASSUME ToolInv PROVE StoredIsSound
    OBVIOUS
  <2>1. DOMAIN store = 1..Len(store)
    BY DEF ToolInv, StoreOK
  <2>2. ASSUME NEW n \in 1..Len(store) PROVE Sound(store[n][2])
    <3>1. store[n] \in ToolCalls \X SoundEvents
      BY ElementOfSeq DEF ToolInv, StoreOK
    <3>. QED
      BY <3>1 DEF SoundEvents
  <2>3. ASSUME NEW c \in ToolCalls, stored_id[c] # 0
        PROVE  store[stored_id[c]][1] = c /\ store[stored_id[c]][2] = event[c]
    <3>1. stored_id[c] \in 1..Len(store)
      BY <2>3 DEF ToolInv, ToolTypeOK, StoreOK
    <3>. QED
      BY <2>3, <3>1 DEF ToolInv, StoreOK
  <2>. QED
    BY <2>1, <2>2, <2>3 DEF StoredIsSound
<1>. QED
  BY <1>1, ToolInitInv, ToolNextInv, PTL DEF ToolSpec
(***************************************************************************)
(* The router: a recursive function over the lines of a text, and what     *)
(* holds of its values from line to line.                                  *)
(***************************************************************************)
LEMMA UpTo ==
  ASSUME NEW N \in Nat, NEW S, 0 \in S, \A n \in 0..N : n < N /\ n \in S => n + 1 \in S
  PROVE  0..N \subseteq S
<1>. DEFINE D == {n \in 0..N : n \notin S}
<1>. SUFFICES ASSUME D # {} PROVE FALSE
  OBVIOUS
<1>1. D \in SUBSET Nat
  OBVIOUS
<1>2. \E x \in D : \A y \in D : ~ (<<y, x>> \in OpToRel(<, Nat))
  <2>. HIDE DEF D
  <2>. QED
    BY <1>1, NatLessThanWellFounded, WFMin
<1>2a. PICK x \in D : \A y \in D : ~ (<<y, x>> \in OpToRel(<, Nat))
  BY <1>2
<1>3. x # 0 /\ x - 1 \in 0..N /\ x - 1 < N /\ (x - 1) + 1 = x
  OBVIOUS
<1>4. x - 1 \notin D
  <2>1. <<x - 1, x>> \in Nat \X Nat /\ x - 1 < x
    BY <1>1, <1>3
  <2>. QED
    BY <1>2a, <2>1, Zenon DEF OpToRel
<1>. QED
  BY <1>3, <1>4

Iterates(f, N, start, step) == f[0] = start /\ \A n \in 1..N : f[n] = step[<<n, f[n - 1]>>]
LEMMA StepByStep ==
  ASSUME NEW N \in Nat, NEW S, NEW start \in S, NEW step \in [(1..N) \X S -> S]
  PROVE  \E f \in [0..N -> S] : Iterates(f, N, start, step)
<1>. DEFINE Good(m, f) == f[0] = start /\ \A n \in 1..m : f[n] = step[<<n, f[n - 1]>>]
            T == {m \in 0..N : \E f \in [0..m -> S] : Good(m, f)}
<1>1. 0 \in T
  <2>1. PICK f \in [0..0 -> S] : f[0] = start
    <3>1. [k \in 0..0 |-> start] \in [0..0 -> S] /\ [k \in 0..0 |-> start][0] = start
      OBVIOUS
    <3>. QED
      BY <3>1
  <2>2. Good(0, f)
    BY <2>1
  <2>. HIDE DEF Good
  <2>. QED
    BY <2>2
<1>2. ASSUME NEW n \in 0..N, n < N, n \in T PROVE n + 1 \in T
  <2>1. PICK f \in [0..n -> S] : Good(n, f)
    BY <1>2
  <2>. DEFINE new == step[<<n + 1, f[n]>>]
              h   == [k \in 0..(n + 1) |-> IF k = n + 1 THEN new ELSE f[k]]
  <2>2. new \in S
    BY <1>2
  <2>3. h \in [0..(n + 1) -> S]
    BY <2>2
  <2>4. /\ \A k \in 0..n : h[k] = f[k]
        /\ h[n + 1] = new
    OBVIOUS
  <2>5. h[0] = start
    BY <2>1, <2>4
  <2>6. ASSUME NEW k \in 1..(n + 1) PROVE h[k] = step[<<k, h[k - 1]>>]
    <3>. HIDE DEF h
    <3>1. CASE k = n + 1
      <4>1. k - 1 = n /\ h[n] = f[n]
        BY <2>4, <3>1
      <4>. QED
        BY <2>4, <3>1, <4>1
    <3>2. CASE k \in 1..n
      <4>1. k - 1 \in 0..n /\ k \in 0..n
        BY <3>2
      <4>. QED
        BY <2>1, <2>4, <3>2, <4>1
    <3>. QED
      BY <3>1, <3>2
  <2>. HIDE DEF h
  <2>. QED
    BY <1>2, <2>3, <2>5, <2>6
<1>. HIDE DEF T
<1>3. 0..N \subseteq T
  BY <1>1, <1>2, UpTo
<1>4. N \in T
  BY <1>3
<1>. QED
  BY <1>4 DEF T, Iterates
-----------------------------------------------------------------------------
(* Texts, and the chunks of one.                                           *)
Char  == Nat \X Nat
Text  == Seq(Char)
Texts == Seq(Text)
Accs  == [chunks : Texts, cur : Text]
EmptyAcc == [chunks |-> <<>>, cur |-> <<>>]

LEMMA Joined ==
  ASSUME NEW a \in Text, NEW b \in Text
  PROVE  /\ a \o <<NL>> \o b \in Text
         /\ Len(a \o <<NL>> \o b) = Len(a) + 1 + Len(b)
         /\ \A k \in 1..Len(a) : (a \o <<NL>> \o b)[k] = a[k]
         /\ (a \o <<NL>> \o b)[Len(a) + 1] = NL
         /\ \A k \in 1..Len(b) : (a \o <<NL>> \o b)[Len(a) + 1 + k] = b[k]
<1>. DEFINE an == a \o <<NL>>
            j  == an \o b
<1>1. <<NL>> \in Text /\ Len(<<NL>>) = 1 /\ <<NL>>[1] = NL
  BY DEF Text, Char, NL
<1>2. Len(a) \in Nat /\ Len(b) \in Nat
  BY DEF Text
<1>3. /\ an \in Text /\ Len(an) = Len(a) + 1
      /\ \A k \in 1..Len(a) + 1 : an[k] = IF k <= Len(a) THEN a[k] ELSE <<NL>>[k - Len(a)]
  BY <1>1, ConcatProperties DEF Text
<1>. HIDE DEF an
<1>3a. an \in Seq(Char) /\ b \in Seq(Char)
  BY <1>3 DEF Text
<1>4. /\ j \in Text /\ Len(j) = Len(an) + Len(b)
      /\ \A k \in 1..Len(an) + Len(b) : j[k] = IF k <= Len(an) THEN an[k] ELSE b[k - Len(an)]
  BY <1>3a, ConcatProperties DEF Text
<1>. HIDE DEF j
<1>5. \A k \in 1..Len(a) : j[k] = a[k]
  BY <1>2, <1>3, <1>4
<1>6. j[Len(a) + 1] = NL
  BY <1>1, <1>2, <1>3, <1>4
<1>7. \A k \in 1..Len(b) : j[Len(a) + 1 + k] = b[k]
  BY <1>2, <1>3, <1>4
<1>. QED
  BY <1>3, <1>4, <1>5, <1>6, <1>7 DEF an, j

(* TextOf and Packed have the values their definitions say, line by line.  *)
LEMMA TextValues ==
  ASSUME NEW lines \in Texts
  PROVE  \E text \in [0..Len(lines) -> Text] :
           /\ text[0] = <<>>
           /\ \A n \in 1..Len(lines) :
                text[n] = IF n = 1 THEN lines[1] ELSE text[n - 1] \o <<NL>> \o lines[n]
           /\ TextOf(lines) = text[Len(lines)]
<1>. DEFINE N == Len(lines)
            text[n \in 0..N] ==
              IF n = 0 THEN <<>> ELSE IF n = 1 THEN lines[1] ELSE text[n - 1] \o <<NL>> \o lines[n]
            step == [x \in (1..N) \X Text |->
                       IF x[1] = 1 THEN lines[1] ELSE x[2] \o <<NL>> \o lines[x[1]]]
<1>1. TextOf(lines) = text[N]
  BY DEF TextOf
<1>2. N \in Nat /\ <<>> \in Text /\ \A n \in 1..N : lines[n] \in Text
  BY DEF Texts, Text
<1>3. step \in [(1..N) \X Text -> Text]
  BY <1>2, Joined
<1>4. \E f \in [0..N -> Text] : Iterates(f, N, <<>>, step)
  <2>. HIDE DEF step, N
  <2>. QED
    BY <1>2, <1>3, StepByStep, Zenon
<1>5. PICK f \in [0..N -> Text] : f[0] = <<>> /\ \A n \in 1..N : f[n] = step[<<n, f[n - 1]>>]
  BY <1>4 DEF Iterates
<1>6. \A n \in 1..N : f[n] = IF n = 1 THEN lines[1] ELSE f[n - 1] \o <<NL>> \o lines[n]
  BY <1>2, <1>5
<1>7. f = [n \in 0..N |->
        IF n = 0 THEN <<>> ELSE IF n = 1 THEN lines[1] ELSE f[n - 1] \o <<NL>> \o lines[n]]
  <2>. DEFINE e(n) == IF n = 0 THEN <<>> ELSE IF n = 1 THEN lines[1] ELSE f[n - 1] \o <<NL>> \o lines[n]
  <2>. HIDE DEF N
  <2>1. f[0] = <<>> /\ \A n \in 0..N : n = 0 \/ n \in 1..N
    BY <1>2, <1>5
  <2>1a. \A n \in 0..N : f[n] = e(n)
    BY <1>6, <2>1
  <2>. HIDE DEF e
  <2>2. f = [n \in 0..N |-> e(n)]
    BY <1>5, <2>1a
  <2>. QED
    BY <2>2 DEF e, N
<1>8. text = [n \in 0..N |->
        IF n = 0 THEN <<>> ELSE IF n = 1 THEN lines[1] ELSE text[n - 1] \o <<NL>> \o lines[n]]
  BY <1>7
<1>. DEFINE Values(g) == g[0] = <<>> /\ \A n \in 1..N :
              g[n] = IF n = 1 THEN lines[1] ELSE g[n - 1] \o <<NL>> \o lines[n]
<1>. HIDE DEF text, N
<1>9. Values(text)
  BY <1>2, <1>8
<1>10. 0..N \subseteq {n \in 0..N : text[n] \in Text}
  <2>. DEFINE S == {n \in 0..N : text[n] \in Text}
  <2>1. 0 \in S
    BY <1>2, <1>9
  <2>2. ASSUME NEW n \in 0..N, n < N, n \in S PROVE n + 1 \in S
    <3>1. n + 1 \in 1..N /\ (n + 1) - 1 = n
      BY <1>2, <2>2
    <3>2. text[n + 1] = IF n + 1 = 1 THEN lines[1] ELSE text[n] \o <<NL>> \o lines[n + 1]
      BY <1>9, <3>1
    <3>. QED
      <4>1. text[n] \in Text /\ lines[n + 1] \in Text /\ lines[1] \in Text
        BY <1>2, <2>2, <3>1
      <4>2. text[n] \o <<NL>> \o lines[n + 1] \in Text
        BY <4>1, Joined
      <4>3. text[n + 1] \in Text
        BY <3>2, <4>1, <4>2
      <4>. QED
        BY <3>1, <4>3
  <2>. HIDE DEF S
  <2>3. 0..N \subseteq S
    BY <1>2, <2>1, <2>2, UpTo
  <2>. QED
    BY <2>3 DEF S
<1>11. text \in [0..N -> Text]
  BY <1>8, <1>10
<1>. QED
  BY <1>1, <1>9, <1>11 DEF N
-----------------------------------------------------------------------------
(* A text that shows the characters of C, newlines left out, in order, and *)
(* a sequence of chunks that does.                                         *)
Below(A, B) == \A a \in A, b \in B : Before(a, b)
Shows(c, C) ==
  /\ c \in Text
  /\ \A k \in 1..Len(c) : c[k] # NL => c[k] \in C
  /\ \A x \in C : x # NL /\ \E k \in 1..Len(c) : c[k] = x
  /\ \A k, m \in 1..Len(c) : k < m /\ c[k] # NL /\ c[m] # NL => Before(c[k], c[m])
AllShow(s, C) ==
  /\ s \in Texts
  /\ \A j \in 1..Len(s) : Len(s[j]) <= Limit
  /\ \A j \in 1..Len(s) : \A k \in 1..Len(s[j]) : s[j][k] # NL => s[j][k] \in C
  /\ \A x \in C : x # NL /\ \E j \in 1..Len(s) : \E k \in 1..Len(s[j]) : s[j][k] = x
  /\ \A i, j \in 1..Len(s) : \A k \in 1..Len(s[i]), m \in 1..Len(s[j]) :
       Before(<<i, k>>, <<j, m>>) /\ s[i][k] # NL /\ s[j][m] # NL => Before(s[i][k], s[j][m])

LEMMA JoinShows ==
  ASSUME NEW a, NEW b, NEW A, NEW B, Shows(a, A), Shows(b, B), Below(A, B)
  PROVE  Shows(a \o <<NL>> \o b, A \cup B)
<1>. DEFINE j == a \o <<NL>> \o b
<1>1. a \in Text /\ b \in Text /\ Len(a) \in Nat /\ Len(b) \in Nat
  BY DEF Shows, Text
<1>2. /\ j \in Text /\ Len(j) = Len(a) + 1 + Len(b)
      /\ \A k \in 1..Len(a) : j[k] = a[k]
      /\ j[Len(a) + 1] = NL
      /\ \A k \in 1..Len(b) : j[Len(a) + 1 + k] = b[k]
  BY <1>1, Joined
<1>. HIDE DEF j
<1>3. \A k \in 1..Len(j) : j[k] # NL =>
        \/ k \in 1..Len(a) /\ j[k] = a[k]
        \/ k - Len(a) - 1 \in 1..Len(b) /\ j[k] = b[k - Len(a) - 1]
  BY <1>1, <1>2
<1>4. \A k \in 1..Len(j) : j[k] # NL => j[k] \in A \cup B
  BY <1>3 DEF Shows
<1>5. ASSUME NEW x \in A \cup B PROVE x # NL /\ \E k \in 1..Len(j) : j[k] = x
  <2>1. CASE x \in A
    BY <1>1, <1>2, <2>1 DEF Shows
  <2>2. CASE x \in B
    <3>1. x # NL /\ \E k \in 1..Len(b) : b[k] = x
      BY <2>2 DEF Shows
    <3>2. PICK k \in 1..Len(b) : b[k] = x
      BY <3>1
    <3>. QED
      BY <1>1, <1>2, <3>1, <3>2
  <2>. QED
    BY <2>1, <2>2
<1>6. ASSUME NEW k \in 1..Len(j), NEW m \in 1..Len(j), k < m, j[k] # NL, j[m] # NL
      PROVE  Before(j[k], j[m])
  <2>1. CASE m \in 1..Len(a)
    BY <1>1, <1>3, <1>6, <2>1 DEF Shows
  <2>2. CASE k \in 1..Len(a) /\ m - Len(a) - 1 \in 1..Len(b)
    <3>1. PICK q \in 1..Len(b) : q = m - Len(a) - 1
      BY <2>2
    <3>2. j[k] = a[k] /\ j[m] = b[q]
      BY <1>1, <1>3, <1>6, <2>2, <3>1
    <3>3. j[k] \in A /\ j[m] \in B
      BY <1>6, <2>2, <3>2 DEF Shows
    <3>. QED
      BY <3>3 DEF Below
  <2>3. CASE k - Len(a) - 1 \in 1..Len(b) /\ m - Len(a) - 1 \in 1..Len(b)
    <3>1. j[k] = b[k - Len(a) - 1] /\ j[m] = b[m - Len(a) - 1]
      BY <1>1, <1>3, <1>6, <2>3
    <3>. QED
      BY <1>1, <1>6, <2>3, <3>1 DEF Shows
  <2>. QED
    BY <1>1, <1>3, <1>6, <2>1, <2>2, <2>3
<1>7. Shows(j, A \cup B)
  BY <1>2, <1>4, <1>5, <1>6 DEF Shows
<1>. QED
  BY <1>7 DEF j

LEMMA OneShows ==
  ASSUME NEW c, NEW C, Shows(c, C), Len(c) <= Limit
  PROVE  AllShow(<<c>>, C)
<1>. DEFINE s == <<c>>
<1>1. c \in Text /\ s \in Texts /\ Len(s) = 1 /\ s[1] = c
  BY DEF Shows, Texts
<1>2. Len(c) \in Nat
  BY <1>1 DEF Text
<1>. HIDE DEF s
<1>3. \A j \in 1..Len(s) : j = 1 /\ s[j] = c
  BY <1>1
<1>4. \A k, m \in 1..Len(c) : Before(<<1, k>>, <<1, m>>) => k < m
  BY <1>2 DEF Before
<1>5. ASSUME NEW i \in 1..Len(s), NEW j \in 1..Len(s), NEW k \in 1..Len(s[i]), NEW m \in 1..Len(s[j]),
             Before(<<i, k>>, <<j, m>>), s[i][k] # NL, s[j][m] # NL
      PROVE  Before(s[i][k], s[j][m])
  <2>1. i = 1 /\ j = 1 /\ s[i] = c /\ s[j] = c
    BY <1>3
  <2>2. k < m
    BY <1>4, <1>5, <2>1
  <2>. QED
    BY <1>5, <2>1, <2>2 DEF Shows
<1>6. \A x \in C : x # NL /\ \E j \in 1..Len(s) : \E k \in 1..Len(s[j]) : s[j][k] = x
  BY <1>1 DEF Shows
<1>7. AllShow(s, C)
  BY <1>1, <1>3, <1>5, <1>6 DEF AllShow, Shows
<1>. QED
  BY <1>7 DEF s

LEMMA ConcatShows ==
  ASSUME NEW s, NEW t, NEW A, NEW B, AllShow(s, A), AllShow(t, B), Below(A, B)
  PROVE  AllShow(s \o t, A \cup B)
<1>. DEFINE u == s \o t
<1>1. s \in Texts /\ t \in Texts /\ Len(s) \in Nat /\ Len(t) \in Nat
  BY DEF AllShow, Texts
<1>2. /\ u \in Texts /\ Len(u) = Len(s) + Len(t)
      /\ \A j \in 1..Len(s) + Len(t) : u[j] = IF j <= Len(s) THEN s[j] ELSE t[j - Len(s)]
  BY <1>1, ConcatProperties DEF Texts
<1>. HIDE DEF u
<1>3. \A j \in 1..Len(u) : \/ j \in 1..Len(s) /\ u[j] = s[j]
                           \/ j - Len(s) \in 1..Len(t) /\ u[j] = t[j - Len(s)]
  BY <1>1, <1>2
<1>4. \A j \in 1..Len(u) : Len(u[j]) <= Limit
  BY <1>3 DEF AllShow
<1>5. ASSUME NEW j \in 1..Len(u), NEW k \in 1..Len(u[j]), u[j][k] # NL
      PROVE  /\ j \in 1..Len(s) => u[j][k] \in A
             /\ j - Len(s) \in 1..Len(t) => u[j][k] \in B
  <2>1. CASE j \in 1..Len(s)
    <3>1. u[j] = s[j] /\ j - Len(s) \notin 1..Len(t)
      BY <1>1, <1>2, <2>1
    <3>. QED
      BY <1>5, <2>1, <3>1 DEF AllShow
  <2>2. CASE j - Len(s) \in 1..Len(t)
    <3>1. PICK q \in 1..Len(t) : q = j - Len(s)
      BY <2>2
    <3>2. u[j] = t[q] /\ j \notin 1..Len(s)
      BY <1>1, <1>2, <3>1
    <3>. QED
      BY <1>5, <3>2 DEF AllShow
  <2>. QED
    BY <2>1, <2>2
<1>6. ASSUME NEW x \in A \cup B
      PROVE  x # NL /\ \E j \in 1..Len(u) : \E k \in 1..Len(u[j]) : u[j][k] = x
  <2>1. CASE x \in A
    <3>1. x # NL /\ \E j \in 1..Len(s) : \E k \in 1..Len(s[j]) : s[j][k] = x
      BY <2>1 DEF AllShow
    <3>2. PICK j \in 1..Len(s) : \E k \in 1..Len(s[j]) : s[j][k] = x
      BY <3>1
    <3>3. j \in 1..Len(u) /\ u[j] = s[j]
      BY <1>1, <1>2
    <3>. QED
      BY <3>1, <3>2, <3>3
  <2>2. CASE x \in B
    <3>1. x # NL /\ \E j \in 1..Len(t) : \E k \in 1..Len(t[j]) : t[j][k] = x
      BY <2>2 DEF AllShow
    <3>2. PICK j \in 1..Len(t) : \E k \in 1..Len(t[j]) : t[j][k] = x
      BY <3>1
    <3>3. Len(s) + j \in 1..Len(u) /\ u[Len(s) + j] = t[j]
      BY <1>1, <1>2
    <3>. QED
      BY <3>1, <3>2, <3>3
  <2>. QED
    BY <2>1, <2>2
<1>7. ASSUME NEW i \in 1..Len(u), NEW j \in 1..Len(u), NEW k \in 1..Len(u[i]), NEW m \in 1..Len(u[j]),
             Before(<<i, k>>, <<j, m>>), u[i][k] # NL, u[j][m] # NL
      PROVE  Before(u[i][k], u[j][m])
  <2>0. i <= j /\ (i < j \/ (i = j /\ k < m))
    BY <1>7 DEF Before
  <2>1. CASE j \in 1..Len(s)
    <3>1. i \in 1..Len(s) /\ u[i] = s[i] /\ u[j] = s[j]
      BY <1>1, <1>2, <2>0, <2>1
    <3>. QED
      BY <1>7, <2>1, <3>1 DEF AllShow
  <2>2. CASE i \in 1..Len(s) /\ j - Len(s) \in 1..Len(t)
    <3>1. u[i][k] \in A /\ u[j][m] \in B
      BY <1>5, <1>7, <2>2
    <3>. QED
      BY <3>1 DEF Below
  <2>3. CASE i - Len(s) \in 1..Len(t) /\ j - Len(s) \in 1..Len(t)
    <3>1. PICK p \in 1..Len(t) : p = i - Len(s)
      BY <2>3
    <3>2. PICK q \in 1..Len(t) : q = j - Len(s)
      BY <2>3
    <3>3. u[i] = t[p] /\ u[j] = t[q]
      BY <1>1, <1>2, <3>1, <3>2
    <3>4. Before(<<p, k>>, <<q, m>>)
      BY <1>1, <2>0, <3>1, <3>2 DEF Before
    <3>. QED
      BY <1>7, <3>3, <3>4 DEF AllShow
  <2>. QED
    BY <1>1, <1>2, <2>0, <2>1, <2>2, <2>3
<1>8. \A j \in 1..Len(u) : \A k \in 1..Len(u[j]) : u[j][k] # NL => u[j][k] \in A \cup B
  BY <1>3, <1>5
<1>9. AllShow(u, A \cup B)
  BY <1>2, <1>4, <1>6, <1>7, <1>8 DEF AllShow
<1>. QED
  BY <1>9 DEF u
(* The places from--to of line i, and the chunks one line is cut into.     *)
Span(i, from, to) == {<<i, k>> : k \in from..to}

LEMMA SliceShows ==
  ASSUME NEW i \in Nat, NEW n \in Nat, NEW from \in Nat, NEW to \in Nat, 1 <= i, 1 <= from, to <= n
  PROVE  /\ Shows(SubSeq(Line(i, n), from, to), Span(i, from, to))
         /\ Len(SubSeq(Line(i, n), from, to)) = IF from <= to THEN to - from + 1 ELSE 0
<1>. DEFINE line == Line(i, n)
            c    == SubSeq(line, from, to)
<1>1. \A k \in from..to : line[k] = <<i, k>> /\ line[k] \in Char
  BY DEF Line, Char
<1>. HIDE DEF line
<1>2. /\ c \in Text
      /\ Len(c) = IF from <= to THEN to - from + 1 ELSE 0
      /\ \A k \in 1..to - from + 1 : c[k] = line[from + k - 1]
  BY <1>1, SubSeqProperties DEF Text
<1>. HIDE DEF c
<1>3. \A k \in 1..Len(c) : from + k - 1 \in from..to /\ c[k] = <<i, from + k - 1>>
  BY <1>1, <1>2
<1>4. \A k \in from..to : k - from + 1 \in 1..Len(c) /\ c[k - from + 1] = <<i, k>>
  BY <1>1, <1>2
<1>5. \A k \in 1..Len(c) : c[k] \in Span(i, from, to)
  BY <1>3 DEF Span
<1>6. \A x \in Span(i, from, to) : x # NL /\ \E k \in 1..Len(c) : c[k] = x
  <2>1. \A k : <<i, k>> # NL
    <3>1. i # 0
      OBVIOUS
    <3>. QED
      BY <3>1 DEF NL
  <2>2. ASSUME NEW k \in from..to PROVE \E h \in 1..Len(c) : c[h] = <<i, k>>
    <3>1. PICK h \in 1..Len(c) : h = k - from + 1
      BY <1>4
    <3>. QED
      BY <1>4, <3>1
  <2>. QED
    BY <2>1, <2>2 DEF Span
<1>7. \A k, m \in 1..Len(c) : k < m => Before(c[k], c[m])
  BY <1>2, <1>3 DEF Before
<1>8. Shows(c, Span(i, from, to))
  BY <1>2, <1>5, <1>6, <1>7 DEF Shows
<1>. QED
  BY <1>2, <1>8 DEF c, line

Upto(m) == m * Limit
Cut(i, n, k)  == SubSeq(Line(i, n), Upto(k - 1) + 1, Upto(k))
Cuts(i, n, m) == [k \in 1..m |-> Cut(i, n, k)]

LEMMA UptoIs ==
  /\ Limit \in Nat /\ 1 <= Limit /\ Upto(0) = 0
  /\ \A m \in Nat : Upto(m) \in Nat /\ Upto(m + 1) = Upto(m) + Limit
  /\ \A j, m \in Nat : j <= m => Upto(j) <= Upto(m)
<1>1. Limit \in Nat /\ 1 <= Limit
  BY DmAssumption
<1>2. ASSUME NEW j \in Nat, NEW m \in Nat, j <= m PROVE Upto(j) <= Upto(m)
  <2>1. PICK d \in Nat : m = j + d
    <3>1. m - j \in Nat /\ m = j + (m - j)
      BY <1>2
    <3>. QED
      BY <3>1
  <2>2. d * Limit \in Nat /\ j * Limit \in Nat /\ m * Limit = j * Limit + d * Limit
    BY <1>1, <2>1
  <2>3. \A x, y, z \in Nat : x = y + z => y <= x
    OBVIOUS
  <2>4. m * Limit \in Nat
    BY <1>1
  <2>. QED
    BY <2>2, <2>3, <2>4 DEF Upto
<1>3. \A m \in Nat : Upto(m) \in Nat /\ Upto(m + 1) = Upto(m) + Limit
  BY <1>1 DEF Upto
<1>. QED
  BY <1>1, <1>2, <1>3 DEF Upto

LEMMA SpanOrder ==
  ASSUME NEW i \in Nat, NEW a \in Nat, NEW b \in Nat, NEW next \in Nat, NEW c \in Nat,
         a <= next, next = b + 1, b <= c
  PROVE  /\ Below(Span(i, a, b), Span(i, next, c))
         /\ Span(i, a, b) \cup Span(i, next, c) = Span(i, a, c)
<1>1. Below(Span(i, a, b), Span(i, next, c))
  BY DEF Below, Before, Span
<1>2. a..c = (a..b) \cup (next..c)
  OBVIOUS
<1>. QED
  BY <1>1, <1>2 DEF Span

LEMMA NothingShows == AllShow(<<>>, {}) /\ Shows(<<>>, {})
BY DEF AllShow, Shows, Texts, Text

LEMMA NextCut ==
  ASSUME NEW i \in Nat, NEW n \in Nat, NEW j \in Nat, 1 <= i, Upto(j + 1) <= n,
         AllShow(Cuts(i, n, j), Span(i, 1, Upto(j)))
  PROVE  AllShow(Cuts(i, n, j + 1), Span(i, 1, Upto(j + 1)))
<1>1. PICK a \in Nat : a = Upto(j)
  BY UptoIs
<1>2. PICK from \in Nat : from = a + 1
  BY <1>1
<1>3. PICK to \in Nat : to = Upto(j + 1)
  <2>1. j + 1 \in Nat
    OBVIOUS
  <2>. QED
    BY <2>1, UptoIs
<1>4. Limit \in Nat /\ 1 <= Limit /\ to = a + Limit
  BY <1>1, <1>3, UptoIs
<1>5. PICK c : c = Cut(i, n, j + 1)
  OBVIOUS
<1>6. c = SubSeq(Line(i, n), from, to)
  <2>1. (j + 1) - 1 = j
    OBVIOUS
  <2>. QED
    BY <1>1, <1>2, <1>3, <1>5, <2>1 DEF Cut
<1>7. /\ Shows(SubSeq(Line(i, n), from, to), Span(i, from, to))
      /\ Len(SubSeq(Line(i, n), from, to)) = IF from <= to THEN to - from + 1 ELSE 0
  <2>1. 1 <= from /\ to <= n
    BY <1>2, <1>3
  <2>. QED
    BY <2>1, SliceShows
<1>8. AllShow(<<c>>, Span(i, from, to))
  <2>1. Shows(c, Span(i, from, to)) /\ Len(c) <= Limit
    BY <1>2, <1>4, <1>6, <1>7
  <2>. QED
    BY <2>1, OneShows
<1>9. /\ Below(Span(i, 1, a), Span(i, from, to))
      /\ Span(i, 1, a) \cup Span(i, from, to) = Span(i, 1, to)
  <2>1. 1 <= from /\ from = a + 1 /\ a <= to /\ 1 \in Nat
    BY <1>2, <1>4
  <2>. QED
    BY <2>1, SpanOrder
<1>10. AllShow(Cuts(i, n, j), Span(i, 1, a))
  BY <1>1
<1>11. AllShow(Cuts(i, n, j) \o <<c>>, Span(i, 1, a) \cup Span(i, from, to))
  BY <1>8, <1>9, <1>10, ConcatShows
<1>12. Cuts(i, n, j + 1) = Cuts(i, n, j) \o <<c>>
  <2>. DEFINE u == Cuts(i, n, j) \o <<c>>
              v == Cuts(i, n, j + 1)
  <2>1. Cuts(i, n, j) \in Texts /\ Len(Cuts(i, n, j)) = j
    BY <1>10 DEF AllShow, Cuts
  <2>2. <<c>> \in Texts /\ Len(<<c>>) = 1 /\ <<c>>[1] = c
    BY <1>8 DEF AllShow
  <2>3. /\ u \in Texts /\ Len(u) = j + 1
        /\ \A k \in 1..j + 1 : u[k] = IF k <= j THEN Cuts(i, n, j)[k] ELSE <<c>>[k - j]
    BY <2>1, <2>2, ConcatProperties DEF Texts
  <2>4. \A k \in 1..j : Cuts(i, n, j)[k] = v[k]
    BY DEF Cuts
  <2>5. v[j + 1] = c
    BY <1>5 DEF Cuts
  <2>6. \A k \in 1..j + 1 : u[k] = v[k]
    BY <2>2, <2>3, <2>4, <2>5
  <2>7. v = [k \in 1..j + 1 |-> v[k]]
    BY DEF Cuts
  <2>8. u = [k \in 1..j + 1 |-> u[k]]
    BY <2>3 DEF Texts
  <2>. HIDE DEF u, v
  <2>9. u = v
    BY <2>6, <2>7, <2>8
  <2>. QED
    BY <2>9 DEF u, v
<1>. QED
  BY <1>3, <1>9, <1>11, <1>12

LEMMA CutsShow ==
  ASSUME NEW i \in Nat, NEW n \in Nat, NEW m \in Nat, 1 <= i, Upto(m) <= n
  PROVE  AllShow(Cuts(i, n, m), Span(i, 1, Upto(m)))
<1>. DEFINE S == {j \in 0..m : AllShow(Cuts(i, n, j), Span(i, 1, Upto(j)))}
<1>1. 0 \in S
  <2>1. Cuts(i, n, 0) = <<>>
    BY DEF Cuts
  <2>2. Span(i, 1, Upto(0)) = {}
    BY UptoIs DEF Span
  <2>3. AllShow(Cuts(i, n, 0), Span(i, 1, Upto(0)))
    BY <2>1, <2>2, NothingShows
  <2>. QED
    BY <2>3
<1>2. ASSUME NEW j \in 0..m, j < m, j \in S PROVE j + 1 \in S
  <2>1. j \in Nat /\ j + 1 \in Nat /\ j + 1 <= m /\ j + 1 \in 0..m
    BY <1>2
  <2>2. Upto(j + 1) <= Upto(m) /\ Upto(j + 1) \in Nat /\ Upto(m) \in Nat
    BY <2>1, UptoIs
  <2>3. Upto(j + 1) <= n
    BY <2>2
  <2>4. AllShow(Cuts(i, n, j), Span(i, 1, Upto(j)))
    BY <1>2
  <2>5. AllShow(Cuts(i, n, j + 1), Span(i, 1, Upto(j + 1)))
    BY <2>1, <2>3, <2>4, NextCut
  <2>. QED
    BY <2>1, <2>5
<1>. HIDE DEF S
<1>3. 0..m \subseteq S
  BY <1>1, <1>2, UpTo
<1>. QED
  BY <1>3 DEF S
-----------------------------------------------------------------------------
(* What the packing of the lines holds after each line: all of them so     *)
(* far, the last part in a chunk that is not closed yet.                   *)
AccShows(acc, C) ==
  /\ acc \in Accs /\ Len(acc.cur) <= Limit
  /\ \E A : \E B : AllShow(acc.chunks, A) /\ Shows(acc.cur, B) /\ Below(A, B) /\ C = A \cup B

LEMMA ClosedShows ==
  ASSUME NEW chunks, NEW cur, NEW A, NEW B,
         AllShow(chunks, A), Shows(cur, B), Len(cur) <= Limit, Below(A, B)
  PROVE  Append(chunks, cur) \in Texts /\ AllShow(Append(chunks, cur), A \cup B)
<1>1. chunks \in Texts /\ cur \in Text
  BY DEF AllShow, Shows
<1>2. Append(chunks, cur) = chunks \o <<cur>> /\ Append(chunks, cur) \in Texts
  BY <1>1, AppendIsConcat, AppendProperties DEF Texts
<1>3. AllShow(<<cur>>, B)
  BY OneShows
<1>4. AllShow(chunks \o <<cur>>, A \cup B)
  BY <1>3, ConcatShows
<1>. QED
  BY <1>2, <1>4

LEMMA FlushedShows ==
  ASSUME NEW acc, NEW C, AccShows(acc, C)
  PROVE  Flushed(acc).chunks \in Texts /\ AllShow(Flushed(acc).chunks, C)
<1>1. PICK A : \E B : AllShow(acc.chunks, A) /\ Shows(acc.cur, B) /\ Below(A, B) /\ C = A \cup B
  BY DEF AccShows
<1>2. PICK B : AllShow(acc.chunks, A) /\ Shows(acc.cur, B) /\ Below(A, B) /\ C = A \cup B
  BY <1>1
<1>3. acc.chunks \in Texts /\ acc.cur \in Text /\ Len(acc.cur) <= Limit
  BY DEF AccShows, Accs
<1>4. CASE acc.cur = <<>>
  <2>1. B = {}
    BY <1>2, <1>4 DEF Shows
  <2>2. Flushed(acc).chunks = acc.chunks
    BY <1>4 DEF Flushed
  <2>. QED
    BY <1>2, <1>3, <2>1, <2>2
<1>5. CASE acc.cur # <<>>
  <2>1. Flushed(acc).chunks = Append(acc.chunks, acc.cur)
    BY <1>5 DEF Flushed
  <2>2. Append(acc.chunks, acc.cur) \in Texts /\ AllShow(Append(acc.chunks, acc.cur), A \cup B)
    BY <1>2, <1>3, ClosedShows
  <2>. QED
    BY <1>2, <2>1, <2>2
<1>. QED
  BY <1>4, <1>5

(* A piece within the limit joins the open chunk or starts a new one.      *)
Joins(acc, rest) ==
  IF TooLong(acc.cur, rest) THEN [chunks |-> Append(acc.chunks, acc.cur), cur |-> rest]
  ELSE [acc EXCEPT !.cur = IF @ = <<>> THEN rest ELSE @ \o <<NL>> \o rest]

LEMMA JoinsShow ==
  ASSUME NEW acc, NEW C, NEW rest, NEW E,
         AccShows(acc, C), Shows(rest, E), Len(rest) <= Limit, Below(C, E)
  PROVE  AccShows(Joins(acc, rest), C \cup E)
<1>1. PICK A : \E B : AllShow(acc.chunks, A) /\ Shows(acc.cur, B) /\ Below(A, B) /\ C = A \cup B
  BY DEF AccShows
<1>2. PICK B : AllShow(acc.chunks, A) /\ Shows(acc.cur, B) /\ Below(A, B) /\ C = A \cup B
  BY <1>1
<1>3. acc \in Accs /\ acc.chunks \in Texts /\ acc.cur \in Text /\ Len(acc.cur) <= Limit /\ rest \in Text
  BY DEF AccShows, Accs, Shows
<1>4. Below(A, E) /\ Below(B, E) /\ Below(A, B \cup E) /\ C \cup E = A \cup (B \cup E)
  BY <1>2 DEF Below
<1>5. CASE TooLong(acc.cur, rest)
  <2>. DEFINE chunks == Append(acc.chunks, acc.cur)
              new    == [chunks |-> chunks, cur |-> rest]
  <2>1. chunks \in Texts /\ AllShow(chunks, C)
    BY <1>2, <1>3, ClosedShows
  <2>. HIDE DEF chunks
  <2>2. new \in Accs /\ new.chunks = chunks /\ new.cur = rest
    BY <1>3, <2>1 DEF Accs
  <2>3. AccShows(new, C \cup E)
    <3>. HIDE DEF new
    <3>. QED
      BY <2>1, <2>2 DEF AccShows
  <2>. QED
    BY <1>5, <2>3 DEF Joins, chunks
<1>6. CASE ~TooLong(acc.cur, rest)
  <2>. DEFINE cur == IF acc.cur = <<>> THEN rest ELSE acc.cur \o <<NL>> \o rest
              new == [acc EXCEPT !.cur = cur]
  <2>1. Shows(cur, B \cup E) /\ Len(cur) <= Limit
    <3>1. CASE acc.cur = <<>>
      <4>1. B = {}
        BY <1>2, <3>1 DEF Shows
      <4>. QED
        BY <3>1, <4>1
    <3>2. CASE acc.cur # <<>>
      <4>1. Shows(acc.cur \o <<NL>> \o rest, B \cup E)
        BY <1>2, <1>4, JoinShows
      <4>2. Len(acc.cur \o <<NL>> \o rest) = Len(acc.cur) + 1 + Len(rest)
        BY <1>3, Joined
      <4>3. Len(acc.cur) + 1 + Len(rest) <= Limit
        <5>1. Len(acc.cur) \in Nat /\ Len(rest) \in Nat /\ Limit \in Nat
          BY <1>3, DmAssumption DEF Text
        <5>. QED
          BY <1>6, <3>2, <5>1 DEF TooLong
      <4>. QED
        BY <3>2, <4>1, <4>2, <4>3
    <3>. QED
      BY <3>1, <3>2
  <2>. HIDE DEF cur
  <2>2. new \in Accs /\ new.chunks = acc.chunks /\ new.cur = cur
    BY <1>3, <2>1 DEF Accs, Shows
  <2>3. AccShows(new, C \cup E)
    <3>. HIDE DEF new
    <3>. QED
      BY <1>2, <1>4, <2>1, <2>2 DEF AccShows
  <2>. QED
    BY <1>6, <2>3 DEF Joins, cur
<1>. QED
  BY <1>5, <1>6

(* One line: the pieces cut off in front, and the rest.                    *)
PiecesOf(line) == IF line = <<>> THEN 0 ELSE (Len(line) - 1) \div Limit
CutOff(acc, i, n, cuts) ==
  IF cuts = 0 THEN acc
  ELSE [chunks |-> Flushed(acc).chunks \o Cuts(i, n, cuts), cur |-> <<>>]

LEMMA PiecesFit ==
  ASSUME NEW i \in Nat, NEW n \in Nat
  PROVE  /\ Len(Line(i, n)) = n
         /\ PiecesOf(Line(i, n)) \in Nat /\ Upto(PiecesOf(Line(i, n))) <= n
         /\ n <= Upto(PiecesOf(Line(i, n))) + Limit
<1>1. Len(Line(i, n)) = n /\ (Line(i, n) = <<>> <=> n = 0)
  BY DEF Line
<1>2. Limit \in Nat /\ 1 <= Limit /\ Upto(0) = 0
  BY UptoIs
<1>3. CASE n = 0
  BY <1>1, <1>2, <1>3 DEF PiecesOf
<1>4. CASE n # 0
  <2>1. PICK x \in Nat : x = n - 1
    BY <1>4
  <2>2. PICK q \in Int : q = x \div Limit
    BY <1>2, <2>1
  <2>3. q \in Nat /\ q * Limit <= x /\ x < q * Limit + Limit
    BY <1>2, <2>1, <2>2, Z3
  <2>4. PiecesOf(Line(i, n)) = q
    BY <1>1, <1>4, <2>1, <2>2 DEF PiecesOf
  <2>5. Upto(q) \in Nat /\ Upto(q) = q * Limit
    BY <2>3, UptoIs DEF Upto
  <2>6. Upto(q) <= n /\ n <= Upto(q) + Limit
    <3>1. Upto(q) <= x /\ x < Upto(q) + Limit
      BY <2>3, <2>5
    <3>. QED
      BY <1>2, <2>1, <2>5, <3>1
  <2>. QED
    BY <1>1, <2>3, <2>4, <2>6
<1>. QED
  BY <1>3, <1>4

LEMMA AddLineShows ==
  ASSUME NEW acc, NEW C, NEW i \in Nat, NEW n \in Nat, 1 <= i,
         AccShows(acc, C), Below(C, Span(i, 1, n))
  PROVE  AccShows(AddLine(acc, Line(i, n)), C \cup Span(i, 1, n))
<1>1. PICK cuts \in Nat : cuts = PiecesOf(Line(i, n))
  BY PiecesFit
<1>2. PICK done \in Nat : done = Upto(cuts)
  BY <1>1, UptoIs
<1>3. done <= n /\ n <= done + Limit /\ Limit \in Nat /\ Len(Line(i, n)) = n
  BY <1>1, <1>2, PiecesFit, UptoIs
<1>4. PICK from \in Nat : from = done + 1
  BY <1>2
<1>5. PICK rest : rest = SubSeq(Line(i, n), from, n)
  OBVIOUS
<1>6. Shows(rest, Span(i, from, n)) /\ Len(rest) <= Limit
  <2>1. 1 <= from /\ n <= n
    BY <1>4
  <2>2. /\ Shows(SubSeq(Line(i, n), from, n), Span(i, from, n))
        /\ Len(SubSeq(Line(i, n), from, n)) = IF from <= n THEN n - from + 1 ELSE 0
    BY <2>1, SliceShows
  <2>. QED
    BY <1>3, <1>4, <1>5, <2>2
<1>7. /\ Below(Span(i, 1, done), Span(i, from, n))
      /\ Span(i, 1, done) \cup Span(i, from, n) = Span(i, 1, n)
  <2>1. 1 <= from /\ 1 \in Nat
    BY <1>4
  <2>. QED
    BY <1>3, <1>4, <2>1, SpanOrder
<1>8. /\ Below(C, Span(i, 1, done)) /\ Below(C, Span(i, from, n))
      /\ Below(C \cup Span(i, 1, done), Span(i, from, n))
  BY <1>7 DEF Below
<1>9. PICK now : now = CutOff(acc, i, n, cuts)
  OBVIOUS
<1>10. AccShows(now, C \cup Span(i, 1, done))
  <2>1. CASE cuts = 0
    <3>1. done = 0
      BY <1>2, <2>1, UptoIs
    <3>2. Span(i, 1, done) = {}
      BY <3>1 DEF Span
    <3>. QED
      BY <1>9, <2>1, <3>2 DEF CutOff
  <2>2. CASE cuts # 0
    <3>1. PICK front : front = Flushed(acc).chunks
      OBVIOUS
    <3>2. AllShow(front, C)
      BY <3>1, FlushedShows
    <3>3. AllShow(Cuts(i, n, cuts), Span(i, 1, done))
      BY <1>2, <1>3, CutsShow
    <3>4. PICK all : all = front \o Cuts(i, n, cuts)
      OBVIOUS
    <3>5. AllShow(all, C \cup Span(i, 1, done))
      BY <1>8, <3>2, <3>3, <3>4, ConcatShows
    <3>6. now = [chunks |-> all, cur |-> <<>>]
      BY <1>9, <2>2, <3>1, <3>4 DEF CutOff
    <3>7. now \in Accs /\ now.chunks = all /\ now.cur = <<>>
      BY <3>5, <3>6 DEF Accs, AllShow, Text
    <3>8. Shows(now.cur, {}) /\ Len(now.cur) <= Limit
      BY <1>3, <3>7, NothingShows
    <3>9. Below(C \cup Span(i, 1, done), {})
      BY DEF Below
    <3>. QED
      BY <3>5, <3>7, <3>8, <3>9 DEF AccShows
  <2>. QED
    BY <2>1, <2>2
<1>11. AccShows(Joins(now, rest), (C \cup Span(i, 1, done)) \cup Span(i, from, n))
  BY <1>6, <1>8, <1>10, JoinsShow
<1>12. AddLine(acc, Line(i, n)) = Joins(now, rest)
  <2>. DEFINE line == Line(i, n)
              pieces == [k \in 1..cuts |-> SubSeq(line, (k - 1) * Limit + 1, k * Limit)]
  <2>1. Cuts(i, n, cuts) = pieces
    BY DEF Cuts, Cut, Upto
  <2>2. now = IF cuts = 0 THEN acc ELSE [chunks |-> Flushed(acc).chunks \o pieces, cur |-> <<>>]
    BY <1>9, <2>1 DEF CutOff
  <2>3. rest = SubSeq(line, cuts * Limit + 1, Len(line))
    BY <1>2, <1>3, <1>4, <1>5 DEF Upto
  <2>4. cuts = IF line = <<>> THEN 0 ELSE (Len(line) - 1) \div Limit
    BY <1>1 DEF PiecesOf
  <2>. HIDE DEF line
  <2>5. AddLine(acc, line) =
          IF TooLong(now.cur, rest) THEN [chunks |-> Append(now.chunks, now.cur), cur |-> rest]
          ELSE [now EXCEPT !.cur = IF @ = <<>> THEN rest ELSE @ \o <<NL>> \o rest]
    BY <2>2, <2>3, <2>4 DEF AddLine
  <2>. QED
    BY <2>5 DEF Joins, line
<1>. QED
  BY <1>7, <1>11, <1>12
-----------------------------------------------------------------------------
(* The lines of a text of these lengths, and the places of the first n.    *)
LinesFor(lens) == [i \in DOMAIN lens |-> Line(i, lens[i])]
FirstPlaces(lens, n) == {p \in Char : p[1] \in 1..n /\ p[2] \in 1..lens[p[1]]}

LEMMA LinesAre ==
  ASSUME NEW lens \in Seq(Nat)
  PROVE  /\ LinesFor(lens) \in Texts /\ Len(LinesFor(lens)) = Len(lens)
         /\ \A i \in 1..Len(lens) : LinesFor(lens)[i] = Line(i, lens[i]) /\ lens[i] \in Nat
         /\ Places(LinesFor(lens)) = FirstPlaces(lens, Len(lens))
<1>1. Len(lens) \in Nat /\ DOMAIN lens = 1..Len(lens) /\ \A i \in 1..Len(lens) : lens[i] \in Nat
  OBVIOUS
<1>2. ASSUME NEW i \in Nat, NEW n \in Nat
      PROVE  Line(i, n) \in Text /\ DOMAIN Line(i, n) = 1..n
  <2>1. \A k \in 1..n : <<i, k>> \in Char
    BY DEF Char
  <2>. QED
    BY <2>1 DEF Line, Text
<1>3. \A i \in 1..Len(lens) : Line(i, lens[i]) \in Text /\ DOMAIN Line(i, lens[i]) = 1..lens[i]
  BY <1>1, <1>2
<1>. DEFINE lines == LinesFor(lens)
<1>4. lines = [i \in 1..Len(lens) |-> Line(i, lens[i])]
  BY <1>1 DEF LinesFor
<1>5. lines \in Texts /\ Len(lines) = Len(lens)
  BY <1>1, <1>3, <1>4 DEF Texts
<1>6. \A i \in 1..Len(lens) : lines[i] = Line(i, lens[i])
  BY <1>4
<1>7. DOMAIN lines = 1..Len(lens) /\ \A i \in 1..Len(lens) : DOMAIN lines[i] = 1..lens[i]
  BY <1>3, <1>4, <1>6
<1>. HIDE DEF lines
<1>8. Places(lines) = FirstPlaces(lens, Len(lens))
  <2>1. ASSUME NEW p \in Places(lines) PROVE p \in FirstPlaces(lens, Len(lens))
    <3>1. PICK i \in 1..Len(lens) : p \in {i} \X (1..lens[i])
      BY <1>7, <2>1 DEF Places
    <3>2. PICK k \in 1..lens[i] : p = <<i, k>>
      BY <3>1
    <3>. QED
      BY <1>1, <3>2 DEF FirstPlaces, Char
  <2>2. ASSUME NEW p \in FirstPlaces(lens, Len(lens)) PROVE p \in Places(lines)
    <3>1. p = <<p[1], p[2]>> /\ p[1] \in 1..Len(lens) /\ p[2] \in 1..lens[p[1]]
      BY <2>2 DEF FirstPlaces, Char
    <3>2. p \in {p[1]} \X (DOMAIN lines[p[1]])
      BY <1>7, <3>1
    <3>. QED
      BY <1>7, <3>1, <3>2 DEF Places
  <2>. QED
    BY <2>1, <2>2
<1>. QED
  BY <1>1, <1>5, <1>6, <1>8 DEF lines

LEMMA PlacesByLine ==
  ASSUME NEW lens \in Seq(Nat), NEW n \in 0..Len(lens), n < Len(lens)
  PROVE  /\ n + 1 \in 1..Len(lens) /\ lens[n + 1] \in Nat
         /\ Below(FirstPlaces(lens, n), Span(n + 1, 1, lens[n + 1]))
         /\ FirstPlaces(lens, n) \cup Span(n + 1, 1, lens[n + 1]) = FirstPlaces(lens, n + 1)
<1>1. n \in Nat /\ Len(lens) \in Nat /\ n + 1 \in 1..Len(lens) /\ lens[n + 1] \in Nat
  OBVIOUS
<1>2. PICK new \in Nat : new = n + 1
  BY <1>1
<1>3. Span(new, 1, lens[new]) = {p \in Char : p[1] = new /\ p[2] \in 1..lens[new]}
  BY <1>1, <1>2 DEF Span, Char
<1>4. Below(FirstPlaces(lens, n), Span(new, 1, lens[new]))
  <2>1. \A p \in FirstPlaces(lens, n) : p[1] < new
    BY <1>1, <1>2 DEF FirstPlaces
  <2>2. \A p \in Span(new, 1, lens[new]) : p[1] = new
    BY <1>3
  <2>. QED
    BY <2>1, <2>2 DEF Below, Before
<1>5. FirstPlaces(lens, n) \cup Span(new, 1, lens[new]) = FirstPlaces(lens, new)
  <2>1. \A i \in Nat : i \in 1..new <=> i \in 1..n \/ i = new
    BY <1>1, <1>2
  <2>2. \A p \in Char : p[1] \in Nat
    BY DEF Char
  <2>. QED
    BY <1>3, <2>1, <2>2 DEF FirstPlaces
<1>. QED
  BY <1>1, <1>2, <1>4, <1>5

LEMMA NoPlaces ==
  ASSUME NEW lens PROVE FirstPlaces(lens, 0) = {}
BY DEF FirstPlaces

(* The text as a whole shows its characters in order.                      *)
LEMMA TextShows ==
  ASSUME NEW lens \in Seq(Nat)
  PROVE  Shows(TextOf(LinesFor(lens)), FirstPlaces(lens, Len(lens)))
<1>. DEFINE lines == LinesFor(lens)
            N     == Len(lens)
<1>1. /\ lines \in Texts /\ Len(lines) = N /\ N \in Nat
      /\ \A i \in 1..N : lines[i] = Line(i, lens[i]) /\ lens[i] \in Nat
  BY LinesAre
<1>. HIDE DEF lines, N
<1>2. PICK text \in [0..N -> Text] :
        /\ text[0] = <<>>
        /\ \A n \in 1..N : text[n] = IF n = 1 THEN lines[1] ELSE text[n - 1] \o <<NL>> \o lines[n]
        /\ TextOf(lines) = text[N]
  BY <1>1, TextValues
<1>. DEFINE S == {n \in 0..N : Shows(text[n], FirstPlaces(lens, n))}
<1>3. 0 \in S
  <2>1. text[0] = <<>> /\ FirstPlaces(lens, 0) = {} /\ 0 \in 0..N
    BY <1>1, <1>2, NoPlaces
  <2>2. Shows(text[0], FirstPlaces(lens, 0))
    BY <2>1, NothingShows
  <2>. QED
    BY <2>1, <2>2
<1>4. ASSUME NEW n \in 0..N, n < N, n \in S PROVE n + 1 \in S
  <2>1. PICK new \in Nat : new = n + 1
    BY <1>1
  <2>2. /\ new \in 1..N /\ lens[new] \in Nat
        /\ Below(FirstPlaces(lens, n), Span(new, 1, lens[new]))
        /\ FirstPlaces(lens, n) \cup Span(new, 1, lens[new]) = FirstPlaces(lens, new)
    BY <1>4, <2>1, PlacesByLine DEF N
  <2>3. Shows(lines[new], Span(new, 1, lens[new]))
    <3>1. 1 <= new
      BY <1>1, <2>2
    <3>2. PICK len \in Nat : len = lens[new]
      BY <2>2
    <3>3. 1 \in Nat /\ 1 <= 1 /\ len <= len
      OBVIOUS
    <3>4. Shows(SubSeq(Line(new, len), 1, len), Span(new, 1, len))
      BY <3>1, <3>3, SliceShows
    <3>5. SubSeq(Line(new, len), 1, len) = Line(new, len)
      <4>. DEFINE line == Line(new, len)
      <4>1. line = [k \in 1..len |-> line[k]] /\ \A k \in 1..len : line[k] \in Char
        BY DEF Line, Char
      <4>. HIDE DEF line
      <4>2. /\ SubSeq(line, 1, len) \in Seq(Char) /\ Len(SubSeq(line, 1, len)) = len
            /\ \A k \in 1..len : SubSeq(line, 1, len)[k] = line[k]
        BY <4>1, SubSeqProperties
      <4>3. SubSeq(line, 1, len) = [k \in 1..len |-> SubSeq(line, 1, len)[k]]
        BY <4>2
      <4>4. SubSeq(line, 1, len) = line
        BY <4>1, <4>2, <4>3
      <4>. QED
        BY <4>4 DEF line
    <3>. QED
      BY <1>1, <2>2, <3>2, <3>4, <3>5
  <2>4. CASE n = 0
    <3>1. new = 1 /\ text[new] = lines[new] /\ FirstPlaces(lens, n) = {}
      BY <1>2, <2>1, <2>2, <2>4, NoPlaces
    <3>2. Shows(text[new], FirstPlaces(lens, new))
      BY <2>2, <2>3, <3>1
    <3>. QED
      BY <2>1, <2>2, <3>2
  <2>5. CASE n # 0
    <3>1. new # 1 /\ new - 1 = n
      BY <2>1, <2>5
    <3>2. text[new] = text[n] \o <<NL>> \o lines[new]
      BY <1>2, <2>2, <3>1
    <3>3. Shows(text[n], FirstPlaces(lens, n))
      BY <1>4
    <3>4. Shows(text[n] \o <<NL>> \o lines[new], FirstPlaces(lens, n) \cup Span(new, 1, lens[new]))
      BY <2>2, <2>3, <3>3, JoinShows
    <3>5. Shows(text[new], FirstPlaces(lens, new))
      BY <2>2, <3>2, <3>4
    <3>. QED
      BY <2>1, <2>2, <3>5
  <2>. QED
    BY <2>4, <2>5
<1>. HIDE DEF S
<1>5. 0..N \subseteq S
  BY <1>1, <1>3, <1>4, UpTo
<1>6. Shows(text[N], FirstPlaces(lens, N))
  BY <1>1, <1>5 DEF S
<1>. QED
  BY <1>2, <1>6 DEF lines, N

(* The packing has the values its definition says, as long as they hold    *)
(* the lines so far; so they do, up to the last.                           *)
LEMMA PackedShows ==
  ASSUME NEW lens \in Seq(Nat)
  PROVE  AccShows(Packed(LinesFor(lens)), FirstPlaces(lens, Len(lens)))
<1>. DEFINE lines == LinesFor(lens)
            N     == Len(lines)
            acc[n \in 0..N] == IF n = 0 THEN [chunks |-> <<>>, cur |-> <<>>] ELSE AddLine(acc[n - 1], lines[n])
            Added(a, n) == AddLine(a, lines[n])
            Kept(a, n)  == IF Added(a, n) \in Accs THEN Added(a, n) ELSE EmptyAcc
            step == [x \in (1..N) \X Accs |-> Kept(x[2], x[1])]
<1>1. Packed(lines) = acc[N]
  BY DEF Packed
<1>2. /\ N = Len(lens) /\ N \in Nat
      /\ \A i \in 1..N : lines[i] = Line(i, lens[i]) /\ lens[i] \in Nat
  BY LinesAre
<1>3. EmptyAcc \in Accs /\ EmptyAcc.chunks = <<>> /\ EmptyAcc.cur = <<>>
  BY DEF EmptyAcc, Accs, Texts, Text
<1>4. step \in [(1..N) \X Accs -> Accs]
  <2>. HIDE DEF Added
  <2>. QED
    BY <1>3
<1>5. \E f \in [0..N -> Accs] : Iterates(f, N, EmptyAcc, step)
  <2>. HIDE DEF step, N
  <2>. QED
    BY <1>2, <1>3, <1>4, StepByStep, Zenon
<1>6. PICK f \in [0..N -> Accs] : f[0] = EmptyAcc /\ \A n \in 1..N : f[n] = step[<<n, f[n - 1]>>]
  BY <1>5 DEF Iterates
<1>7. \A n \in 1..N : f[n - 1] \in Accs /\ f[n] = Kept(f[n - 1], n)
  <2>. HIDE DEF Kept, N
  <2>1. SUFFICES ASSUME NEW n \in 1..N
                 PROVE  f[n - 1] \in Accs /\ f[n] = Kept(f[n - 1], n)
    OBVIOUS
  <2>2. n - 1 \in 0..N
    BY <1>2
  <2>3. f[n - 1] \in Accs
    BY <1>6, <2>2
  <2>4. PICK a \in Accs : a = f[n - 1]
    BY <2>3
  <2>5. <<n, a>> \in (1..N) \X Accs /\ <<n, a>>[1] = n /\ <<n, a>>[2] = a
    BY <2>4
  <2>6. step[<<n, a>>] = Kept(a, n)
    BY <2>5
  <2>7. f[n] = step[<<n, f[n - 1]>>]
    BY <1>6
  <2>. QED
    BY <2>4, <2>6, <2>7
<1>. DEFINE S == {n \in 0..N : AccShows(f[n], FirstPlaces(lens, n)) /\ (n # 0 => f[n] = Added(f[n - 1], n))}
<1>. HIDE DEF N, lines
<1>8. 0 \in S
  <2>1. AllShow(f[0].chunks, {}) /\ Shows(f[0].cur, {}) /\ Len(f[0].cur) <= Limit
    <3>1. f[0].chunks = <<>> /\ f[0].cur = <<>>
      BY <1>3, <1>6
    <3>2. Len(<<>>) <= Limit
      <4>1. Limit \in Nat /\ Len(<<>>) = 0
        BY DmAssumption
      <4>. QED
        BY <4>1
    <3>. QED
      BY <3>1, <3>2, NothingShows
  <2>2. Below({}, {}) /\ {} = {} \cup {} /\ FirstPlaces(lens, 0) = {}
    BY NoPlaces DEF Below
  <2>3. AccShows(f[0], FirstPlaces(lens, 0))
    BY <1>3, <1>6, <2>1, <2>2 DEF AccShows
  <2>. QED
    BY <1>2, <2>3
<1>9. ASSUME NEW n \in 0..N, n < N, n \in S PROVE n + 1 \in S
  <2>1. PICK new \in Nat : new = n + 1
    BY <1>2
  <2>2. /\ new \in 1..N /\ lens[new] \in Nat
        /\ Below(FirstPlaces(lens, n), Span(new, 1, lens[new]))
        /\ FirstPlaces(lens, n) \cup Span(new, 1, lens[new]) = FirstPlaces(lens, new)
    BY <1>2, <1>9, <2>1, PlacesByLine
  <2>3. 1 <= new /\ new - 1 = n /\ lines[new] = Line(new, lens[new])
    BY <1>2, <2>1, <2>2
  <2>4. AccShows(f[n], FirstPlaces(lens, n))
    BY <1>9
  <2>5. AccShows(AddLine(f[n], Line(new, lens[new])), FirstPlaces(lens, n) \cup Span(new, 1, lens[new]))
    BY <2>2, <2>3, <2>4, AddLineShows
  <2>6. AccShows(Added(f[n], new), FirstPlaces(lens, new))
    BY <2>2, <2>3, <2>5
  <2>. HIDE DEF Added
  <2>7. f[new] = Added(f[n], new)
    BY <1>7, <2>2, <2>3, <2>6 DEF AccShows
  <2>8. AccShows(f[new], FirstPlaces(lens, new)) /\ f[new] = Added(f[new - 1], new)
    BY <2>3, <2>6, <2>7
  <2>. QED
    BY <1>2, <2>1, <2>2, <2>8
<1>10. 0..N \subseteq S
  <2>. HIDE DEF S
  <2>. QED
    BY <1>2, <1>8, <1>9, UpTo
<1>11. \A n \in 1..N : f[n] = AddLine(f[n - 1], lines[n])
  BY <1>2, <1>10
<1>12. f = [n \in 0..N |-> IF n = 0 THEN [chunks |-> <<>>, cur |-> <<>>] ELSE AddLine(f[n - 1], lines[n])]
  <2>. DEFINE e(n) == IF n = 0 THEN [chunks |-> <<>>, cur |-> <<>>] ELSE AddLine(f[n - 1], lines[n])
  <2>1. f[0] = [chunks |-> <<>>, cur |-> <<>>] /\ \A n \in 0..N : n = 0 \/ n \in 1..N
    BY <1>2, <1>6 DEF EmptyAcc
  <2>2. \A n \in 0..N : f[n] = e(n)
    BY <1>11, <2>1
  <2>. HIDE DEF e
  <2>3. f = [n \in 0..N |-> e(n)]
    BY <1>6, <2>2
  <2>. QED
    BY <2>3 DEF e
<1>13. acc = [n \in 0..N |-> IF n = 0 THEN [chunks |-> <<>>, cur |-> <<>>] ELSE AddLine(acc[n - 1], lines[n])]
  BY <1>12
<1>. HIDE DEF acc
<1>14. acc[0] = EmptyAcc /\ \A n \in 1..N : acc[n] = AddLine(acc[n - 1], lines[n])
  BY <1>2, <1>13 DEF EmptyAcc
<1>. DEFINE R == {n \in 0..N : acc[n] = f[n]}
<1>15. 0 \in R /\ \A n \in 0..N : n < N /\ n \in R => n + 1 \in R
  <2>1. 0 \in R
    BY <1>2, <1>6, <1>14
  <2>2. ASSUME NEW n \in 0..N, n < N, n \in R PROVE n + 1 \in R
    <3>1. PICK new \in 1..N : new = n + 1 /\ new - 1 = n /\ new \in 0..N
      BY <1>2, <2>2
    <3>2. acc[new] = AddLine(acc[n], lines[new]) /\ f[new] = AddLine(f[n], lines[new])
      BY <1>11, <1>14, <3>1
    <3>. QED
      BY <2>2, <3>1, <3>2
  <2>. QED
    BY <2>1, <2>2
<1>16. acc[N] = f[N]
  <2>1. 0..N \subseteq R
    <3>. HIDE DEF R
    <3>. QED
      BY <1>2, <1>15, UpTo
  <2>. QED
    BY <1>2, <2>1
<1>17. AccShows(f[N], FirstPlaces(lens, N))
  BY <1>2, <1>10
<1>. QED
  BY <1>1, <1>2, <1>16, <1>17 DEF lines

LEMMA AllShowInOrder ==
  ASSUME NEW chunks, NEW lines, AllShow(chunks, Places(lines))
  PROVE  ShowsInOrder(chunks, lines)
<1>. DEFINE At(p) == chunks[p[1]][p[2]]
            shown == {p \in Places(chunks) : At(p) # NL}
<1>1. /\ chunks \in Texts /\ DOMAIN chunks = 1..Len(chunks)
      /\ \A j \in 1..Len(chunks) : DOMAIN chunks[j] = 1..Len(chunks[j])
  <2>1. chunks \in Texts
    BY DEF AllShow
  <2>2. DOMAIN chunks = 1..Len(chunks) /\ \A j \in 1..Len(chunks) : chunks[j] \in Text
    BY <2>1 DEF Texts
  <2>. QED
    BY <2>1, <2>2 DEF Text
<1>2. ASSUME NEW p \in Places(chunks)
      PROVE  \E j \in 1..Len(chunks) : \E k \in 1..Len(chunks[j]) : p = <<j, k>>
  <2>1. PICK j \in 1..Len(chunks) : p \in {j} \X (1..Len(chunks[j]))
    BY <1>1 DEF Places
  <2>. QED
    BY <2>1
<1>3. ASSUME NEW j \in 1..Len(chunks), NEW k \in 1..Len(chunks[j])
      PROVE  <<j, k>> \in Places(chunks) /\ At(<<j, k>>) = chunks[j][k]
  BY <1>1 DEF Places
<1>. HIDE DEF At
<1>4. ASSUME NEW p \in shown PROVE At(p) \in Places(lines)
  <2>1. PICK j \in 1..Len(chunks) : \E k \in 1..Len(chunks[j]) : p = <<j, k>>
    BY <1>2
  <2>2. PICK k \in 1..Len(chunks[j]) : p = <<j, k>>
    BY <2>1
  <2>3. At(p) = chunks[j][k] /\ chunks[j][k] # NL
    BY <1>3, <2>2
  <2>. QED
    BY <2>3 DEF AllShow
<1>5. ASSUME NEW x \in Places(lines) PROVE \E p \in shown : At(p) = x
  <2>1. x # NL /\ \E j \in 1..Len(chunks) : \E k \in 1..Len(chunks[j]) : chunks[j][k] = x
    BY DEF AllShow
  <2>2. PICK j \in 1..Len(chunks) : \E k \in 1..Len(chunks[j]) : chunks[j][k] = x
    BY <2>1
  <2>3. PICK k \in 1..Len(chunks[j]) : chunks[j][k] = x
    BY <2>2
  <2>. QED
    BY <1>3, <2>1, <2>3
<1>6. ASSUME NEW p \in shown, NEW q \in shown, Before(p, q) PROVE Before(At(p), At(q))
  <2>1. PICK j \in 1..Len(chunks) : \E k \in 1..Len(chunks[j]) : p = <<j, k>>
    BY <1>2
  <2>2. PICK k \in 1..Len(chunks[j]) : p = <<j, k>>
    BY <2>1
  <2>3. PICK g \in 1..Len(chunks) : \E h \in 1..Len(chunks[g]) : q = <<g, h>>
    BY <1>2
  <2>4. PICK h \in 1..Len(chunks[g]) : q = <<g, h>>
    BY <2>3
  <2>5. At(p) = chunks[j][k] /\ chunks[j][k] # NL /\ At(q) = chunks[g][h] /\ chunks[g][h] # NL
    BY <1>3, <2>2, <2>4
  <2>6. Before(<<j, k>>, <<g, h>>)
    BY <1>6, <2>2, <2>4
  <2>. QED
    BY <2>5, <2>6 DEF AllShow
<1>7. {At(p) : p \in shown} = Places(lines)
  <2>. HIDE DEF shown
  <2>. QED
    BY <1>4, <1>5
<1>. QED
  BY <1>6, <1>7 DEF ShowsInOrder, At

LEMMA ChunkShows ==
  ASSUME NEW lens \in Seq(Nat)
  PROVE  AllShow(Chunk(LinesFor(lens)), Places(LinesFor(lens)))
<1>. DEFINE lines == LinesFor(lens)
<1>1. Places(lines) = FirstPlaces(lens, Len(lens))
  BY LinesAre
<1>2. CASE Len(TextOf(lines)) <= Limit
  <2>1. Shows(TextOf(lines), Places(lines))
    BY <1>1, TextShows
  <2>2. AllShow(<<TextOf(lines)>>, Places(lines))
    <3>. HIDE DEF lines
    <3>. QED
      BY <1>2, <2>1, OneShows
  <2>. QED
    BY <1>2, <2>2 DEF Chunk
<1>3. CASE ~(Len(TextOf(lines)) <= Limit)
  <2>1. AccShows(Packed(lines), Places(lines))
    BY <1>1, PackedShows
  <2>2. AllShow(Flushed(Packed(lines)).chunks, Places(lines))
    <3>. HIDE DEF lines
    <3>. QED
      BY <2>1, FlushedShows
  <2>. QED
    BY <1>3, <2>2 DEF Chunk
<1>. QED
  BY <1>2, <1>3

(* Whatever the lengths of the lines and the limit, the chunks of a text   *)
(* are within the limit and hold every character of its lines, once and in *)
(* the order of the text (chunk_message).                                  *)
THEOREM ChunksHoldTheText ==
  ASSUME NEW lens \in Seq(Nat)
  PROVE  /\ \A k \in DOMAIN Chunk(LinesFor(lens)) : Len(Chunk(LinesFor(lens))[k]) <= Limit
         /\ ShowsInOrder(Chunk(LinesFor(lens)), LinesFor(lens))
<1>. DEFINE chunks == Chunk(LinesFor(lens))
<1>1. AllShow(chunks, Places(LinesFor(lens)))
  BY ChunkShows
<1>. HIDE DEF chunks
<1>2. DOMAIN chunks = 1..Len(chunks)
  BY <1>1 DEF AllShow, Texts
<1>3. \A k \in DOMAIN chunks : Len(chunks[k]) <= Limit
  BY <1>1, <1>2 DEF AllShow
<1>4. ShowsInOrder(chunks, LinesFor(lens))
  BY <1>1, AllShowInOrder
<1>. QED
  BY <1>3, <1>4 DEF chunks
-----------------------------------------------------------------------------
(***************************************************************************)
(* The calls.  A thread in a call has an open entry of its own, and what   *)
(* it has posted, with what it has left to post, is the chunks of the text *)
(* until one of them fails.  An entry that is open was barred by switches  *)
(* that are still set.                                                     *)
(***************************************************************************)
Sent  == Messages \cup {Alarm}
Entry == [message : Sent, result : {"open", "id", "none", "lost"}, discord : Texts,
          telegram : BOOLEAN, barred : SUBSET Routes]
RouterCalls == [step : {"idle", "discord", "fallback", "telegram"}, nr : Nat, left : Texts, id : BOOLEAN]
ChunksOf(m) == Chunk(LinesOf(m))

CallsTyped ==
  /\ disabled \in SUBSET Routes /\ env \in SUBSET Routes
  /\ dms \in Seq(Entry) /\ Len(dms) <= MaxCalls /\ call \in [Threads -> RouterCalls]
Busy(t) == call[t].step # "idle"
CallsOK ==
  /\ \A t \in Threads :
       /\ call[t].nr \in 0..Len(dms)
       /\ Busy(t) =>
            /\ call[t].nr # 0 /\ dms[call[t].nr].result = "open" /\ ~dms[call[t].nr].telegram
            /\ call[t].step = "discord" =>
                 /\ dms[call[t].nr].discord \o call[t].left = ChunksOf(dms[call[t].nr].message)
                 /\ "discord" \notin dms[call[t].nr].barred
            /\ call[t].step = "telegram" => "telegram" \notin dms[call[t].nr].barred
  /\ \A t, u \in Threads : Busy(t) /\ Busy(u) /\ t # u => call[t].nr # call[u].nr
EntryOK(e) ==
  /\ e.result = "open" => e.barred \subseteq disabled
  /\ \A k \in 1..Len(e.discord) : Len(e.discord[k]) \in 1..Limit
  /\ e.result = "id" /\ ~e.telegram => e.discord = ChunksOf(e.message)
  /\ "discord" \in e.barred => e.discord = <<>>
  /\ "telegram" \in e.barred => ~e.telegram
RouterInv == CallsTyped /\ CallsOK /\ \A n \in 1..Len(dms) : EntryOK(dms[n])

(* The worker has recorded every alarm but the one it is sending.          *)
Workers == [step : {"sleep", "tick", "sending"}, now : Nat, todo : SUBSET AlarmLeads,
            lead : AlarmLeads \cup {""}]
AlarmInv ==
  /\ worker \in Workers
  /\ clock \in 0..MaxTime /\ worker.now <= clock
  /\ worker.step = "sending" => worker.lead \in worker.todo
  /\ last_alarm \in [AlarmLeads -> 0..MaxTime] /\ alarmed \in [AlarmLeads -> SUBSET (0..MaxTime)]
  /\ \A l \in AlarmLeads : \A a \in alarmed[l] :
       \/ a <= last_alarm[l]
       \/ worker.step = "sending" /\ worker.lead = l /\ a = worker.now
  /\ \A l \in AlarmLeads : last_alarm[l] <= worker.now
  /\ AlarmHushed

LEMMA LensOf ==
  ASSUME NEW m \in Sent
  PROVE  \E lens \in Seq(Nat) : LinesOf(m) = LinesFor(lens)
<1>1. m.lines \in Seq(Nat)
  <2>1. Messages \subseteq [lines : Seq(Nat), large : BOOLEAN, small : BOOLEAN, fallback : BOOLEAN]
    BY DmAssumption
  <2>2. CASE m \in Messages
    <3>1. m \in [lines : Seq(Nat), large : BOOLEAN, small : BOOLEAN, fallback : BOOLEAN]
      BY <2>1, <2>2
    <3>. QED
      BY <3>1
  <2>3. CASE m = Alarm
    <3>1. m.lines = <<1>>
      BY <2>3 DEF Alarm
    <3>2. <<1>> \in Seq(Nat)
      OBVIOUS
    <3>. QED
      BY <3>1, <3>2
  <2>. QED
    BY <2>2, <2>3 DEF Sent
<1>2. PICK lens : lens = m.lines \o (IF m.large THEN <<0, NoteLength>> ELSE <<>>)
  OBVIOUS
<1>3. (IF m.large THEN <<0, NoteLength>> ELSE <<>>) \in Seq(Nat)
  BY DmAssumption
<1>4. lens \in Seq(Nat)
  BY <1>1, <1>2, <1>3, ConcatProperties
<1>5. LinesOf(m) = LinesFor(lens)
  BY <1>2 DEF LinesOf, LinesFor
<1>. QED
  BY <1>4, <1>5

LEMMA SentChunks ==
  ASSUME NEW m \in Sent
  PROVE  AllShow(ChunksOf(m), Places(LinesOf(m))) /\ ChunksOf(m) \in Texts
<1>1. PICK lens \in Seq(Nat) : LinesOf(m) = LinesFor(lens)
  BY LensOf
<1>2. AllShow(ChunksOf(m), Places(LinesOf(m)))
  BY <1>1, ChunkShows DEF ChunksOf
<1>. QED
  BY <1>2 DEF AllShow

LEMMA EntryFields ==
  ASSUME NEW e \in Entry
  PROVE  /\ e.message \in Sent /\ e.result \in {"open", "id", "none", "lost"} /\ e.discord \in Texts
         /\ e.telegram \in BOOLEAN /\ e.barred \in SUBSET Routes
BY DEF Entry

LEMMA NextChunk ==
  ASSUME NEW s \in Texts, NEW t \in Texts, t # <<>>
  PROVE  /\ Head(t) \in Text /\ Tail(t) \in Texts /\ Append(s, Head(t)) \in Texts
         /\ Append(s, Head(t)) \o Tail(t) = s \o t
         /\ Len(s) + 1 \in 1..Len(s \o t) /\ (s \o t)[Len(s) + 1] = Head(t)
         /\ \A k \in 1..Len(Append(s, Head(t))) :
              (k \in 1..Len(s) /\ Append(s, Head(t))[k] = s[k]) \/ Append(s, Head(t))[k] = Head(t)
<1>1. /\ Head(t) \in Text /\ Tail(t) \in Texts /\ Len(Tail(t)) = Len(t) - 1 /\ Head(t) = t[1]
      /\ \A k \in 1..Len(Tail(t)) : Tail(t)[k] = t[k + 1]
      /\ Len(s) \in Nat /\ Len(t) \in Nat /\ Len(t) >= 1
  BY HeadTailProperties DEF Texts
<1>2. PICK h \in Text : h = Head(t)
  BY <1>1
<1>3. PICK u \in Texts : u = Tail(t)
  BY <1>1
<1>4. PICK a : a = Append(s, h)
  OBVIOUS
<1>5. /\ a \in Texts /\ Len(a) = Len(s) + 1 /\ a[Len(s) + 1] = h
      /\ \A k \in 1..Len(s) : a[k] = s[k]
  BY <1>4, AppendProperties DEF Texts
<1>6. PICK x : x = s \o t
  OBVIOUS
<1>7. PICK y : y = a \o u
  OBVIOUS
<1>8. /\ x \in Texts /\ Len(x) = Len(s) + Len(t)
      /\ \A k \in 1..Len(s) + Len(t) : x[k] = IF k <= Len(s) THEN s[k] ELSE t[k - Len(s)]
  BY <1>6, ConcatProperties DEF Texts
<1>9. /\ y \in Texts /\ Len(y) = Len(a) + Len(u)
      /\ \A k \in 1..Len(a) + Len(u) : y[k] = IF k <= Len(a) THEN a[k] ELSE u[k - Len(a)]
  <2>1. a \in Seq(Text) /\ u \in Seq(Text)
    BY <1>5 DEF Texts
  <2>2. /\ a \o u \in Seq(Text) /\ Len(a \o u) = Len(a) + Len(u)
        /\ \A k \in 1..Len(a) + Len(u) : (a \o u)[k] = IF k <= Len(a) THEN a[k] ELSE u[k - Len(a)]
    BY <2>1, ConcatProperties
  <2>. QED
    BY <1>7, <2>2 DEF Texts
<1>10. PICK ns \in Nat : ns = Len(s)
  BY <1>1
<1>11. PICK nu \in Nat : nu = Len(u)
  BY <1>3 DEF Texts
<1>12. Len(t) = nu + 1 /\ Len(a) = ns + 1 /\ Len(x) = ns + nu + 1 /\ Len(y) = ns + nu + 1
  BY <1>1, <1>3, <1>5, <1>8, <1>9, <1>10, <1>11
<1>13. ASSUME NEW k \in 1..ns + nu + 1 PROVE y[k] = x[k]
  <2>1. CASE k <= ns
    <3>1. x[k] = s[k] /\ y[k] = a[k] /\ k \in 1..Len(s)
      BY <1>8, <1>9, <1>10, <1>11, <1>12, <2>1
    <3>. QED
      BY <1>5, <3>1
  <2>2. CASE k = ns + 1
    <3>1. k - ns = 1 /\ x[k] = t[k - ns] /\ y[k] = a[k]
      BY <1>8, <1>9, <1>10, <1>11, <1>12, <2>2
    <3>. QED
      BY <1>1, <1>2, <1>5, <1>10, <2>2, <3>1
  <2>3. CASE k > ns + 1
    <3>1. PICK q \in 1..nu : q = k - (ns + 1)
      BY <2>3
    <3>2. k - ns = q + 1 /\ x[k] = t[k - ns] /\ y[k] = u[k - (ns + 1)]
      BY <1>8, <1>9, <1>10, <1>11, <1>12, <2>3, <3>1
    <3>3. u[q] = t[q + 1]
      BY <1>1, <1>3, <1>11, <3>1
    <3>. QED
      BY <3>1, <3>2, <3>3
  <2>. QED
    BY <2>1, <2>2, <2>3
<1>14. x = y
  <2>1. x = [k \in 1..ns + nu + 1 |-> x[k]] /\ y = [k \in 1..ns + nu + 1 |-> y[k]]
    <3>1. \A z \in Texts : z = [k \in 1..Len(z) |-> z[k]]
      BY DEF Texts
    <3>2. x = [k \in 1..Len(x) |-> x[k]] /\ y = [k \in 1..Len(y) |-> y[k]]
      BY <1>8, <1>9, <3>1
    <3>3. Len(x) = ns + nu + 1 /\ Len(y) = ns + nu + 1
      BY <1>12
    <3>. QED
      BY <3>2, <3>3, Zenon
  <2>2. [k \in 1..ns + nu + 1 |-> x[k]] = [k \in 1..ns + nu + 1 |-> y[k]]
    BY <1>13
  <2>. QED
    BY <2>1, <2>2
<1>15. Len(s) + 1 \in 1..Len(x) /\ x[Len(s) + 1] = h
  <2>1. PICK k \in 1..ns + nu + 1 : k = ns + 1
    BY <1>10
  <2>2. y[k] = x[k] /\ y[k] = a[k]
    BY <1>9, <1>10, <1>11, <1>12, <1>13, <2>1
  <2>. QED
    BY <1>5, <1>10, <1>12, <2>1, <2>2
<1>16. \A k \in 1..Len(a) : (k \in 1..Len(s) /\ a[k] = s[k]) \/ a[k] = h
  <2>1. \A k \in 1..ns + 1 : k \in 1..ns \/ k = ns + 1
    OBVIOUS
  <2>. QED
    BY <1>5, <1>10, <2>1
<1>. QED
  BY <1>1, <1>2, <1>3, <1>4, <1>5, <1>6, <1>7, <1>14, <1>15, <1>16

(* A step of one thread in its call, that touches only its own entry.      *)
LEMMA ThreadStep ==
  ASSUME RouterInv, NEW t \in Threads, Busy(t), NEW c \in RouterCalls, NEW e \in Entry,
         c.nr = call[t].nr, call' = [call EXCEPT ![t] = c], dms' = [dms EXCEPT ![call[t].nr] = e],
         UNCHANGED <<disabled, env>>, EntryOK(e),
         c.step # "idle" =>
           /\ e.result = "open" /\ ~e.telegram
           /\ c.step = "discord" => /\ e.discord \o c.left = ChunksOf(e.message)
                                    /\ "discord" \notin e.barred
           /\ c.step = "telegram" => "telegram" \notin e.barred
  PROVE  RouterInv'
<1>1. PICK i : i = call[t].nr
  OBVIOUS
<1>2. /\ i \in 1..Len(dms) /\ dms \in Seq(Entry) /\ Len(dms) \in Nat /\ Len(dms) <= MaxCalls
      /\ call \in [Threads -> RouterCalls]
  <2>1. dms \in Seq(Entry) /\ Len(dms) <= MaxCalls /\ call \in [Threads -> RouterCalls]
    BY DEF RouterInv, CallsTyped
  <2>2. Len(dms) \in Nat
    BY <2>1
  <2>3. call[t].nr \in 0..Len(dms) /\ call[t].nr # 0
    BY DEF RouterInv, CallsOK
  <2>. QED
    BY <1>1, <2>1, <2>2, <2>3
<1>3. dms' \in Seq(Entry) /\ Len(dms') = Len(dms) /\ dms'[i] = e /\ \A n \in 1..Len(dms) : n # i => dms'[n] = dms[n]
  BY <1>1, <1>2, ExceptSeq
<1>4. call' \in [Threads -> RouterCalls] /\ call'[t] = c /\ \A u \in Threads : u # t => call'[u] = call[u]
  BY <1>2
<1>5. CallsTyped'
  BY <1>2, <1>3, <1>4 DEF RouterInv, CallsTyped
<1>6. \A n \in 1..Len(dms) : EntryOK(dms[n])'
  <2>1. SUFFICES ASSUME NEW n \in 1..Len(dms) PROVE EntryOK(dms[n])'
    OBVIOUS
  <2>2. EntryOK(dms[n])
    BY DEF RouterInv
  <2>3. dms'[n] = e \/ dms'[n] = dms[n]
    BY <1>3
  <2>. QED
    BY <2>2, <2>3 DEF EntryOK
<1>7. ASSUME NEW u \in Threads
      PROVE  /\ call'[u].nr \in 0..Len(dms')
             /\ Busy(u)' =>
                 /\ call'[u].nr # 0 /\ dms'[call'[u].nr].result = "open" /\ ~dms'[call'[u].nr].telegram
                 /\ call'[u].step = "discord" =>
                      /\ dms'[call'[u].nr].discord \o call'[u].left = ChunksOf(dms'[call'[u].nr].message)
                      /\ "discord" \notin dms'[call'[u].nr].barred
                 /\ call'[u].step = "telegram" => "telegram" \notin dms'[call'[u].nr].barred
  <2>1. CASE u = t
    <3>1. call'[u] = c /\ c.nr = i /\ dms'[i] = e /\ i # 0 /\ i \in 0..Len(dms')
      BY <1>1, <1>2, <1>3, <1>4, <2>1
    <3>2. Busy(u)' <=> c.step # "idle"
      BY <3>1 DEF Busy
    <3>. QED
      BY <3>1, <3>2
  <2>2. CASE u # t
    <3>1. call'[u] = call[u] /\ (Busy(u)' <=> Busy(u)) /\ call[u].nr \in 0..Len(dms)
      BY <1>4, <2>2 DEF Busy, RouterInv, CallsOK
    <3>2. Busy(u) => call[u].nr # i /\ call[u].nr # 0
      BY <1>1, <2>2 DEF RouterInv, CallsOK
    <3>3. Busy(u) => dms'[call[u].nr] = dms[call[u].nr]
      BY <1>2, <1>3, <3>1, <3>2
    <3>. QED
      BY <1>3, <3>1, <3>2, <3>3 DEF RouterInv, CallsOK
  <2>. QED
    BY <2>1, <2>2
<1>8. ASSUME NEW u \in Threads, NEW v \in Threads, Busy(u)', Busy(v)', u # v
      PROVE  call'[u].nr # call'[v].nr
  <2>1. \A w \in Threads : call'[w].nr = call[w].nr /\ (Busy(w)' => Busy(w))
    <3>1. SUFFICES ASSUME NEW w \in Threads PROVE call'[w].nr = call[w].nr /\ (Busy(w)' => Busy(w))
      OBVIOUS
    <3>2. CASE w = t
      BY <1>4, <3>2
    <3>3. CASE w # t
      BY <1>4, <3>3 DEF Busy
    <3>. QED
      BY <3>2, <3>3
  <2>. QED
    BY <1>8, <2>1 DEF RouterInv, CallsOK
<1>9. CallsOK'
  BY <1>7, <1>8, Zenon DEF CallsOK
<1>. QED
  BY <1>3, <1>5, <1>6, <1>9 DEF RouterInv

LEMMA BusyCall ==
  ASSUME RouterInv, NEW t \in Threads, Busy(t)
  PROVE  /\ call[t] \in RouterCalls /\ call[t].nr \in 1..Len(dms) /\ call \in [Threads -> RouterCalls]
         /\ dms \in Seq(Entry) /\ dms[call[t].nr] \in Entry /\ EntryOK(dms[call[t].nr])
         /\ dms[call[t].nr].result = "open" /\ ~dms[call[t].nr].telegram
         /\ call[t].step = "discord" =>
              /\ dms[call[t].nr].discord \o call[t].left = ChunksOf(dms[call[t].nr].message)
              /\ "discord" \notin dms[call[t].nr].barred
         /\ call[t].step = "telegram" => "telegram" \notin dms[call[t].nr].barred
<1>1. dms \in Seq(Entry) /\ call \in [Threads -> RouterCalls] /\ Len(dms) \in Nat
  BY DEF RouterInv, CallsTyped
<1>2. call[t].nr \in 1..Len(dms)
  <2>1. call[t].nr \in 0..Len(dms) /\ call[t].nr # 0
    BY DEF RouterInv, CallsOK
  <2>. QED
    BY <1>1, <2>1
<1>3. dms[call[t].nr] \in Entry /\ EntryOK(dms[call[t].nr])
  BY <1>1, <1>2 DEF RouterInv
<1>. QED
  BY <1>1, <1>2, <1>3 DEF RouterInv, CallsOK

LEMMA CallChanges ==
  ASSUME NEW c \in RouterCalls, NEW n \in Nat
  PROVE  /\ [c EXCEPT !.step = "fallback"] \in RouterCalls
         /\ [c EXCEPT !.step = "fallback"].step = "fallback" /\ [c EXCEPT !.step = "fallback"].nr = c.nr
         /\ [c EXCEPT !.step = "telegram"] \in RouterCalls
         /\ [c EXCEPT !.step = "telegram"].step = "telegram" /\ [c EXCEPT !.step = "telegram"].nr = c.nr
         /\ [Idle EXCEPT !.nr = n] \in RouterCalls
         /\ [Idle EXCEPT !.nr = n].step = "idle" /\ [Idle EXCEPT !.nr = n].nr = n
<1>1. Idle \in [step : {"idle"}, nr : Nat, left : {<<>>}, id : {FALSE}] /\ <<>> \in Texts
  BY DEF Idle, Texts
<1>. QED
  BY <1>1 DEF RouterCalls

LEMMA EntryPosts ==
  ASSUME NEW e \in Entry, NEW d \in Texts
  PROVE  /\ [e EXCEPT !.discord = d] \in Entry
         /\ [e EXCEPT !.discord = d].discord = d /\ [e EXCEPT !.discord = d].message = e.message
         /\ [e EXCEPT !.discord = d].result = e.result /\ [e EXCEPT !.discord = d].telegram = e.telegram
         /\ [e EXCEPT !.discord = d].barred = e.barred
BY DEF Entry

LEMMA EntryEnds ==
  ASSUME NEW e \in Entry, NEW r \in {"open", "id", "none", "lost"}
  PROVE  /\ [e EXCEPT !.result = r] \in Entry
         /\ [e EXCEPT !.result = r].result = r /\ [e EXCEPT !.result = r].message = e.message
         /\ [e EXCEPT !.result = r].discord = e.discord /\ [e EXCEPT !.result = r].telegram = e.telegram
         /\ [e EXCEPT !.result = r].barred = e.barred
BY DEF Entry

(* A call gives up the Discord route, with what it has posted.             *)
LEMMA FallsBack ==
  ASSUME RouterInv, NEW t \in Threads, Busy(t), NEW e \in Entry,
         call' = [call EXCEPT ![t].step = "fallback"], dms' = [dms EXCEPT ![call[t].nr] = e],
         UNCHANGED <<disabled, env>>, EntryOK(e), e.result = "open", ~e.telegram
  PROVE  RouterInv'
<1>1. call[t] \in RouterCalls /\ call \in [Threads -> RouterCalls]
  BY BusyCall
<1>2. PICK c : c = [call[t] EXCEPT !.step = "fallback"]
  OBVIOUS
<1>3. c \in RouterCalls /\ c.step = "fallback" /\ c.nr = call[t].nr
  BY <1>1, <1>2, CallChanges
<1>4. call' = [call EXCEPT ![t] = c]
  BY <1>1, <1>2
<1>. QED
  BY <1>3, <1>4, ThreadStep

LEMMA PostChunkStep ==
  ASSUME RouterInv, NEW t \in Threads, PostChunk(t)
  PROVE  RouterInv'
<1>1. Busy(t) /\ call[t].step = "discord" /\ call[t].left # <<>> /\ UNCHANGED <<disabled, env>>
  BY DEF PostChunk, Busy, Others
<1>2. PICK i : i = call[t].nr
  OBVIOUS
<1>3. PICK e : e = dms[i]
  OBVIOUS
<1>4. /\ call[t] \in RouterCalls /\ call \in [Threads -> RouterCalls] /\ i \in 1..Len(dms) /\ dms \in Seq(Entry)
      /\ e \in Entry /\ EntryOK(e) /\ e.result = "open" /\ ~e.telegram /\ "discord" \notin e.barred
      /\ e.discord \o call[t].left = ChunksOf(e.message)
  BY <1>1, <1>2, <1>3, BusyCall
<1>5. e.message \in Sent /\ e.discord \in Texts /\ call[t].left \in Texts
  BY <1>4 DEF Entry, RouterCalls
<1>6. PICK chunk : chunk = Head(call[t].left)
  OBVIOUS
<1>7. PICK posted : posted = Append(e.discord, chunk)
  OBVIOUS
<1>8. /\ chunk \in Text /\ Tail(call[t].left) \in Texts /\ posted \in Texts
      /\ posted \o Tail(call[t].left) = ChunksOf(e.message)
      /\ Len(e.discord) + 1 \in 1..Len(ChunksOf(e.message)) /\ ChunksOf(e.message)[Len(e.discord) + 1] = chunk
      /\ \A k \in 1..Len(posted) : (k \in 1..Len(e.discord) /\ posted[k] = e.discord[k]) \/ posted[k] = chunk
  <2>1. PICK d \in Texts : d = e.discord
    BY <1>5
  <2>2. PICK left \in Texts : left = call[t].left
    BY <1>5
  <2>3. left # <<>> /\ d \o left = ChunksOf(e.message) /\ chunk = Head(left) /\ posted = Append(d, Head(left))
    BY <1>1, <1>4, <1>6, <1>7, <2>1, <2>2
  <2>4. /\ Head(left) \in Text /\ Tail(left) \in Texts /\ Append(d, Head(left)) \in Texts
        /\ Append(d, Head(left)) \o Tail(left) = d \o left
        /\ Len(d) + 1 \in 1..Len(d \o left) /\ (d \o left)[Len(d) + 1] = Head(left)
        /\ \A k \in 1..Len(Append(d, Head(left))) :
             (k \in 1..Len(d) /\ Append(d, Head(left))[k] = d[k]) \/ Append(d, Head(left))[k] = Head(left)
    BY <2>3, NextChunk
  <2>. QED
    BY <2>1, <2>2, <2>3, <2>4, Zenon
<1>9. Len(chunk) <= Limit
  <2>1. AllShow(ChunksOf(e.message), Places(LinesOf(e.message)))
    BY <1>5, SentChunks
  <2>. QED
    BY <1>8, <2>1 DEF AllShow
<1>10. PICK outcome \in {"sent", "lost", "refused"} :
         /\ outcome # "refused" => chunk # <<>>
         /\ call' = AfterChunk(t, outcome = "sent")
         /\ dms' = IF outcome = "refused" THEN dms ELSE [dms EXCEPT ![i].discord = Append(@, chunk)]
  BY <1>2, <1>6 DEF PostChunk
<1>11. CASE outcome = "refused"
  <2>1. call' = [call EXCEPT ![t].step = "fallback"] /\ dms' = dms
    BY <1>10, <1>11 DEF AfterChunk
  <2>2. dms' = [dms EXCEPT ![call[t].nr] = e]
    BY <1>2, <1>3, <1>4, <2>1
  <2>. QED
    BY <1>1, <1>4, <2>1, <2>2, FallsBack
<1>12. CASE outcome # "refused"
  <2>1. PICK new : new = [e EXCEPT !.discord = posted]
    OBVIOUS
  <2>2. /\ new \in Entry /\ new.discord = posted /\ new.message = e.message /\ new.result = "open"
        /\ ~new.telegram /\ new.barred = e.barred
    BY <1>4, <1>8, <2>1, EntryPosts
  <2>3. dms' = [dms EXCEPT ![call[t].nr] = new]
    BY <1>2, <1>3, <1>4, <1>7, <1>10, <1>12, <2>1
  <2>4. \A k \in 1..Len(posted) : Len(posted[k]) \in 1..Limit
    <3>1. Len(chunk) \in 1..Limit
      <4>1. Len(chunk) \in Nat /\ chunk # <<>> /\ Limit \in Nat
        BY <1>8, <1>10, <1>12, DmAssumption DEF Text
      <4>2. Len(chunk) # 0
        BY <1>8, <4>1 DEF Text
      <4>. QED
        BY <1>9, <4>1, <4>2
    <3>. QED
      BY <1>4, <1>8, <3>1 DEF EntryOK
  <2>5. EntryOK(new)
    <3>1. e.barred \subseteq disabled
      BY <1>4 DEF EntryOK
    <3>. QED
      BY <1>4, <2>2, <2>4, <3>1 DEF EntryOK
  <2>6. CASE outcome = "sent"
    <3>1. PICK c : c = [call[t] EXCEPT !.left = Tail(call[t].left), !.id = TRUE]
      OBVIOUS
    <3>2. c \in RouterCalls /\ c.step = "discord" /\ c.nr = call[t].nr /\ c.left = Tail(call[t].left)
      BY <1>1, <1>4, <1>8, <3>1 DEF RouterCalls
    <3>3. call' = [call EXCEPT ![t] = c]
      BY <1>4, <1>10, <2>6, <3>1 DEF AfterChunk
    <3>4. new.discord \o c.left = ChunksOf(new.message) /\ "discord" \notin new.barred
      BY <1>4, <1>8, <2>2, <3>2
    <3>. QED
      BY <1>1, <2>2, <2>3, <2>5, <3>2, <3>3, <3>4, ThreadStep
  <2>7. CASE outcome # "sent"
    <3>1. call' = [call EXCEPT ![t].step = "fallback"]
      BY <1>10, <2>7 DEF AfterChunk
    <3>. QED
      BY <1>1, <2>2, <2>3, <2>5, <3>1, FallsBack
  <2>. QED
    BY <2>6, <2>7
<1>. QED
  BY <1>11, <1>12

(* The call returns: its entry e says with what.                           *)
LEMMA Returns ==
  ASSUME RouterInv, NEW t \in Threads, Busy(t), NEW e \in Entry, EntryOK(e),
         call' = [call EXCEPT ![t] = [Idle EXCEPT !.nr = call[t].nr]],
         dms' = [dms EXCEPT ![call[t].nr] = e], UNCHANGED <<disabled, env>>
  PROVE  RouterInv'
<1>1. call[t] \in RouterCalls /\ call[t].nr \in Nat
  BY BusyCall DEF RouterCalls
<1>2. PICK c : c = [Idle EXCEPT !.nr = call[t].nr]
  OBVIOUS
<1>3. c \in RouterCalls /\ c.step = "idle" /\ c.nr = call[t].nr
  BY <1>1, <1>2, CallChanges
<1>. QED
  BY <1>2, <1>3, ThreadStep

LEMMA PostFilesStep ==
  ASSUME RouterInv, NEW t \in Threads, PostFiles(t)
  PROVE  RouterInv'
<1>1. Busy(t) /\ call[t].step = "discord" /\ call[t].left = <<>> /\ UNCHANGED <<disabled, env>>
  BY DEF PostFiles, Busy, Others
<1>2. PICK i : i = call[t].nr
  OBVIOUS
<1>3. PICK e : e = dms[i]
  OBVIOUS
<1>4. /\ i \in 1..Len(dms) /\ dms \in Seq(Entry)
      /\ e \in Entry /\ EntryOK(e) /\ e.result = "open" /\ ~e.telegram /\ "discord" \notin e.barred
      /\ e.discord \o call[t].left = ChunksOf(e.message)
  BY <1>1, <1>2, <1>3, BusyCall
<1>5. \/ Return(t, "id")
      \/ call' = [call EXCEPT ![t].step = "fallback"] /\ dms' = dms
  BY DEF PostFiles
<1>6. CASE Return(t, "id")
  <2>1. PICK new : new = [e EXCEPT !.result = "id"]
    OBVIOUS
  <2>2. /\ new \in Entry /\ new.result = "id" /\ new.message = e.message /\ new.discord = e.discord
        /\ new.telegram = e.telegram /\ new.barred = e.barred
    <3>1. "id" \in {"open", "id", "none", "lost"}
      OBVIOUS
    <3>. QED
      BY <1>4, <2>1, <3>1, EntryEnds
  <2>3. e.discord = ChunksOf(e.message)
    <3>1. e.discord \in Texts
      BY <1>4 DEF Entry
    <3>2. e.discord \o <<>> = e.discord
      BY <3>1, ConcatEmptySeq DEF Texts
    <3>. QED
      BY <1>1, <1>4, <3>2
  <2>4. EntryOK(new)
    BY <1>4, <2>2, <2>3 DEF EntryOK
  <2>5. dms' = [dms EXCEPT ![call[t].nr] = new]
    BY <1>2, <1>3, <1>4, <1>6, <2>1 DEF Return
  <2>6. call' = [call EXCEPT ![t] = [Idle EXCEPT !.nr = call[t].nr]]
    BY <1>6 DEF Return
  <2>. QED
    BY <1>1, <2>2, <2>4, <2>5, <2>6, Returns
<1>7. CASE call' = [call EXCEPT ![t].step = "fallback"] /\ dms' = dms
  <2>1. dms' = [dms EXCEPT ![call[t].nr] = e]
    BY <1>2, <1>3, <1>4, <1>7
  <2>. QED
    BY <1>1, <1>4, <1>7, <2>1, FallsBack
<1>. QED
  BY <1>5, <1>6, <1>7

LEMMA FallbackStep ==
  ASSUME RouterInv, NEW t \in Threads, Fallback(t)
  PROVE  RouterInv'
<1>1. Busy(t) /\ call[t].step = "fallback" /\ UNCHANGED <<disabled, env>>
  BY DEF Fallback, Busy, Others
<1>2. PICK i : i = call[t].nr
  OBVIOUS
<1>3. PICK e : e = dms[i]
  OBVIOUS
<1>4. /\ call[t] \in RouterCalls /\ call \in [Threads -> RouterCalls] /\ i \in 1..Len(dms) /\ dms \in Seq(Entry)
      /\ e \in Entry /\ EntryOK(e) /\ e.result = "open" /\ ~e.telegram
  BY <1>1, <1>2, <1>3, BusyCall
<1>5. \/ Return(t, "none")
      \/ /\ call' = [call EXCEPT ![t].step = "telegram"] /\ dms' = dms /\ ~KillSwitch("telegram")
  BY DEF Fallback
<1>6. CASE Return(t, "none")
  <2>1. PICK new : new = [e EXCEPT !.result = "none"]
    OBVIOUS
  <2>2. /\ new \in Entry /\ new.result = "none" /\ new.message = e.message /\ new.discord = e.discord
        /\ new.telegram = e.telegram /\ new.barred = e.barred
    <3>1. "none" \in {"open", "id", "none", "lost"}
      OBVIOUS
    <3>. QED
      BY <1>4, <2>1, <3>1, EntryEnds
  <2>3. EntryOK(new)
    BY <1>4, <2>2 DEF EntryOK
  <2>4. dms' = [dms EXCEPT ![call[t].nr] = new]
    BY <1>2, <1>3, <1>4, <1>6, <2>1 DEF Return
  <2>5. call' = [call EXCEPT ![t] = [Idle EXCEPT !.nr = call[t].nr]]
    BY <1>6 DEF Return
  <2>. QED
    BY <1>1, <2>2, <2>3, <2>4, <2>5, Returns
<1>7. CASE call' = [call EXCEPT ![t].step = "telegram"] /\ dms' = dms /\ ~KillSwitch("telegram")
  <2>1. dms' = [dms EXCEPT ![call[t].nr] = e]
    BY <1>2, <1>3, <1>4, <1>7
  <2>2. "telegram" \notin e.barred
    BY <1>4, <1>7 DEF KillSwitch, EntryOK
  <2>3. PICK c : c = [call[t] EXCEPT !.step = "telegram"]
    OBVIOUS
  <2>4. c \in RouterCalls /\ c.step = "telegram" /\ c.nr = call[t].nr
    BY <1>4, <2>3, CallChanges
  <2>5. call' = [call EXCEPT ![t] = c]
    BY <1>4, <1>7, <2>3
  <2>. QED
    BY <1>1, <1>4, <2>1, <2>2, <2>4, <2>5, ThreadStep
<1>. QED
  BY <1>5, <1>6, <1>7

LEMMA TelegramSendStep ==
  ASSUME RouterInv, NEW t \in Threads, TelegramSend(t)
  PROVE  RouterInv'
<1>1. Busy(t) /\ call[t].step = "telegram" /\ UNCHANGED <<disabled, env>>
  BY DEF TelegramSend, Busy, Others
<1>2. PICK i : i = call[t].nr
  OBVIOUS
<1>3. PICK e : e = dms[i]
  OBVIOUS
<1>4. /\ i \in 1..Len(dms) /\ dms \in Seq(Entry) /\ e \in Entry /\ EntryOK(e) /\ "telegram" \notin e.barred
  BY <1>1, <1>2, <1>3, BusyCall
<1>5. PICK outcome \in {"sent", "lost", "refused"} :
        /\ call' = [call EXCEPT ![t] = [Idle EXCEPT !.nr = call[t].nr]]
        /\ dms' = [dms EXCEPT ![i] = [@ EXCEPT !.result   = IF outcome = "sent" THEN "id" ELSE "none",
                                              !.telegram = outcome # "refused"]]
  BY <1>2 DEF TelegramSend
<1>6. PICK r \in {"id", "none"} : r = IF outcome = "sent" THEN "id" ELSE "none"
  OBVIOUS
<1>7. PICK told \in BOOLEAN : told = (outcome # "refused")
  OBVIOUS
<1>8. PICK new : new = [e EXCEPT !.result = r, !.telegram = told]
  OBVIOUS
<1>9. /\ new \in Entry /\ new.result = r /\ new.message = e.message /\ new.discord = e.discord
      /\ new.telegram = told /\ new.barred = e.barred
  BY <1>4, <1>8 DEF Entry
<1>10. EntryOK(new)
  <2>1. r = "id" => told
    BY <1>6, <1>7
  <2>. QED
    BY <1>4, <1>9, <2>1 DEF EntryOK
<1>11. dms' = [dms EXCEPT ![call[t].nr] = new]
  BY <1>2, <1>3, <1>4, <1>5, <1>6, <1>7, <1>8
<1>. QED
  BY <1>1, <1>5, <1>9, <1>10, <1>11, Returns

LEMMA BeginStep ==
  ASSUME RouterInv, NEW t \in Threads, NEW m \in Sent, Begin(t, m), UNCHANGED <<disabled, env>>
  PROVE  RouterInv'
<1>1. /\ dms \in Seq(Entry) /\ Len(dms) \in Nat /\ Len(dms) <= MaxCalls /\ MaxCalls \in Nat
      /\ call \in [Threads -> RouterCalls] /\ disabled \in SUBSET Routes
  BY DmAssumption DEF RouterInv, CallsTyped
<1>2. PICK nr \in Nat : nr = Len(dms) + 1
  BY <1>1
<1>3. PICK c : c = [step |-> IF KillSwitch("discord") THEN "fallback" ELSE "discord",
                    nr |-> nr, left |-> ChunksOf(m), id |-> FALSE]
  OBVIOUS
<1>4. /\ c \in RouterCalls /\ c.nr = nr /\ c.left = ChunksOf(m) /\ c.step \in {"fallback", "discord"}
      /\ c.step = "discord" => "discord" \notin disabled
  <2>1. ChunksOf(m) \in Texts
    BY SentChunks
  <2>. QED
    BY <1>3, <2>1 DEF RouterCalls, KillSwitch
<1>5. PICK e : e = [message |-> m, result |-> "open", discord |-> <<>>, telegram |-> FALSE,
                    barred |-> disabled]
  OBVIOUS
<1>6. /\ e \in Entry /\ e.message = m /\ e.result = "open" /\ e.discord = <<>> /\ e.telegram = FALSE
      /\ e.barred = disabled
  <2>1. <<>> \in Texts
    BY DEF Texts
  <2>. QED
    BY <1>1, <1>5, <2>1 DEF Entry
<1>7. call' = [call EXCEPT ![t] = c] /\ dms' = Append(dms, e) /\ Len(dms) < MaxCalls
  BY <1>2, <1>3, <1>5 DEF Begin, ChunksOf
<1>8. /\ dms' \in Seq(Entry) /\ Len(dms') = nr /\ dms'[nr] = e
      /\ \A n \in 1..Len(dms) : dms'[n] = dms[n]
  BY <1>1, <1>2, <1>6, <1>7, AppendProperties
<1>9. call' \in [Threads -> RouterCalls] /\ call'[t] = c /\ \A u \in Threads : u # t => call'[u] = call[u]
  BY <1>1, <1>4, <1>7
<1>10. CallsTyped'
  BY <1>1, <1>2, <1>7, <1>8, <1>9 DEF RouterInv, CallsTyped
<1>11. EntryOK(e)'
  BY <1>6 DEF EntryOK
<1>12. \A n \in 1..nr : EntryOK(dms[n])'
  <2>1. SUFFICES ASSUME NEW n \in 1..nr PROVE EntryOK(dms[n])'
    OBVIOUS
  <2>2. CASE n = nr
    BY <1>8, <1>11, <2>2 DEF EntryOK
  <2>3. CASE n # nr
    <3>1. n \in 1..Len(dms)
      BY <1>1, <1>2, <2>3
    <3>2. EntryOK(dms[n]) /\ dms'[n] = dms[n]
      BY <1>8, <3>1 DEF RouterInv
    <3>. QED
      BY <3>2 DEF EntryOK
  <2>. QED
    BY <2>2, <2>3
<1>13. e.discord \o c.left = ChunksOf(e.message)
  <2>1. PICK all \in Seq(Text) : all = ChunksOf(m)
    BY SentChunks DEF Texts
  <2>2. <<>> \o all = all
    BY <2>1, ConcatEmptySeq
  <2>. QED
    BY <1>4, <1>6, <2>1, <2>2
<1>14. ASSUME NEW u \in Threads
      PROVE  /\ call'[u].nr \in 0..Len(dms')
             /\ Busy(u)' =>
                 /\ call'[u].nr # 0 /\ dms'[call'[u].nr].result = "open" /\ ~dms'[call'[u].nr].telegram
                 /\ call'[u].step = "discord" =>
                      /\ dms'[call'[u].nr].discord \o call'[u].left = ChunksOf(dms'[call'[u].nr].message)
                      /\ "discord" \notin dms'[call'[u].nr].barred
                 /\ call'[u].step = "telegram" => "telegram" \notin dms'[call'[u].nr].barred
  <2>1. CASE u = t
    <3>1. call'[u] = c /\ dms'[nr] = e /\ nr # 0 /\ nr \in 0..Len(dms')
      BY <1>2, <1>1, <1>8, <1>9, <2>1
    <3>2. c.step # "telegram"
      BY <1>4
    <3>. QED
      BY <1>4, <1>6, <1>13, <3>1, <3>2
  <2>2. CASE u # t
    <3>1. call'[u] = call[u] /\ (Busy(u)' <=> Busy(u)) /\ call[u].nr \in 0..Len(dms)
      BY <1>9, <2>2 DEF Busy, RouterInv, CallsOK
    <3>2. call[u].nr \in 0..Len(dms')
      BY <1>1, <1>2, <1>8, <3>1
    <3>3. Busy(u) => call[u].nr \in 1..Len(dms)
      BY BusyCall, Zenon
    <3>4. Busy(u) => dms'[call[u].nr] = dms[call[u].nr]
      BY <1>8, <3>3
    <3>. QED
      BY <3>1, <3>2, <3>4 DEF RouterInv, CallsOK
  <2>. QED
    BY <2>1, <2>2
<1>15. ASSUME NEW u \in Threads, NEW v \in Threads, Busy(u)', Busy(v)', u # v
      PROVE  call'[u].nr # call'[v].nr
  <2>1. \A w \in Threads : w # t => call'[w] = call[w] /\ call[w].nr \in 0..Len(dms)
    BY <1>9 DEF RouterInv, CallsOK
  <2>2. CASE u # t /\ v # t
    BY <1>15, <2>1, <2>2 DEF RouterInv, CallsOK, Busy
  <2>3. CASE u = t \/ v = t
    <3>1. \A k \in 0..Len(dms) : k # nr
      BY <1>1, <1>2
    <3>. QED
      BY <1>4, <1>9, <1>15, <2>1, <2>3, <3>1
  <2>. QED
    BY <2>2, <2>3
<1>16. CallsOK'
  BY <1>14, <1>15, Zenon DEF CallsOK
<1>. QED
  BY <1>8, <1>10, <1>12, <1>16 DEF RouterInv

(* All entries change at once, the open ones in what they are barred by or *)
(* in their result.                                                        *)
LEMMA EntriesStep ==
  ASSUME RouterInv, disabled' \in SUBSET Routes, env' \in SUBSET Routes,
         DOMAIN dms' = 1..Len(dms), dms' = [n \in 1..Len(dms) |-> dms'[n]],
         \A n \in 1..Len(dms) :
           /\ dms'[n] \in Entry /\ dms'[n].message = dms[n].message /\ dms'[n].discord = dms[n].discord
           /\ dms'[n].telegram = dms[n].telegram /\ dms'[n].barred \subseteq dms[n].barred
           /\ dms'[n].result = "open" => dms[n].result = "open" /\ dms'[n].barred \subseteq disabled'
           /\ dms'[n].result = "id" <=> dms[n].result = "id",
         \/ call' = [t \in Threads |-> Idle]
         \/ call' = call /\ \A n \in 1..Len(dms) : dms'[n].result = dms[n].result
  PROVE  RouterInv'
<1>1. dms \in Seq(Entry) /\ Len(dms) \in Nat /\ Len(dms) <= MaxCalls /\ call \in [Threads -> RouterCalls]
  BY DEF RouterInv, CallsTyped
<1>2. dms' \in Seq(Entry) /\ Len(dms') = Len(dms)
  BY <1>1
<1>3. \A n \in 1..Len(dms) : EntryOK(dms[n])'
  <2>1. SUFFICES ASSUME NEW n \in 1..Len(dms) PROVE EntryOK(dms[n])'
    OBVIOUS
  <2>2. EntryOK(dms[n])
    BY DEF RouterInv
  <2>. QED
    BY <2>2 DEF EntryOK
<1>4. Idle \in RouterCalls /\ Idle.step = "idle" /\ Idle.nr = 0
  <2>1. <<>> \in Texts
    BY DEF Texts
  <2>. QED
    BY <2>1 DEF Idle, RouterCalls
<1>5. CallsTyped'
  BY <1>1, <1>2, <1>4 DEF CallsTyped
<1>6. CASE call' = [t \in Threads |-> Idle]
  <2>1. \A t \in Threads : call'[t].nr = 0 /\ ~Busy(t)'
    BY <1>4, <1>6 DEF Busy
  <2>2. 0 \in 0..Len(dms')
    BY <1>1, <1>2
  <2>. QED
    BY <1>2, <1>3, <1>5, <2>1, <2>2 DEF RouterInv, CallsOK
<1>7. CASE call' = call /\ \A n \in 1..Len(dms) : dms'[n].result = dms[n].result
  <2>1. ASSUME NEW u \in Threads, Busy(u)
        PROVE  /\ call[u].nr # 0 /\ dms'[call[u].nr].result = "open" /\ ~dms'[call[u].nr].telegram
               /\ call[u].step = "discord" =>
                    /\ dms'[call[u].nr].discord \o call[u].left = ChunksOf(dms'[call[u].nr].message)
                    /\ "discord" \notin dms'[call[u].nr].barred
               /\ call[u].step = "telegram" => "telegram" \notin dms'[call[u].nr].barred
    <3>1. PICK i : i = call[u].nr
      OBVIOUS
    <3>2. /\ i \in 1..Len(dms) /\ dms[i].result = "open" /\ ~dms[i].telegram
          /\ call[u].step = "discord" =>
               dms[i].discord \o call[u].left = ChunksOf(dms[i].message) /\ "discord" \notin dms[i].barred
          /\ call[u].step = "telegram" => "telegram" \notin dms[i].barred
      BY <2>1, <3>1, BusyCall
    <3>3. /\ dms'[i].message = dms[i].message /\ dms'[i].discord = dms[i].discord
          /\ dms'[i].telegram = dms[i].telegram /\ dms'[i].barred \subseteq dms[i].barred
          /\ dms'[i].result = dms[i].result
      BY <1>7, <3>2
    <3>4. i # 0
      BY <3>2
    <3>. QED
      BY <3>1, <3>2, <3>3, <3>4
  <2>2. \A u \in Threads : call'[u] = call[u] /\ (Busy(u)' <=> Busy(u))
    BY <1>7 DEF Busy
  <2>3. CallsOK'
    <3>1. \A t \in Threads : call[t].nr \in 0..Len(dms')
      BY <1>2 DEF CallsOK, RouterInv
    <3>2. \A t, u \in Threads : Busy(t) /\ Busy(u) /\ t # u => call[t].nr # call[u].nr
      BY DEF CallsOK, RouterInv
    <3>3. call' = call
      BY <1>7
    <3>. QED
      BY <2>1, <3>1, <3>2, <3>3 DEF CallsOK, Busy
  <2>. QED
    BY <1>2, <1>3, <1>5, <2>3 DEF RouterInv
<1>. QED
  BY <1>6, <1>7

LEMMA SwitchStep ==
  ASSUME RouterInv, NEW r \in Routes, Disable(r) \/ Enable(r)
  PROVE  RouterInv'
<1>1. /\ dms \in Seq(Entry) /\ Len(dms) \in Nat /\ DOMAIN dms = 1..Len(dms)
      /\ disabled \in SUBSET Routes /\ env \in SUBSET Routes
      /\ \A n \in 1..Len(dms) : dms[n] \in Entry /\ EntryOK(dms[n])
  BY DEF RouterInv, CallsTyped
<1>2. CASE Disable(r)
  <2>1. /\ disabled' \in SUBSET Routes /\ env' \in SUBSET Routes /\ dms' = dms /\ call' = call
        /\ disabled \subseteq disabled'
    BY <1>1, <1>2 DEF Disable
  <2>2. dms' = [n \in 1..Len(dms) |-> dms'[n]]
    BY <1>1, <2>1
  <2>3. \A n \in 1..Len(dms) : dms'[n].result = "open" => dms'[n].barred \subseteq disabled'
    BY <1>1, <2>1 DEF EntryOK
  <2>. QED
    BY <1>1, <2>1, <2>2, <2>3, EntryFields, EntriesStep
<1>3. CASE Enable(r)
  <2>. DEFINE new(n) == IF dms[n].result = "open" THEN [dms[n] EXCEPT !.barred = @ \ {r}] ELSE dms[n]
  <2>1. /\ disabled' = disabled \ {r} /\ disabled' \in SUBSET Routes /\ env' \in SUBSET Routes /\ call' = call
        /\ dms' = [n \in 1..Len(dms) |-> new(n)]
    BY <1>1, <1>3 DEF Enable
  <2>2. ASSUME NEW n \in 1..Len(dms)
        PROVE  /\ new(n) \in Entry /\ new(n).message = dms[n].message /\ new(n).discord = dms[n].discord
               /\ new(n).telegram = dms[n].telegram /\ new(n).result = dms[n].result
               /\ new(n).barred \subseteq dms[n].barred
               /\ new(n).result = "open" => new(n).barred \subseteq disabled'
    <3>1. PICK e \in Entry : e = dms[n] /\ EntryOK(e)
      BY <1>1
    <3>2. CASE e.result = "open"
      <4>1. PICK b \in SUBSET Routes : b = e.barred \ {r}
        BY EntryFields
      <4>2. PICK x : x = [e EXCEPT !.barred = b]
        OBVIOUS
      <4>3. /\ x \in Entry /\ x.message = e.message /\ x.discord = e.discord /\ x.telegram = e.telegram
            /\ x.result = e.result /\ x.barred = b
        BY <4>2 DEF Entry
      <4>4. new(n) = x
        BY <3>1, <3>2, <4>1, <4>2
      <4>5. b \subseteq e.barred /\ b \subseteq disabled'
        BY <2>1, <3>1, <3>2, <4>1 DEF EntryOK
      <4>. HIDE DEF new
      <4>. QED
        BY <3>1, <4>3, <4>4, <4>5
    <3>3. CASE e.result # "open"
      <4>1. new(n) = e
        BY <3>1, <3>3
      <4>. HIDE DEF new
      <4>. QED
        BY <3>1, <3>3, <4>1
    <3>. QED
      BY <3>2, <3>3
  <2>. HIDE DEF new
  <2>3. DOMAIN dms' = 1..Len(dms) /\ dms' = [n \in 1..Len(dms) |-> dms'[n]]
        /\ \A n \in 1..Len(dms) : dms'[n] = new(n)
    BY <2>1
  <2>4. \A n \in 1..Len(dms) :
           /\ dms'[n] \in Entry /\ dms'[n].message = dms[n].message /\ dms'[n].discord = dms[n].discord
           /\ dms'[n].telegram = dms[n].telegram /\ dms'[n].barred \subseteq dms[n].barred
           /\ dms'[n].result = "open" => dms[n].result = "open" /\ dms'[n].barred \subseteq disabled'
           /\ dms'[n].result = "id" <=> dms[n].result = "id"
           /\ dms'[n].result = dms[n].result
    BY <2>2, <2>3
  <2>. QED
    BY <2>1, <2>3, <2>4, EntriesStep
<1>. QED
  BY <1>2, <1>3

LEMMA ProcessRestartStep ==
  ASSUME RouterInv, RestartProcess
  PROVE  RouterInv'
<1>1. /\ dms \in Seq(Entry) /\ Len(dms) \in Nat /\ DOMAIN dms = 1..Len(dms)
      /\ disabled \in SUBSET Routes /\ env \in SUBSET Routes
      /\ \A n \in 1..Len(dms) : dms[n] \in Entry /\ EntryOK(dms[n])
  BY DEF RouterInv, CallsTyped
<1>. DEFINE new(n) == IF dms[n].result = "open" THEN [dms[n] EXCEPT !.result = "lost"] ELSE dms[n]
<1>2. /\ disabled' \in SUBSET Routes /\ env' \in SUBSET Routes /\ call' = [t \in Threads |-> Idle]
      /\ dms' = [n \in 1..Len(dms) |-> new(n)]
  BY <1>1 DEF RestartProcess, Start
<1>3. ASSUME NEW n \in 1..Len(dms)
      PROVE  /\ new(n) \in Entry /\ new(n).message = dms[n].message /\ new(n).discord = dms[n].discord
             /\ new(n).telegram = dms[n].telegram /\ new(n).barred = dms[n].barred
             /\ new(n).result # "open" /\ (new(n).result = "id" <=> dms[n].result = "id")
  <2>1. PICK e \in Entry : e = dms[n]
    BY <1>1
  <2>2. CASE e.result = "open"
    <3>1. PICK x : x = [e EXCEPT !.result = "lost"]
      OBVIOUS
    <3>2. /\ x \in Entry /\ x.message = e.message /\ x.discord = e.discord /\ x.telegram = e.telegram
          /\ x.result = "lost" /\ x.barred = e.barred
      <4>1. "lost" \in {"open", "id", "none", "lost"}
        OBVIOUS
      <4>. QED
        BY <3>1, <4>1, EntryEnds
    <3>3. new(n) = x
      BY <2>1, <2>2, <3>1
    <3>. HIDE DEF new
    <3>. QED
      BY <2>1, <2>2, <3>2, <3>3
  <2>3. CASE e.result # "open"
    <3>1. new(n) = e
      BY <2>1, <2>3
    <3>. HIDE DEF new
    <3>. QED
      BY <2>1, <2>3, <3>1
  <2>. QED
    BY <2>2, <2>3
<1>. HIDE DEF new
<1>4. DOMAIN dms' = 1..Len(dms) /\ dms' = [n \in 1..Len(dms) |-> dms'[n]]
      /\ \A n \in 1..Len(dms) : dms'[n] = new(n)
  BY <1>2
<1>5. \A n \in 1..Len(dms) :
         /\ dms'[n] \in Entry /\ dms'[n].message = dms[n].message /\ dms'[n].discord = dms[n].discord
         /\ dms'[n].telegram = dms[n].telegram /\ dms'[n].barred \subseteq dms[n].barred
         /\ dms'[n].result = "open" => dms[n].result = "open" /\ dms'[n].barred \subseteq disabled'
         /\ dms'[n].result = "id" <=> dms[n].result = "id"
  BY <1>3, <1>4
<1>. QED
  BY <1>2, <1>4, <1>5, EntriesStep

LEMMA RouterSame ==
  ASSUME RouterInv, UNCHANGED <<disabled, env, call, dms>>
  PROVE  RouterInv'
<1>1. \A n \in 1..Len(dms) : EntryOK(dms[n])'
  BY DEF RouterInv, EntryOK
<1>2. CallsTyped' /\ CallsOK'
  BY DEF RouterInv, CallsTyped, CallsOK, Busy
<1>. QED
  BY <1>1, <1>2 DEF RouterInv

LEMMA RouterInit == DmInit => RouterInv
<1>. SUFFICES ASSUME DmInit PROVE RouterInv
  OBVIOUS
<1>1. Idle \in RouterCalls /\ Idle.step = "idle" /\ Idle.nr = 0
  <2>1. <<>> \in Texts
    BY DEF Texts
  <2>. QED
    BY <2>1 DEF Idle, RouterCalls
<1>2. dms = <<>> /\ call = [t \in Threads |-> Idle] /\ disabled \in SUBSET Routes /\ env = disabled
  BY DEF DmInit
<1>3. dms \in Seq(Entry) /\ Len(dms) = 0 /\ MaxCalls \in Nat
  BY <1>2, DmAssumption
<1>4. CallsTyped
  BY <1>1, <1>2, <1>3 DEF CallsTyped
<1>5. CallsOK
  <2>1. \A t \in Threads : call[t].nr = 0 /\ ~Busy(t)
    BY <1>1, <1>2 DEF Busy
  <2>2. 0 \in 0..Len(dms)
    BY <1>3
  <2>. QED
    BY <2>1, <2>2 DEF CallsOK
<1>. QED
  BY <1>3, <1>4, <1>5 DEF RouterInv

LEMMA RouterStep == RouterInv /\ [DmNext]_dmVars => RouterInv'
<1>. SUFFICES ASSUME RouterInv, [DmNext]_dmVars PROVE RouterInv'
  OBVIOUS
<1>1. CASE UNCHANGED dmVars
  BY <1>1, RouterSame DEF dmVars
<1>2. CASE \E r \in Routes : Disable(r) \/ Enable(r)
  BY <1>2, SwitchStep
<1>3. CASE RestartProcess
  BY <1>3, ProcessRestartStep
<1>4. CASE TimePasses
  BY <1>4, RouterSame DEF TimePasses
<1>5. CASE \E m \in Messages : Deliver(m)
  <2>1. PICK m \in Messages : Deliver(m)
    BY <1>5
  <2>2. m \in Sent /\ "delivery" \in Threads /\ Begin("delivery", m) /\ UNCHANGED <<disabled, env>>
    BY <2>1 DEF Deliver, Sent, Threads, Others
  <2>. QED
    BY <2>2, BeginStep
<1>6. CASE \E t \in Threads : PostChunk(t) \/ PostFiles(t) \/ Fallback(t) \/ TelegramSend(t)
  BY <1>6, PostChunkStep, PostFilesStep, FallbackStep, TelegramSendStep
<1>7. CASE \E todo \in SUBSET AlarmLeads : TickBegins(todo)
  BY <1>7, RouterSame DEF TickBegins, WorkerOnly
<1>8. CASE \E l \in AlarmLeads : Passes(l) \/ RaiseAlarm(l)
  <2>1. PICK l \in AlarmLeads : Passes(l) \/ RaiseAlarm(l)
    BY <1>8
  <2>2. CASE Passes(l)
    BY <2>2, RouterSame DEF Passes, WorkerOnly
  <2>3. CASE RaiseAlarm(l)
    <3>1. Alarm \in Sent /\ "alarm" \in Threads /\ Begin("alarm", Alarm) /\ UNCHANGED <<disabled, env>>
      BY <2>3 DEF RaiseAlarm, Sent, Threads
    <3>. QED
      BY <3>1, BeginStep
  <2>. QED
    BY <2>1, <2>2, <2>3
<1>9. CASE TickEnds
  BY <1>9, RouterSame DEF TickEnds, WorkerOnly
<1>10. CASE AlarmRecorded
  BY <1>10, RouterSame DEF AlarmRecorded
<1>. QED
  BY <1>1, <1>2, <1>3, <1>4, <1>5, <1>6, <1>7, <1>8, <1>9, <1>10, Zenon DEF DmNext
-----------------------------------------------------------------------------
(* The alarm worker.                                                       *)
LEMMA AlarmInit == DmInit => AlarmInv
<1>. SUFFICES ASSUME DmInit PROVE AlarmInv
  OBVIOUS
<1>1. Debounce \in Nat /\ MaxTime \in Nat /\ Debounce < MaxTime
  BY DmAssumption
<1>2. /\ worker = [step |-> "sleep", now |-> Debounce, todo |-> {}, lead |-> ""]
      /\ last_alarm = [l \in AlarmLeads |-> 0] /\ alarmed = [l \in AlarmLeads |-> {}]
      /\ clock = Debounce + 1
  BY DEF DmInit
<1>3. /\ worker \in Workers
      /\ worker.now = Debounce /\ worker.step = "sleep"
  BY <1>1, <1>2 DEF Workers
<1>4. clock \in 0..MaxTime /\ worker.now <= clock
  <2>1. worker.now = Debounce /\ clock = Debounce + 1
    BY <1>2
  <2>2. Debounce + 1 \in 0..MaxTime /\ Debounce <= Debounce + 1
    BY <1>1
  <2>. QED
    BY <2>1, <2>2
<1>5. \A l \in AlarmLeads : last_alarm[l] = 0 /\ alarmed[l] = {} /\ last_alarm[l] <= worker.now
  <2>1. worker.now = Debounce /\ \A l \in AlarmLeads : last_alarm[l] = 0 /\ alarmed[l] = {}
    BY <1>2
  <2>2. 0 <= Debounce
    BY <1>1
  <2>. QED
    BY <2>1, <2>2
<1>6. 0 \in 0..MaxTime
  BY <1>1
<1>7. last_alarm \in [AlarmLeads -> 0..MaxTime] /\ alarmed \in [AlarmLeads -> SUBSET (0..MaxTime)]
  BY <1>2, <1>6
<1>. QED
  BY <1>3, <1>4, <1>5, <1>7 DEF AlarmInv, AlarmHushed, Workers

(* The alarms are as before, and the worker is at the same or a later time.*)
LEMMA AlarmsKept ==
  ASSUME AlarmInv, UNCHANGED <<last_alarm, alarmed>>,
         worker' \in Workers,
         clock' \in 0..MaxTime, worker'.now <= clock', worker.now <= worker'.now,
         \/ worker' = worker
         \/ worker.step # "sending" /\ worker'.step # "sending"
  PROVE  AlarmInv'
<1>1. worker.now \in Nat /\ worker'.now \in Nat
  BY DEF AlarmInv, Workers
<1>2. last_alarm \in [AlarmLeads -> 0..MaxTime] /\ MaxTime \in Nat
  BY DmAssumption DEF AlarmInv
<1>3. \A l \in AlarmLeads : last_alarm[l] <= worker'.now
  <2>1. SUFFICES ASSUME NEW l \in AlarmLeads PROVE last_alarm[l] <= worker'.now
    OBVIOUS
  <2>2. PICK last \in Nat : last = last_alarm[l]
    BY <1>2
  <2>3. PICK now \in Nat : now = worker.now
    BY <1>1 DEF Workers
  <2>4. PICK then \in Nat : then = worker'.now
    BY <1>1
  <2>5. last <= now /\ now <= then
    BY <2>2, <2>3, <2>4 DEF AlarmInv
  <2>6. last <= then
    BY <2>5
  <2>. QED
    BY <2>2, <2>4, <2>6, Zenon
<1>4. worker'.step = "sending" => worker'.lead \in worker'.todo
  BY DEF AlarmInv
<1>5. \A l \in AlarmLeads : \A a \in alarmed[l] :
        \/ a <= last_alarm[l]
        \/ worker'.step = "sending" /\ worker'.lead = l /\ a = worker'.now
  BY DEF AlarmInv
<1>6. AlarmHushed'
  BY DEF AlarmInv, AlarmHushed
<1>. QED
  BY <1>3, <1>4, <1>5, <1>6 DEF AlarmInv

LEMMA RaiseAlarmStep ==
  ASSUME AlarmInv, NEW l \in AlarmLeads, RaiseAlarm(l)
  PROVE  AlarmInv'
<1>1. /\ worker.step = "tick" /\ l \in worker.todo /\ ~(worker.now - last_alarm[l] <= Debounce)
      /\ worker' = [worker EXCEPT !.step = "sending", !.lead = l]
      /\ alarmed' = [alarmed EXCEPT ![l] = @ \cup {worker.now}]
      /\ last_alarm' = last_alarm /\ clock' = clock
  BY DEF RaiseAlarm, Hushed
<1>2. /\ worker \in Workers
      /\ clock \in 0..MaxTime /\ worker.now <= clock /\ MaxTime \in Nat /\ Debounce \in Nat
      /\ last_alarm \in [AlarmLeads -> 0..MaxTime] /\ alarmed \in [AlarmLeads -> SUBSET (0..MaxTime)]
  BY DmAssumption DEF AlarmInv
<1>3. PICK now \in 0..MaxTime : now = worker.now
  <2>1. PICK n \in Nat : n = worker.now
    BY <1>2 DEF Workers
  <2>2. PICK c \in Nat : c = clock /\ c <= MaxTime
    BY <1>2
  <2>3. n <= c /\ MaxTime \in Nat
    BY <1>2, <2>1, <2>2
  <2>4. n \in 0..MaxTime
    BY <2>2, <2>3
  <2>. QED
    BY <2>1, <2>4
<1>4. /\ worker' \in Workers
      /\ worker'.step = "sending" /\ worker'.lead = l /\ worker'.now = now /\ worker'.todo = worker.todo
  BY <1>1, <1>2, <1>3 DEF Workers
<1>5. /\ alarmed' \in [AlarmLeads -> SUBSET (0..MaxTime)] /\ alarmed'[l] = alarmed[l] \cup {now}
      /\ \A h \in AlarmLeads : h # l => alarmed'[h] = alarmed[h]
  BY <1>1, <1>2, <1>3
<1>6. \A h \in AlarmLeads : \A a \in alarmed[h] : a <= last_alarm[h]
  BY <1>1 DEF AlarmInv
<1>7. \A a \in alarmed[l] : now - a > Debounce /\ ~(now < a)
  <2>1. SUFFICES ASSUME NEW a \in alarmed[l] PROVE now - a > Debounce /\ ~(now < a)
    OBVIOUS
  <2>2. PICK last \in 0..MaxTime : last = last_alarm[l]
    BY <1>2
  <2>3. a \in 0..MaxTime /\ a <= last
    BY <1>2, <1>6, <2>2
  <2>4. ~(now - last <= Debounce)
    BY <1>1, <1>3, <2>2
  <2>5. Debounce \in Nat /\ MaxTime \in Nat
    BY <1>2
  <2>. QED
    BY <2>3, <2>4, <2>5
<1>8. AlarmHushed'
  <2>1. SUFFICES ASSUME NEW h \in AlarmLeads, NEW a \in alarmed'[h], NEW b \in alarmed'[h], a < b
                 PROVE  b - a > Debounce
    BY DEF AlarmHushed
  <2>2. CASE a \in alarmed[h] /\ b \in alarmed[h]
    BY <2>1, <2>2 DEF AlarmInv, AlarmHushed
  <2>3. CASE h = l /\ a \in alarmed[l] /\ b = now
    BY <1>7, <2>3
  <2>4. CASE h = l /\ a = now
    <3>1. a \in Nat /\ (b = now \/ b \in alarmed[l])
      BY <1>3, <1>5, <2>4
    <3>. QED
      BY <1>7, <2>1, <2>4, <3>1
  <2>. QED
    BY <1>5, <2>2, <2>3, <2>4
<1>9. \A h \in AlarmLeads : \A a \in alarmed'[h] :
        \/ a <= last_alarm'[h]
        \/ worker'.step = "sending" /\ worker'.lead = h /\ a = worker'.now
  <2>1. SUFFICES ASSUME NEW h \in AlarmLeads, NEW a \in alarmed'[h]
                 PROVE  \/ a <= last_alarm'[h]
                        \/ worker'.step = "sending" /\ worker'.lead = h /\ a = worker'.now
    OBVIOUS
  <2>2. a \in alarmed[h] \/ (h = l /\ a = now)
    BY <1>5
  <2>. QED
    BY <1>1, <1>4, <1>6, <2>2
<1>10. \A h \in AlarmLeads : last_alarm'[h] <= worker'.now
  BY <1>1, <1>3, <1>4 DEF AlarmInv
<1>. QED
  BY <1>1, <1>2, <1>3, <1>4, <1>5, <1>8, <1>9, <1>10 DEF AlarmInv

LEMMA AlarmRecordedStep ==
  ASSUME AlarmInv, AlarmRecorded
  PROVE  AlarmInv'
<1>1. /\ worker.step = "sending" /\ last_alarm' = [last_alarm EXCEPT ![worker.lead] = worker.now]
      /\ worker' = [worker EXCEPT !.step = "tick", !.todo = @ \ {worker.lead}]
      /\ alarmed' = alarmed /\ clock' = clock
  BY DEF AlarmRecorded, Recorded
<1>2. /\ worker \in Workers
      /\ clock \in 0..MaxTime /\ worker.now <= clock /\ MaxTime \in Nat
      /\ last_alarm \in [AlarmLeads -> 0..MaxTime] /\ alarmed \in [AlarmLeads -> SUBSET (0..MaxTime)]
  BY DmAssumption DEF AlarmInv
<1>3. PICK now \in 0..MaxTime : now = worker.now
  <2>1. PICK n \in Nat : n = worker.now
    BY <1>2 DEF Workers
  <2>2. PICK c \in Nat : c = clock /\ c <= MaxTime
    BY <1>2
  <2>3. n <= c /\ MaxTime \in Nat
    BY <1>2, <2>1, <2>2
  <2>4. n \in 0..MaxTime
    BY <2>2, <2>3
  <2>. QED
    BY <2>1, <2>4
<1>4. PICK l \in AlarmLeads : l = worker.lead
  BY <1>1, <1>2 DEF AlarmInv, Workers
<1>5. /\ worker' \in Workers
      /\ worker'.step = "tick" /\ worker'.now = now
  BY <1>1, <1>2, <1>3 DEF Workers
<1>6. /\ last_alarm' \in [AlarmLeads -> 0..MaxTime] /\ last_alarm'[l] = now
      /\ \A h \in AlarmLeads : h # l => last_alarm'[h] = last_alarm[h]
  BY <1>1, <1>2, <1>3, <1>4
<1>7. \A h \in AlarmLeads : \A a \in alarmed[h] : a <= last_alarm'[h]
  <2>1. SUFFICES ASSUME NEW h \in AlarmLeads, NEW a \in alarmed[h] PROVE a <= last_alarm'[h]
    OBVIOUS
  <2>2. /\ a \in 0..MaxTime /\ last_alarm[h] \in 0..MaxTime /\ last_alarm[h] <= now
        /\ a <= last_alarm[h] \/ (l = h /\ a = now)
    BY <1>2, <1>3, <1>4 DEF AlarmInv
  <2>3. CASE h = l
    BY <1>6, <2>2, <2>3
  <2>4. CASE h # l
    BY <1>6, <2>2, <2>4
  <2>. QED
    BY <2>3, <2>4
<1>8. \A h \in AlarmLeads : last_alarm'[h] <= worker'.now
  <2>1. \A h \in AlarmLeads : last_alarm[h] <= now
    BY <1>3 DEF AlarmInv
  <2>2. now <= now
    BY <1>2
  <2>. QED
    BY <1>5, <1>6, <2>1, <2>2, Zenon
<1>9. AlarmHushed'
  BY <1>1 DEF AlarmInv, AlarmHushed
<1>10. \A h \in AlarmLeads : \A a \in alarmed'[h] :
        \/ a <= last_alarm'[h]
        \/ worker'.step = "sending" /\ worker'.lead = h /\ a = worker'.now
  BY <1>1, <1>7
<1>11. worker'.step # "sending" /\ worker'.now <= clock' /\ clock' \in 0..MaxTime
  BY <1>1, <1>2, <1>3, <1>5
<1>. QED
  BY <1>1, <1>2, <1>5, <1>6, <1>8, <1>9, <1>10, <1>11 DEF AlarmInv

LEMMA AlarmStep == AlarmInv /\ [DmNext]_dmVars => AlarmInv'
<1>. SUFFICES ASSUME AlarmInv, [DmNext]_dmVars PROVE AlarmInv'
  OBVIOUS
<1>0. /\ worker \in Workers
      /\ clock \in 0..MaxTime /\ worker.now <= clock /\ MaxTime \in Nat
  BY DmAssumption DEF AlarmInv
<1>ta. PICK now \in Nat : now = worker.now
  BY <1>0 DEF Workers
<1>tb. PICK time \in Nat : time = clock
  BY <1>0
<1>tc. now <= time /\ time <= MaxTime /\ MaxTime \in Nat
  BY <1>0, <1>ta, <1>tb
<1>td. now <= now /\ time <= time /\ time \in 0..MaxTime /\ 0 <= time /\ 0 \in 0..MaxTime
  BY <1>tc
<1>1. CASE UNCHANGED <<worker, last_alarm, clock, alarmed>>
  <2>1. worker' = worker /\ clock' = clock
    BY <1>1
  <2>. QED
    BY <1>0, <1>ta, <1>td, <1>1, <2>1, AlarmsKept, Zenon
<1>2. CASE TimePasses
  <2>1. worker' = worker /\ UNCHANGED <<last_alarm, alarmed>> /\ time < MaxTime /\ clock' = time + 1
    BY <1>tb, <1>2 DEF TimePasses
  <2>2. time + 1 \in 0..MaxTime /\ now <= time + 1
    BY <1>tc, <2>1
  <2>3. clock' \in 0..MaxTime /\ worker'.now <= clock' /\ worker.now <= worker'.now
    BY <1>ta, <1>td, <2>1, <2>2, Zenon
  <2>. QED
    BY <1>0, <2>1, <2>3, AlarmsKept, Zenon
<1>3. CASE RestartProcess
  <2>1. /\ worker' = [step |-> "sleep", now |-> clock, todo |-> {}, lead |-> ""] /\ clock' = clock
        /\ last_alarm' = [l \in AlarmLeads |-> 0] /\ alarmed' = [l \in AlarmLeads |-> {}]
    BY <1>3 DEF RestartProcess, Start
  <2>2. /\ worker' \in Workers
        /\ worker'.step = "sleep" /\ worker'.now = time
    BY <1>0, <1>tb, <2>1 DEF Workers
  <2>3. 0 \in 0..MaxTime /\ clock' \in 0..MaxTime /\ worker'.now <= clock' /\ 0 <= worker'.now
    BY <1>tb, <1>td, <2>1, <2>2, Zenon
  <2>4. /\ last_alarm' \in [AlarmLeads -> 0..MaxTime] /\ alarmed' \in [AlarmLeads -> SUBSET (0..MaxTime)]
        /\ \A l \in AlarmLeads : last_alarm'[l] = 0 /\ alarmed'[l] = {}
    BY <2>1, <2>3
  <2>. QED
    BY <2>2, <2>3, <2>4 DEF AlarmInv, AlarmHushed
<1>4. CASE \E todo \in SUBSET AlarmLeads : TickBegins(todo)
  <2>1. PICK todo \in SUBSET AlarmLeads : TickBegins(todo)
    BY <1>4
  <2>2. /\ worker' = [step |-> "tick", now |-> clock, todo |-> todo, lead |-> ""]
        /\ worker.step = "sleep" /\ UNCHANGED <<last_alarm, clock, alarmed>>
    BY <2>1 DEF TickBegins, WorkerOnly
  <2>3. /\ worker' \in Workers
        /\ worker'.step = "tick" /\ worker'.now = time
    BY <1>0, <1>tb, <2>2 DEF Workers
  <2>4. clock' \in 0..MaxTime /\ worker'.now <= clock' /\ worker.now <= worker'.now
    BY <1>ta, <1>tb, <1>tc, <1>td, <2>2, <2>3, Zenon
  <2>. QED
    BY <2>2, <2>3, <2>4, AlarmsKept
<1>5. CASE \E l \in AlarmLeads : Passes(l) \/ RaiseAlarm(l)
  <2>1. PICK l \in AlarmLeads : Passes(l) \/ RaiseAlarm(l)
    BY <1>5
  <2>2. CASE Passes(l)
    <3>1. /\ worker.step = "tick" /\ worker' = [worker EXCEPT !.todo = @ \ {l}]
          /\ UNCHANGED <<last_alarm, clock, alarmed>>
      BY <2>2 DEF Passes, WorkerOnly
    <3>2. /\ worker' \in Workers
          /\ worker'.step = "tick" /\ worker'.now = worker.now
      BY <1>0, <3>1 DEF Workers
    <3>3. clock' \in 0..MaxTime /\ worker'.now <= clock' /\ worker.now <= worker'.now
      BY <1>ta, <1>tb, <1>tc, <1>td, <3>1, <3>2, Zenon
    <3>. QED
      BY <3>1, <3>2, <3>3, AlarmsKept
  <2>. QED
    BY <2>1, <2>2, RaiseAlarmStep
<1>6. CASE TickEnds
  <2>1. /\ worker.step = "tick" /\ worker' = [worker EXCEPT !.step = "sleep", !.todo = {}, !.now = clock]
        /\ UNCHANGED <<last_alarm, clock, alarmed>>
    BY <1>6 DEF TickEnds, WorkerOnly
  <2>2. /\ worker' \in Workers
        /\ worker'.step = "sleep" /\ worker'.now = time
    BY <1>0, <1>tb, <2>1 DEF Workers
  <2>3. clock' \in 0..MaxTime /\ worker'.now <= clock' /\ worker.now <= worker'.now
    BY <1>ta, <1>tb, <1>tc, <1>td, <2>1, <2>2, Zenon
  <2>. QED
    BY <2>1, <2>2, <2>3, AlarmsKept
<1>7. CASE AlarmRecorded
  BY <1>7, AlarmRecordedStep
<1>8. CASE UNCHANGED dmVars
  BY <1>1, <1>8 DEF dmVars
<1>9. CASE \E r \in Routes : Disable(r) \/ Enable(r)
  BY <1>1, <1>9 DEF Disable, Enable
<1>10. CASE \E m \in Messages : Deliver(m)
  BY <1>1, <1>10 DEF Deliver, Others
<1>11. CASE \E t \in Threads : PostChunk(t) \/ PostFiles(t) \/ Fallback(t) \/ TelegramSend(t)
  BY <1>1, <1>11 DEF PostChunk, PostFiles, Fallback, TelegramSend, Others
<1>. QED
  BY <1>2, <1>3, <1>4, <1>5, <1>6, <1>7, <1>8, <1>9, <1>10, <1>11, Zenon DEF DmNext
-----------------------------------------------------------------------------
LEMMA DmTyped == RouterInv /\ AlarmInv => DmTypeOK
<1>. SUFFICES ASSUME RouterInv, AlarmInv PROVE DmTypeOK
  OBVIOUS
<1>1. disabled \subseteq Routes /\ env \subseteq Routes /\ Len(dms) <= MaxCalls
  BY DEF RouterInv, CallsTyped
<1>2. ASSUME NEW t \in Threads
      PROVE  /\ call[t].step \in {"idle", "discord", "fallback", "telegram"}
             /\ call[t].nr \in 0..Len(dms) /\ call[t].id \in BOOLEAN
             /\ call[t].step # "idle" => dms[call[t].nr].result = "open"
  <2>1. call[t] \in RouterCalls
    BY DEF RouterInv, CallsTyped
  <2>2. call[t].step \in {"idle", "discord", "fallback", "telegram"} /\ call[t].id \in BOOLEAN
    BY <2>1 DEF RouterCalls
  <2>. QED
    BY <2>2 DEF RouterInv, CallsOK, Busy
<1>3. /\ worker.step \in {"sleep", "tick", "sending"} /\ worker.now <= clock
      /\ worker.todo \subseteq AlarmLeads /\ (worker.step = "sending" => worker.lead \in worker.todo)
  <2>1. worker.step \in {"sleep", "tick", "sending"} /\ worker.todo \subseteq AlarmLeads
    BY DEF AlarmInv, Workers
  <2>. QED
    BY <2>1 DEF AlarmInv
<1>4. last_alarm \in [AlarmLeads -> 0..MaxTime] /\ alarmed \in [AlarmLeads -> SUBSET (0..MaxTime)]
  BY DEF AlarmInv
<1>5. \A n \in DOMAIN dms : /\ dms[n].message \in Messages \cup {Alarm}
                            /\ dms[n].result \in {"open", "id", "none", "lost"}
  <2>1. dms \in Seq(Entry)
    BY DEF RouterInv, CallsTyped
  <2>2. \A n \in DOMAIN dms : dms[n] \in Entry
    BY <2>1
  <2>. QED
    BY <2>2 DEF Entry, Sent
<1>. QED
  BY <1>1, <1>2, <1>3, <1>4, <1>5 DEF DmTypeOK

(* What is handed out at the end of a call is the chunks of its message.   *)
LEMMA RouterTold == RouterInv => ToldWhole /\ SwitchHonoured
<1>. SUFFICES ASSUME RouterInv PROVE ToldWhole /\ SwitchHonoured
  OBVIOUS
<1>1. dms \in Seq(Entry) /\ DOMAIN dms = 1..Len(dms)
  BY DEF RouterInv, CallsTyped
<1>2. ASSUME NEW n \in DOMAIN dms
      PROVE  /\ \A k \in DOMAIN dms[n].discord : Len(dms[n].discord[k]) \in 1..Limit
             /\ dms[n].result = "id" /\ ~dms[n].telegram =>
                  ShowsInOrder(dms[n].discord, LinesOf(dms[n].message))
             /\ "discord" \in dms[n].barred => dms[n].discord = <<>>
             /\ "telegram" \in dms[n].barred => ~dms[n].telegram
  <2>1. PICK e \in Entry : e = dms[n] /\ EntryOK(e)
    BY <1>1 DEF RouterInv
  <2>2. e.discord \in Texts /\ e.message \in Sent
    BY EntryFields
  <2>3. DOMAIN e.discord = 1..Len(e.discord)
    BY <2>2 DEF Texts
  <2>4. \A k \in DOMAIN e.discord : Len(e.discord[k]) \in 1..Limit
    BY <2>1, <2>3 DEF EntryOK
  <2>5. e.result = "id" /\ ~e.telegram => ShowsInOrder(e.discord, LinesOf(e.message))
    <3>1. SUFFICES ASSUME e.result = "id" /\ ~e.telegram
                   PROVE  ShowsInOrder(e.discord, LinesOf(e.message))
      OBVIOUS
    <3>2. e.discord = ChunksOf(e.message)
      BY <2>1, <3>1 DEF EntryOK
    <3>3. AllShow(ChunksOf(e.message), Places(LinesOf(e.message)))
      BY <2>2, SentChunks
    <3>4. ShowsInOrder(ChunksOf(e.message), LinesOf(e.message))
      BY <3>3, AllShowInOrder
    <3>. QED
      BY <3>2, <3>4
  <2>6. /\ "discord" \in e.barred => e.discord = <<>>
        /\ "telegram" \in e.barred => ~e.telegram
    BY <2>1 DEF EntryOK
  <2>. QED
    BY <2>1, <2>4, <2>5, <2>6
<1>. QED
  BY <1>2 DEF ToldWhole, SwitchHonoured

(* The variables of the router and of the alarm worker keep their types.   *)
THEOREM MessagesTyped == DmSpec => []DmTypeOK
<1>1. RouterInv /\ AlarmInv => DmTypeOK
  BY DmTyped
<1>. QED
  BY <1>1, RouterInit, RouterStep, AlarmInit, AlarmStep, PTL DEF DmSpec

(* send_operator_dm returns an id only when one route has taken all of the *)
(* message: on Discord each chunk was posted, once and in order, within    *)
(* the limit, whatever failed on the way to it.                            *)
THEOREM MessagesToldWhole == DmSpec => []ToldWhole
<1>1. RouterInv => ToldWhole
  BY RouterTold
<1>. QED
  BY <1>1, RouterInit, RouterStep, PTL DEF DmSpec

(* A switch in secrets.env from the start of a call to its end keeps the   *)
(* call off its route, also when the process was started without it.       *)
THEOREM SwitchesHonoured == DmSpec => []SwitchHonoured
<1>1. RouterInv => SwitchHonoured
  BY RouterTold
<1>. QED
  BY <1>1, RouterInit, RouterStep, PTL DEF DmSpec

(* The alarm worker never alarms about a lead twice within the debounce in *)
(* one life of the process.                                                *)
THEOREM AlarmsHushed == DmSpec => []AlarmHushed
<1>1. AlarmInv => AlarmHushed
  BY DEF AlarmInv
<1>. QED
  BY <1>1, AlarmInit, AlarmStep, PTL DEF DmSpec
=============================================================================
