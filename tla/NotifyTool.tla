----------------------------- MODULE NotifyTool -----------------------------
(***************************************************************************)
(* The lead's side of a notification: notify_orchestrator validates the    *)
(* event, posts it to the listener and waits for the answer; when there is *)
(* none it alerts the operator by the webhook of its host, if that has     *)
(* one.  The listener is seen from outside: it may be down, refuse an      *)
(* event, store it, answer late or never (NotifyPipeline has its inside).  *)
(***************************************************************************)
EXTENDS Naturals, Sequences

CONSTANTS ToolCalls,   \* calls of the tool, by any leads
          TypesOf,     \* types of event that each call may be about
          MaxOutages   \* bound on how often the listener goes down

(* A field is missing, null, empty, fine, too long or otherwise wrong.     *)
Kinds == {"missing", "null", "empty", "fine", "long", "wrong"}

(* By type: fields it requires, and fields that may be missing.            *)
Fields == [STARTED     |-> [required |-> {"description"},      optional |-> {"eta"}],
           MILESTONE   |-> [required |-> {"progress"},         optional |-> {"percent", "eta_remaining"}],
           COMPLETED   |-> [required |-> {"summary"},          optional |-> {"paths", "urls"}],
           NEEDS_INPUT |-> [required |-> {"question"},         optional |-> {"options", "timeout"}],
           ERROR       |-> [required |-> {"error", "context"}, optional |-> {"recoverable", "traceback"}]]
ValidTypes == DOMAIN Fields
ASSUME ToolAssumption == TypesOf \in [ToolCalls -> SUBSET ValidTypes] /\ MaxOutages \in Nat

Payloads(type) == [Fields[type].required \cup Fields[type].optional -> Kinds]
NoEvent == [type |-> "none", payload |-> [f \in {} |-> "fine"]]
-----------------------------------------------------------------------------
(* What a field that need not be there may be; only a list of paths or     *)
(* URLs may not be null, and a traceback may be anything.                  *)
Allowed(f) ==
  CASE f = "traceback"                            -> Kinds
    [] f \in {"paths", "urls"}                    -> {"missing", "empty", "fine"}
    [] f \in {"eta", "eta_remaining", "options"}  -> {"missing", "null", "empty", "fine"}
    [] f \in {"percent", "timeout", "recoverable"} -> {"missing", "null", "fine"}

(* Mutant: only the required fields are looked at. *)
HasRequired(type, payload) == \A f \in Fields[type].required : payload[f] = "fine"
(* The validator of the type lets the payload through.                     *)
Validated(type, payload) ==
  /\ \A f \in Fields[type].required : payload[f] = "fine"
  /\ \A f \in Fields[type].optional : payload[f] \in Allowed(f)

(* _normalize_payload: the traceback is cut to its limit, an ERROR is      *)
(* recoverable unless it says something else, if only null.                *)
Normalized(type, payload) ==
  IF type = "ERROR"
  THEN [payload EXCEPT !["traceback"]   = IF @ = "long" THEN "fine" ELSE @,
                       !["recoverable"] = IF @ = "missing" THEN "fine" ELSE @]
  ELSE payload
-----------------------------------------------------------------------------
VARIABLES
  up,        \* does the listener run?
  webhook,   \* does the host of the leads have a degraded webhook?
  tool,      \* each call: "new", "waiting", "silent" (no answer), "returned", "raised"
  event,     \* what it posted
  request,   \* the POST: "none", "flying", "refused", "stored", "gone"
  stored_id, \* what the call returned, 0 for None
  store,     \* the events of the listener; an id is a position
  (* history *)
  alerts,    \* calls whose degraded alert was posted
  unheard,   \* calls whose degraded alert failed
  answered,  \* calls that read an answer of the listener
  outages

toolVars == <<up, webhook, tool, event, request, stored_id, store, alerts, unheard, answered, outages>>

ToolInit ==
  /\ up \in BOOLEAN /\ webhook \in BOOLEAN
  /\ tool = [c \in ToolCalls |-> "new"] /\ event = [c \in ToolCalls |-> NoEvent]
  /\ request = [c \in ToolCalls |-> "none"] /\ stored_id = [c \in ToolCalls |-> 0]
  /\ store = <<>> /\ alerts = {} /\ unheard = {} /\ answered = {} /\ outages = 0

(* The call, up to the POST; an invalid payload raises ValueError.         *)
NotifyOrchestrator(c) ==
  /\ tool[c] = "new"
  /\ \E type \in TypesOf[c] : \E payload \in Payloads(type) :
       IF Validated(type, payload)
       THEN /\ event' = [event EXCEPT ![c] = [type |-> type, payload |-> Normalized(type, payload)]]
            /\ request' = [request EXCEPT ![c] = IF up THEN "flying" ELSE "gone"]
            /\ tool' = [tool EXCEPT ![c] = "waiting"]
       ELSE tool' = [tool EXCEPT ![c] = "raised"] /\ UNCHANGED <<event, request>>
  /\ UNCHANGED <<up, webhook, stored_id, store, alerts, unheard, answered, outages>>

(* The listener handles the request, perhaps when nobody waits any more.   *)
Ingest(c) ==
  /\ up /\ request[c] = "flying"
  /\ \/ store' = Append(store, <<c, event[c]>>) /\ request' = [request EXCEPT ![c] = "stored"]
     \/ request' \in {[request EXCEPT ![c] = "refused"], [request EXCEPT ![c] = "gone"]} /\ UNCHANGED store
  /\ UNCHANGED <<up, webhook, tool, event, stored_id, alerts, unheard, answered, outages>>

ListenerDown ==
  /\ up /\ outages < MaxOutages /\ up' = FALSE /\ outages' = outages + 1
  /\ request' = [c \in ToolCalls |-> IF request[c] = "flying" THEN "gone" ELSE request[c]]
  /\ UNCHANGED <<webhook, tool, event, stored_id, store, alerts, unheard, answered>>
ListenerUp ==
  /\ ~up /\ up' = TRUE
  /\ UNCHANGED <<webhook, tool, event, request, stored_id, store, alerts, unheard, answered, outages>>

IdOf(c) == CHOOSE n \in DOMAIN store : store[n][1] = c

Answered(c) ==
  /\ tool[c] = "waiting" /\ request[c] = "stored"
  /\ tool' = [tool EXCEPT ![c] = "returned"] /\ stored_id' = [stored_id EXCEPT ![c] = IdOf(c)]
  /\ answered' = answered \cup {c}
  /\ UNCHANGED <<up, webhook, event, request, store, alerts, unheard, outages>>

(* Mutant: the handler of URLError comes first, and an HTTPError is one. *)
CaughtAsURLError == "silent"
CaughtAsHTTPError == "returned"
(* The listener has answered with an error status: it is up.               *)
AnsweredWithError(c) ==
  /\ tool[c] = "waiting" /\ request[c] = "refused"
  /\ tool' = [tool EXCEPT ![c] = CaughtAsHTTPError] /\ answered' = answered \cup {c}
  /\ UNCHANGED <<up, webhook, event, request, stored_id, store, alerts, unheard, outages>>

(* The connection was refused or has broken, or ten seconds are over; the  *)
(* event may be stored, or be stored later.                                *)
NotAnswered(c) ==
  /\ tool[c] = "waiting" /\ tool' = [tool EXCEPT ![c] = "silent"]
  /\ UNCHANGED <<up, webhook, event, request, stored_id, store, alerts, unheard, answered, outages>>

(* _maybe_degraded_alert, which tries once, and the return without an id.  *)
DegradedAlert(c) ==
  /\ tool[c] = "silent" /\ tool' = [tool EXCEPT ![c] = "returned"]
  /\ IF webhook
     THEN \/ alerts' = alerts \cup {c} /\ UNCHANGED unheard
          \/ unheard' = unheard \cup {c} /\ UNCHANGED alerts
     ELSE UNCHANGED <<alerts, unheard>>
  /\ UNCHANGED <<up, webhook, event, request, stored_id, store, answered, outages>>

ToolNext ==
  \/ \E c \in ToolCalls :
       \/ NotifyOrchestrator(c) \/ Ingest(c) \/ Answered(c) \/ AnsweredWithError(c)
       \/ NotAnswered(c) \/ DegradedAlert(c)
  \/ ListenerDown \/ ListenerUp

ToolSpec == ToolInit /\ [][ToolNext]_toolVars
-----------------------------------------------------------------------------
ToolTypeOK ==
  /\ up \in BOOLEAN /\ webhook \in BOOLEAN
  /\ tool \in [ToolCalls -> {"new", "waiting", "silent", "returned", "raised"}]
  /\ request \in [ToolCalls -> {"none", "flying", "refused", "stored", "gone"}]
  /\ \A c \in ToolCalls : event[c] # NoEvent => event[c].type \in ValidTypes
  /\ stored_id \in [ToolCalls -> 0..Len(store)] /\ alerts \cup unheard \cup answered \subseteq ToolCalls

(* The operator is alerted of an event only if its lead read no answer: a  *)
(* listener that refuses an event is up ("do NOT trigger the degraded      *)
(* fallback").  A lead that has read none and returns has alerted the      *)
(* operator, if its host has a webhook that works ("not silently blind     *)
(* during an A outage").                                                   *)
DegradedIfUnanswered ==
  /\ alerts \cap answered = {}
  /\ \A c \in ToolCalls : tool[c] = "returned" /\ c \notin answered => ~webhook \/ c \in alerts \cup unheard

(* Every event in the listener's store is one its messages can be made of, *)
(* and an ERROR says something about being recoverable: the listener looks *)
(* at the type only, the rest is up to the tool of each lead.  The id that *)
(* a lead holds is that of its own event.                                  *)
Sound(e) ==
  /\ \A f \in Fields[e.type].required : e.payload[f] = "fine"
  /\ \A f \in Fields[e.type].optional \ {"traceback"} : e.payload[f] \notin {"long", "wrong"}
  /\ e.type = "COMPLETED" => e.payload["paths"] # "null" /\ e.payload["urls"] # "null"
  /\ e.type = "ERROR" => e.payload["recoverable"] # "missing" /\ e.payload["traceback"] # "long"
StoredIsSound ==
  /\ \A n \in DOMAIN store : Sound(store[n][2])
  /\ \A c \in ToolCalls : stored_id[c] # 0 => store[stored_id[c]][1] = c /\ store[stored_id[c]][2] = event[c]
=============================================================================
