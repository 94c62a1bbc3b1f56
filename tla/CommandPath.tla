---------------------------- MODULE CommandPath ----------------------------
(***************************************************************************)
(* The way of one POST /command: the relay checks the shape of the body    *)
(* (skill/scripts/relay.ts), the extension checks the message again        *)
(* (extension/services/RelayProtocol.ts), dispatches it                    *)
(* (extension/entrypoints/background.ts, cdp.ts, tab.ts) and its response  *)
(* becomes the HTTP answer.  Of a body only what some check tells apart is *)
(* kept: which fields are there and of which type.                         *)
(***************************************************************************)
EXTENDS Naturals

CONSTANTS
  CdpMethods,         \* some CDP methods that need a target
  OtherMethods        \* some names that are no method at all

GetTargets == "Target.getTargets"
TabQueries == {"tab.countTabs", "tab.getActiveTarget"}   \* also with shorter names
CreateTab == "tab.createTab"
Names == CdpMethods \cup OtherMethods \cup TabQueries \cup {GetTargets, CreateTab}

ASSUME CommandPathConstants ==
  /\ "missing" \notin Names
  /\ (CdpMethods \cup OtherMethods) \cap (TabQueries \cup {GetTargets, CreateTab}) = {}

\* "other" is a value of a type the checks do not accept.
Parameters == [method : Names \cup {"other"},
               params : {"missing", "url", "object", "other"},   \* "url": with a url
               targetId : {"missing", "empty", "string", "other"}]
NoParams == [method |-> "missing", params |-> "missing", targetId |-> "missing"]
Bodies == [id : {"missing", "number", "other"},
           type : {"missing", "command", "ping", "other"},
           method : {"cdp", "tab", "other"},
           params : Parameters \cup {NoParams}]                  \* NoParams: not an object

VARIABLES
  stage,        \* "arrived", "sent", "held", "dropped", "responded", "answered"
  json,         \* what the text is: not JSON, not an object, or an object
  body,         \* the body of the request
  executed,     \* history: a chrome.* call was made for it
  response,     \* the response message: the fields error and errorInfo.code
  answer        \* the HTTP answer

vars == <<stage, json, body, executed, response, answer>>

Success == [error |-> FALSE, code |-> "NONE"]

Init ==
  /\ stage = "arrived"
  /\ json \in {"invalid", "value", "object"}
  /\ body \in IF json = "object" THEN Bodies
              ELSE {[id |-> "missing", type |-> "missing", method |-> "other",
                     params |-> NoParams]}
  /\ executed = FALSE
  /\ response = Success
  /\ answer = [status |-> 0, ok |-> FALSE, code |-> "NONE"]

-----------------------------------------------------------------------------
(* The checks of the relay.                                                *)

IsParams(p) ==
  /\ p.method \in Names
  /\ p.params # "other"
  /\ p.targetId # "other"

IsExtensionMethod(name) == name \in {"cdp", "tab"}

\* The guard that both sides have; the relay numbers what it sends.
IsExtensionCommandMessage(b) ==
  b.id = "number" /\ IsExtensionMethod(b.method) /\ IsParams(b.params)

\* It looks at less of params than the other checks do.
IsClientEnvelope(b) ==
  \/ b.type = "ping"
  \/ /\ b.type = "command"
     /\ b.id # "other"
     /\ IsExtensionMethod(b.method)
     /\ b.params.method \in Names

\* Mutant: an absent targetId is refused.
TargetMissing(b) == b.params.targetId \notin {"empty", "string"}

TargetRefused(b) == b.params.targetId = "other"

\* The code that refuses a body that is neither a message nor an envelope, if one
\* does.
BareBodyError(b) ==
  IF ~IsExtensionMethod(b.method) THEN {"INVALID_COMMAND_METHOD"}
  ELSE IF b.params.method \notin Names \/ b.params.params = "other"
       THEN {"INVALID_COMMAND_PARAMS"}
  ELSE IF TargetRefused(b) THEN {"INVALID_COMMAND_TARGET_ID"}
  ELSE {}

\* The code with which parseHttpCommandBody refuses the body, if it does.
ParseHttpCommandBody(b) ==
  IF IsExtensionCommandMessage(b) THEN {}
  ELSE IF ~IsClientEnvelope(b) THEN BareBodyError(b)
  ELSE IF b.type = "ping" THEN {"INVALID_COMMAND_BODY"}
  ELSE {}

BadRequest == {"INVALID_JSON", "INVALID_COMMAND_BODY", "INVALID_COMMAND_METHOD",
               "INVALID_COMMAND_PARAMS", "INVALID_COMMAND_TARGET_ID", "MISSING_TARGET_ID",
               "INVALID_CREATE_TAB_URL", "UNKNOWN_TAB_METHOD"}

\* Mutant: a CDP command that fails is the client's fault.
StatusBlamingClient(code) ==
  IF code = "NONE" THEN 200
  ELSE IF code \in BadRequest \cup {"CDP_COMMAND_FAILED"} THEN 400 ELSE 502

\* Mutant: the default is 500.
StatusWithoutGateway(code) ==
  IF code = "NONE" THEN 200 ELSE IF code \in BadRequest THEN 400 ELSE 500

CommandErrorToStatus(code) ==
  CASE code = "NONE" -> 200
    [] code \in BadRequest -> 400
    [] code = "NO_ACTIVE_TAB" -> 404
    [] code \in {"EXTENSION_NOT_CONNECTED", "RELAY_NOT_CONNECTED"} -> 503
    [] code = "COMMAND_TIMEOUT" -> 504
    [] OTHER -> 502

\* `ok` looks at the field error, the status at errorInfo.
Answer(r) ==
  /\ stage' = "answered"
  /\ answer' = [status |-> CommandErrorToStatus(r.code), ok |-> ~r.error, code |-> r.code]

\* An error of the relay's own, which has both fields.
Fail(code) == Answer([error |-> TRUE, code |-> code])

-----------------------------------------------------------------------------

\* handleHttpCommand up to its wait.
HandleHttpCommand ==
  /\ stage = "arrived"
  /\ \/ json = "invalid" /\ Fail("INVALID_JSON")
     \/ json = "value" /\ Fail("INVALID_COMMAND_BODY")
     \/ json = "object" /\ \E code \in ParseHttpCommandBody(body) : Fail(code)
     \/ /\ json = "object" /\ ParseHttpCommandBody(body) = {}
        /\ \/ stage' = "sent" /\ UNCHANGED answer
           \/ \E code \in {"EXTENSION_NOT_CONNECTED", "WS_SEND_FAILED"} : Fail(code)
  /\ UNCHANGED <<json, body, executed, response>>

\* socket.onmessage: what is no command is dropped without a word.
OnMessage ==
  /\ stage = "sent"
  /\ stage' = IF IsExtensionCommandMessage([body EXCEPT !.id = "number"])
              THEN "held" ELSE "dropped"
  /\ UNCHANGED <<json, body, executed, response, answer>>

\* Mutant: only errorInfo is set.
ErrorInfoOnly(code) == [error |-> FALSE, code |-> code]

\* No message of the extension's errors is empty.
ToExtensionErrorResponse(code) == [error |-> TRUE, code |-> code]

\* The handler ends with a result or fails with one of the codes; `calls` tells
\* whether it called chrome.* before.
Respond(codes, calls) ==
  /\ stage' = "responded"
  /\ executed' = calls
  /\ response' \in { ToExtensionErrorResponse(code) : code \in codes }
                     \cup (IF calls THEN {Success} ELSE {})
  /\ UNCHANGED <<json, body, answer>>

\* What ensureAttached and the query or creation of the tab can fail with.
AttachErrors == {"DEBUGGER_ATTACH_FAILED", "TARGET_INFO_LOOKUP_FAILED", "INVALID_TARGET_INFO",
                 "RELAY_NOT_CONNECTED", "WS_SEND_FAILED", "UNEXPECTED_ERROR"}

\* handleCommand of cdp.ts.
HandleCdp ==
  /\ stage = "held" /\ body.method = "cdp"
  /\ \/ /\ body.params.method = GetTargets
        /\ Respond({"CDP_GET_TARGETS_FAILED"}, TRUE)
     \/ /\ body.params.method # GetTargets
        /\ body.params.targetId \in {"missing", "empty"}
        /\ Respond({"MISSING_TARGET_ID"}, FALSE)
     \/ /\ body.params.method # GetTargets
        /\ body.params.targetId = "string"
        /\ Respond({"CDP_COMMAND_FAILED"}, TRUE)

\* handleCommand of tab.ts.
HandleTab ==
  /\ stage = "held" /\ body.method = "tab"
  /\ \/ /\ body.params.method = "tab.countTabs"
        /\ Respond({"UNEXPECTED_ERROR"}, TRUE)
     \/ /\ body.params.method = "tab.getActiveTarget"
        /\ Respond(AttachErrors \cup {"NO_ACTIVE_TAB"}, TRUE)
     \/ /\ body.params.method = CreateTab /\ body.params.params = "url"
        /\ Respond(AttachErrors, TRUE)
     \/ /\ body.params.method = CreateTab /\ body.params.params # "url"
        /\ Respond({"INVALID_CREATE_TAB_URL"}, FALSE)
     \/ /\ body.params.method \notin TabQueries \cup {CreateTab}
        /\ Respond({"UNKNOWN_TAB_METHOD"}, FALSE)

\* The response reaches the relay: the rest of handleHttpCommand.
AnswerResponse ==
  /\ stage = "responded"
  /\ Answer(response)
  /\ UNCHANGED <<json, body, executed, response>>

\* The relay gives up: timeout, disconnection or reconnection.
GiveUp ==
  /\ stage \in {"sent", "held", "dropped", "responded"}
  /\ \E code \in {"COMMAND_TIMEOUT", "EXTENSION_DISCONNECTED", "EXTENSION_RECONNECTED"} :
       Fail(code)
  /\ UNCHANGED <<json, body, executed, response>>

Next ==
  \/ HandleHttpCommand \/ OnMessage
  \/ HandleCdp \/ HandleTab
  \/ AnswerResponse \/ GiveUp

Spec == Init /\ [][Next]_vars

-----------------------------------------------------------------------------
(* Properties.                                                             *)

\* The variables have the types their comments give them; statuses are those of
\* commandErrorToStatus (relay.ts:403-433).
TypeOK ==
  /\ stage \in {"arrived", "sent", "held", "dropped", "responded", "answered"}
  /\ json \in {"invalid", "value", "object"}
  /\ body \in Bodies
  /\ executed \in BOOLEAN
  /\ response.error \in BOOLEAN
  /\ answer.status \in {0, 200, 400, 404, 502, 503, 504} /\ answer.ok \in BOOLEAN

\* The shape that SKILL.md:31-41 documents, without further fields.
Documented(b) ==
  /\ b.id = "missing" /\ b.type = "missing"
  /\ IsExtensionMethod(b.method)
  /\ b.params.method \in Names
  /\ b.params.params \in {"missing", "url", "object"}
  /\ b.params.targetId \in {"missing", "empty", "string"}

\* A body of the documented shape is neither refused by the relay's checks nor
\* dropped by the extension's (relay.ts:582-692 and RelayProtocol.ts:147-163).
DocumentedIsTaken ==
  json = "object" /\ Documented(body) =>
    /\ stage # "dropped"
    /\ answer.code \notin {"INVALID_COMMAND_BODY", "INVALID_COMMAND_METHOD",
                           "INVALID_COMMAND_PARAMS", "INVALID_COMMAND_TARGET_ID"}

\* `ok`, which the relay takes from the response's error, the status, which it takes
\* from errorInfo, and what happened agree: a client that looks at one of them, as
\* get-active-target.ts:109 does, is not deceived (relay.ts:794-809).
OkIffSuccess ==
  stage = "answered" =>
    /\ answer.ok <=> answer.status = 200
    /\ answer.ok => executed

\* An answer 400 tells the client that nothing was done: the command may be
\* corrected and sent again (relay.ts:409-420, cdp.ts:62-73, tab.ts:300-325).
NothingDoneOn400 == answer.status = 400 => ~executed
=============================================================================
