------------------------- MODULE CommandPathProofs -------------------------
(***************************************************************************)
(* Proofs about the way of a command, for any methods.                     *)
(***************************************************************************)
EXTENDS CommandPath, TLAPS

\* The codes that responses of the extension carry.
ResponseCodes ==
  AttachErrors \cup {"NONE", "NO_ACTIVE_TAB", "CDP_GET_TARGETS_FAILED", "CDP_COMMAND_FAILED",
                     "MISSING_TARGET_ID", "INVALID_CREATE_TAB_URL", "UNKNOWN_TAB_METHOD"}

\* The codes with which the relay refuses a documented shape.
ShapeErrors == {"INVALID_COMMAND_BODY", "INVALID_COMMAND_METHOD", "INVALID_COMMAND_PARAMS",
                "INVALID_COMMAND_TARGET_ID"}

Statuses == {0, 200, 400, 404, 502, 503, 504}

BodyIsDocumented == json = "object" /\ Documented(body)

TypeInv ==
  /\ stage \in {"arrived", "sent", "held", "dropped", "responded", "answered"}
  /\ json \in {"invalid", "value", "object"}
  /\ body \in Bodies
  /\ executed \in BOOLEAN
  /\ response \in [error : BOOLEAN, code : ResponseCodes]
  /\ answer.status \in Statuses /\ answer.ok \in BOOLEAN

\* What a response says of what was done.
ResponseInv ==
  /\ stage \in {"arrived", "sent", "held", "dropped"} => ~executed
  /\ stage = "responded" =>
       /\ response.error <=> response.code # "NONE"
       /\ ~response.error => executed
       /\ response.code \in BadRequest => ~executed

\* Before the answer there is none.
AnswerInv == stage # "answered" => answer.status = 0 /\ answer.code = "NONE"

Inv == /\ TypeInv /\ ResponseInv /\ AnswerInv
       /\ DocumentedIsTaken /\ OkIffSuccess /\ NothingDoneOn400

-----------------------------------------------------------------------------

\* Every code has one of the statuses; 200 is for none, 400 for bad requests.
LEMMA StatusOfCode ==
  ASSUME NEW code
  PROVE  /\ CommandErrorToStatus(code) \in Statuses \ {0}
         /\ CommandErrorToStatus(code) = 200 <=> code = "NONE"
         /\ CommandErrorToStatus(code) = 400 <=> code \in BadRequest
  BY DEF CommandErrorToStatus, Statuses, BadRequest

\* The relay lets a documented body pass, and so does the extension.
LEMMA DocumentedPasses ==
  ASSUME NEW b \in Bodies, Documented(b)
  PROVE  /\ ParseHttpCommandBody(b) = {}
         /\ IsExtensionCommandMessage([b EXCEPT !.id = "number"])
<1>1. b.params \in Parameters
  BY CommandPathConstants DEF Bodies, Documented, NoParams
<1>2. ~IsExtensionCommandMessage(b) /\ ~IsClientEnvelope(b)
  BY DEF Documented, IsExtensionCommandMessage, IsClientEnvelope
<1>3. BareBodyError(b) = {}
  BY DEF Documented, BareBodyError, TargetRefused
<1>4. IsExtensionCommandMessage([b EXCEPT !.id = "number"])
  BY <1>1 DEF Bodies, Documented, IsExtensionCommandMessage, IsParams
<1> QED BY <1>2, <1>3, <1>4 DEF ParseHttpCommandBody

\* parseHttpCommandBody refuses with the code of a bad request.
LEMMA RefusalIsBadRequest ==
  ASSUME NEW b, NEW code \in ParseHttpCommandBody(b)
  PROVE  code \in BadRequest
  BY DEF ParseHttpCommandBody, BareBodyError, BadRequest

-----------------------------------------------------------------------------

LEMMA InvInit == Init => Inv
<1> SUFFICES ASSUME Init PROVE Inv
  OBVIOUS
<1>1. body \in Bodies
  BY DEF Init, Bodies, NoParams
<1>2. TypeInv
  BY <1>1 DEF Init, TypeInv, Success, ResponseCodes, Statuses
<1> QED BY <1>2 DEF Init, Inv, ResponseInv, AnswerInv, DocumentedIsTaken, OkIffSuccess,
                    NothingDoneOn400

\* What an answer with an error code does.
LEMMA FailStep ==
  ASSUME Inv, NEW code, code # "NONE", Fail(code),
         UNCHANGED <<json, body, executed, response>>,
         code \in BadRequest => ~executed,
         BodyIsDocumented => code \notin ShapeErrors
  PROVE  Inv'
<1>1. /\ answer'.status = CommandErrorToStatus(code)
      /\ answer'.ok = FALSE
      /\ answer'.code = code
      /\ stage' = "answered"
  BY DEF Fail, Answer
<1>2. TypeInv'
  <2>1. answer'.status \in Statuses
    BY <1>1, StatusOfCode
  <2>2. answer'.ok \in BOOLEAN
    BY <1>1
  <2> QED BY <1>1, <2>1, <2>2 DEF Inv, TypeInv
<1>3. ResponseInv' /\ AnswerInv'
  BY <1>1 DEF ResponseInv, AnswerInv
<1>4. DocumentedIsTaken'
  BY <1>1 DEF DocumentedIsTaken, Documented, BodyIsDocumented, ShapeErrors
<1>5. OkIffSuccess' /\ NothingDoneOn400'
  BY <1>1, StatusOfCode DEF OkIffSuccess, NothingDoneOn400
<1> QED BY <1>2, <1>3, <1>4, <1>5 DEF Inv

\* What a response of the extension does.
LEMMA RespondStep ==
  ASSUME Inv, stage = "held", NEW codes \in SUBSET (ResponseCodes \ {"NONE"}),
         NEW calls \in BOOLEAN, Respond(codes, calls),
         calls => codes \cap BadRequest = {}
  PROVE  Inv'
<1> DEFINE Fits(r) ==
      /\ r \in [error : BOOLEAN, code : ResponseCodes]
      /\ r.error <=> r.code # "NONE"
      /\ ~r.error => calls
      /\ r.code \in BadRequest => ~calls
<1>0. Fits(response')
  <2>1. ASSUME NEW code \in codes PROVE Fits(ToExtensionErrorResponse(code))
    BY <2>1 DEF ToExtensionErrorResponse
  <2>2. calls => Fits(Success)
    BY DEF Success, ResponseCodes, BadRequest
  <2>3. (\E code \in codes : response' = ToExtensionErrorResponse(code))
          \/ (calls /\ response' = Success)
    BY DEF Respond
  <2> QED BY <2>1, <2>2, <2>3
<1>1. /\ stage' = "responded" /\ executed' = calls
      /\ UNCHANGED <<json, body, answer>>
  BY DEF Respond
<1>2. TypeInv' /\ ResponseInv' /\ AnswerInv'
  BY <1>0, <1>1 DEF Inv, TypeInv, ResponseInv, AnswerInv
<1>3. DocumentedIsTaken'
  BY <1>1 DEF Inv, DocumentedIsTaken, Documented
<1>4. OkIffSuccess' /\ NothingDoneOn400'
  BY <1>1 DEF Inv, AnswerInv, OkIffSuccess, NothingDoneOn400
<1> QED BY <1>2, <1>3, <1>4 DEF Inv

\* Every action keeps Inv.
LEMMA InvStep == Inv /\ [Next]_vars => Inv'
<1> SUFFICES ASSUME Inv, [Next]_vars PROVE Inv'
  OBVIOUS
<1>1. ASSUME HandleHttpCommand PROVE Inv'
  <2>1. CASE \E code \in {"INVALID_JSON", "INVALID_COMMAND_BODY"} :
               json # "object" /\ Fail(code)
    BY <1>1, <2>1, FailStep DEF HandleHttpCommand, Inv, ResponseInv, BodyIsDocumented
  <2>2. CASE json = "object" /\ \E code \in ParseHttpCommandBody(body) : Fail(code)
    <3>1. PICK code \in ParseHttpCommandBody(body) : Fail(code)
      BY <2>2
    <3>2. code \in BadRequest /\ code # "NONE"
      BY <3>1, RefusalIsBadRequest DEF BadRequest
    <3>3. ~BodyIsDocumented
      BY <3>1, DocumentedPasses DEF BodyIsDocumented, Inv, TypeInv
    <3> QED BY <1>1, <3>1, <3>2, <3>3, FailStep DEF HandleHttpCommand, Inv, ResponseInv
  <2>3. CASE \E code \in {"EXTENSION_NOT_CONNECTED", "WS_SEND_FAILED"} : Fail(code)
    BY <1>1, <2>3, FailStep DEF HandleHttpCommand, BadRequest, ShapeErrors
  <2>4. CASE stage' = "sent" /\ UNCHANGED answer
    BY <1>1, <2>4 DEF HandleHttpCommand, Inv, TypeInv, ResponseInv, AnswerInv,
                      DocumentedIsTaken, Documented, OkIffSuccess, NothingDoneOn400
  <2> QED BY <1>1, <2>1, <2>2, <2>3, <2>4 DEF HandleHttpCommand
<1>2. ASSUME OnMessage PROVE Inv'
  <2>1. BodyIsDocumented => stage' = "held"
    BY <1>2, DocumentedPasses DEF OnMessage, BodyIsDocumented, Inv, TypeInv
  <2>2. DocumentedIsTaken'
    BY <1>2, <2>1 DEF OnMessage, Inv, AnswerInv, DocumentedIsTaken, Documented,
                      BodyIsDocumented
  <2> QED BY <1>2, <2>2 DEF OnMessage, Inv, TypeInv, ResponseInv, AnswerInv, OkIffSuccess,
                            NothingDoneOn400
<1>3. ASSUME HandleCdp PROVE Inv'
  <2> USE <1>3, RespondStep DEF ResponseCodes, BadRequest
  <2>1. CASE Respond({"CDP_GET_TARGETS_FAILED"}, TRUE)
    BY <2>1 DEF HandleCdp
  <2>2. CASE Respond({"MISSING_TARGET_ID"}, FALSE)
    BY <2>2 DEF HandleCdp
  <2>3. CASE Respond({"CDP_COMMAND_FAILED"}, TRUE)
    BY <2>3 DEF HandleCdp
  <2> QED BY <2>1, <2>2, <2>3 DEF HandleCdp
<1>4. ASSUME HandleTab PROVE Inv'
  <2> USE <1>4, RespondStep DEF ResponseCodes, BadRequest, AttachErrors
  <2>1. CASE Respond({"UNEXPECTED_ERROR"}, TRUE)
    BY <2>1 DEF HandleTab
  <2>2. CASE Respond(AttachErrors \cup {"NO_ACTIVE_TAB"}, TRUE)
    BY <2>2 DEF HandleTab
  <2>3. CASE Respond(AttachErrors, TRUE)
    BY <2>3 DEF HandleTab
  <2>4. CASE Respond({"INVALID_CREATE_TAB_URL"}, FALSE)
    BY <2>4 DEF HandleTab
  <2>5. CASE Respond({"UNKNOWN_TAB_METHOD"}, FALSE)
    BY <2>5 DEF HandleTab
  <2> QED BY <2>1, <2>2, <2>3, <2>4, <2>5 DEF HandleTab
<1>5. ASSUME AnswerResponse PROVE Inv'
  <2>1. /\ answer'.status = CommandErrorToStatus(response.code)
        /\ answer'.ok = ~response.error
        /\ answer'.code = response.code
        /\ stage = "responded" /\ stage' = "answered"
        /\ UNCHANGED <<json, body, executed, response>>
    BY <1>5 DEF AnswerResponse, Answer
  <2>2. TypeInv'
    BY <2>1, StatusOfCode DEF Inv, TypeInv
  <2>3. ResponseInv' /\ AnswerInv'
    BY <2>1 DEF ResponseInv, AnswerInv
  <2>4. DocumentedIsTaken'
    BY <2>1 DEF Inv, TypeInv, ResponseCodes, AttachErrors, DocumentedIsTaken
  <2>5. OkIffSuccess'
    <3>1. response.error <=> CommandErrorToStatus(response.code) # 200
      BY <2>1, StatusOfCode DEF Inv, ResponseInv
    <3>2. ~response.error => executed
      BY <2>1 DEF Inv, ResponseInv
    <3>3. response.error \in BOOLEAN
      BY DEF Inv, TypeInv
    <3> QED BY <2>1, <3>1, <3>2, <3>3 DEF OkIffSuccess
  <2>6. NothingDoneOn400'
    <3>1. CommandErrorToStatus(response.code) = 400 => ~executed
      BY <2>1, StatusOfCode DEF Inv, ResponseInv
    <3> QED BY <2>1, <3>1 DEF NothingDoneOn400
  <2> QED BY <2>2, <2>3, <2>4, <2>5, <2>6 DEF Inv
<1>6. ASSUME GiveUp PROVE Inv'
  BY <1>6, FailStep DEF GiveUp, BadRequest, ShapeErrors
<1>7. CASE UNCHANGED vars
  BY <1>7 DEF vars, Inv, TypeInv, ResponseInv, AnswerInv, DocumentedIsTaken, Documented,
              OkIffSuccess, NothingDoneOn400
<1> QED BY <1>1, <1>2, <1>3, <1>4, <1>5, <1>6, <1>7 DEF Next

\* For any methods, a body of the documented shape is taken by both sides, `ok`, the
\* status and what happened agree, and a 400 means that nothing was done
\* (relay.ts:582-814, background.ts:277-299, cdp.ts:32-90, tab.ts:279-327).
THEOREM CommandPathCorrect ==
  Spec => [](TypeOK /\ DocumentedIsTaken /\ OkIffSuccess /\ NothingDoneOn400)
<1>1. Inv => TypeOK /\ DocumentedIsTaken /\ OkIffSuccess /\ NothingDoneOn400
  BY DEF Inv, TypeInv, TypeOK, Statuses
<1> QED BY <1>1, InvInit, InvStep, PTL DEF Spec
=============================================================================
