----------------------------- MODULE Inference -----------------------------
(***************************************************************************)
(* The inference of one process_task against the clock: the provider the   *)
(* factory makes (packages/providers), the phases of Ollama's HTTP call    *)
(* with their timeout, the execution timeout of wait_for, and Celery's     *)
(* soft and hard limits. The contracts of the API and of the ingestion     *)
(* have the default policy, which is one attempt.                          *)
(*                                                                         *)
(* A run ends with a stored result, or lost (an exception leaves execute,  *)
(* and the except clause of process_task stores nothing: failure_metadata),*)
(* or killed with the process of the pool. Only waiting takes time.        *)
(***************************************************************************)
EXTENDS Naturals

CONSTANTS
  Providers,         \* values of provider_name
  Models,            \* values of provider_model
  HttpTimeout,       \* of each phase; the four limits share one unit of time
  ExecutionTimeout,
  SoftLimit,
  HardLimit,
  MaxProgress        \* bound: how often the server moves on within a call

ASSUME Assumptions ==
  /\ {HttpTimeout, ExecutionTimeout, SoftLimit, HardLimit} \subseteq Nat \ {0}
  /\ SoftLimit < HardLimit
  /\ MaxProgress \in Nat

VARIABLES
  config,    \* provider_name and provider_model
  mode,      \* _choose_strategy: "structured" or "text"
  at,        \* what the run is doing, or how it has ended
  clock,     \* time since the pool process took the message
  idle,      \* time since the phase began or a part of the body arrived
  progress,  \* how often the server moved on: connected, took, sent a part
  reply,     \* what Ollama's body holds
  answer,    \* what the provider returned
  soft       \* what became of SoftTimeLimitExceeded

vars == <<config, mode, at, clock, idle, progress, reply, answer, soft>>

Nothing == "nothing"

(* Bodies: no JSON, JSON that is no object, an object without a usable     *)
(* "response", or one whose response is an object, blank, or a text that   *)
(* is an object in JSON, other JSON, or neither.                           *)
Bodies == {"garbage", "bare", "without", "object", "blank", "text of object",
           "text of list", "text"}

Waiting == at \in {"connect", "send", "read"}
Ended == at \in {"stored", "lost", "killed"}

-----------------------------------------------------------------------------
(* create_provider                                                         *)

Supported ==
  \/ config.provider = "mock"
  \/ config.provider = "ollama" /\ config.model # ""

(* A ValueError, outside of execute.                                       *)
RefuseConfig ==
  /\ at = "create"
  /\ ~Supported
  /\ at' = "lost"
  /\ UNCHANGED <<config, mode, clock, idle, progress, reply, answer, soft>>

(* MockProvider answers without waiting.                                   *)
MockAnswers ==
  /\ at = "create"
  /\ config.provider = "mock"
  /\ answer' = IF mode = "structured" THEN "object" ELSE "text"
  /\ at' = "answered"
  /\ UNCHANGED <<config, mode, clock, idle, progress, reply, soft>>

CallOllama ==
  /\ at = "create"
  /\ Supported
  /\ config.provider = "ollama"
  /\ at' = "connect"
  /\ UNCHANGED <<config, mode, clock, idle, progress, reply, answer, soft>>

-----------------------------------------------------------------------------
(* _request_generate: httpx.Timeout holds for each phase anew.             *)

MovesOn(phase, next) ==
  /\ at = phase
  /\ progress < MaxProgress
  /\ at' = next
  /\ idle' = 0
  /\ progress' = progress + 1
  /\ UNCHANGED <<config, mode, clock, reply, answer, soft>>

Connected == MovesOn("connect", "send")
Sent == MovesOn("send", "read")
PartArrives == MovesOn("read", "read")

BodyArrives(body) ==
  /\ at = "read"
  /\ reply' = body
  /\ at' = "decode"
  /\ UNCHANGED <<config, mode, clock, idle, progress, answer, soft>>

(* The exception reaches _run_with_retry.                                  *)
Raised ==
  /\ at' = "failed"
  /\ UNCHANGED <<config, mode, clock, idle, progress, reply, answer, soft>>

(* HTTPError: refused, broken off, or an error status.                     *)
HttpError == Waiting /\ Raised

(* Mutant of PhaseTimesOut: execute does not catch the exception.          *)
PhaseTimeoutEscapes ==
  /\ Waiting
  /\ idle >= HttpTimeout
  /\ at' = "lost"
  /\ UNCHANGED <<config, mode, clock, idle, progress, reply, answer, soft>>

PhaseTimesOut == Waiting /\ idle >= HttpTimeout /\ Raised

(* asyncio.wait_for around the provider's call.                            *)
WaitForTimesOut == Waiting /\ clock >= ExecutionTimeout /\ Raised

-----------------------------------------------------------------------------
(* The reply as the provider returns it.                                   *)

(* _normalize_text_response: a string, stripped.                           *)
NormalizeText(body) ==
  CASE body \in {"text", "text of object", "text of list"} -> "text"
    [] body = "blank" -> "blank"
    [] OTHER -> Nothing

(* Mutant of NormalizeStructured: any JSON will do.                        *)
NormalizeJson(body) ==
  CASE body \in {"object", "text of object"} -> "object"
    [] body = "text of list" -> "list"
    [] OTHER -> Nothing

(* _normalize_structured_response: an object, as such or as its text.      *)
NormalizeStructured(body) ==
  IF body \in {"object", "text of object"} THEN "object" ELSE Nothing

(* Every body that is of no use raises an exception, if not always an      *)
(* OllamaProviderError.                                                    *)
Normalize ==
  /\ at = "decode"
  /\ answer' = IF mode = "structured" THEN NormalizeStructured(reply)
                                      ELSE NormalizeText(reply)
  /\ at' = IF answer' = Nothing THEN "failed" ELSE "answered"
  /\ UNCHANGED <<config, mode, clock, idle, progress, reply, soft>>

-----------------------------------------------------------------------------
(* The rest of execute and of process_task.                                *)

(* sorted(output_payload.keys()) is outside of the try; a text is wrapped  *)
(* in an object first.                                                     *)
UseAnswer ==
  /\ at = "answered"
  /\ at' = IF answer = "object" \/ mode = "text" THEN "store" ELSE "lost"
  /\ UNCHANGED <<config, mode, clock, idle, progress, reply, answer, soft>>

(* Mutant of UseError: the call is repeated without end.                   *)
RepeatCall ==
  /\ at = "failed"
  /\ at' = "connect"
  /\ idle' = 0
  /\ UNCHANGED <<config, mode, clock, progress, reply, answer, soft>>

(* _error_result: a failed result.                                         *)
UseError ==
  /\ at = "failed"
  /\ answer' = "error"
  /\ at' = "store"
  /\ UNCHANGED <<config, mode, clock, idle, progress, reply, soft>>

(* The second commit of process_task.                                      *)
Store ==
  /\ at = "store"
  /\ at' = "stored"
  /\ UNCHANGED <<config, mode, clock, idle, progress, reply, answer, soft>>

-----------------------------------------------------------------------------
(* Celery's limits: a signal to the process, which the interpreter turns   *)
(* into an exception wherever it is.                                       *)

SoftDue == clock >= SoftLimit /\ soft = "pending" /\ ~Ended

(* In the event loop's own wait, or in the synchronous code around the     *)
(* call: it leaves asyncio.run, or execute.                                *)
SoftLimitEscapes ==
  /\ SoftDue
  /\ at # "decode"
  /\ soft' = "escaped"
  /\ at' = "lost"
  /\ UNCHANGED <<config, mode, clock, idle, progress, reply, answer>>

(* Mutant of SoftLimitCaught: and calls again.                             *)
SoftLimitRetried ==
  /\ SoftDue
  /\ Waiting \/ at = "decode"
  /\ soft' = "caught"
  /\ at' = "connect"
  /\ idle' = 0
  /\ UNCHANGED <<config, mode, clock, progress, reply, answer>>

(* In the provider's own code: _run_with_retry takes it for a failed call. *)
SoftLimitCaught ==
  /\ SoftDue
  /\ Waiting \/ at = "decode"
  /\ soft' = "caught"
  /\ at' = "failed"
  /\ UNCHANGED <<config, mode, clock, idle, progress, reply, answer>>

(* In a callback of the event loop, which logs it and goes on.             *)
SoftLimitLogged ==
  /\ SoftDue
  /\ Waiting
  /\ soft' = "logged"
  /\ UNCHANGED <<config, mode, at, clock, idle, progress, reply, answer>>

HardLimitKills ==
  /\ clock >= HardLimit
  /\ ~Ended
  /\ at' = "killed"
  /\ UNCHANGED <<config, mode, clock, idle, progress, reply, answer, soft>>

(* Time does not pass a timer that is due.                                 *)
Tick ==
  /\ Waiting
  /\ idle < HttpTimeout
  /\ clock < ExecutionTimeout
  /\ clock < HardLimit
  /\ ~SoftDue
  /\ clock' = clock + 1
  /\ idle' = idle + 1
  /\ UNCHANGED <<config, mode, at, progress, reply, answer, soft>>

-----------------------------------------------------------------------------

Init ==
  /\ config \in [provider : Providers, model : Models]
  /\ mode \in {"structured", "text"}
  /\ at = "create"
  /\ clock = 0
  /\ idle = 0
  /\ progress = 0
  /\ reply = Nothing
  /\ answer = Nothing
  /\ soft = "pending"

Server ==
  \/ Connected
  \/ Sent
  \/ PartArrives
  \/ \E body \in Bodies : BodyArrives(body)
  \/ HttpError

(* What happens of itself, whatever the server does.                       *)
Program ==
  \/ RefuseConfig \/ MockAnswers \/ CallOllama
  \/ PhaseTimesOut \/ WaitForTimesOut
  \/ Normalize \/ UseAnswer \/ UseError \/ Store
  \/ SoftLimitEscapes \/ SoftLimitCaught \/ SoftLimitLogged \/ HardLimitKills
  \/ Tick

Next == Server \/ Program

Spec == Init /\ [][Next]_vars

(* Timers fire and code runs on; the server owes nothing.                  *)
FairSpec == Spec /\ WF_vars(Program)

-----------------------------------------------------------------------------

TypeOK ==
  /\ config \in [provider : Providers, model : Models]
  /\ mode \in {"structured", "text"}
  /\ at \in {"create", "connect", "send", "read", "decode", "answered",
             "failed", "store", "stored", "lost", "killed"}
  /\ clock \in Nat
  /\ idle \in Nat
  /\ progress \in 0 .. MaxProgress
  /\ reply \in Bodies \cup {Nothing}
  /\ answer \in {Nothing, "object", "text", "blank", "error"}
  /\ soft \in {"pending", "escaped", "caught", "logged"}

(* Whatever the server sends, and whenever it stops sending, the run has a *)
(* result: only the soft limit, or a provider nobody can make, loses it,   *)
(* and the hard limit never comes first: a process is killed only when the *)
(* exception of the soft limit was lost in the event loop, and the call    *)
(* still went on.                                                          *)
LostOnlyByLimit ==
  /\ at = "lost" => soft = "escaped" \/ ~Supported
  /\ at = "killed" => soft = "logged"

(* A server that falls silent costs a failed result and not the limit: a   *)
(* run without a result was held by one that kept moving on, often enough  *)
(* for the phases it had to fill the time.                                 *)
SilenceIsAFailure ==
  at \in {"lost", "killed"} /\ Supported =>
    SoftLimit <= (progress + 1) * HttpTimeout

(* The pool gets its process back, though the server never answers.        *)
Ends == <>Ended
=============================================================================
