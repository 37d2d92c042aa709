-------------------------- MODULE InferenceProofs --------------------------
(* What holds of Inference for any limits, as long as the soft one comes    *)
(* before the hard one, and for any server.                                 *)
EXTENDS Inference, TLAPS

LEMMA InitTypeOK == Init => TypeOK
BY Assumptions DEF Init, TypeOK

LEMMA NextTypeOK == TypeOK /\ [Next]_vars => TypeOK'
<1> SUFFICES ASSUME TypeOK, [Next]_vars PROVE TypeOK'
  OBVIOUS
<1> USE DEF TypeOK
<1>1. CASE Connected \/ Sent \/ PartArrives
  BY <1>1, Assumptions DEF Connected, Sent, PartArrives, MovesOn
<1>2. ASSUME NEW body \in Bodies, BodyArrives(body) PROVE TypeOK'
  BY <1>2 DEF BodyArrives
<1>3. CASE HttpError \/ PhaseTimesOut \/ WaitForTimesOut
  BY <1>3 DEF HttpError, PhaseTimesOut, WaitForTimesOut, Raised
<1>4. CASE RefuseConfig \/ MockAnswers \/ CallOllama
  BY <1>4 DEF RefuseConfig, MockAnswers, CallOllama
<1>5. CASE Normalize
  <2>1. answer' \in {Nothing, "object", "text", "blank"}
    BY <1>5 DEF Normalize, NormalizeStructured, NormalizeText
  <2>2. QED
    BY <1>5, <2>1 DEF Normalize
<1>6. CASE UseAnswer \/ UseError \/ Store
  BY <1>6 DEF UseAnswer, UseError, Store
<1>7. CASE \/ SoftLimitEscapes \/ SoftLimitCaught \/ SoftLimitLogged
           \/ HardLimitKills
  BY <1>7 DEF SoftLimitEscapes, SoftLimitCaught, SoftLimitLogged,
              HardLimitKills
<1>8. CASE Tick
  BY <1>8 DEF Tick
<1>9. CASE UNCHANGED vars
  BY <1>9 DEF vars
<1>10. QED
  BY <1>1, <1>2, <1>3, <1>4, <1>5, <1>6, <1>7, <1>8, <1>9
     DEF Next, Server, Program

(* Every variable of a run keeps its type: a provider hands over nothing    *)
(* but an object, a text or an error, however odd the reply.                *)
THEOREM TypeCorrect == Spec => []TypeOK
<1>1. QED
  BY InitTypeOK, NextTypeOK, PTL DEF Spec

-----------------------------------------------------------------------------
(* The limits. Time stops at the soft limit until its exception has been    *)
(* raised, so no timer overtakes it; once it is caught the run waits no     *)
(* more.                                                                    *)

SoftFirst ==
  /\ soft = "pending" => clock <= SoftLimit
  /\ soft # "pending" => clock >= SoftLimit
  /\ soft \in {"caught", "escaped"} => clock = SoftLimit
  /\ soft \in {"caught", "escaped"} =>
       at \in {"failed", "store", "stored", "lost"}

(* What the provider's normalisation guarantees to execute.                 *)
AnswerFits ==
  at = "answered" /\ mode = "structured" => answer = "object"

LimitInv == SoftFirst /\ AnswerFits /\ LostOnlyByLimit

LEMMA InitLimit == Init => LimitInv
BY Assumptions DEF Init, LimitInv, SoftFirst, AnswerFits, LostOnlyByLimit

LEMMA NextLimit == TypeOK /\ LimitInv /\ [Next]_vars => LimitInv'
<1> SUFFICES ASSUME TypeOK, LimitInv, [Next]_vars PROVE LimitInv'
  OBVIOUS
<1> USE DEF LimitInv, SoftFirst, AnswerFits, LostOnlyByLimit, Waiting
<1>0. clock \in Nat /\ SoftLimit \in Nat /\ HardLimit \in Nat
      /\ SoftLimit < HardLimit
  BY Assumptions DEF TypeOK
<1>1. CASE Connected \/ Sent \/ PartArrives
  BY <1>1 DEF Connected, Sent, PartArrives, MovesOn
<1>2. ASSUME NEW body \in Bodies, BodyArrives(body) PROVE LimitInv'
  BY <1>2 DEF BodyArrives
<1>3. CASE HttpError \/ PhaseTimesOut \/ WaitForTimesOut
  BY <1>3 DEF HttpError, PhaseTimesOut, WaitForTimesOut, Raised
<1>4. CASE RefuseConfig \/ MockAnswers \/ CallOllama
  BY <1>4 DEF RefuseConfig, MockAnswers, CallOllama, Supported
<1>5. CASE Normalize
  <2>1. mode = "structured" => answer' \in {Nothing, "object"}
    BY <1>5 DEF Normalize, NormalizeStructured
  <2>2. QED
    BY <1>5, <2>1 DEF Normalize
<1>6. CASE UseAnswer \/ UseError \/ Store
  BY <1>6 DEF UseAnswer, UseError, Store, TypeOK
<1>7. CASE SoftLimitEscapes \/ SoftLimitCaught \/ SoftLimitLogged
  BY <1>0, <1>7 DEF SoftLimitEscapes, SoftLimitCaught, SoftLimitLogged,
                    SoftDue, Ended
<1>8. CASE HardLimitKills
  <2>1. soft = "logged"
    BY <1>0, <1>8 DEF HardLimitKills, TypeOK
  <2>2. QED
    BY <1>8, <2>1 DEF HardLimitKills
<1>9. CASE Tick
  BY <1>0, <1>9 DEF Tick, SoftDue, Ended
<1>10. CASE UNCHANGED vars
  BY <1>10 DEF vars, Supported
<1>11. QED
  BY <1>1, <1>2, <1>3, <1>4, <1>5, <1>6, <1>7, <1>8, <1>9, <1>10
     DEF Next, Server, Program

(* For any server and any limits: a result is lost only to the soft limit,  *)
(* and a process is killed only after the soft limit's exception was.       *)
THEOREM ResultUnlessLimit == Spec => []LostOnlyByLimit
<1>1. QED
  BY InitTypeOK, NextTypeOK, InitLimit, NextLimit, PTL DEF Spec, LimitInv

-----------------------------------------------------------------------------
(* The time of a call, phase by phase.                                      *)

Paced ==
  /\ idle <= HttpTimeout
  /\ clock <= progress * HttpTimeout + idle

LEMMA InitPaced == Init => Paced
BY Assumptions DEF Init, Paced

LEMMA NextPaced == TypeOK /\ Paced /\ [Next]_vars => Paced'
<1> SUFFICES ASSUME TypeOK, Paced, [Next]_vars PROVE Paced'
  OBVIOUS
<1>0. /\ clock \in Nat /\ idle \in Nat /\ progress \in Nat
      /\ HttpTimeout \in Nat
  BY Assumptions DEF TypeOK
<1>1. CASE UNCHANGED <<clock, idle, progress>>
  BY <1>1 DEF Paced
<1>2. CASE Connected \/ Sent \/ PartArrives
  <2>1. /\ clock' = clock
        /\ idle' = 0
        /\ progress' = progress + 1
    BY <1>2 DEF Connected, Sent, PartArrives, MovesOn
  <2>2. (progress + 1) * HttpTimeout = progress * HttpTimeout + HttpTimeout
    BY <1>0
  <2>3. progress * HttpTimeout \in Nat
    BY <1>0
  <2>4. QED
    BY <1>0, <2>1, <2>2, <2>3 DEF Paced
<1>3. CASE Tick
  <2>1. progress * HttpTimeout \in Nat
    BY <1>0
  <2>2. QED
    BY <1>0, <1>3, <2>1 DEF Tick, Paced
<1>4. QED
  BY <1>1, <1>2, <1>3
     DEF Next, Server, Program, BodyArrives, HttpError, Raised, RefuseConfig,
         MockAnswers, CallOllama, PhaseTimesOut, WaitForTimesOut, Normalize,
         UseAnswer, UseError, Store, SoftLimitEscapes, SoftLimitCaught,
         SoftLimitLogged, HardLimitKills, vars

(* For any limits: a run without a result has had a server that moved on    *)
(* often enough to fill the soft limit, one HTTP timeout at a time.         *)
THEOREM SilenceCostsNoResult == Spec => []SilenceIsAFailure
<1>1. TypeOK /\ LimitInv /\ Paced => SilenceIsAFailure
  <2> SUFFICES ASSUME TypeOK, LimitInv, Paced, at \in {"lost", "killed"},
                      Supported
               PROVE  SoftLimit <= (progress + 1) * HttpTimeout
    BY DEF SilenceIsAFailure
  <2>1. clock >= SoftLimit
    BY DEF LimitInv, LostOnlyByLimit, SoftFirst
  <2>2. /\ clock \in Nat /\ idle \in Nat /\ progress \in Nat
        /\ HttpTimeout \in Nat /\ SoftLimit \in Nat
    BY Assumptions DEF TypeOK
  <2>3. (progress + 1) * HttpTimeout = progress * HttpTimeout + HttpTimeout
    BY <2>2
  <2>4. progress * HttpTimeout \in Nat
    BY <2>2
  <2>5. QED
    BY <2>1, <2>2, <2>3, <2>4 DEF Paced
<1>2. QED
  BY <1>1, InitTypeOK, NextTypeOK, InitLimit, NextLimit, InitPaced, NextPaced,
     PTL DEF Spec
=============================================================================
