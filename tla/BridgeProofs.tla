------------------------------ MODULE BridgeProofs ------------------------------
(***************************************************************************)
(* Theorems about MqttBridge, for any number of workers and requests.      *)
(***************************************************************************)
EXTENDS MqttBridge, TLAPS

(***************************************************************************)
(* What a worker's record must satisfy, given who holds mtx_.              *)
(***************************************************************************)
WorkOK(w) ==
    /\ work[w].aio = "call" <=> mtx = w
    /\ work[w].state = "WAIT" <=> work[w].msg # None
    /\ work[w].aio = "call" => work[w].state = "WAIT"
    /\ work[w].aio = "send" => work[w].state = "SEND" /\ work[w].out # None

\* A fresh Work record.
LEMMA FreshType == Fresh \in Work
BY BoundsAssumption DEF Fresh, Work

LEMMA BridgeInitType == Init => TypeOK
BY FreshType, BoundsAssumption, BridgeNoneAssumption DEF Init, TypeOK, Main, Fresh

\* One callback step changes one worker's record.
LEMMA CallbackType ==
    ASSUME TypeOK, NEW w \in Workers, Callback(w)
    PROVE  TypeOK'
<1> USE DEF TypeOK
<1>0. work[w] \in Work /\ w # None /\ None \notin Requests
  BY BridgeNoneAssumption
<1>1. \A op \in {"recv", "sleep", "send"} : Arm(w, op) \in {op, "off"}
  BY DEF Arm
<1>2. ASSUME Rearm(w), work[w].aio # "call", UNCHANGED <<mtx>>
      PROVE  /\ work' \in [Workers -> Work]
             /\ \A v \in Workers : WorkOK(v)'
  <2> DEFINE rec == [work[w] EXCEPT !.state = "RECV", !.aio = Arm(w, "recv"), !.msg = None,
                                    !.out = None, !.outTo = None]
  <2>0. rec \in Work
    BY <1>0, <1>1 DEF Work
  <2>1. work' \in [Workers -> Work]
    <3>1. work' = [work EXCEPT ![w] = rec]
      BY <1>0, <1>2 DEF Rearm
    <3> QED
      BY <2>0, <3>1
  <2>2. WorkOK(w)'
    BY <1>0, <1>1, <1>2 DEF Rearm, WorkOK, Work
  <2>3. \A v \in Workers \ {w} : work'[v] = work[v]
    BY <1>2 DEF Rearm
  <2>4. \A v \in Workers \ {w} : WorkOK(v)'
    BY <1>2, <2>3 DEF WorkOK
  <2> QED
    BY <2>1, <2>2, <2>4
<1>3. ASSUME Finish(w), work[w].aio = "call"
      PROVE  /\ work' \in [Workers -> Work]
             /\ mtx' = None
             /\ \A v \in Workers : WorkOK(v)'
  <2>1. work[w].msg \in Requests /\ Topic(work[w].msg) \in Topics
    BY <1>0, <1>3 DEF Topic, Topics, Work
  <2> QED
    <3> DEFINE rec == [work[w] EXCEPT !.state = "SEND", !.aio = Arm(w, "sleep"),
                                      !.topic = Topic(work[w].msg), !.reply = work[w].msg,
                                      !.msg = None, !.streams = FALSE]
    <3>0. rec \in Work /\ work' = [work EXCEPT ![w] = rec]
      <4>1. rec \in Work
        BY <1>0, <1>1, <2>1 DEF Work
      <4>2. work' = [work EXCEPT ![w] = rec]
        BY <1>0, <1>3 DEF Finish
      <4> QED
        BY <4>1, <4>2
    <3>1. work' \in [Workers -> Work] /\ mtx' = None
      BY <1>3, <3>0 DEF Finish
    <3>2. WorkOK(w)'
      BY <1>0, <1>1, <1>3, <2>1 DEF Finish, WorkOK, Work
    <3>3. \A v \in Workers \ {w} : work'[v] = work[v]
      BY <1>3 DEF Finish
    <3>4. \A v \in Workers \ {w} : WorkOK(v)'
      BY <1>3, <3>1, <3>3, BridgeNoneAssumption DEF WorkOK
    <3> QED
      BY <3>1, <3>2, <3>4
<1>4. ASSUME work[w].aio = "call", NEW l \in 0 .. MaxDocs, NEW a \in 0 .. MaxRetries,
             NEW s \in BOOLEAN, UNCHANGED <<mtx>>,
             work' = [work EXCEPT ![w].left = l, ![w].attempt = a, ![w].streams = s]
      PROVE  /\ work' \in [Workers -> Work]
             /\ \A v \in Workers : WorkOK(v)'
  <2> DEFINE rec == [work[w] EXCEPT !.left = l, !.attempt = a, !.streams = s]
  <2>1. rec \in Work
    BY <1>0, <1>4 DEF Work
  <2>2. work' = [work EXCEPT ![w] = rec]
    BY <1>0, <1>4
  <2>3. work' \in [Workers -> Work] /\ \A v \in Workers \ {w} : work'[v] = work[v]
    BY <2>1, <2>2
  <2>4. WorkOK(w)'
    BY <1>0, <1>4, <2>2 DEF WorkOK, Work
  <2> QED
    BY <1>4, <2>3, <2>4 DEF WorkOK
<1>5. ASSUME NEW r \in Requests, NEW what \in {"docs", "replies"},
             sent' \in {sent, [sent EXCEPT ![r][what] = @ + 1]}
      PROVE  sent' \in [Requests -> [docs : Nat, replies : Nat]]
  BY <1>5
<1>6. ASSUME work' \in [Workers -> Work], \A v \in Workers : WorkOK(v)', main' \in Main,
             inbox' \subseteq Requests, mtx' \in Workers \cup {None}, stopped' \subseteq Workers,
             sent' \in [Requests -> [docs : Nat, replies : Nat]], faults' \in 0 .. MaxFaults
      PROVE  TypeOK'
  BY <1>6 DEF WorkOK
<1>7. ASSUME NEW kind, Fault(kind)
      PROVE  faults' \in 0 .. MaxFaults
  BY <1>7, BoundsAssumption DEF Fault
<1>8. ASSUME Published(w)
      PROVE  sent' \in [Requests -> [docs : Nat, replies : Nat]]
  <2>1. work[w].aio = "send" => work[w].out \in Requests
    BY <1>0 DEF Work
  <2> QED
    BY <1>8, <2>1 DEF Published
<1>9. CASE Receive(w)
  <2>1. PICK r \in inbox : work' = [work EXCEPT ![w].state = "WAIT", ![w].aio = "sleep",
                                                ![w].msg = r, ![w].serving = r]
    BY <1>9 DEF Receive
  <2> DEFINE rec == [work[w] EXCEPT !.state = "WAIT", !.aio = "sleep", !.msg = r, !.serving = r]
  <2>2. work' \in [Workers -> Work] /\ \A v \in Workers : WorkOK(v)'
    <3>1. rec \in Work
      BY <1>0 DEF Work
    <3>2. work' = [work EXCEPT ![w] = rec]
      BY <1>0, <2>1
    <3>3. work' \in [Workers -> Work] /\ \A v \in Workers \ {w} : work'[v] = work[v]
      BY <3>1, <3>2
    <3>4. WorkOK(w)'
      BY <1>0, <1>9, <3>2 DEF Receive, WorkOK, Work
    <3> QED
      BY <1>9, <3>3, <3>4 DEF Receive, WorkOK
  <2> QED
    BY <1>6, <1>9, <2>2 DEF Receive
<1>10. CASE ReceiveFails(w)
  BY <1>2, <1>6, <1>7, <1>10 DEF ReceiveFails
<1>11. CASE Skip(w)
  BY <1>2, <1>6, <1>11 DEF Skip
<1>12. CASE Lock(w)
  <2>1. work' = [work EXCEPT ![w].aio = "call", ![w].topic = Prefix] /\ mtx' = w
    BY <1>12 DEF Lock
  <2>2. work' \in [Workers -> Work]
    <3>1. [work[w] EXCEPT !.aio = "call", !.topic = Prefix] \in Work
      BY <1>0 DEF Work, Topics
    <3>2. work' = [work EXCEPT ![w] = [work[w] EXCEPT !.aio = "call", !.topic = Prefix]]
      BY <1>0, <2>1
    <3> QED
      BY <3>1, <3>2
  <2>3. WorkOK(w)'
    BY <1>0, <1>12, <2>1 DEF Lock, WorkOK, Work
  <2>4. \A v \in Workers \ {w} : WorkOK(v)'
    BY <1>12, <2>1, BridgeNoneAssumption DEF Lock, WorkOK
  <2> QED
    BY <1>6, <1>12, <2>1, <2>2, <2>3, <2>4 DEF Lock
<1>13. CASE Answer(w)
  BY <1>3, <1>6, <1>13 DEF Answer
<1>14. CASE AnswerClosed(w)
  BY <1>14 DEF AnswerClosed, Main
<1>15. CASE Query(w)
  <2>1. PICK n \in 0 .. MaxDocs :
          work' = [work EXCEPT ![w].streams = TRUE, ![w].left = n, ![w].attempt = 0]
    BY <1>15 DEF Query
  <2>2. work' = [work EXCEPT ![w].left = n, ![w].attempt = 0, ![w].streams = TRUE]
    BY <2>1
  <2>3. 0 \in 0 .. MaxRetries
    BY BoundsAssumption
  <2> QED
    BY <1>4, <1>6, <1>15, <2>2, <2>3 DEF Query
<1>16. ASSUME Sending(w), NextDoc(w), UNCHANGED <<mtx>>
       PROVE  /\ work' \in [Workers -> Work]
              /\ \A v \in Workers : WorkOK(v)'
  <2>1. work[w].left - 1 \in 0 .. MaxDocs /\ 0 \in 0 .. MaxRetries
    BY <1>0, <1>16, BoundsAssumption DEF Sending, Work
  <2>2. work' = [work EXCEPT ![w].left = work[w].left - 1, ![w].attempt = 0,
                             ![w].streams = work[w].streams]
    BY <1>0, <1>16 DEF NextDoc, Work
  <2>3. work[w].streams \in BOOLEAN
    BY <1>0 DEF Work
  <2> QED
    BY <1>4, <1>16, <2>1, <2>2, <2>3 DEF Sending
<1>17. Sending(w) => work[w].msg \in Requests
  BY <1>0 DEF Sending, Work
<1>18. CASE SendDoc(w)
  BY <1>6, <1>16, <1>17, <1>18 DEF SendDoc
<1>19. CASE SendTimesOut(w)
  <2>1. sent' \in [Requests -> [docs : Nat, replies : Nat]]
    BY <1>5, <1>17, <1>19 DEF SendTimesOut, MayPublish
  <2>2. CASE work[w].attempt < MaxRetries
    <3>1. work' = [work EXCEPT ![w].attempt = @ + 1]
      BY <1>19, <2>2 DEF SendTimesOut
    <3>2. work[w].attempt + 1 \in 0 .. MaxRetries
      BY <1>0, <2>2, BoundsAssumption DEF Work
    <3>3. work' \in [Workers -> Work] /\ \A v \in Workers : WorkOK(v)'
      <4>1. work[w].left \in 0 .. MaxDocs /\ work[w].streams \in BOOLEAN
        BY <1>0 DEF Work
      <4>2. work' = [work EXCEPT ![w].left = work[w].left, ![w].attempt = work[w].attempt + 1,
                                 ![w].streams = work[w].streams]
        BY <1>0, <3>1 DEF Work
      <4> QED
        BY <1>4, <1>19, <3>2, <4>1, <4>2 DEF SendTimesOut, Sending
    <3> QED
      BY <1>6, <1>19, <2>1, <3>3 DEF SendTimesOut
  <2>3. CASE ~(work[w].attempt < MaxRetries)
    BY <1>6, <1>16, <1>19, <2>1, <2>3 DEF SendTimesOut
  <2> QED
    BY <2>2, <2>3
<1>20. CASE SendGivesUp(w)
  BY <1>5, <1>6, <1>7, <1>16, <1>17, <1>20 DEF SendGivesUp, MayPublish
<1>21. CASE StreamDone(w)
  BY <1>3, <1>6, <1>21 DEF StreamDone
<1>22. CASE Publish(w)
  <2> DEFINE rec == [work[w] EXCEPT !.aio = Arm(w, "send"), !.out = work[w].reply,
                                    !.outTo = work[w].topic, !.reply = None, !.topic = None]
  <2>1. work' \in [Workers -> Work] /\ \A v \in Workers : WorkOK(v)'
    <3>1. rec \in Work
      BY <1>0, <1>1 DEF Work
    <3>2. work' = [work EXCEPT ![w] = rec]
      BY <1>0, <1>22 DEF Publish
    <3>3. work' \in [Workers -> Work] /\ \A v \in Workers \ {w} : work'[v] = work[v]
      BY <3>1, <3>2
    <3>4. WorkOK(w)'
      BY <1>0, <1>1, <1>22, <3>2 DEF Publish, WorkOK, Work
    <3>5. \A v \in Workers \ {w} : WorkOK(v)'
      BY <1>22, <3>3 DEF Publish, WorkOK
    <3> QED
      BY <3>3, <3>4, <3>5
  <2> QED
    BY <1>6, <1>8, <1>22, <2>1 DEF Publish
<1>23. CASE PublishAllocFails(w)
  BY <1>2, <1>6, <1>7, <1>8, <1>23 DEF PublishAllocFails
<1>24. CASE PublishDone(w)
  BY <1>2, <1>6, <1>8, <1>24 DEF PublishDone
<1>25. CASE PublishFails(w)
  <2>1. work[w].out \in Requests
    BY <1>0, <1>25 DEF PublishFails, Work
  <2> QED
    BY <1>2, <1>5, <1>6, <1>7, <1>25, <2>1 DEF PublishFails, MayPublish
<1> QED
  BY <1>9, <1>10, <1>11, <1>12, <1>13, <1>14, <1>15, <1>18, <1>19, <1>20, <1>21, <1>22,
     <1>23, <1>24, <1>25 DEF Callback

\* One step of start, stop or a crash.
LEMMA MainType ==
    ASSUME TypeOK, Start \/ StartFails \/ StartStep \/ StopClose \/ StopStep \/ Crash
    PROVE  TypeOK'
<1> USE DEF TypeOK
<1>1. CASE Start \/ StopClose
  BY <1>1 DEF Start, StopClose, Main
<1>2. CASE StartFails
  BY <1>2, BoundsAssumption DEF StartFails, Fault
<1>3. CASE StartStep
  <2>1. PICK w \in Workers : StartWorker(w)
    BY <1>3 DEF StartStep
  <2>2. work[w] \in Work /\ Arm(w, "recv") \in {"recv", "off"}
    BY DEF Arm
  <2>3. work[w].aio # "call" /\ work[w].aio # "send" /\ mtx # w
    BY <2>1 DEF StartWorker
  <2>4. work' = [work EXCEPT ![w].state = "RECV", ![w].aio = Arm(w, "recv"),
                             ![w].msg = None, ![w].out = None, ![w].outTo = None]
    BY <2>1 DEF StartWorker, Rearm
  <2> DEFINE rec == [work[w] EXCEPT !.state = "RECV", !.aio = Arm(w, "recv"), !.msg = None,
                                    !.out = None, !.outTo = None]
  <2>5. work' \in [Workers -> Work] /\ mtx' = mtx
    <3>1. rec \in Work
      BY <2>2 DEF Work
    <3>2. work' = [work EXCEPT ![w] = rec]
      BY <2>2, <2>4
    <3> QED
      BY <2>1, <3>1, <3>2 DEF StartWorker
  <2>6. WorkOK(w)'
    BY <2>2, <2>3, <2>4, <2>5 DEF WorkOK, Work
  <2>7. \A v \in Workers \ {w} : work'[v] = work[v]
    BY <2>4
  <2>8. \A v \in Workers \ {w} : WorkOK(v)'
    BY <2>5, <2>7 DEF WorkOK
  <2>9. \A v \in Workers : WorkOK(v)'
    BY <2>6, <2>8
  <2> QED
    BY <2>1, <2>5, <2>9 DEF StartWorker, WorkOK, Main
<1>4. CASE StopStep
  <2>1. CASE StopFree
    BY <2>1, FreshType, BridgeNoneAssumption DEF StopFree, Main, Fresh
  <2>2. CASE \E w \in Workers : StopAio(w)
    <3>1. PICK w \in Workers : StopAio(w)
      BY <2>2
    <3>2. work[w] \in Work
      OBVIOUS
    <3>3. sent' \in [Requests -> [docs : Nat, replies : Nat]]
      <4>1. work[w].aio = "send" => work[w].out \in Requests
        BY <3>2 DEF Work
      <4> QED
        BY <3>1, <4>1 DEF StopAio, MayPublish
    <3> DEFINE rec == [work[w] EXCEPT !.state = "RECV", !.aio = "off", !.out = None, !.outTo = None]
    <3>4. work' \in [Workers -> Work] /\ \A v \in Workers : WorkOK(v)'
      <4>1. CASE UNCHANGED work
        BY <3>1, <4>1 DEF StopAio, WorkOK
      <4>2. CASE work[w].state \in {"RECV", "SEND"}
        <5>1. rec \in Work
          BY <3>2 DEF Work
        <5>2. work' = [work EXCEPT ![w] = rec]
          BY <3>1, <3>2, <4>2 DEF StopAio
        <5>3. work' \in [Workers -> Work] /\ \A v \in Workers \ {w} : work'[v] = work[v]
          BY <5>1, <5>2
        <5>4. WorkOK(w)'
          BY <3>1, <3>2, <4>2, <5>2 DEF StopAio, WorkOK, Work
        <5> QED
          BY <3>1, <5>3, <5>4 DEF StopAio, WorkOK
      <4> QED
        BY <3>1, <4>1, <4>2 DEF StopAio
    <3> QED
      BY <3>1, <3>3, <3>4 DEF StopAio, WorkOK
  <2> QED
    BY <1>4, <2>1, <2>2 DEF StopStep
<1>5. CASE Crash
  <2>1. faults' \in 0 .. MaxFaults
    BY <1>5, BoundsAssumption DEF Crash, Fault
  <2> QED
    BY <1>5, <2>1, FreshType, BridgeNoneAssumption DEF Crash, Main, Fresh
<1> QED
  BY <1>1, <1>2, <1>3, <1>4, <1>5

\* Every step keeps the types.
LEMMA BridgeNextType == TypeOK /\ [Next]_vars => TypeOK'
<1>1. ASSUME TypeOK, UNCHANGED vars
      PROVE  TypeOK'
  BY <1>1 DEF TypeOK, vars
<1> QED
  BY <1>1, CallbackType, MainType DEF Next

(***************************************************************************)
(* Through time-outs, cancelled sends, stops and crashes, mtx_ is held by  *)
(* exactly the worker that is in handle_request, and a worker owns a       *)
(* request exactly in WAIT and a message exactly while it sends.           *)
(***************************************************************************)
THEOREM BridgeTypeCorrect == Spec => []TypeOK
BY BridgeInitType, BridgeNextType, PTL DEF Spec

-------------------------------------------------------------------------------
(***************************************************************************)
(* Why replies are a worker's own: the request in hand is the last one     *)
(* received, and nothing is being sent unless the worker is in SEND.       *)
(***************************************************************************)
Own(w) ==
    /\ work[w].state = "WAIT" => work[w].msg = work[w].serving
    /\ work[w].state # "SEND" => work[w].out = None
    /\ work[w].aio = "send" => work[w].reply = None
    /\ work[w].state = "SEND" =>
        /\ work[w].serving \in Requests
        /\ work[w].reply # None =>
            work[w].reply = work[w].serving /\ work[w].topic = Topic(work[w].serving)
        /\ work[w].out # None =>
            work[w].out = work[w].serving /\ work[w].outTo = Topic(work[w].serving)

OwnInv == TypeOK /\ \A w \in Workers : Own(w)

\* The record after a step of the worker that goes back to RECV, ...
LEMMA RearmFields ==
    ASSUME work \in [Workers -> Work], NEW w \in Workers, Rearm(w)
    PROVE  /\ work'[w].state = "RECV" /\ work'[w].aio \in {"recv", "off"} /\ work'[w].out = None
           /\ work'[w].serving = work[w].serving
           /\ \A v \in Workers \ {w} : work'[v] = work[v]
<1>1. work[w] \in Work /\ Arm(w, "recv") \in {"recv", "off"}
  BY DEF Arm
<1> QED
  BY <1>1 DEF Rearm, Work

\* ... leaves handle_request, ...
LEMMA FinishFields ==
    ASSUME work \in [Workers -> Work], NEW w \in Workers, Finish(w)
    PROVE  /\ work'[w].state = "SEND" /\ work'[w].aio \in {"sleep", "off"}
           /\ work'[w].reply = work[w].msg /\ work'[w].topic = Topic(work[w].msg)
           /\ work'[w].out = work[w].out /\ work'[w].serving = work[w].serving
           /\ \A v \in Workers \ {w} : work'[v] = work[v]
<1>1. work[w] \in Work /\ Arm(w, "sleep") \in {"sleep", "off"}
  BY DEF Arm
<1> QED
  BY <1>1 DEF Finish, Work

\* ... or hands its reply to NNG.
LEMMA PublishFields ==
    ASSUME work \in [Workers -> Work], NEW w \in Workers, Publish(w)
    PROVE  /\ work[w].state = "SEND" /\ work[w].reply # None
           /\ work'[w].state = "SEND" /\ work'[w].reply = None
           /\ work'[w].out = work[w].reply /\ work'[w].outTo = work[w].topic
           /\ work'[w].msg = work[w].msg /\ work'[w].serving = work[w].serving
           /\ work'[w].aio \in {"send", "off"}
           /\ \A v \in Workers \ {w} : work'[v] = work[v]
<1>1. work[w] \in Work /\ Arm(w, "send") \in {"send", "off"}
  BY DEF Arm
<1>2. /\ work[w].state = "SEND" /\ work[w].reply # None
      /\ work' = [work EXCEPT ![w].aio = Arm(w, "send"), ![w].out = work[w].reply,
                              ![w].outTo = work[w].topic,
                              ![w].reply = None, ![w].topic = None]
  BY DEF Publish
<1> QED
  BY <1>1, <1>2 DEF Work

\* Every step keeps it: only the record of the worker that moves changes.
LEMMA OwnNext == OwnInv /\ [Next]_vars => OwnInv'
<1> SUFFICES ASSUME OwnInv, [Next]_vars
             PROVE  OwnInv'
  OBVIOUS
<1>0. TypeOK /\ TypeOK'
  BY BridgeNextType DEF OwnInv
<1>1. ASSUME NEW w \in Workers, Callback(w)
      PROVE  \A v \in Workers : Own(v)'
  <2>0. work[w] \in Work /\ Own(w) /\ WorkOK(w)
    BY <1>0 DEF TypeOK, OwnInv, WorkOK
  <2>1. ASSUME NEW v \in Workers \ {w}, work'[v] = work[v]
        PROVE  Own(v)'
    BY <2>1 DEF Own, OwnInv
  <2>2. \A op \in {"recv", "sleep", "send"} : Arm(w, op) \in {op, "off"}
    BY DEF Arm
  <2>3. ASSUME Rearm(w)
        PROVE  Own(w)'
    BY <1>0, <2>3, RearmFields DEF Own, TypeOK
  <2>4. ASSUME Finish(w), work[w].aio = "call"
        PROVE  Own(w)'
    <3>1. /\ work[w].state = "WAIT" /\ work[w].msg # None
          /\ work[w].out = None /\ work[w].serving = work[w].msg
      BY <2>0, <2>4 DEF Own, WorkOK
    <3>2. work[w].msg \in Requests
      BY <2>0, <3>1 DEF Work
    <3> QED
      BY <1>0, <2>4, <3>1, <3>2, FinishFields DEF Own, TypeOK
  <2>5. CASE Rearm(w)
    BY <1>0, <2>1, <2>3, <2>5, RearmFields DEF TypeOK
  <2>6. CASE Finish(w) /\ work[w].aio = "call"
    BY <1>0, <2>1, <2>4, <2>6, FinishFields DEF TypeOK
  <2>7. CASE Receive(w)
    <3>1. PICK r \in inbox :
            work' = [work EXCEPT ![w].state = "WAIT", ![w].aio = "sleep",
                                 ![w].msg = r, ![w].serving = r]
      BY <2>7 DEF Receive
    <3>2. /\ work'[w].state = "WAIT" /\ work'[w].aio = "sleep" /\ work'[w].msg = r
          /\ work'[w].serving = r /\ work'[w].out = work[w].out
          /\ \A v \in Workers \ {w} : work'[v] = work[v]
      BY <1>0, <2>0, <3>1 DEF Work, TypeOK
    <3>3. Own(w)'
      BY <2>0, <2>7, <3>2 DEF Receive, Own
    <3> QED
      BY <2>1, <3>2, <3>3
  <2>8. CASE Lock(w)
    BY <1>0, <2>0, <2>1, <2>8 DEF Lock, Own, Work, TypeOK
  <2>9. CASE AnswerClosed(w)
    BY <2>0, <2>1, <2>9 DEF AnswerClosed, Own, OwnInv
  <2>10. CASE Query(w)
    <3>1. PICK n \in 0 .. MaxDocs :
            work' = [work EXCEPT ![w].streams = TRUE, ![w].left = n, ![w].attempt = 0]
      BY <2>10 DEF Query
    <3>2. /\ work'[w].state = work[w].state /\ work'[w].aio = work[w].aio
          /\ work'[w].msg = work[w].msg /\ work'[w].reply = work[w].reply
          /\ work'[w].topic = work[w].topic /\ work'[w].out = work[w].out
          /\ work'[w].outTo = work[w].outTo /\ work'[w].serving = work[w].serving
          /\ \A v \in Workers \ {w} : work'[v] = work[v]
      BY <1>0, <2>0, <3>1 DEF Work, TypeOK
    <3>3. Own(w)'
      BY <2>0, <3>2 DEF Own
    <3> QED
      BY <2>1, <3>2, <3>3
  <2>11. CASE SendDoc(w) \/ SendTimesOut(w) \/ SendGivesUp(w)
    BY <1>0, <2>0, <2>1, <2>11 DEF SendDoc, SendTimesOut, SendGivesUp, NextDoc, Own, Work, TypeOK
  <2>12. CASE Publish(w)
    <3>1. Own(w)'
      BY <1>0, <2>0, <2>12, PublishFields DEF Own, TypeOK
    <3> QED
      BY <1>0, <2>1, <2>12, <3>1, PublishFields DEF TypeOK
  <2> QED
    BY <1>1, <2>5, <2>6, <2>7, <2>8, <2>9, <2>10, <2>11, <2>12
    DEF Callback, ReceiveFails, Skip, Answer, StreamDone, PublishAllocFails, PublishDone, PublishFails
<1>2. CASE Start \/ StartFails \/ StopClose \/ UNCHANGED vars
  BY <1>0, <1>2 DEF Start, StartFails, StopClose, vars, OwnInv, Own
<1>3. CASE StartStep
  <2>1. PICK w \in Workers : StartWorker(w)
    BY <1>3 DEF StartStep
  <2>2. Own(w)'
    BY <1>0, <2>1, RearmFields DEF StartWorker, Own, TypeOK
  <2>3. \A v \in Workers \ {w} : work'[v] = work[v]
    BY <1>0, <2>1, RearmFields DEF StartWorker, TypeOK
  <2>4. \A v \in Workers \ {w} : Own(v)'
    BY <2>3 DEF Own, OwnInv
  <2> QED
    BY <1>0, <2>2, <2>4 DEF OwnInv
<1>4. CASE \E w \in Workers : StopAio(w)
  <2>1. PICK w \in Workers : StopAio(w)
    BY <1>4
  <2>2. work[w] \in Work /\ Own(w)
    BY <1>0 DEF TypeOK, OwnInv
  <2>3. CASE UNCHANGED work
    BY <1>0, <2>3 DEF Own, OwnInv
  <2>4. CASE work' = [work EXCEPT ![w].state = "RECV", ![w].aio = "off",
                                  ![w].out = None, ![w].outTo = None]
    <3>1. Own(w)'
      BY <1>0, <2>2, <2>4 DEF Own, Work, TypeOK
    <3>2. \A v \in Workers \ {w} : work'[v] = work[v]
      BY <1>0, <2>4 DEF TypeOK
    <3>3. \A v \in Workers \ {w} : Own(v)'
      BY <3>2 DEF Own, OwnInv
    <3> QED
      BY <1>0, <3>1, <3>3 DEF OwnInv
  <2> QED
    BY <2>1, <2>3, <2>4 DEF StopAio
<1>5. CASE StopFree \/ Crash
  BY <1>0, <1>5 DEF StopFree, Crash, Fresh, Own, OwnInv
<1> QED
  BY <1>0, <1>1, <1>2, <1>3, <1>4, <1>5 DEF Next, StopStep, OwnInv

\* It holds at the start.
LEMMA OwnInit == Init => OwnInv
BY BridgeInitType DEF Init, Fresh, OwnInv, Own

(***************************************************************************)
(* Whatever replies earlier failures left behind in a Work record, a       *)
(* worker sends the reply of its own request to that request's topic.      *)
(***************************************************************************)
THEOREM RepliesAreOwn == Spec => []OwnReply
<1>1. OwnInv => OwnReply
  BY DEF OwnInv, Own, OwnReply
<1> QED
  BY <1>1, OwnInit, OwnNext, PTL DEF Spec

-------------------------------------------------------------------------------
(***************************************************************************)
(* Why a reply is last: a request is with the broker or with at most one   *)
(* worker, and a worker that may still publish has not replied.            *)
(***************************************************************************)
Busy(w) ==
    \/ work[w].state = "WAIT"
    \/ work[w].state = "SEND" /\ (work[w].reply # None \/ work[w].out # None)

LastInv ==
    /\ OwnInv
    /\ \A r \in inbox : sent[r].replies = 0
    /\ \A w \in Workers : work[w].serving \notin inbox
    /\ \A v, w \in Workers : v # w /\ work[v].serving # None => work[v].serving # work[w].serving
    /\ \A w \in Workers : Busy(w) => sent[work[w].serving].replies = 0

\* A step of w that publishes for the request of w alone.
Alone(w) ==
    /\ inbox' = inbox
    /\ work'[w].serving = work[w].serving
    /\ \A v \in Workers \ {w} : work'[v] = work[v]
    /\ \A r \in Requests : sent'[r] # sent[r] => r = work[w].serving /\ Busy(w)
    /\ Busy(w)' => Busy(w) /\ sent'[work[w].serving].replies = sent[work[w].serving].replies

\* No request that has its reply is published for.
Quiet == \A r \in Requests : sent'[r] # sent[r] => sent[r].replies = 0

\* A busy worker serves a request, the one it has in hand.
LEMMA BusyServes ==
    ASSUME OwnInv, NEW w \in Workers
    PROVE  /\ Busy(w) => work[w].serving \in Requests
           /\ work[w].serving \in Requests \cup {None}
<1>1. work[w] \in Work /\ Own(w) /\ WorkOK(w)
  BY DEF OwnInv, TypeOK, WorkOK
<1> QED
  BY <1>1 DEF Work, Own, WorkOK, Busy

\* Such a step keeps the invariant.
LEMMA AloneKeeps ==
    ASSUME LastInv, OwnInv', NEW w \in Workers, Alone(w)
    PROVE  LastInv' /\ Quiet
<1>1. \A v \in Workers : work'[v].serving = work[v].serving
  BY DEF Alone
<1>2. inbox \subseteq Requests /\ None \notin Requests
  BY BridgeNoneAssumption DEF LastInv, OwnInv, TypeOK
<1>3. \A r \in inbox : sent'[r] = sent[r]
  BY <1>2 DEF Alone, LastInv
<1>4. ASSUME NEW v \in Workers, Busy(v)'
      PROVE  sent'[work'[v].serving].replies = 0
  <2>1. CASE v = w
    BY <1>1, <1>4, <2>1 DEF Alone, LastInv
  <2>2. CASE v # w
    <3>1. Busy(v) /\ work'[v] = work[v]
      BY <1>4, <2>2 DEF Alone, Busy
    <3>2. work[v].serving \in Requests /\ work[v].serving # work[w].serving
      BY <1>2, <2>2, <3>1, BusyServes DEF LastInv
    <3>3. sent'[work[v].serving] = sent[work[v].serving]
      BY <3>2 DEF Alone
    <3> QED
      BY <3>1, <3>3 DEF LastInv
  <2> QED
    BY <2>1, <2>2
<1>5. Quiet
  BY DEF Alone, LastInv, Quiet
<1>6. inbox' = inbox
  BY DEF Alone
<1> QED
  BY <1>1, <1>3, <1>4, <1>5, <1>6 DEF LastInv

\* One callback.
LEMMA CallbackLast ==
    ASSUME LastInv, OwnInv', NEW w \in Workers, Callback(w)
    PROVE  LastInv' /\ Quiet
<1>0. work \in [Workers -> Work] /\ work[w] \in Work /\ Own(w) /\ WorkOK(w)
  BY DEF LastInv, OwnInv, TypeOK, WorkOK
<1>1. sent \in [Requests -> [docs : Nat, replies : Nat]] /\ inbox \subseteq Requests
      /\ None \notin Requests
  BY BridgeNoneAssumption DEF LastInv, OwnInv, TypeOK
<1>2. ASSUME Rearm(w)
      PROVE  /\ work'[w].serving = work[w].serving
             /\ \A v \in Workers \ {w} : work'[v] = work[v]
             /\ ~Busy(w)'
  BY <1>0, <1>2 DEF Rearm, Busy, Work
<1>3. CASE Receive(w)
  <2>1. PICK r \in inbox :
          /\ inbox' = inbox \ {r}
          /\ work' = [work EXCEPT ![w].state = "WAIT", ![w].aio = "sleep",
                                  ![w].msg = r, ![w].serving = r]
    BY <1>3 DEF Receive
  <2>2. /\ work'[w].serving = r
        /\ \A v \in Workers \ {w} : work'[v] = work[v]
        /\ sent' = sent
    BY <1>0, <1>3, <2>1 DEF Receive, Work
  <2>3. \A v \in Workers : work'[v].serving \notin inbox'
    <3>1. r \notin inbox' /\ inbox' \subseteq inbox
      BY <2>1
    <3>2. \A v \in Workers \ {w} : work'[v].serving = work[v].serving
      BY <2>2
    <3> QED
      BY <2>2, <3>1, <3>2 DEF LastInv
  <2>4. \A v \in Workers \ {w} : work'[v].serving # r
    BY <2>2 DEF LastInv
  <2>5. ASSUME NEW v \in Workers, NEW u \in Workers, v # u, work'[v].serving # None
        PROVE  work'[v].serving # work'[u].serving
    BY <2>2, <2>4, <2>5 DEF LastInv
  <2>6. ASSUME NEW v \in Workers, Busy(v)'
        PROVE  sent'[work'[v].serving].replies = 0
    <3>1. CASE v = w
      BY <2>1, <2>2, <3>1 DEF LastInv
    <3>2. CASE v # w
      <4>1. Busy(v) /\ work'[v] = work[v]
        BY <2>2, <2>6, <3>2 DEF Busy
      <4> QED
        BY <2>2, <4>1 DEF LastInv
    <3> QED
      BY <3>1, <3>2
  <2>7. \A q \in inbox' : sent'[q].replies = 0
    BY <2>1, <2>2 DEF LastInv
  <2> QED
    BY <2>2, <2>3, <2>5, <2>6, <2>7 DEF LastInv, Quiet
<1>4. CASE ReceiveFails(w) \/ Skip(w)
  <2>1. Alone(w)
    BY <1>2, <1>4 DEF ReceiveFails, Skip, Alone
  <2> QED
    BY <2>1, AloneKeeps
<1>5. CASE Lock(w)
  <2>1. Alone(w)
    BY <1>0, <1>5 DEF Lock, Alone, Busy, Work
  <2> QED
    BY <2>1, AloneKeeps
<1>6. CASE Answer(w) \/ StreamDone(w)
  <2>1. work[w].aio = "call" /\ Finish(w) /\ UNCHANGED <<inbox, sent>>
    BY <1>6 DEF Answer, StreamDone
  <2>2. Alone(w)
    BY <1>0, <2>1 DEF Finish, Alone, Busy, Work, WorkOK
  <2> QED
    BY <2>2, AloneKeeps
<1>7. CASE AnswerClosed(w)
  <2>1. Alone(w)
    BY <1>7 DEF AnswerClosed, Alone, Busy
  <2> QED
    BY <2>1, AloneKeeps
<1>8. CASE Query(w)
  <2>1. Alone(w)
    BY <1>0, <1>8 DEF Query, Alone, Busy, Work, WorkOK
  <2> QED
    BY <2>1, AloneKeeps
<1>9. CASE SendDoc(w) \/ SendTimesOut(w) \/ SendGivesUp(w)
  <2>1. Busy(w) /\ work[w].msg = work[w].serving /\ work[w].serving \in Requests
    BY <1>0, <1>9 DEF SendDoc, SendTimesOut, SendGivesUp, Sending, Busy, Own, WorkOK, Work
  <2>2. /\ inbox' = inbox
        /\ work'[w].serving = work[w].serving
        /\ \A v \in Workers \ {w} : work'[v] = work[v]
    BY <1>0, <1>9 DEF SendDoc, SendTimesOut, SendGivesUp, NextDoc, Work
  <2>3. sent' \in {sent, [sent EXCEPT ![work[w].serving].docs = @ + 1]}
    BY <1>9, <2>1 DEF SendDoc, SendTimesOut, SendGivesUp, MayPublish
  <2>4. /\ \A r \in Requests : sent'[r] # sent[r] => r = work[w].serving
        /\ sent'[work[w].serving].replies = sent[work[w].serving].replies
    BY <1>1, <2>1, <2>3
  <2>5. Alone(w)
    BY <2>1, <2>2, <2>4 DEF Alone
  <2> QED
    BY <2>5, AloneKeeps
<1>10. ASSUME work[w].aio = "send"
       PROVE  /\ Busy(w) /\ work[w].reply = None
              /\ work[w].out = work[w].serving /\ work[w].serving \in Requests
  BY <1>0, <1>10 DEF Busy, Own, WorkOK
<1>11. ASSUME NEW r \in Requests, MayPublish(r, "replies") \/ UNCHANGED sent
       PROVE  \A q \in Requests : sent'[q] # sent[q] => q = r
  BY <1>1, <1>11 DEF MayPublish
<1>12. CASE Publish(w)
  <2>1. sent' = sent
    BY <1>10, <1>12 DEF Publish, Published
  <2>2. Alone(w)
    BY <1>0, <1>12, <2>1 DEF Publish, Alone, Busy, Work
  <2> QED
    BY <2>2, AloneKeeps
<1>13. CASE PublishAllocFails(w)
  <2>1. sent' = sent
    BY <1>10, <1>13 DEF PublishAllocFails, Published
  <2>2. Alone(w)
    BY <1>2, <1>13, <2>1 DEF PublishAllocFails, Alone
  <2> QED
    BY <2>2, AloneKeeps
<1>14. CASE PublishDone(w) \/ PublishFails(w)
  <2>1. \A r \in Requests : sent'[r] # sent[r] => r = work[w].serving /\ Busy(w)
    <3>1. CASE work[w].aio = "send"
      BY <1>10, <1>11, <1>14, <3>1 DEF PublishDone, PublishFails, Published, MayPublish
    <3>2. CASE work[w].aio # "send"
      BY <1>14, <3>2 DEF PublishDone, PublishFails, Published
    <3> QED
      BY <3>1, <3>2
  <2>2. Alone(w)
    BY <1>2, <1>14, <2>1 DEF PublishDone, PublishFails, Alone
  <2> QED
    BY <2>2, AloneKeeps
<1> QED
  BY <1>3, <1>4, <1>5, <1>6, <1>7, <1>8, <1>9, <1>12, <1>13, <1>14 DEF Callback

\* Every step keeps the invariant and publishes nothing after a reply.
LEMMA LastNext == LastInv /\ [Next]_vars => LastInv' /\ Quiet
<1> SUFFICES ASSUME LastInv, [Next]_vars
             PROVE  LastInv' /\ Quiet
  OBVIOUS
<1>0. OwnInv /\ OwnInv'
  BY OwnNext DEF LastInv
<1>1. CASE \E w \in Workers : Callback(w)
  BY <1>0, <1>1, CallbackLast
<1>2. CASE Start \/ StartFails \/ StopClose \/ UNCHANGED vars
  BY <1>0, <1>2 DEF Start, StartFails, StopClose, vars, LastInv, Busy, Quiet
<1>3. CASE StartStep
  <2>1. PICK w \in Workers : StartWorker(w)
    BY <1>3 DEF StartStep
  <2>2. work \in [Workers -> Work] /\ work[w] \in Work
    BY <1>0 DEF OwnInv, TypeOK
  <2>3. Rearm(w) /\ UNCHANGED <<inbox, sent>>
    BY <2>1 DEF StartWorker
  <2>4. Alone(w)
    BY <2>2, <2>3 DEF Rearm, Alone, Busy, Work
  <2> QED
    BY <1>0, <2>4, AloneKeeps
<1>4. CASE \E w \in Workers : StopAio(w)
  <2>1. PICK w \in Workers : StopAio(w)
    BY <1>4
  <2>2. work \in [Workers -> Work] /\ work[w] \in Work /\ Own(w) /\ WorkOK(w)
        /\ sent \in [Requests -> [docs : Nat, replies : Nat]]
    BY <1>0 DEF OwnInv, TypeOK, WorkOK
  <2>3. CASE UNCHANGED <<work, sent>>
    <3>1. Alone(w)
      BY <2>1, <2>3 DEF StopAio, Alone, Busy
    <3> QED
      BY <1>0, <3>1, AloneKeeps
  <2>4. CASE /\ work' = [work EXCEPT ![w].state = "RECV", ![w].aio = "off",
                                     ![w].out = None, ![w].outTo = None]
             /\ \/ work[w].aio = "send" /\ MayPublish(work[w].out, "replies")
                \/ UNCHANGED sent
    <3>1. \A r \in Requests : sent'[r] # sent[r] => r = work[w].serving /\ Busy(w)
      BY <2>2, <2>4 DEF MayPublish, Own, WorkOK, Busy
    <3>2. /\ work'[w].serving = work[w].serving
          /\ \A v \in Workers \ {w} : work'[v] = work[v]
          /\ ~Busy(w)'
      BY <2>2, <2>4 DEF Busy, Work
    <3>3. Alone(w)
      BY <2>1, <3>1, <3>2 DEF StopAio, Alone
    <3> QED
      BY <1>0, <3>3, AloneKeeps
  <2> QED
    BY <2>1, <2>3, <2>4 DEF StopAio
<1>5. CASE StopFree \/ Crash
  <2>1. None \notin inbox
    BY <1>0, BridgeNoneAssumption DEF OwnInv, TypeOK
  <2>2. work' = [w \in Workers |-> Fresh] /\ UNCHANGED <<inbox, sent>>
    BY <1>5 DEF StopFree, Crash
  <2> QED
    BY <1>0, <2>1, <2>2 DEF Fresh, LastInv, Busy, Quiet
<1> QED
  BY <1>1, <1>2, <1>3, <1>4, <1>5 DEF Next, StopStep

\* It holds at the start.
LEMMA LastInit == Init => LastInv
BY OwnInit, BridgeNoneAssumption DEF Init, Fresh, LastInv, Busy

(***************************************************************************)
(* Nothing is published for a request after its reply, by any worker, in   *)
(* this or a later life of the process, however sends fail or are stopped. *)
(***************************************************************************)
THEOREM RepliesAreLast == Spec => ReplyLast
<1>1. LastInv /\ [Next]_vars => [\A r \in Requests : sent'[r] # sent[r] => sent[r].replies = 0]_vars
  BY LastNext DEF Quiet
<1> QED
  BY <1>1, LastInit, LastNext, PTL DEF Spec, ReplyLast

===============================================================================
