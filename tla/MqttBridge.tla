------------------------------- MODULE MqttBridge ------------------------------
(***************************************************************************)
(* AnuDBMqttClient.cpp: the workers that take requests from the broker,    *)
(* serve them one at a time under mtx_, and publish the answers; and the   *)
(* start and stop of the bridge around them.                               *)
(*                                                                         *)
(* A worker has one asynchronous operation (nng_aio) under way at a time.  *)
(* When it completes, NNG runs client_cb, which goes on from the worker's  *)
(* state and starts the next operation.  A request is one delivery of the  *)
(* broker: one that the broker sends again is another request.  What a     *)
(* handler does to the database is left to the modules Database and        *)
(* Collection.                                                             *)
(***************************************************************************)
EXTENDS Naturals

CONSTANTS
    Workers,    \* CONCURRENT_THREADS of them
    Requests,   \* the messages the broker delivers
    Command,    \* what each request asks for
    MaxDocs,    \* a bound on the documents one request streams
    MaxRetries, \* max_retries in send_response
    Faults,     \* the faults that may happen
    MaxFaults,  \* a bound on how many do, time-outs excepted
    Prefix,     \* the response topic of a request whose id is not known
    None        \* nothing

(***************************************************************************)
(*   empty    no payload                                                   *)
(*   bad      not JSON, or no command or request_id                        *)
(*   admin    create_collection, delete_collection: uses db_ unguarded     *)
(*   simple   any other command with one response                          *)
(*   stream   find_documents and read_document without an id, which send   *)
(*            every document from within the handler                       *)
(***************************************************************************)
Commands == {"empty", "bad", "admin", "simple", "stream"}

ASSUME CommandAssumption == Command \in [Requests -> Commands]

ASSUME BoundsAssumption == MaxDocs \in Nat /\ MaxRetries \in Nat /\ MaxFaults \in Nat

ASSUME BridgeFaultsAssumption ==
    Faults \subseteq {"crash", "startError", "recvError", "timeout", "docError", "allocError",
                     "sendError"}

ASSUME BridgeNoneAssumption ==
    /\ None \notin Requests \cup Workers \cup {Prefix}
    /\ Prefix \notin Requests

VARIABLES
    main,       \* where start and stop are
    inbox,      \* requests the broker has not delivered yet
    work,       \* the Work record of each worker
    mtx,        \* mtx_: the worker in handle_request, or None
    stopped,    \* the workers whose nng_aio has been stopped
    sent,       \* how many documents and replies were published for a request
    faults      \* how many faults have happened

vars == <<main, inbox, work, mtx, stopped, sent, faults>>

-------------------------------------------------------------------------------
(***************************************************************************)
(* down: no process; starting: start() is calling client_cb for each       *)
(* worker; running; closed: stop() has closed the database; undefined: the *)
(* database was used after it was closed.                                  *)
(***************************************************************************)
Main == {"down", "starting", "running", "closed", "undefined"}

Topics == Requests \cup {Prefix}

(***************************************************************************)
(* The operation under way: a receive, a sleep of no length that           *)
(* reschedules the callback, a send; "call" while client_cb is in          *)
(* handle_request; "off" when there is none and there will be none.        *)
(***************************************************************************)
Work == [state   : {"INIT", "RECV", "WAIT", "SEND"},
         aio     : {"recv", "sleep", "send", "call", "off"},
         msg     : Requests \cup {None},
         reply   : Requests \cup {None},            \* the request it answers
         topic   : Topics \cup {None},              \* requestid
         out     : Requests \cup {None},            \* the reply being sent
         outTo   : Topics \cup {None},              \* and its topic
         left    : 0 .. MaxDocs,                    \* documents still to send
         attempt : 0 .. MaxRetries,                 \* failed sends of this one
         streams : BOOLEAN,                         \* the query is done
         serving : Requests \cup {None}]            \* the last request (history)

Fresh == [state |-> "INIT", aio |-> "off", msg |-> None, reply |-> None, topic |-> None,
          out |-> None, outTo |-> None, left |-> 0, attempt |-> 0, streams |-> FALSE,
          serving |-> None]

Init ==
    /\ main = "down"
    /\ inbox = Requests
    /\ work = [w \in Workers |-> Fresh]
    /\ mtx = None
    /\ stopped = {}
    /\ sent = [r \in Requests |-> [docs |-> 0, replies |-> 0]]
    /\ faults = 0

Fault(kind) ==
    /\ kind \in Faults
    /\ faults < MaxFaults
    /\ faults' = faults + 1

\* An operation started on a stopped nng_aio never calls back.
Arm(w, op) == IF w \in stopped THEN "off" ELSE op

\* Back to RECV.  What client_cb has not deleted stays behind.
Rearm(w) == work' = [work EXCEPT ![w].state = "RECV", ![w].aio = Arm(w, "recv"),
                                 ![w].msg = None, ![w].out = None, ![w].outTo = None]

\* The response topic of a request.
Topic(r) == IF Command[r] = "bad" THEN Prefix ELSE r

-------------------------------------------------------------------------------
\* start(): the database is open, the workers are allocated, the dialer started.
Start ==
    /\ main = "down"
    /\ main' = "starting"
    /\ UNCHANGED <<inbox, work, mtx, stopped, sent, faults>>

\* Any of that fails and the process ends, or never calls a worker.
StartFails ==
    /\ main = "down"
    /\ Fault("startError")
    /\ UNCHANGED <<main, inbox, work, mtx, stopped, sent>>

\* client_cb in INIT, called by start() itself; the last call sets running_.
StartWorker(w) ==
    /\ main = "starting"
    /\ work[w].state = "INIT"
    /\ Rearm(w)
    /\ main' = IF \A v \in Workers \ {w} : work[v].state # "INIT" THEN "running" ELSE main
    /\ UNCHANGED <<inbox, mtx, stopped, sent, faults>>

-------------------------------------------------------------------------------
\* client_cb in RECV.
Receive(w) ==
    /\ work[w].state = "RECV" /\ work[w].aio = "recv"
    /\ \E r \in inbox :
        /\ inbox' = inbox \ {r}
        /\ work' = [work EXCEPT ![w].state = "WAIT", ![w].aio = "sleep",
                                ![w].msg = r, ![w].serving = r]
    /\ UNCHANGED <<main, mtx, stopped, sent, faults>>

ReceiveFails(w) ==
    /\ work[w].state = "RECV" /\ work[w].aio = "recv"
    /\ Fault("recvError")
    /\ Rearm(w)
    /\ UNCHANGED <<main, inbox, mtx, stopped, sent>>

\* client_cb in WAIT: an empty payload is dropped without an answer.
Skip(w) ==
    /\ work[w].state = "WAIT" /\ work[w].aio = "sleep"
    /\ Command[work[w].msg] = "empty"
    /\ Rearm(w)
    /\ UNCHANGED <<main, inbox, mtx, stopped, sent, faults>>

\* handle_request: take mtx_; the topic is the bare prefix until the request
\* has been read.
Lock(w) ==
    /\ work[w].state = "WAIT" /\ work[w].aio = "sleep"
    /\ Command[work[w].msg] # "empty"
    /\ mtx = None
    /\ mtx' = w
    /\ work' = [work EXCEPT ![w].aio = "call", ![w].topic = Prefix]
    /\ UNCHANGED <<main, inbox, stopped, sent, faults>>

\* Mutation of Finish: mtx_ is not given back.
FinishLocked(w) ==
    /\ work' = [work EXCEPT ![w].state = "SEND", ![w].aio = Arm(w, "sleep"),
                            ![w].topic = Topic(work[w].msg), ![w].reply = work[w].msg,
                            ![w].msg = None, ![w].streams = FALSE]
    /\ UNCHANGED mtx

\* Mutation of Finish: a reply that is already there is kept.
FinishKeepsReply(w) ==
    /\ mtx' = None
    /\ work' = [work EXCEPT ![w].state = "SEND", ![w].aio = Arm(w, "sleep"),
                            ![w].topic = Topic(work[w].msg),
                            ![w].reply = IF @ = None THEN work[w].msg ELSE @,
                            ![w].msg = None, ![w].streams = FALSE]

\* handle_request returns, whatever the status; client_cb keeps the reply and
\* frees the message.
Finish(w) ==
    /\ mtx' = None
    /\ work' = [work EXCEPT ![w].state = "SEND", ![w].aio = Arm(w, "sleep"),
                            ![w].topic = Topic(work[w].msg), ![w].reply = work[w].msg,
                            ![w].msg = None, ![w].streams = FALSE]

\* A request that cannot be read, or a command with one response.
Answer(w) ==
    /\ work[w].aio = "call"
    /\ \/ Command[work[w].msg] \in {"bad", "simple"}
       \/ Command[work[w].msg] = "admin" /\ main # "closed"
    /\ Finish(w)
    /\ UNCHANGED <<main, inbox, stopped, sent, faults>>

\* db_ of the engine is null, or getCollection gives a null that is used.
AnswerClosed(w) ==
    /\ work[w].aio = "call"
    /\ Command[work[w].msg] = "admin" /\ main = "closed"
    /\ main' = "undefined"
    /\ UNCHANGED <<inbox, work, mtx, stopped, sent, faults>>

\* The documents to send are known: none if the collection is not found, which
\* it is not once the database is closed.
Query(w) ==
    /\ work[w].aio = "call"
    /\ Command[work[w].msg] = "stream" /\ ~work[w].streams
    /\ \E n \in 0 .. MaxDocs :
        /\ main = "closed" => n = 0
        /\ work' = [work EXCEPT ![w].streams = TRUE, ![w].left = n, ![w].attempt = 0]
    /\ UNCHANGED <<main, inbox, mtx, stopped, sent, faults>>

\* The next document is sent, or given up; the handler goes on to the one after.
NextDoc(w) == work' = [work EXCEPT ![w].left = @ - 1, ![w].attempt = 0]

Sending(w) == work[w].aio = "call" /\ work[w].streams /\ work[w].left > 0

\* A send that fails may have reached the broker all the same.
MayPublish(r, what) == sent' \in {sent, [sent EXCEPT ![r][what] = @ + 1]}

SendDoc(w) ==
    /\ Sending(w)
    /\ sent' = [sent EXCEPT ![work[w].msg].docs = @ + 1]
    /\ NextDoc(w)
    /\ UNCHANGED <<main, inbox, mtx, stopped, faults>>

\* Mutation of SendTimesOut: after the last retry the count starts again.
SendTimesOutForever(w) ==
    /\ Sending(w)
    /\ "timeout" \in Faults
    /\ work' = [work EXCEPT ![w].attempt = (@ + 1) % (MaxRetries + 1)]
    /\ UNCHANGED <<main, inbox, mtx, stopped, sent, faults>>

\* NNG_ETIMEDOUT or NNG_EAGAIN: try again, up to MaxRetries times.
SendTimesOut(w) ==
    /\ Sending(w)
    /\ "timeout" \in Faults
    /\ MayPublish(work[w].msg, "docs")
    /\ IF work[w].attempt < MaxRetries
       THEN work' = [work EXCEPT ![w].attempt = @ + 1]
       ELSE NextDoc(w)
    /\ UNCHANGED <<main, inbox, mtx, stopped, faults>>

\* No memory for the message, or any other error: the document is given up.
SendGivesUp(w) ==
    /\ Sending(w)
    /\ Fault("docError")
    /\ MayPublish(work[w].msg, "docs")
    /\ NextDoc(w)
    /\ UNCHANGED <<main, inbox, mtx, stopped>>

\* The status is set to success, whatever became of the documents.
StreamDone(w) ==
    /\ work[w].aio = "call" /\ work[w].streams /\ work[w].left = 0
    /\ Finish(w)
    /\ UNCHANGED <<main, inbox, stopped, sent, faults>>

-------------------------------------------------------------------------------
\* A send that was under way has completed.
Published(w) ==
    sent' = IF work[w].aio = "send" THEN [sent EXCEPT ![work[w].out].replies = @ + 1] ELSE sent

\* Mutation of Publish: the reply is not cleared.
PublishKeepsReply(w) ==
    /\ work[w].state = "SEND" /\ work[w].aio \in {"sleep", "send"}
    /\ work[w].reply # None
    /\ Published(w)
    /\ work' = [work EXCEPT ![w].aio = Arm(w, "send"), ![w].out = work[w].reply,
                            ![w].outTo = work[w].topic]
    /\ UNCHANGED <<main, inbox, mtx, stopped, faults>>

\* client_cb in SEND with a reply: hand it to NNG and forget it.
Publish(w) ==
    /\ work[w].state = "SEND" /\ work[w].aio \in {"sleep", "send"}
    /\ work[w].reply # None
    /\ Published(w)
    /\ work' = [work EXCEPT ![w].aio = Arm(w, "send"), ![w].out = work[w].reply,
                            ![w].outTo = work[w].topic,
                            ![w].reply = None, ![w].topic = None]
    /\ UNCHANGED <<main, inbox, mtx, stopped, faults>>

\* No memory for the message.
PublishAllocFails(w) ==
    /\ work[w].state = "SEND" /\ work[w].aio \in {"sleep", "send"}
    /\ work[w].reply # None
    /\ Fault("allocError")
    /\ Published(w)
    /\ Rearm(w)
    /\ UNCHANGED <<main, inbox, mtx, stopped>>

\* client_cb in SEND with no reply: it has been sent.
PublishDone(w) ==
    /\ work[w].state = "SEND" /\ work[w].aio \in {"sleep", "send"}
    /\ work[w].reply = None
    /\ Published(w)
    /\ Rearm(w)
    /\ UNCHANGED <<main, inbox, mtx, stopped, faults>>

\* The send ends with an error; it is not tried again.
PublishFails(w) ==
    /\ work[w].state = "SEND" /\ work[w].aio = "send"
    /\ Fault("sendError")
    /\ MayPublish(work[w].out, "replies")
    /\ Rearm(w)
    /\ UNCHANGED <<main, inbox, mtx, stopped>>

-------------------------------------------------------------------------------
\* stop(): collMap_ is cleared and the database closed, without mtx_.  A handler
\* that has its collection by now, as one that sends documents does, loses it.
StopClose ==
    /\ main = "running"
    /\ \/ /\ mtx # None => ~Sending(mtx)
          /\ main' = "closed"
       \/ /\ mtx # None /\ Command[work[mtx].msg] # "bad"
          /\ main' = "undefined"
    /\ UNCHANGED <<inbox, work, mtx, stopped, sent, faults>>

\* nng_aio_stop: the operation is cancelled and client_cb told so, which gives up
\* a send but, in WAIT, never looks.
StopAio(w) ==
    /\ main = "closed"
    /\ w \notin stopped
    /\ stopped' = stopped \cup {w}
    /\ IF work[w].state \in {"RECV", "SEND"}
       THEN /\ work' = [work EXCEPT ![w].state = "RECV", ![w].aio = "off",
                                    ![w].out = None, ![w].outTo = None]
            /\ IF work[w].aio = "send" THEN MayPublish(work[w].out, "replies")
                                       ELSE UNCHANGED sent
       ELSE UNCHANGED <<work, sent>>
    /\ UNCHANGED <<main, inbox, mtx, faults>>

\* nng_aio_free waits for a callback that is running; then the process ends.
StopFree ==
    /\ main = "closed"
    /\ stopped = Workers
    /\ \A w \in Workers : work[w].aio = "off"
    /\ main' = "down"
    /\ work' = [w \in Workers |-> Fresh]
    /\ stopped' = {}
    /\ UNCHANGED <<inbox, mtx, sent, faults>>

\* The process is killed, or what it did was undefined; it is started again.
Crash ==
    /\ Fault("crash") \/ (main = "undefined" /\ UNCHANGED faults)
    /\ main' = "down"
    /\ work' = [w \in Workers |-> Fresh]
    /\ mtx' = None
    /\ stopped' = {}
    /\ UNCHANGED <<inbox, sent>>

-------------------------------------------------------------------------------
Callback(w) ==
    /\ main # "undefined"
    /\ \/ Receive(w) \/ ReceiveFails(w)
       \/ Skip(w) \/ Lock(w)
       \/ Answer(w) \/ AnswerClosed(w)
       \/ Query(w) \/ SendDoc(w) \/ SendTimesOut(w) \/ SendGivesUp(w) \/ StreamDone(w)
       \/ Publish(w) \/ PublishAllocFails(w) \/ PublishDone(w) \/ PublishFails(w)

StopStep == StopFree \/ \E w \in Workers : StopAio(w)

StartStep == \E w \in Workers : StartWorker(w)

Next ==
    \/ Start \/ StartFails \/ StartStep
    \/ StopClose \/ StopStep
    \/ \E w \in Workers : Callback(w)
    \/ Crash

Spec == Init /\ [][Next]_vars

(***************************************************************************)
(* NNG completes the operations it is given, with success or an error, and *)
(* runs their callbacks; start and stop run on.                            *)
(***************************************************************************)
Fairness ==
    /\ \A w \in Workers : WF_vars(Callback(w))
    /\ WF_vars(StartStep)
    /\ WF_vars(StopStep)

FairSpec == Spec /\ Fairness

-------------------------------------------------------------------------------
(***************************************************************************)
(* Type correctness: mtx_ is held by the one worker whose callback is in   *)
(* handle_request, a worker has a request exactly in WAIT, and what it is  *)
(* sending exactly while it sends.                                         *)
(***************************************************************************)
TypeOK ==
    /\ main \in Main
    /\ inbox \subseteq Requests
    /\ work \in [Workers -> Work]
    /\ mtx \in Workers \cup {None}
    /\ stopped \subseteq Workers
    /\ sent \in [Requests -> [docs : Nat, replies : Nat]]
    /\ faults \in 0 .. MaxFaults
    /\ \A w \in Workers :
        /\ work[w].aio = "call" <=> mtx = w
        /\ work[w].state = "WAIT" <=> work[w].msg # None
        /\ work[w].aio = "call" => work[w].state = "WAIT"
        /\ work[w].aio = "send" => work[w].state = "SEND" /\ work[w].out # None

(***************************************************************************)
(* A worker answers the request it was given: the reply it holds, and the  *)
(* one it is sending, are to its last request and go to that request's     *)
(* topic, although replies that could not be sent are left behind in Work. *)
(***************************************************************************)
OwnReply ==
    \A w \in Workers :
        work[w].state = "SEND" =>
            /\ work[w].reply # None =>
                /\ work[w].reply = work[w].serving
                /\ work[w].topic = Topic(work[w].serving)
            /\ work[w].out # None =>
                /\ work[w].out = work[w].serving
                /\ work[w].outTo = Topic(work[w].serving)

(***************************************************************************)
(* The reply is the last thing a client hears of a request: no document    *)
(* and no second reply is published after it, through time-outs, retries   *)
(* and failed sends, so that a client may stop listening.                  *)
(***************************************************************************)
ReplyLast ==
    [][\A r \in Requests : sent'[r] # sent[r] => sent[r].replies = 0]_vars

(***************************************************************************)
(* A worker that took a request gets back to receiving, whatever the other *)
(* workers do under mtx_ and however often its own sends time out.         *)
(***************************************************************************)
WorkersReturn ==
    \A w \in Workers :
        work[w].state = "WAIT" ~> work[w].state = "RECV" \/ main \notin {"starting", "running"}

(***************************************************************************)
(* stop waits until the callbacks have returned "safely": it never takes   *)
(* the database from a handler, and no handler uses it once it is closed.  *)
(***************************************************************************)
StopSafe == main # "undefined"

===============================================================================
