-------------------------------- MODULE Handlers -------------------------------
(***************************************************************************)
(* What the handlers of AnuDBMqttClient.cpp ask of a collection.           *)
(*                                                                         *)
(* handle_request holds mtx_ from the first line of a request to the last, *)
(* and the bridge is the only user of its database: one thread, Server,    *)
(* makes one call at a time, each on a collection that collMap_ has.  The  *)
(* steps are those of Collection and Query; a handler adds which call a    *)
(* command makes, the status of the answer and the documents it streams.   *)
(***************************************************************************)
EXTENDS Query

CONSTANTS
    Server      \* the thread in handle_request

ASSUME ServerAssumption == Server \in Threads

VARIABLES
    request,    \* the request being served, or the last one
    streamed    \* the documents send_response has published for it

handlerVars == <<vars, findVars, request, streamed>>

-------------------------------------------------------------------------------
NoRequest == [cmd |-> "none", field |-> None, filter |-> <<>>, status |-> "success"]

HandlersInit ==
    /\ QueryInit
    /\ request = NoRequest
    /\ streamed = {}

\* handle_request takes the next request once the last one has its answer.
Take(cmd, field, filter) ==
    /\ request.status # "none"
    /\ request' = [cmd |-> cmd, field |-> field, filter |-> filter, status |-> "none"]
    /\ streamed' = {}

Reply(status) == request' = [request EXCEPT !.status = status] /\ UNCHANGED streamed

handle_create_document ==
    /\ CallCreate(Server)
    /\ Take("create_document", None, <<>>)
    /\ UNCHANGED findVars

handle_delete_document ==
    /\ CallDelete(Server)
    /\ Take("delete_document", None, <<>>)
    /\ UNCHANGED findVars

\* deleteDocument of an id that is not there: the error of readDocument.
DeleteMissing ==
    /\ request.status # "none"
    /\ \E id \in Ids : docs[id] = None
    /\ request' = [NoRequest EXCEPT !.cmd = "delete_document", !.status = "error"]
    /\ streamed' = {}
    /\ UNCHANGED <<vars, findVars>>

\* coll->createIndex(field), whether it can make the column family or not.
CreatesIndex(cmd) ==
    /\ CallCreateIndex(Server) \/ CreateIndexFails(Server)
    /\ Take(cmd, call'[Server].field, <<>>)
    /\ UNCHANGED findVars

handle_create_index == CreatesIndex("create_index")

\* The handler of delete_index makes the same call.
handle_delete_index == CreatesIndex("delete_index")

handle_find_documents ==
    /\ CallFind
    /\ Take("find_documents", None, find'.filter)

-------------------------------------------------------------------------------
\* The call goes on.
Working ==
    /\ \/ CreateNames(Server) \/ PutIndex(Server)
       \/ DeleteNames(Server) \/ RemoveIndex(Server)
       \/ OpenCursor(Server) \/ FillRow(Server)
    /\ UNCHANGED <<findVars, request, streamed>>

Succeeds ==
    /\ PutDoc(Server) \/ RemoveDoc(Server) \/ FillDone(Server) \/ ScanFails(Server)
    /\ Reply("success")
    /\ UNCHANGED findVars

\* A status that is not ok, or an exception.
Refuses ==
    /\ PutRejected(Server) \/ RemoveRejected(Server) \/ FillRejected(Server) \/ IOFails(Server)
    /\ Reply("error")
    /\ UNCHANGED findVars

Finding ==
    /\ FindOne \/ FindNext \/ FindCollect \/ FindFails
    /\ UNCHANGED <<request, streamed>>

\* The exception is caught, and the status overwritten by "success".
FindingThrows == FindThrows /\ Reply("success")

\* readDocument for every id of the result; one that is not there is skipped.
Streaming ==
    /\ FindReturn
    /\ request' = [request EXCEPT !.status = "success"]
    /\ streamed' = {docs[id] : id \in {i \in find.result : docs[i] # None}}

HandlersNext ==
    \/ handle_create_document \/ handle_delete_document \/ DeleteMissing
    \/ handle_create_index \/ handle_delete_index \/ handle_find_documents
    \/ Working \/ Succeeds \/ Refuses
    \/ Finding \/ FindingThrows \/ Streaming

HandlersSpec == HandlersInit /\ [][HandlersNext]_handlerVars

-------------------------------------------------------------------------------
(***************************************************************************)
(* find_documents sends documents that match: as long as no document is    *)
(* overwritten and no write fails, every document it streams matches an    *)
(* operator of the filter, after any sequence of requests and in spite of  *)
(* indexes that were only half filled, refused or not made at all.         *)
(***************************************************************************)
StreamsOnly ==
    request.cmd = "find_documents" /\ (\A p \in PartsOf(request.filter) : p.op # "$and")
        => \A doc \in streamed : \E p \in PartsOf(request.filter) : MatchesPart(doc, p)

(***************************************************************************)
(* delete_index deletes: when it has answered success, the index is gone.  *)
(***************************************************************************)
DeleteIndexDeletes ==
    request.cmd = "delete_index" /\ request.status = "success" => request.field \notin cfs

===============================================================================
