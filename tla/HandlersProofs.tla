----------------------------- MODULE HandlersProofs ----------------------------
(***************************************************************************)
(* What the handlers of the MQTT bridge promise their clients, for any     *)
(* number of ids, fields, values and filters.                              *)
(***************************************************************************)
EXTENDS Handlers, QueryProofs

-------------------------------------------------------------------------------
\* A handler takes the steps of a collection and no others.
LEMMA HandlersStep == [HandlersNext]_handlerVars => [Next]_vars
<1> SUFFICES ASSUME [HandlersNext]_handlerVars
             PROVE  [Next]_vars
  OBVIOUS
<1>1. ASSUME Begin(Server) \/ Continue(Server) \/ Fails(Server)
      PROVE  Next
  BY <1>1, ServerAssumption DEF Next
<1>2. CASE UNCHANGED vars
  BY <1>2
<1>3. CASE \/ handle_create_document \/ handle_delete_document
           \/ handle_create_index \/ handle_delete_index
  BY <1>1, <1>3 DEF handle_create_document, handle_delete_document, handle_create_index,
     handle_delete_index, CreatesIndex, Begin, Fails
<1>4. CASE Working
  BY <1>1, <1>4 DEF Working, Continue
<1>5. CASE Succeeds
  BY <1>1, <1>5 DEF Succeeds, Continue, Fails
<1>6. CASE Refuses
  BY <1>1, <1>6 DEF Refuses, Continue, Fails
<1>7. CASE \/ DeleteMissing \/ handle_find_documents \/ Finding \/ FindingThrows \/ Streaming
           \/ UNCHANGED handlerVars
  BY <1>7 DEF DeleteMissing, handle_find_documents, CallFind, Finding, FindOne, FindNext,
     FindCollect, FindFails, FindingThrows, FindThrows, Streaming, FindReturn, handlerVars
<1> QED
  BY <1>3, <1>4, <1>5, <1>6, <1>7 DEF HandlersNext

(***************************************************************************)
(* The collection behind the bridge is a collection with one caller: what  *)
(* is proved of Collection holds whatever requests arrive.                 *)
(***************************************************************************)
THEOREM HandlersUseCollection == HandlersSpec => Spec
<1>1. HandlersInit => Init
  BY DEF HandlersInit, QueryInit
<1> QED
  BY <1>1, HandlersStep, PTL DEF HandlersSpec, Spec

(***************************************************************************)
(* After any sequence of requests, no index is left with an entry that its *)
(* document does not live up to, as long as documents are created under    *)
(* new ids and no write fails.                                             *)
(***************************************************************************)
THEOREM HandlersExact ==
    ASSUME ExactCalls(Server)
    PROVE  HandlersSpec => []IndexExact
<1>1. Spec => []IndexExact
  BY ServerAssumption, SerialExact
<1> QED
  BY <1>1, HandlersUseCollection, PTL

(***************************************************************************)
(* To the clients of the bridge a collection is one atomic map, whatever   *)
(* fails or is refused on the way.                                         *)
(***************************************************************************)
THEOREM HandlersAtomic ==
    ASSUME SoleUpdaters
    PROVE  HandlersSpec => StoreRefined
<1>1. Spec => StoreRefined
  BY StoreImplemented
<1> QED
  BY <1>1, HandlersUseCollection, PTL

-------------------------------------------------------------------------------
(***************************************************************************)
(* One request at a time.                                                  *)
(*                                                                         *)
(* While a query is walked, its request has no answer and the server is in *)
(* no other call: mtx_ is held.                                            *)
(***************************************************************************)
Commands == {"none", "create_document", "delete_document", "create_index", "delete_index",
             "find_documents"}

RequestRecords ==
    [cmd : Commands, field : Fields \cup {None}, filter : Filters \cup {<<>>},
     status : {"none", "success", "error"}]

Serving ==
    /\ TypeOK
    /\ request \in RequestRecords
    /\ find.pc \in {"idle", "find"}
    /\ find.pc = "find" =>
        /\ FindType /\ Walks
        /\ call[Server].pc = "idle"
        /\ request.status = "none" /\ request.cmd = "find_documents"
        /\ request.filter = find.filter
    /\ request.status # "none" => find.pc = "idle" /\ call[Server].pc = "idle"

LEMMA ServingInit == HandlersInit => Serving
<1> SUFFICES ASSUME HandlersInit
             PROVE  Serving
  OBVIOUS
<1>1. TypeOK /\ call[Server] = Idle /\ find.pc = "idle"
  BY InitType, ServerAssumption DEF HandlersInit, QueryInit, Init, NoFind
<1>2. request \in RequestRecords
  BY DEF HandlersInit, NoRequest, RequestRecords, Commands
<1> QED
  BY <1>1, <1>2 DEF Serving, Idle

\* A call begins: the last request has its answer.
LEMMA ServingTake ==
    ASSUME Serving, TypeOK', NEW cmd \in Commands, NEW field \in Fields \cup {None},
           Take(cmd, field, <<>>), UNCHANGED findVars
    PROVE  Serving'
<1>1. find.pc = "idle" /\ find' = find
  BY DEF Serving, Take, findVars
<1>2. request' \in RequestRecords /\ request'.status = "none"
  BY DEF Take, RequestRecords
<1> QED
  BY <1>1, <1>2 DEF Serving

\* The call of a request that is being served goes on or ends.
LEMMA ServingCall ==
    ASSUME Serving, TypeOK', UNCHANGED findVars,
           call[Server].pc # "idle",
           \/ UNCHANGED request
           \/ /\ call'[Server].pc = "idle"
              /\ \E status \in {"success", "error"} : Reply(status)
    PROVE  Serving'
<1>1. find.pc = "idle" /\ find' = find /\ request.status = "none"
  BY DEF Serving, findVars, RequestRecords
<1>2. CASE UNCHANGED request
  BY <1>1, <1>2 DEF Serving
<1>3. CASE call'[Server].pc = "idle" /\ \E status \in {"success", "error"} : Reply(status)
  <2>1. request' \in RequestRecords
    BY <1>3 DEF Serving, RequestRecords, Reply
  <2> QED
    BY <1>1, <1>3, <2>1 DEF Serving
<1> QED
  BY <1>2, <1>3

LEMMA ServingFind ==
    ASSUME Serving, TypeOK', handle_find_documents
    PROVE  Serving' /\ find'.result = {} /\ find'.acc = {}
<1>1. CallFind /\ Take("find_documents", None, find'.filter) /\ UNCHANGED vars
  BY DEF handle_find_documents, CallFind
<1>2. FindType' /\ Walks' /\ find'.result = {} /\ find'.acc = {}
  BY <1>1, WalkStart DEF Serving
<1>3. find'.pc = "find" /\ find'.filter \in Filters
  BY <1>2 DEF FindType
<1>4. /\ request'.status = "none" /\ request'.cmd = "find_documents"
      /\ request'.filter = find'.filter /\ request' \in RequestRecords
  BY <1>1, <1>3 DEF Take, RequestRecords, Commands
<1>5. call'[Server].pc = "idle"
  BY <1>1 DEF Serving, Take, vars
<1> QED
  BY <1>2, <1>3, <1>4, <1>5 DEF Serving

LEMMA ServingFinding ==
    ASSUME Serving, TypeOK', Finding
    PROVE  /\ Serving'
           /\ find.pc = "find" /\ find'.filter = find.filter
           /\ \A id \in find'.result \cup find'.acc :
                id \in find.result \cup find.acc \/ ClauseFinds(id)
<1>1. /\ FindOne \/ FindNext \/ FindCollect \/ FindFails
      /\ find.pc = "find" /\ UNCHANGED <<vars, request>>
  BY DEF Finding, FindOne, FindNext, FindCollect, FindFails, Walking
<1>2. /\ FindType' /\ Walks' /\ find'.filter = find.filter
      /\ \A id \in find'.result \cup find'.acc :
           id \in find.result \cup find.acc \/ ClauseFinds(id)
  BY <1>1, WalkStep DEF Serving
<1>3. find'.pc = "find"
  BY <1>2 DEF FindType
<1>4. call'[Server].pc = "idle"
  BY <1>1 DEF Serving, vars
<1> QED
  BY <1>1, <1>2, <1>3, <1>4 DEF Serving

\* A query ends, with the answer to its request.
LEMMA ServingAnswer ==
    ASSUME Serving, TypeOK', FindThrows \/ FindReturn,
           request' = [request EXCEPT !.status = "success"]
    PROVE  Serving'
<1>1. find.pc = "find" /\ find'.pc = "idle" /\ UNCHANGED vars
  BY DEF FindThrows, FindReturn, Walking, Answered, NoFind
<1>2. call'[Server].pc = "idle"
  BY <1>1 DEF Serving, vars
<1>3. request' \in RequestRecords
  BY DEF Serving, RequestRecords
<1> QED
  BY <1>1, <1>2, <1>3 DEF Serving

\* A call of the server that takes a step is under way; the last one ends it.
LEMMA ServerWorks ==
    ASSUME Working \/ Succeeds \/ Refuses
    PROVE  call[Server].pc # "idle"
BY DEF Working, Succeeds, Refuses, CreateNames, PutIndex, DeleteNames, RemoveIndex, OpenCursor,
       FillRow, PutDoc, RemoveDoc, FillDone, ScanFails, PutRejected, RemoveRejected,
       FillRejected, IOFails

LEMMA ServerReturns ==
    ASSUME TypeOK, Succeeds \/ Refuses
    PROVE  call'[Server].pc = "idle"
<1>1. Return(Server)
  BY DEF Succeeds, Refuses, PutDoc, RemoveDoc, FillDone, ScanFails, PutRejected,
         RemoveRejected, FillRejected, IOFails
<1> QED
  BY <1>1, ServerAssumption DEF Return, TypeOK, Idle

LEMMA ServingNext == Serving /\ [HandlersNext]_handlerVars => Serving'
<1> SUFFICES ASSUME Serving, [HandlersNext]_handlerVars
             PROVE  Serving'
  OBVIOUS
<1>1. TypeOK'
  BY HandlersStep, NextType DEF Serving
<1>2. CASE UNCHANGED handlerVars
  <2>1. UNCHANGED <<find, request, call>>
    BY <1>2 DEF handlerVars, findVars, vars
  <2> QED
    BY <1>1, <2>1 DEF Serving, FindType, Walks, Done, At, ClausesDone, Part
<1>3. CASE handle_create_document \/ handle_delete_document
  BY <1>1, <1>3, ServingTake DEF handle_create_document, handle_delete_document, Commands
<1>4. CASE handle_create_index \/ handle_delete_index
  <2>1. call'[Server].field \in Fields \cup {None}
    BY <1>1, ServerAssumption DEF TypeOK, Call
  <2> QED
    BY <1>1, <1>4, <2>1, ServingTake
       DEF handle_create_index, handle_delete_index, CreatesIndex, Commands
<1>5. CASE DeleteMissing
  <2>1. request' = [cmd |-> "delete_document", field |-> None, filter |-> <<>>,
                    status |-> "error"]
    BY <1>5 DEF DeleteMissing, NoRequest
  <2>2. request' \in RequestRecords
    BY <2>1 DEF RequestRecords, Commands
  <2>3. request.status # "none" /\ UNCHANGED <<find, call>>
    BY <1>5 DEF DeleteMissing, findVars, vars
  <2> QED
    BY <1>1, <2>2, <2>3 DEF Serving
<1>6. CASE handle_find_documents
  BY <1>1, <1>6, ServingFind
<1>7. CASE Working
  BY <1>1, <1>7, ServerWorks, ServingCall DEF Working
<1>8. CASE Succeeds \/ Refuses
  <2>1. call[Server].pc # "idle" /\ call'[Server].pc = "idle"
    BY <1>8, ServerWorks, ServerReturns DEF Serving
  <2> QED
    BY <1>1, <1>8, <2>1, ServingCall DEF Succeeds, Refuses
<1>9. CASE Finding
  BY <1>1, <1>9, ServingFinding
<1>10. CASE FindingThrows \/ Streaming
  BY <1>1, <1>10, ServingAnswer DEF FindingThrows, Streaming, Reply
<1> QED
  BY <1>2, <1>3, <1>4, <1>5, <1>6, <1>7, <1>8, <1>9, <1>10 DEF HandlersNext

\* A handler that writes finds no query under way.
LEMMA HandlersQueryStep ==
    Serving /\ [HandlersNext]_handlerVars => [QueryNext]_<<vars, findVars>>
<1> SUFFICES ASSUME Serving, [HandlersNext]_handlerVars
             PROVE  [QueryNext]_<<vars, findVars>>
  OBVIOUS
<1>1. ASSUME find.pc = "idle", Begin(Server) \/ Continue(Server) \/ Fails(Server),
             UNCHANGED findVars
      PROVE  QueryNext
  BY <1>1, ServerAssumption DEF QueryNext, WriteStep, findVars
<1>2. CASE \/ handle_create_document \/ handle_delete_document
           \/ handle_create_index \/ handle_delete_index
  <2>1. find.pc = "idle" /\ UNCHANGED findVars
    BY <1>2 DEF handle_create_document, handle_delete_document, handle_create_index,
       handle_delete_index, CreatesIndex, Take, Serving
  <2> QED
    BY <1>1, <1>2, <2>1 DEF handle_create_document, handle_delete_document,
       handle_create_index, handle_delete_index, CreatesIndex, Begin, Fails
<1>3. CASE Working \/ Succeeds \/ Refuses
  <2>1. find.pc = "idle" /\ UNCHANGED findVars
    BY <1>3, ServerWorks DEF Working, Succeeds, Refuses, Serving
  <2>2. Continue(Server) \/ Fails(Server)
    BY <1>3 DEF Working, Succeeds, Refuses, Continue, Fails
  <2> QED
    BY <1>1, <2>1, <2>2
<1>4. CASE handle_find_documents \/ Finding \/ FindingThrows \/ Streaming
  BY <1>4 DEF handle_find_documents, Finding, FindingThrows, Streaming, QueryNext, FindStep
<1>5. CASE DeleteMissing \/ UNCHANGED handlerVars
  BY <1>5 DEF DeleteMissing, handlerVars
<1> QED
  BY <1>2, <1>3, <1>4, <1>5 DEF HandlersNext

(***************************************************************************)
(* The bridge queries as any reader does: what is proved of findDocument   *)
(* beside writers holds of find_documents between requests that write.     *)
(***************************************************************************)
THEOREM HandlersUseQuery == HandlersSpec => QuerySpec
<1>1. HandlersInit => QueryInit
  BY DEF HandlersInit
<1> QED
  BY <1>1, ServingInit, ServingNext, HandlersQueryStep, PTL DEF HandlersSpec, QuerySpec

(***************************************************************************)
(* find_documents is right about every document: its result is all that    *)
(* the filter matches and no more, $and as far as findDocument goes.       *)
(***************************************************************************)
THEOREM HandlersFind ==
    ASSUME NEW S \in SUBSET Doc, CompleteCalls(S, Server)
    PROVE  HandlersSpec => [](FindsAll /\ FindsOnly)
<1>1. QuerySpec => [](FindsAll /\ FindsOnly)
  BY ServerAssumption, SerialFinds
<1> QED
  BY <1>1, HandlersUseQuery, PTL

-------------------------------------------------------------------------------
(***************************************************************************)
(* What find_documents streams.                                            *)
(*                                                                         *)
(* StreamsOnly speaks of the documents that have been sent.  On the way    *)
(* there, what a query has collected matches its filter: an index without  *)
(* stale entries leads every scan to documents that match its clause, and  *)
(* between the scan and the sending no other call runs.  It is the exact   *)
(* indexes that count, not complete ones: a query that is refused, or      *)
(* served from half an index, collects less, but nothing wrong.            *)
(***************************************************************************)
NoAnd(q) == \A p \in PartsOf(q) : p.op # "$and"

Collected ==
    find.pc = "find" /\ NoAnd(find.filter) =>
        \A id \in find.result \cup find.acc :
            docs[id] # None => \E p \in PartsOf(find.filter) : MatchesPart(docs[id], p)

\* Between calls, an exact index leads to documents that match.
LEMMA ScanMatches ==
    ASSUME ExactInv(Server), call[Server].pc = "idle", NEW c, c.field \in Fields,
           NEW id \in Scan(c)
    PROVE  Matches(docs[id], c)
<1>1. PICK e \in index[c.field] : e[2] = id /\ Selects(c, e[1])
  BY DEF Scan
<1>2. Live(c.field, e)
  BY <1>1 DEF ExactInv, ExactEntries, Fresh
<1>3. /\ hasField(docs[id], c.field) /\ ~Throws(docs[id][c.field])
      /\ e = Entry(docs[id], c.field, id)
  BY <1>1, <1>2 DEF Live
<1>4. e[1] = parseValue(docs[id][c.field])
  BY <1>3 DEF Entry
<1> QED
  BY <1>1, <1>3, <1>4 DEF Matches

LEMMA ClauseFindsMatches ==
    ASSUME ExactInv(Server), Serving, find.pc = "find", NoAnd(find.filter),
           NEW id, ClauseFinds(id)
    PROVE  \E p \in PartsOf(find.filter) : MatchesPart(docs[id], p)
<1>1. PICK p \in PartsOf(find.filter) :
        \E i \in 1 .. Len(p.clauses) : id \in Scan(p.clauses[i])
  BY DEF ClauseFinds
<1>2. PICK i \in 1 .. Len(p.clauses) : id \in Scan(p.clauses[i])
  BY <1>1
<1>3. p \in Parts
  BY FilterType DEF Serving, FindType, PartsOf
<1>4. p.clauses[i].field \in Fields
  <2>1. p.clauses \in Seq(FindClauses)
    BY <1>3, PartType
  <2>2. p.clauses[i] \in FindClauses
    BY <2>1
  <2> QED
    BY <2>2 DEF FindClauses
<1>5. Matches(docs[id], p.clauses[i])
  BY <1>2, <1>4, ScanMatches DEF Serving
<1> QED
  BY <1>1, <1>5 DEF MatchesPart, NoAnd

LEMMA CollectedNext ==
    ASSUME ExactInv(Server), Serving, Collected, [HandlersNext]_handlerVars
    PROVE  Collected'
<1>1. TypeOK'
  BY HandlersStep, NextType DEF Serving
<1>2. CASE handle_find_documents
  BY <1>1, <1>2, ServingFind DEF Collected
<1>3. CASE Finding
  <2>1. /\ find.pc = "find" /\ find'.filter = find.filter
        /\ \A id \in find'.result \cup find'.acc :
             id \in find.result \cup find.acc \/ ClauseFinds(id)
    BY <1>1, <1>3, ServingFinding
  <2>2. UNCHANGED docs
    BY <1>3 DEF Finding, FindOne, FindNext, FindCollect, FindFails, vars
  <2> SUFFICES ASSUME NoAnd(find.filter), NEW id \in find'.result \cup find'.acc,
                      docs[id] # None
               PROVE  \E p \in PartsOf(find.filter) : MatchesPart(docs[id], p)
    BY <2>1, <2>2 DEF Collected
  <2> QED
    BY <2>1, ClauseFindsMatches DEF Collected
<1>4. CASE FindingThrows \/ Streaming
  BY <1>4 DEF FindingThrows, FindThrows, Streaming, FindReturn, NoFind, Collected
<1>5. CASE Working \/ Succeeds \/ Refuses
  <2>1. find.pc = "idle" /\ UNCHANGED find
    BY <1>5, ServerWorks DEF Working, Succeeds, Refuses, Serving, findVars
  <2> QED
    BY <2>1 DEF Collected
<1>6. CASE \/ handle_create_document \/ handle_delete_document \/ DeleteMissing
           \/ handle_create_index \/ handle_delete_index
  <2>1. find.pc = "idle" /\ UNCHANGED find
    BY <1>6 DEF handle_create_document, handle_delete_document, handle_create_index,
       handle_delete_index, CreatesIndex, DeleteMissing, Take, Serving, findVars
  <2> QED
    BY <2>1 DEF Collected
<1>7. CASE UNCHANGED handlerVars
  BY <1>7 DEF handlerVars, findVars, vars, Collected
<1> QED
  BY <1>2, <1>3, <1>4, <1>5, <1>6, <1>7 DEF HandlersNext

LEMMA StreamsNext ==
    ASSUME Serving, Collected, StreamsOnly, [HandlersNext]_handlerVars
    PROVE  StreamsOnly'
<1>1. CASE streamed' = {}
  BY <1>1 DEF StreamsOnly
<1>2. CASE /\ request'.cmd = request.cmd /\ request'.filter = request.filter
           /\ UNCHANGED streamed
  BY <1>2 DEF StreamsOnly
<1>3. CASE Streaming
  <2>1. /\ find.pc = "find" /\ request.filter = find.filter /\ request \in RequestRecords
        /\ streamed' = {docs[id] : id \in {i \in find.result : docs[i] # None}}
    BY <1>3 DEF Streaming, FindReturn, Answered, Serving
  <2>2. request'.filter = find.filter
    BY <1>3, <2>1 DEF Streaming, RequestRecords
  <2> SUFFICES ASSUME NoAnd(find.filter), NEW id \in find.result, docs[id] # None
               PROVE  \E p \in PartsOf(find.filter) : MatchesPart(docs[id], p)
    BY <2>1, <2>2 DEF StreamsOnly, NoAnd
  <2> QED
    BY <2>1 DEF Collected
<1>4. ASSUME NEW status, Reply(status)
      PROVE  StreamsOnly'
  <2>1. request'.cmd = request.cmd /\ request'.filter = request.filter /\ UNCHANGED streamed
    BY <1>4 DEF Reply, Serving, RequestRecords
  <2> QED
    BY <1>2, <2>1
<1>5. CASE \/ handle_create_document \/ handle_delete_document \/ DeleteMissing
           \/ handle_create_index \/ handle_delete_index \/ handle_find_documents
  BY <1>1, <1>5 DEF handle_create_document, handle_delete_document, handle_create_index,
     handle_delete_index, CreatesIndex, DeleteMissing, handle_find_documents, Take
<1>6. CASE Working \/ Finding \/ UNCHANGED handlerVars
  BY <1>2, <1>6 DEF Working, Finding, handlerVars
<1>7. CASE Succeeds \/ Refuses \/ FindingThrows
  BY <1>4, <1>7 DEF Succeeds, Refuses, FindingThrows
<1> QED
  BY <1>3, <1>5, <1>6, <1>7 DEF HandlersNext

(***************************************************************************)
(* Every document find_documents sends matches an operator of the filter,  *)
(* after any sequence of requests, in spite of indexes half filled,        *)
(* refused or not made at all, as long as documents are created under new  *)
(* ids and no write fails.                                                 *)
(***************************************************************************)
THEOREM HandlersStreamOnly ==
    ASSUME ExactCalls(Server)
    PROVE  HandlersSpec => []StreamsOnly
<1> DEFINE Inv == ExactInv(Server) /\ Serving /\ Collected /\ StreamsOnly
<1>1. HandlersInit => Inv
  <2> SUFFICES ASSUME HandlersInit
               PROVE  Inv
    OBVIOUS
  <2>1. ExactInv(Server)
    BY ExactInit, ServerAssumption DEF HandlersInit, QueryInit
  <2>2. Collected /\ StreamsOnly
    BY DEF HandlersInit, QueryInit, NoFind, Collected, StreamsOnly
  <2> QED
    BY <2>1, <2>2, ServingInit
<1>2. Inv /\ [HandlersNext]_handlerVars => Inv'
  BY HandlersStep, ExactNext, ServerAssumption, ServingNext, CollectedNext, StreamsNext
<1>3. Inv => StreamsOnly
  OBVIOUS
<1> QED
  BY <1>1, <1>2, <1>3, PTL DEF HandlersSpec

===============================================================================
