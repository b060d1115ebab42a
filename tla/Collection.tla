------------------------------- MODULE Collection ------------------------------
(***************************************************************************)
(* Collection.cpp on top of StorageEngine.cpp: one collection of           *)
(* documents, its secondary indexes, and the threads that call it.         *)
(*                                                                         *)
(* A document lives in the column family of the collection; every index is *)
(* a column family of its own whose keys are parseValue(field) # id.  A    *)
(* call writes to them one RocksDB operation at a time, and nothing ties   *)
(* those writes together: each is an action here, so that the calls of     *)
(* other threads, an error or a crash may come between any two of them.    *)
(* A single RocksDB operation is atomic, and so is a look-up in, or a      *)
(* change of, the map columnFamilies_.                                     *)
(***************************************************************************)
EXTENDS Document

CONSTANTS
    Threads,    \* the callers
    Ids,        \* document ids, as numbers in RocksDB's key order
    Inputs,     \* the documents callers pass to createDocument
    Updates,    \* the update objects callers pass to updateDocument
    OpsOf,      \* the operations each thread calls
    Faults,     \* the faults that may happen
    MaxFaults,  \* a bound on how many do
    None        \* no document, no thread, no argument

Ops == {"insert", "overwrite", "update", "delete", "createIndex", "deleteIndex"}

ASSUME IdsAssumption == Ids \subseteq Nat

ASSUME CallsAssumption ==
    /\ Inputs \subseteq Doc
    /\ Updates \subseteq Update
    /\ OpsOf \in [Threads -> SUBSET Ops]

ASSUME FaultsAssumption ==
    /\ Faults \subseteq {"crash", "powerLoss", "writeError", "scanError", "cfError"}
    /\ MaxFaults \in Nat

ASSUME NoneAssumption ==
    None \notin Doc \cup Threads \cup Ids \cup Fields \cup Updates

VARIABLES
    docs,   \* the collection's column family: what is stored under each id
    cfs,    \* the indexes that have a column family
    index,  \* the entries <<key, id>> of each index
    mutex,  \* collection_mutex_: the thread that holds it, or None
    call,   \* the call each thread is in
    ready,  \* the indexes whose createIndex has returned OK (history)
    faults  \* how many faults have happened

vars == <<docs, cfs, index, mutex, call, ready, faults>>

-------------------------------------------------------------------------------
(***************************************************************************)
(* The local variables of a call.                                          *)
(*   lock     updateDocument, waiting for collection_mutex_                *)
(*   create   createDocument, before getIndexNames                         *)
(*   put      createDocument, writing its index entries and the document   *)
(*   delete   deleteDocument, after readDocument                           *)
(*   remove   deleteDocument, removing index entries and the document      *)
(*   cursor   createIndex, before createCursor                             *)
(*   fill     createIndex, walking the cursor's rows                       *)
(***************************************************************************)
Call == [pc     : {"idle", "lock", "create", "put", "delete", "remove", "cursor", "fill"},
         id     : Ids \cup {None},
         doc    : Doc,                          \* the document in hand
         todo   : SUBSET Fields,                \* indexes still to visit
         field  : Fields \cup {None},           \* createIndex's argument
         rows   : [Ids -> Doc \cup {None}],     \* the cursor's rows ahead
         update : Updates \cup {None},
         upsert : BOOLEAN]

Idle == [pc |-> "idle", id |-> None, doc |-> EmptyDoc, todo |-> {}, field |-> None,
         rows |-> [i \in Ids |-> None], update |-> None, upsert |-> FALSE]

\* A fresh collection whose indexes, if any, were created while it was empty.
Init ==
    /\ docs = [i \in Ids |-> None]
    /\ cfs \in SUBSET Fields
    /\ index = [f \in Fields |-> {}]
    /\ mutex = None
    /\ call = [t \in Threads |-> Idle]
    /\ ready = cfs
    /\ faults = 0

\* The call ends, with whatever status or exception; lock_guard frees the mutex.
Return(t) ==
    /\ call' = [call EXCEPT ![t] = Idle]
    /\ mutex' = IF mutex = t THEN None ELSE mutex

IsMin(x, S) == x \in S /\ \A y \in S : x <= y

\* getIndexNames, and those of its names that hasIndexField finds in doc.
IndexesOf(doc) == {f \in cfs : hasField(doc, f)}

Entry(doc, f, id) == <<parseValue(doc[f]), id>>

\* Mutation of Rejects: putIndex does not look whether find() found the index.
RejectsUnchecked(doc, f) == Throws(doc[f])

\* parseValue throws, or columnFamilies_ no longer has the index.
Rejects(doc, f) == Throws(doc[f]) \/ f \notin cfs

-------------------------------------------------------------------------------
(***************************************************************************)
(* createDocument: one index entry per index, then the document.  An entry *)
(* of the value the document had before is never removed.                  *)
(***************************************************************************)
CallCreate(t) ==
    /\ call[t].pc = "idle"
    /\ \E id \in Ids, doc \in Inputs :
        /\ \/ "overwrite" \in OpsOf[t]
           \/ "insert" \in OpsOf[t] /\ docs[id] = None
        /\ call' = [call EXCEPT ![t] = [Idle EXCEPT !.pc = "create", !.id = id, !.doc = doc]]
    /\ UNCHANGED <<docs, cfs, index, mutex, ready, faults>>

CreateNames(t) ==
    /\ call[t].pc = "create"
    /\ call' = [call EXCEPT ![t].pc = "put", ![t].todo = IndexesOf(call[t].doc)]
    /\ UNCHANGED <<docs, cfs, index, mutex, ready, faults>>

\* insertIfIndexFieldExists for the next index.
PutIndex(t) ==
    /\ call[t].pc = "put"
    /\ \E f \in Fields :
        /\ IsMin(f, call[t].todo)
        /\ ~Rejects(call[t].doc, f)
        /\ index' = [index EXCEPT ![f] = @ \cup {Entry(call[t].doc, f, call[t].id)}]
        /\ call' = [call EXCEPT ![t].todo = @ \ {f}]
    /\ UNCHANGED <<docs, cfs, mutex, ready, faults>>

\* Mutation of PutRejected: the exception skips the unlock.
PutRejectedLocked(t) ==
    /\ call[t].pc = "put"
    /\ \E f \in Fields : IsMin(f, call[t].todo) /\ Rejects(call[t].doc, f)
    /\ call' = [call EXCEPT ![t] = Idle]
    /\ UNCHANGED <<docs, cfs, index, mutex, ready, faults>>

\* The next index refuses the document; the entries written so far stay.
PutRejected(t) ==
    /\ call[t].pc = "put"
    /\ \E f \in Fields : IsMin(f, call[t].todo) /\ Rejects(call[t].doc, f)
    /\ Return(t)
    /\ UNCHANGED <<docs, cfs, index, ready, faults>>

\* Mutation of PutDoc: the document is stored before its index entries.
PutDocFirst(t) ==
    /\ call[t].pc = "put"
    /\ docs' = [docs EXCEPT ![call[t].id] = call[t].doc]
    /\ IF call[t].todo = {} THEN Return(t) ELSE UNCHANGED <<call, mutex>>
    /\ UNCHANGED <<cfs, index, ready, faults>>

PutDoc(t) ==
    /\ call[t].pc = "put"
    /\ call[t].todo = {}
    /\ docs' = [docs EXCEPT ![call[t].id] = call[t].doc]
    /\ Return(t)
    /\ UNCHANGED <<cfs, index, ready, faults>>

-------------------------------------------------------------------------------
(***************************************************************************)
(* updateDocument: read, apply and createDocument under collection_mutex_, *)
(* which no other operation takes.                                         *)
(***************************************************************************)
CallUpdate(t) ==
    /\ call[t].pc = "idle"
    /\ "update" \in OpsOf[t]
    /\ \E id \in Ids, u \in Updates, upsert \in BOOLEAN :
        call' = [call EXCEPT ![t] = [Idle EXCEPT !.pc = "lock", !.id = id,
                                                 !.update = u, !.upsert = upsert]]
    /\ UNCHANGED <<docs, cfs, index, mutex, ready, faults>>

\* The stored document, or the empty one that an upsert starts from.
Stored(id) == IF docs[id] = None THEN EmptyDoc ELSE docs[id]

\* Mutation of UpdateRead: the mutex is not waited for.
UpdateReadUnlocked(t) ==
    /\ call[t].pc = "lock"
    /\ docs[call[t].id] # None \/ call[t].upsert
    /\ mutex' = t
    /\ call' = [call EXCEPT ![t].pc = "create",
                            ![t].doc = applyUpdate(Stored(call[t].id), call[t].update)]
    /\ UNCHANGED <<docs, cfs, index, ready, faults>>

\* Mutation of UpdateRead: a missing document is made up without upsert.
UpdateReadUpserts(t) ==
    /\ call[t].pc = "lock"
    /\ mutex = None
    /\ mutex' = t
    /\ call' = [call EXCEPT ![t].pc = "create",
                            ![t].doc = applyUpdate(Stored(call[t].id), call[t].update)]
    /\ UNCHANGED <<docs, cfs, index, ready, faults>>

UpdateRead(t) ==
    /\ call[t].pc = "lock"
    /\ mutex = None
    /\ docs[call[t].id] # None \/ call[t].upsert
    /\ mutex' = t
    /\ call' = [call EXCEPT ![t].pc = "create",
                            ![t].doc = applyUpdate(Stored(call[t].id), call[t].update)]
    /\ UNCHANGED <<docs, cfs, index, ready, faults>>

UpdateNotFound(t) ==
    /\ call[t].pc = "lock"
    /\ mutex = None
    /\ docs[call[t].id] = None /\ ~call[t].upsert
    /\ Return(t)
    /\ UNCHANGED <<docs, cfs, index, ready, faults>>

-------------------------------------------------------------------------------
\* deleteDocument; readDocument of an absent id returns at once and changes nothing.
CallDelete(t) ==
    /\ call[t].pc = "idle"
    /\ "delete" \in OpsOf[t]
    /\ \E id \in Ids :
        /\ docs[id] # None
        /\ call' = [call EXCEPT ![t] = [Idle EXCEPT !.pc = "delete", !.id = id,
                                                    !.doc = docs[id]]]
    /\ UNCHANGED <<docs, cfs, index, mutex, ready, faults>>

DeleteNames(t) ==
    /\ call[t].pc = "delete"
    /\ call' = [call EXCEPT ![t].pc = "remove", ![t].todo = IndexesOf(call[t].doc)]
    /\ UNCHANGED <<docs, cfs, index, mutex, ready, faults>>

\* Mutation of RemoveIndex: the entry is looked up but not removed.
RemoveIndexSkipped(t) ==
    /\ call[t].pc = "remove"
    /\ \E f \in Fields :
        /\ IsMin(f, call[t].todo)
        /\ ~Rejects(call[t].doc, f)
        /\ call' = [call EXCEPT ![t].todo = @ \ {f}]
    /\ UNCHANGED <<docs, cfs, index, mutex, ready, faults>>

\* deleteIfIndexFieldExists for the next index.
RemoveIndex(t) ==
    /\ call[t].pc = "remove"
    /\ \E f \in Fields :
        /\ IsMin(f, call[t].todo)
        /\ ~Rejects(call[t].doc, f)
        /\ index' = [index EXCEPT ![f] = @ \ {Entry(call[t].doc, f, call[t].id)}]
        /\ call' = [call EXCEPT ![t].todo = @ \ {f}]
    /\ UNCHANGED <<docs, cfs, mutex, ready, faults>>

\* The next index refuses; the entries removed so far stay removed.
RemoveRejected(t) ==
    /\ call[t].pc = "remove"
    /\ \E f \in Fields : IsMin(f, call[t].todo) /\ Rejects(call[t].doc, f)
    /\ Return(t)
    /\ UNCHANGED <<docs, cfs, index, ready, faults>>

RemoveDoc(t) ==
    /\ call[t].pc = "remove"
    /\ call[t].todo = {}
    /\ docs' = [docs EXCEPT ![call[t].id] = None]
    /\ Return(t)
    /\ UNCHANGED <<cfs, index, ready, faults>>

-------------------------------------------------------------------------------
(***************************************************************************)
(* createIndex: make the column family, then enter every row of a cursor,  *)
(* which is a snapshot of the collection.  The status of making it is not  *)
(* looked at: an index that exists is filled again.                        *)
(***************************************************************************)
CallCreateIndex(t) ==
    /\ call[t].pc = "idle"
    /\ "createIndex" \in OpsOf[t]
    /\ \E f \in Fields :
        /\ cfs' = cfs \cup {f}
        /\ call' = [call EXCEPT ![t] = [Idle EXCEPT !.pc = "cursor", !.field = f]]
    /\ UNCHANGED <<docs, index, mutex, ready, faults>>

\* Mutation of OpenCursor: the loop advances before it looks at the first row.
OpenCursorPastFirst(t) ==
    /\ call[t].pc = "cursor"
    /\ LET found == {i \in Ids : docs[i] # None}
       IN  call' = [call EXCEPT ![t].pc = "fill",
                                ![t].rows = [i \in Ids |-> IF IsMin(i, found) THEN None
                                                           ELSE docs[i]]]
    /\ UNCHANGED <<docs, cfs, index, mutex, ready, faults>>

OpenCursor(t) ==
    /\ call[t].pc = "cursor"
    /\ call' = [call EXCEPT ![t].pc = "fill", ![t].rows = docs]
    /\ UNCHANGED <<docs, cfs, index, mutex, ready, faults>>

RowsLeft(t) == {i \in Ids : call[t].rows[i] # None}

\* The cursor stands on row i, which createIndex enters if it has the field.
FillRow(t) ==
    /\ call[t].pc = "fill"
    /\ \E i \in Ids :
        LET row == call[t].rows[i]
            f   == call[t].field
        IN  /\ IsMin(i, RowsLeft(t))
            /\ hasField(row, f) => ~Rejects(row, f)
            /\ index' = IF hasField(row, f)
                        THEN [index EXCEPT ![f] = @ \cup {Entry(row, f, i)}] ELSE index
            /\ call' = [call EXCEPT ![t].rows[i] = None]
    /\ UNCHANGED <<docs, cfs, mutex, ready, faults>>

\* Corruption (a value with no key) or NotFound (the index was dropped).  The
\* column family stays, with the rows entered so far.
FillRejected(t) ==
    /\ call[t].pc = "fill"
    /\ \E i \in Ids :
        /\ IsMin(i, RowsLeft(t))
        /\ hasField(call[t].rows[i], call[t].field)
        /\ Rejects(call[t].rows[i], call[t].field)
    /\ Return(t)
    /\ UNCHANGED <<docs, cfs, index, ready, faults>>

\* The cursor is no longer valid: createIndex returns OK.
FillDone(t) ==
    /\ call[t].pc = "fill"
    /\ RowsLeft(t) = {}
    /\ ready' = ready \cup {call[t].field}
    /\ Return(t)
    /\ UNCHANGED <<docs, cfs, index, faults>>

\* deleteIndex drops the column family and all its entries.
DeleteIndex(t) ==
    /\ call[t].pc = "idle"
    /\ "deleteIndex" \in OpsOf[t]
    /\ \E f \in cfs :
        /\ cfs' = cfs \ {f}
        /\ index' = [index EXCEPT ![f] = {}]
        /\ ready' = ready \ {f}
    /\ UNCHANGED <<docs, mutex, call, faults>>

-------------------------------------------------------------------------------
Fault(kind) ==
    /\ kind \in Faults
    /\ faults < MaxFaults
    /\ faults' = faults + 1

\* A get, put or remove of RocksDB fails and the call returns its status.
IOFails(t) ==
    /\ Fault("writeError")
    /\ \/ call[t].pc \in {"put", "remove"}
       \/ call[t].pc = "lock" /\ mutex = None
       \/ call[t].pc = "fill" /\ RowsLeft(t) # {}
    /\ Return(t)
    /\ UNCHANGED <<docs, cfs, index, ready>>

\* An iterator that meets an error turns invalid, and nobody asks for its
\* status: createIndex takes it for the end of the rows and returns OK.
ScanFails(t) ==
    /\ Fault("scanError")
    /\ call[t].pc = "fill"
    /\ RowsLeft(t) # {}
    /\ ready' = ready \cup {call[t].field}
    /\ Return(t)
    /\ UNCHANGED <<docs, cfs, index>>

\* CreateColumnFamily fails, and createIndex goes on.
CreateIndexFails(t) ==
    /\ Fault("cfError")
    /\ call[t].pc = "idle"
    /\ "createIndex" \in OpsOf[t]
    /\ \E f \in Fields \ cfs :
        call' = [call EXCEPT ![t] = [Idle EXCEPT !.pc = "cursor", !.field = f]]
    /\ UNCHANGED <<docs, cfs, index, mutex, ready>>

\* The process dies and is started again: what RocksDB has taken stays.
Crash ==
    /\ Fault("crash")
    /\ call' = [t \in Threads |-> Idle]
    /\ mutex' = None
    /\ UNCHANGED <<docs, cfs, index, ready>>

-------------------------------------------------------------------------------
Begin(t) ==
    \/ CallCreate(t)
    \/ CallUpdate(t)
    \/ CallDelete(t)
    \/ CallCreateIndex(t)
    \/ DeleteIndex(t)

Continue(t) ==
    \/ CreateNames(t) \/ PutIndex(t) \/ PutRejected(t) \/ PutDoc(t)
    \/ UpdateRead(t) \/ UpdateNotFound(t)
    \/ DeleteNames(t) \/ RemoveIndex(t) \/ RemoveRejected(t) \/ RemoveDoc(t)
    \/ OpenCursor(t) \/ FillRow(t) \/ FillRejected(t) \/ FillDone(t)

Fails(t) == IOFails(t) \/ ScanFails(t) \/ CreateIndexFails(t)

Next ==
    \/ \E t \in Threads : Begin(t) \/ Continue(t) \/ Fails(t)
    \/ Crash

Spec == Init /\ [][Next]_vars

\* A running thread is scheduled: a call that can take its next step takes it.
Fairness == \A t \in Threads : WF_vars(Continue(t))

FairSpec == Spec /\ Fairness

-------------------------------------------------------------------------------
(***************************************************************************)
(* A call whose program counter and arguments fit together.                *)
(***************************************************************************)
WellFormed(c) ==
    /\ c \in Call
    /\ c.pc \in {"lock", "create", "put", "delete", "remove"} => c.id \in Ids
    /\ c.pc = "lock" => c.update \in Updates
    /\ c.pc \in {"cursor", "fill"} => c.field \in Fields
    /\ \A f \in c.todo : c.pc \in {"put", "remove"} /\ hasField(c.doc, f)

(***************************************************************************)
(* Type correctness: every call has the arguments its next step uses, only *)
(* an update between its read and its last write holds collection_mutex_,  *)
(* and a dropped index keeps no entries.                                   *)
(***************************************************************************)
TypeOK ==
    /\ docs \in [Ids -> Doc \cup {None}]
    /\ cfs \subseteq Fields
    /\ index \in [Fields -> SUBSET (Keys \X Ids)]
    /\ mutex \in Threads \cup {None}
    /\ call \in [Threads -> Call]
    /\ \A t \in Threads : WellFormed(call[t])
    /\ mutex # None => call[mutex].pc \in {"create", "put"} /\ call[mutex].update \in Updates
    /\ \A f \in Fields \ cfs : index[f] = {}
    /\ ready \subseteq Fields
    /\ faults \in 0 .. MaxFaults

\* A deleteDocument is taking this document's entries out of the indexes.
BeingDeleted(id) == \E t \in Threads : call[t].pc = "remove" /\ call[t].id = id

(***************************************************************************)
(* No stored document hides from an index: once createIndex has returned   *)
(* OK, every document that has the field can be found under its value.     *)
(* This is why createDocument writes the entries before the document, and  *)
(* deleteDocument removes the document last.                               *)
(***************************************************************************)
IndexComplete ==
    \A f \in ready, id \in Ids :
        docs[id] # None /\ hasField(docs[id], f) /\ ~BeingDeleted(id)
            => ~Throws(docs[id][f]) /\ Entry(docs[id], f, id) \in index[f]

(***************************************************************************)
(* An index finds nothing else: when no call is under way, the document an *)
(* entry names is stored and holds the value the entry is filed under, so  *)
(* findDocument never returns an id that does not match.                   *)
(***************************************************************************)
IndexExact ==
    (\A t \in Threads : call[t].pc = "idle") =>
        \A f \in Fields : \A e \in index[f] :
            /\ docs[e[2]] # None
            /\ hasField(docs[e[2]], f)
            /\ e = Entry(docs[e[2]], f, e[2])

\* The step is the Put that ends a createDocument called by updateDocument.
StoresUpdate(t) ==
    /\ mutex = t
    /\ call[t].pc = "put" /\ call[t].todo = {}
    /\ call'[t].pc = "idle"
    /\ faults' = faults

(***************************************************************************)
(* updateDocument is atomic: what it stores is the update applied to what  *)
(* the collection holds at that very moment, not at the earlier moment it  *)
(* read it, and without upsert it never brings back a deleted document.    *)
(***************************************************************************)
UpdateAtomic ==
    [][\A t \in Threads : StoresUpdate(t) =>
        LET id == call[t].id
        IN  /\ docs[id] # None \/ call[t].upsert
            /\ docs' = [docs EXCEPT ![id] = applyUpdate(Stored(id), call[t].update)]]_vars

(***************************************************************************)
(* However an update ends (success, NotFound, an I/O error, an exception   *)
(* from parseValue) it gives collection_mutex_ back, so that the updates   *)
(* waiting for it can go on.                                               *)
(***************************************************************************)
MutexReleased == \A t \in Threads : mutex = t ~> mutex # t

-------------------------------------------------------------------------------
(***************************************************************************)
(* The requests the calls stand for: a call is pending from its first step *)
(* to its last; createIndex and deleteIndex concern no document.           *)
(***************************************************************************)
RequestOf(c) ==
    IF c.update # None
    THEN [op |-> "update", id |-> c.id, update |-> c.update, upsert |-> c.upsert]
    ELSE IF c.pc \in {"create", "put"} THEN [op |-> "create", id |-> c.id, doc |-> c.doc]
    ELSE IF c.pc \in {"delete", "remove"} THEN [op |-> "delete", id |-> c.id]
    ELSE None

Store == INSTANCE DocumentStore WITH pending <- [t \in Threads |-> RequestOf(call[t])]

ASSUME RequestsAssumption == None \notin Store!Requests

(***************************************************************************)
(* Callers see one atomic map: each createDocument, updateDocument and     *)
(* deleteDocument, a sequence of RocksDB writes cut short by errors,       *)
(* exceptions and crashes, changes the stored documents in one step, the   *)
(* way its request says of what is stored then, or not at all.  It holds   *)
(* as long as no thread creates or deletes documents beside another one    *)
(* that updates them: collection_mutex_ is taken by updateDocument only.   *)
(***************************************************************************)
StoreRefined == Store!Spec

===============================================================================
