--------------------------- MODULE CollectionProofs ---------------------------
(***************************************************************************)
(* What Collection promises for any number of threads, ids, fields, values *)
(* and faults.                                                             *)
(***************************************************************************)
EXTENDS Collection, TLAPS

-------------------------------------------------------------------------------
\* Documents: updates keep them documents, and a field that is there and does
\* not throw has a key.

LEMMA PullType ==
    ASSUME NEW doc \in Doc, NEW c \in Clauses \cup {<<>>}
    PROVE  Pull(doc, c) \in Doc
BY DEF Pull, Doc, Clauses, Contents

LEMMA PushType ==
    ASSUME NEW doc \in Doc, NEW c \in Clauses \cup {<<>>}
    PROVE  Push(doc, c) \in Doc
BY DEF Push, Doc, Clauses, Contents, Compounds

LEMMA SetType ==
    ASSUME NEW doc \in Doc, NEW c \in Clauses \cup {<<>>}
    PROVE  Set(doc, c) \in Doc
BY DEF Set, Doc, Clauses

LEMMA UnsetType ==
    ASSUME NEW doc \in Doc, NEW f \in Fields \cup {Missing}
    PROVE  Unset(doc, f) \in Doc
BY DEF Unset, Doc

\* applyUpdate makes a document of a document.
LEMMA ApplyUpdateType ==
    ASSUME NEW doc \in Doc, NEW u \in Update
    PROVE  applyUpdate(doc, u) \in Doc
<1>1. /\ u.pull \in Clauses \cup {<<>>}
      /\ u.push \in Clauses \cup {<<>>}
      /\ u.set \in Clauses \cup {<<>>}
      /\ u.unset \in Fields \cup {Missing}
  BY DEF Update
<1>2. Pull(doc, u.pull) \in Doc
  BY <1>1, PullType
<1>3. Push(Pull(doc, u.pull), u.push) \in Doc
  BY <1>1, <1>2, PushType
<1>4. Set(Push(Pull(doc, u.pull), u.push), u.set) \in Doc
  BY <1>1, <1>3, SetType
<1> QED
  BY <1>1, <1>4, UnsetType DEF applyUpdate

LEMMA EmptyDocType == EmptyDoc \in Doc
BY DEF EmptyDoc, Doc

\* The entry of a field that can be indexed is an index entry.
LEMMA EntryType ==
    ASSUME NEW doc \in Doc, NEW f \in Fields, NEW id \in Ids,
           hasField(doc, f), ~Throws(doc[f])
    PROVE  Entry(doc, f, id) \in Keys \X Ids
<1>1. doc[f] \in Values
  BY DEF Doc, hasField, Throws, Contents
<1> QED
  BY <1>1 DEF Entry, Keys

LEMMA IdleType == Idle \in Call
BY EmptyDocType DEF Idle, Call

LEMMA IdleWellFormed == WellFormed(Idle)
BY IdleType DEF WellFormed, Idle

-------------------------------------------------------------------------------
(***************************************************************************)
(* Type correctness.                                                       *)
(***************************************************************************)

LEMMA InitType == Init => TypeOK
BY IdleWellFormed, FaultsAssumption, NoneAssumption DEF Init, TypeOK, WellFormed

\* A step that changes one call into a well-formed call keeps all calls so.
LEMMA CallStep ==
    ASSUME TypeOK, NEW t \in Threads, NEW c, WellFormed(c),
           call' = [call EXCEPT ![t] = c]
    PROVE  /\ call' \in [Threads -> Call]
           /\ \A u \in Threads : WellFormed(call'[u])
           /\ call'[t] = c
           /\ \A u \in Threads : u # t => call'[u] = call[u]
BY DEF TypeOK, WellFormed

\* A returning call keeps types and gives back the mutex.
LEMMA ReturnStep ==
    ASSUME TypeOK, NEW t \in Threads, Return(t)
    PROVE  /\ call' \in [Threads -> Call]
           /\ \A u \in Threads : WellFormed(call'[u])
           /\ mutex' \in Threads \cup {None}
           /\ mutex' # t
           /\ \A u \in Threads : mutex' = u => mutex = u /\ call'[u] = call[u]
<1>1. /\ call' \in [Threads -> Call]
      /\ \A u \in Threads : WellFormed(call'[u])
      /\ \A u \in Threads : u # t => call'[u] = call[u]
  BY CallStep, IdleWellFormed DEF Return
<1> QED
  BY <1>1, NoneAssumption DEF Return, TypeOK

LEMMA PutRejectedType ==
    ASSUME TypeOK, NEW t \in Threads, PutRejected(t)
    PROVE  TypeOK'
BY ReturnStep, NoneAssumption DEF PutRejected, TypeOK

LEMMA UpdateNotFoundType ==
    ASSUME TypeOK, NEW t \in Threads, UpdateNotFound(t)
    PROVE  TypeOK'
BY ReturnStep, NoneAssumption DEF UpdateNotFound, TypeOK

LEMMA RemoveRejectedType ==
    ASSUME TypeOK, NEW t \in Threads, RemoveRejected(t)
    PROVE  TypeOK'
BY ReturnStep, NoneAssumption DEF RemoveRejected, TypeOK

LEMMA FillRejectedType ==
    ASSUME TypeOK, NEW t \in Threads, FillRejected(t)
    PROVE  TypeOK'
BY ReturnStep, NoneAssumption DEF FillRejected, TypeOK

LEMMA PutDocType ==
    ASSUME TypeOK, NEW t \in Threads, PutDoc(t)
    PROVE  TypeOK'
<1>1. call[t].id \in Ids /\ call[t].doc \in Doc
  BY DEF PutDoc, TypeOK, WellFormed, Call
<1> QED
  BY <1>1, ReturnStep, NoneAssumption DEF PutDoc, TypeOK

LEMMA RemoveDocType ==
    ASSUME TypeOK, NEW t \in Threads, RemoveDoc(t)
    PROVE  TypeOK'
<1>1. call[t].id \in Ids
  BY DEF RemoveDoc, TypeOK, WellFormed
<1> QED
  BY <1>1, ReturnStep, NoneAssumption DEF RemoveDoc, TypeOK

LEMMA FillDoneType ==
    ASSUME TypeOK, NEW t \in Threads, FillDone(t)
    PROVE  TypeOK'
<1>1. call[t].field \in Fields
  BY DEF FillDone, TypeOK, WellFormed
<1> QED
  BY <1>1, ReturnStep, NoneAssumption DEF FillDone, TypeOK

LEMMA CreateNamesType ==
    ASSUME TypeOK, NEW t \in Threads, CreateNames(t)
    PROVE  TypeOK'
<1> DEFINE c == [call[t] EXCEPT !.pc = "put", !.todo = IndexesOf(call[t].doc)]
<1>1. WellFormed(c)
  <2>0. call[t] \in Call /\ IndexesOf(call[t].doc) \in SUBSET Fields
    BY DEF TypeOK, IndexesOf
  <2>1. c \in Call
    BY <2>0 DEF Call
  <2>2. c.id \in Ids /\ c.pc = "put" /\ c.doc = call[t].doc /\ c.todo = IndexesOf(c.doc)
    BY DEF CreateNames, TypeOK, WellFormed, Call
  <2> QED
    BY <2>1, <2>2 DEF WellFormed, IndexesOf
<1>2. call' = [call EXCEPT ![t] = c]
  BY DEF CreateNames, TypeOK
<1>3. c.pc = "put" /\ c.update = call[t].update
  BY DEF TypeOK, Call
<1> QED
  BY <1>1, <1>2, <1>3, CallStep, NoneAssumption DEF CreateNames, TypeOK

LEMMA DeleteNamesType ==
    ASSUME TypeOK, NEW t \in Threads, DeleteNames(t)
    PROVE  TypeOK'
<1> DEFINE c == [call[t] EXCEPT !.pc = "remove", !.todo = IndexesOf(call[t].doc)]
<1>1. WellFormed(c)
  <2>0. call[t] \in Call /\ IndexesOf(call[t].doc) \in SUBSET Fields
    BY DEF TypeOK, IndexesOf
  <2>1. c \in Call
    BY <2>0 DEF Call
  <2>2. c.id \in Ids /\ c.pc = "remove" /\ c.doc = call[t].doc /\ c.todo = IndexesOf(c.doc)
    BY DEF DeleteNames, TypeOK, WellFormed, Call
  <2> QED
    BY <2>1, <2>2 DEF WellFormed, IndexesOf
<1>2. call' = [call EXCEPT ![t] = c]
  BY DEF DeleteNames, TypeOK
<1>3. c.pc = "remove" /\ c.update = call[t].update
  BY DEF TypeOK, Call
<1> QED
  BY <1>1, <1>2, <1>3, CallStep, NoneAssumption DEF DeleteNames, TypeOK

LEMMA UpdateReadType ==
    ASSUME TypeOK, NEW t \in Threads, UpdateRead(t)
    PROVE  TypeOK'
<1> DEFINE d == applyUpdate(Stored(call[t].id), call[t].update)
           c == [call[t] EXCEPT !.pc = "create", !.doc = d]
<1>1. d \in Doc
  BY ApplyUpdateType, EmptyDocType, CallsAssumption
     DEF UpdateRead, TypeOK, WellFormed, Stored
<1>2. WellFormed(c)
  <2>0. call[t] \in Call
    BY DEF TypeOK
  <2>1. c \in Call
    BY <1>1, <2>0 DEF Call
  <2>2. c.id \in Ids /\ c.pc = "create" /\ c.todo = {}
    BY DEF UpdateRead, TypeOK, WellFormed, Call
  <2> QED
    BY <2>1, <2>2 DEF WellFormed
<1>3. call' = [call EXCEPT ![t] = c]
  BY DEF UpdateRead, TypeOK
<1>4. c.pc = "create" /\ c.update \in Updates
  BY DEF UpdateRead, TypeOK, WellFormed, Call
<1> QED
  BY <1>2, <1>3, <1>4, CallStep DEF UpdateRead, TypeOK

LEMMA PutIndexType ==
    ASSUME TypeOK, NEW t \in Threads, PutIndex(t)
    PROVE  TypeOK'
<1>1. PICK f \in Fields :
        /\ IsMin(f, call[t].todo)
        /\ ~Rejects(call[t].doc, f)
        /\ index' = [index EXCEPT ![f] = @ \cup {Entry(call[t].doc, f, call[t].id)}]
        /\ call' = [call EXCEPT ![t].todo = @ \ {f}]
  BY DEF PutIndex
<1> DEFINE c == [call[t] EXCEPT !.todo = @ \ {f}]
<1>2. WellFormed(c)
  BY DEF TypeOK, WellFormed, Call
<1>3. call' = [call EXCEPT ![t] = c]
  BY <1>1 DEF TypeOK
<1>4. c.pc = call[t].pc /\ c.update = call[t].update
  BY DEF TypeOK, Call
<1>5. Entry(call[t].doc, f, call[t].id) \in Keys \X Ids
  BY <1>1, EntryType DEF PutIndex, TypeOK, WellFormed, Call, IsMin, Rejects
<1>6. /\ index' \in [Fields -> SUBSET (Keys \X Ids)]
      /\ \A g \in Fields \ cfs : index'[g] = {}
  BY <1>1, <1>5 DEF TypeOK, Rejects
<1> QED
  BY <1>2, <1>3, <1>4, <1>6, CallStep, NoneAssumption DEF PutIndex, TypeOK

LEMMA RemoveIndexType ==
    ASSUME TypeOK, NEW t \in Threads, RemoveIndex(t)
    PROVE  TypeOK'
<1>1. PICK f \in Fields :
        /\ IsMin(f, call[t].todo)
        /\ ~Rejects(call[t].doc, f)
        /\ index' = [index EXCEPT ![f] = @ \ {Entry(call[t].doc, f, call[t].id)}]
        /\ call' = [call EXCEPT ![t].todo = @ \ {f}]
  BY DEF RemoveIndex
<1> DEFINE c == [call[t] EXCEPT !.todo = @ \ {f}]
<1>2. WellFormed(c)
  BY DEF TypeOK, WellFormed, Call
<1>3. call' = [call EXCEPT ![t] = c]
  BY <1>1 DEF TypeOK
<1>4. c.pc = call[t].pc /\ c.update = call[t].update
  BY DEF TypeOK, Call
<1>5. Entry(call[t].doc, f, call[t].id) \in Keys \X Ids
  BY <1>1, EntryType DEF RemoveIndex, TypeOK, WellFormed, Call, IsMin, Rejects
<1>6. /\ index' \in [Fields -> SUBSET (Keys \X Ids)]
      /\ \A g \in Fields \ cfs : index'[g] = {}
  BY <1>1, <1>5 DEF TypeOK, Rejects
<1> QED
  BY <1>2, <1>3, <1>4, <1>6, CallStep, NoneAssumption DEF RemoveIndex, TypeOK

LEMMA OpenCursorType ==
    ASSUME TypeOK, NEW t \in Threads, OpenCursor(t)
    PROVE  TypeOK'
<1> DEFINE c == [call[t] EXCEPT !.pc = "fill", !.rows = docs]
<1>1. WellFormed(c)
  <2>0. call[t] \in Call /\ docs \in [Ids -> Doc \cup {None}]
    BY DEF TypeOK
  <2>1. c \in Call
    BY <2>0 DEF Call
  <2>2. call[t].field \in Fields /\ call[t].todo = {}
    BY <2>0 DEF OpenCursor, TypeOK, WellFormed
  <2>3. c.field = call[t].field /\ c.pc = "fill" /\ c.todo = call[t].todo
    BY <2>0 DEF Call
  <2> QED
    BY <2>1, <2>2, <2>3 DEF WellFormed
<1>2. call' = [call EXCEPT ![t] = c]
  BY DEF OpenCursor, TypeOK
<1> QED
  BY <1>1, <1>2, CallStep, NoneAssumption DEF OpenCursor, TypeOK

LEMMA FillRowType ==
    ASSUME TypeOK, NEW t \in Threads, FillRow(t)
    PROVE  TypeOK'
<1>1. PICK i \in Ids :
        /\ IsMin(i, RowsLeft(t))
        /\ hasField(call[t].rows[i], call[t].field) => ~Rejects(call[t].rows[i], call[t].field)
        /\ index' = IF hasField(call[t].rows[i], call[t].field)
                    THEN [index EXCEPT ![call[t].field] =
                            @ \cup {Entry(call[t].rows[i], call[t].field, i)}]
                    ELSE index
        /\ call' = [call EXCEPT ![t].rows[i] = None]
  BY DEF FillRow
<1> DEFINE row == call[t].rows[i]
           f   == call[t].field
           c   == [call[t] EXCEPT !.rows[i] = None]
<1>2. f \in Fields /\ row \in Doc
  BY <1>1 DEF FillRow, TypeOK, WellFormed, Call, IsMin, RowsLeft
<1>3. WellFormed(c)
  <2>0. call[t] \in Call /\ docs \in [Ids -> Doc \cup {None}]
    BY DEF TypeOK
  <2>1. c \in Call
    BY <2>0 DEF Call
  <2>2. c.field \in Fields /\ c.pc = "fill" /\ c.todo = {}
    BY DEF FillRow, TypeOK, WellFormed, Call
  <2> QED
    BY <2>1, <2>2 DEF WellFormed
<1>4. call' = [call EXCEPT ![t] = c]
  BY <1>1 DEF TypeOK
<1>5. hasField(row, f) => Entry(row, f, i) \in Keys \X Ids
  BY <1>1, <1>2, EntryType DEF Rejects
<1>6. /\ index' \in [Fields -> SUBSET (Keys \X Ids)]
      /\ \A g \in Fields \ cfs : index'[g] = {}
  BY <1>1, <1>2, <1>5 DEF TypeOK, Rejects
<1> QED
  BY <1>3, <1>4, <1>6, CallStep, NoneAssumption DEF FillRow, TypeOK

LEMMA CallCreateType ==
    ASSUME TypeOK, NEW t \in Threads, CallCreate(t)
    PROVE  TypeOK'
<1>1. PICK id \in Ids, doc \in Inputs :
        call' = [call EXCEPT ![t] = [Idle EXCEPT !.pc = "create", !.id = id, !.doc = doc]]
  BY DEF CallCreate
<1> DEFINE c == [Idle EXCEPT !.pc = "create", !.id = id, !.doc = doc]
<1>2. WellFormed(c)
  BY <1>1, IdleType, CallsAssumption DEF TypeOK, WellFormed, Call, Idle
<1> QED
  BY <1>1, <1>2, CallStep, NoneAssumption DEF CallCreate, TypeOK

LEMMA CallUpdateType ==
    ASSUME TypeOK, NEW t \in Threads, CallUpdate(t)
    PROVE  TypeOK'
<1>1. PICK id \in Ids, u \in Updates, upsert \in BOOLEAN :
        call' = [call EXCEPT ![t] = [Idle EXCEPT !.pc = "lock", !.id = id,
                                                 !.update = u, !.upsert = upsert]]
  BY DEF CallUpdate
<1> DEFINE c == [Idle EXCEPT !.pc = "lock", !.id = id,
                                                 !.update = u, !.upsert = upsert]
<1>2. WellFormed(c)
  BY <1>1, IdleType, CallsAssumption DEF TypeOK, WellFormed, Call, Idle
<1> QED
  BY <1>1, <1>2, CallStep, NoneAssumption DEF CallUpdate, TypeOK

LEMMA CallDeleteType ==
    ASSUME TypeOK, NEW t \in Threads, CallDelete(t)
    PROVE  TypeOK'
<1>1. PICK id \in Ids :
        docs[id] # None /\ call' = [call EXCEPT ![t] = [Idle EXCEPT !.pc = "delete", !.id = id, !.doc = docs[id]]]
  BY DEF CallDelete
<1> DEFINE c == [Idle EXCEPT !.pc = "delete", !.id = id, !.doc = docs[id]]
<1>2. WellFormed(c)
  BY <1>1, IdleType, CallsAssumption DEF TypeOK, WellFormed, Call, Idle
<1> QED
  BY <1>1, <1>2, CallStep, NoneAssumption DEF CallDelete, TypeOK

LEMMA CallCreateIndexType ==
    ASSUME TypeOK, NEW t \in Threads, CallCreateIndex(t)
    PROVE  TypeOK'
<1>1. PICK f \in Fields :
        cfs' = cfs \cup {f} /\ call' = [call EXCEPT ![t] = [Idle EXCEPT !.pc = "cursor", !.field = f]]
  BY DEF CallCreateIndex
<1> DEFINE c == [Idle EXCEPT !.pc = "cursor", !.field = f]
<1>2. WellFormed(c)
  BY <1>1, IdleType, CallsAssumption DEF TypeOK, WellFormed, Call, Idle
<1> QED
  BY <1>1, <1>2, CallStep, NoneAssumption DEF CallCreateIndex, TypeOK

LEMMA DeleteIndexType ==
    ASSUME TypeOK, NEW t \in Threads, DeleteIndex(t)
    PROVE  TypeOK'
BY NoneAssumption DEF DeleteIndex, TypeOK

LEMMA CreateIndexFailsType ==
    ASSUME TypeOK, NEW t \in Threads, CreateIndexFails(t)
    PROVE  TypeOK'
<1>1. PICK f \in Fields :
        call' = [call EXCEPT ![t] = [Idle EXCEPT !.pc = "cursor", !.field = f]]
  BY DEF CreateIndexFails
<1>2. WellFormed([Idle EXCEPT !.pc = "cursor", !.field = f])
  BY <1>1, IdleType DEF WellFormed, Call, Idle
<1>3. faults' \in 0 .. MaxFaults
  BY FaultsAssumption DEF CreateIndexFails, Fault, TypeOK
<1>4. UNCHANGED <<docs, cfs, index, mutex, ready>> /\ call[t].pc = "idle"
  BY DEF CreateIndexFails
<1> QED
  BY <1>1, <1>2, <1>3, <1>4, CallStep, NoneAssumption DEF TypeOK

LEMMA IOFailsType ==
    ASSUME TypeOK, NEW t \in Threads, IOFails(t)
    PROVE  TypeOK'
BY ReturnStep, FaultsAssumption, NoneAssumption DEF IOFails, Fault, TypeOK

LEMMA ScanFailsType ==
    ASSUME TypeOK, NEW t \in Threads, ScanFails(t)
    PROVE  TypeOK'
<1>1. call[t].field \in Fields
  BY DEF ScanFails, TypeOK, WellFormed
<1> QED
  BY <1>1, ReturnStep, FaultsAssumption, NoneAssumption DEF ScanFails, Fault, TypeOK

LEMMA CrashType ==
    ASSUME TypeOK, Crash
    PROVE  TypeOK'
BY IdleWellFormed, FaultsAssumption DEF Crash, Fault, TypeOK, WellFormed

LEMMA NextType == TypeOK /\ [Next]_vars => TypeOK'
<1> SUFFICES ASSUME TypeOK, [Next]_vars
             PROVE  TypeOK'
  OBVIOUS
<1>1. ASSUME NEW t \in Threads, Begin(t)
      PROVE  TypeOK'
  BY <1>1, CallCreateType, CallUpdateType, CallDeleteType, CallCreateIndexType,
     DeleteIndexType DEF Begin
<1>2. ASSUME NEW t \in Threads, Continue(t)
      PROVE  TypeOK'
  BY <1>2, CreateNamesType, PutIndexType, PutRejectedType, PutDocType, UpdateReadType,
     UpdateNotFoundType, DeleteNamesType, RemoveIndexType, RemoveRejectedType,
     RemoveDocType, OpenCursorType, FillRowType, FillRejectedType, FillDoneType
     DEF Continue
<1>3. ASSUME NEW t \in Threads, Fails(t)
      PROVE  TypeOK'
  BY <1>3, IOFailsType, ScanFailsType, CreateIndexFailsType DEF Fails
<1>4. CASE UNCHANGED vars
  BY <1>4 DEF vars, TypeOK
<1> QED
  BY <1>1, <1>2, <1>3, <1>4, CrashType DEF Next

(***************************************************************************)
(* However many threads call whatever operations, and whatever fails: a    *)
(* call always has the arguments its next step uses, only an update past   *)
(* its read holds collection_mutex_, and a dropped index has no entries.   *)
(***************************************************************************)
THEOREM TypeCorrect == Spec => []TypeOK
BY InitType, NextType, PTL DEF Spec

-------------------------------------------------------------------------------
(***************************************************************************)
(* IndexComplete among concurrent writers.                                 *)
(*                                                                         *)
(* IndexComplete is not inductive: a createDocument stores its document in *)
(* the last step, when nothing in the state it is stored into speaks of    *)
(* that document.  Entered carries the fact there: a call that is past an  *)
(* index has its entry in it, and no other writer takes entries out.       *)
(***************************************************************************)
WritersOnly ==
    \A t \in Threads : OpsOf[t] \subseteq {"insert", "overwrite", "update", "deleteIndex"}

Indexed(doc, f, id) ==
    hasField(doc, f) => ~Throws(doc[f]) /\ Entry(doc, f, id) \in index[f]

Entered(c) ==
    c.pc = "put" => \A f \in ready \ c.todo : Indexed(c.doc, f, c.id)

StoredIndexed ==
    \A f \in ready, id \in Ids : docs[id] # None => Indexed(docs[id], f, id)

WritersInv ==
    /\ TypeOK
    /\ ready \subseteq cfs
    /\ \A t \in Threads : call[t].pc \in {"idle", "lock", "create", "put"}
    /\ \A t \in Threads : Entered(call[t])
    /\ StoredIndexed

LEMMA WritersInit == Init => WritersInv
BY InitType DEF Init, WritersInv, Entered, StoredIndexed, Idle

\* A call that is not writing has nothing to have entered; a step that leaves
\* the store alone and takes one thread to such a call keeps the invariant.
LEMMA WritersQuiet ==
    ASSUME WritersInv, TypeOK', NEW t \in Threads, NEW c,
           call' = [call EXCEPT ![t] = c],
           c.pc \in {"idle", "lock", "create"},
           UNCHANGED <<docs, cfs, index, ready>>
    PROVE  WritersInv'
<1>1. call'[t] = c /\ \A u \in Threads \ {t} : call'[u] = call[u]
  BY DEF WritersInv, TypeOK
<1>2. ASSUME NEW u \in Threads
      PROVE  call'[u].pc \in {"idle", "lock", "create", "put"} /\ Entered(call[u])'
  <2>1. CASE u = t
    BY <1>1, <2>1 DEF Entered
  <2>2. CASE u # t
    BY <1>1, <2>2 DEF WritersInv, Entered, Indexed
  <2> QED
    BY <2>1, <2>2
<1>3. StoredIndexed'
  BY DEF WritersInv, StoredIndexed, Indexed
<1> QED
  BY <1>2, <1>3 DEF WritersInv

LEMMA WritersCreateNames ==
    ASSUME WritersInv, TypeOK', NEW t \in Threads, CreateNames(t)
    PROVE  WritersInv'
<1>1. /\ call'[t].pc = "put"
      /\ call'[t].doc = call[t].doc
      /\ call'[t].todo = IndexesOf(call[t].doc)
      /\ \A u \in Threads \ {t} : call'[u] = call[u]
  BY DEF CreateNames, WritersInv, TypeOK, Call
<1>2. UNCHANGED <<docs, cfs, index, ready>>
  BY DEF CreateNames
<1>3. Entered(call[t])'
  BY <1>1, <1>2 DEF WritersInv, Entered, Indexed, IndexesOf
<1>4. \A u \in Threads \ {t} : Entered(call[u])'
  BY <1>1, <1>2 DEF WritersInv, Entered, Indexed
<1>5. StoredIndexed'
  BY <1>2 DEF WritersInv, StoredIndexed, Indexed
<1> QED
  BY <1>1, <1>2, <1>3, <1>4, <1>5 DEF WritersInv

LEMMA WritersPutIndex ==
    ASSUME WritersInv, TypeOK', NEW t \in Threads, PutIndex(t)
    PROVE  WritersInv'
<1>1. PICK f \in Fields :
        /\ IsMin(f, call[t].todo)
        /\ ~Rejects(call[t].doc, f)
        /\ index' = [index EXCEPT ![f] = @ \cup {Entry(call[t].doc, f, call[t].id)}]
        /\ call' = [call EXCEPT ![t].todo = @ \ {f}]
  BY DEF PutIndex
<1>2. /\ call'[t].pc = call[t].pc
      /\ call'[t].id = call[t].id
      /\ call'[t].doc = call[t].doc
      /\ call'[t].todo = call[t].todo \ {f}
      /\ \A u \in Threads \ {t} : call'[u] = call[u]
  BY <1>1 DEF WritersInv, TypeOK, Call
<1>3. UNCHANGED <<docs, cfs, ready>> /\ call[t].pc = "put"
  BY DEF PutIndex
<1>4. \A g \in Fields : index[g] \subseteq index'[g]
  BY <1>1 DEF WritersInv, TypeOK
<1>5. Indexed(call[t].doc, f, call[t].id)'
  BY <1>1, <1>2 DEF Indexed, Rejects, WritersInv, TypeOK
<1>6. Entered(call[t])'
  <2> SUFFICES ASSUME NEW g \in ready \ call'[t].todo
               PROVE  Indexed(call[t].doc, g, call[t].id)'
    BY <1>3 DEF Entered
  <2>1. CASE g = f
    BY <1>5, <2>1
  <2>2. CASE g # f
    <3>1. Indexed(call[t].doc, g, call[t].id)
      BY <1>2, <1>3, <2>2 DEF WritersInv, Entered
    <3> QED
      BY <1>2, <1>4, <3>1 DEF Indexed, WritersInv, TypeOK
  <2> QED
    BY <2>1, <2>2
<1>7. \A u \in Threads \ {t} : Entered(call[u])'
  BY <1>2, <1>3, <1>4 DEF WritersInv, TypeOK, Entered, Indexed
<1>8. StoredIndexed'
  BY <1>3, <1>4 DEF WritersInv, TypeOK, StoredIndexed, Indexed
<1> QED
  BY <1>2, <1>3, <1>6, <1>7, <1>8 DEF WritersInv

LEMMA WritersPutDoc ==
    ASSUME WritersInv, TypeOK', NEW t \in Threads, PutDoc(t)
    PROVE  WritersInv'
<1>1. /\ call'[t] = Idle
      /\ \A u \in Threads \ {t} : call'[u] = call[u]
      /\ UNCHANGED <<cfs, index, ready>>
      /\ docs' = [docs EXCEPT ![call[t].id] = call[t].doc]
  BY DEF PutDoc, Return, WritersInv, TypeOK
<1>2. \A f \in ready : Indexed(call[t].doc, f, call[t].id)
  BY DEF PutDoc, WritersInv, Entered
<1>3. StoredIndexed'
  BY <1>1, <1>2 DEF WritersInv, TypeOK, StoredIndexed, Indexed
<1>4. \A u \in Threads \ {t} : Entered(call[u])'
  BY <1>1 DEF WritersInv, Entered, Indexed
<1>5. Entered(call[t])' /\ call'[t].pc = "idle"
  BY <1>1 DEF Entered, Idle
<1> QED
  BY <1>1, <1>3, <1>4, <1>5 DEF WritersInv

LEMMA WritersDeleteIndex ==
    ASSUME WritersInv, TypeOK', NEW t \in Threads, DeleteIndex(t)
    PROVE  WritersInv'
<1>1. PICK f \in cfs : /\ cfs' = cfs \ {f}
                       /\ index' = [index EXCEPT ![f] = {}]
                       /\ ready' = ready \ {f}
  BY DEF DeleteIndex
<1>2. UNCHANGED <<docs, call>>
  BY DEF DeleteIndex
<1>3. \A g \in ready' : g \in ready /\ index'[g] = index[g]
  BY <1>1 DEF WritersInv, TypeOK
<1>4. \A u \in Threads : Entered(call[u])'
  BY <1>2, <1>3 DEF WritersInv, Entered, Indexed
<1>5. StoredIndexed'
  BY <1>2, <1>3 DEF WritersInv, StoredIndexed, Indexed
<1> QED
  BY <1>1, <1>2, <1>4, <1>5 DEF WritersInv

LEMMA WritersCrash ==
    ASSUME WritersInv, TypeOK', Crash
    PROVE  WritersInv'
<1>1. \A u \in Threads : call'[u].pc = "idle"
  BY DEF Crash, Idle
<1> QED
  BY <1>1 DEF Crash, WritersInv, Entered, StoredIndexed, Indexed

LEMMA WritersNext ==
    ASSUME WritersOnly, WritersInv, [Next]_vars
    PROVE  WritersInv'
<1>1. TypeOK /\ TypeOK'
  BY NextType DEF WritersInv
<1>2. ASSUME NEW t \in Threads, Begin(t)
      PROVE  WritersInv'
  <2>1. CASE CallCreate(t)
    <3>1. PICK id \in Ids, doc \in Inputs :
            call' = [call EXCEPT ![t] = [Idle EXCEPT !.pc = "create", !.id = id, !.doc = doc]]
      BY <2>1 DEF CallCreate
    <3>2. [Idle EXCEPT !.pc = "create", !.id = id, !.doc = doc].pc = "create"
      BY DEF Idle
    <3> QED
      BY <1>1, <2>1, <3>1, <3>2, WritersQuiet DEF CallCreate
  <2>2. CASE CallUpdate(t)
    <3>1. PICK id \in Ids, u \in Updates, upsert \in BOOLEAN :
            call' = [call EXCEPT ![t] = [Idle EXCEPT !.pc = "lock", !.id = id,
                                                     !.update = u, !.upsert = upsert]]
      BY <2>2 DEF CallUpdate
    <3>2. [Idle EXCEPT !.pc = "lock", !.id = id, !.update = u, !.upsert = upsert].pc = "lock"
      BY DEF Idle
    <3> QED
      BY <1>1, <2>2, <3>1, <3>2, WritersQuiet DEF CallUpdate
  <2>3. ~CallDelete(t) /\ ~CallCreateIndex(t)
    BY DEF WritersOnly, CallDelete, CallCreateIndex
  <2>4. CASE DeleteIndex(t)
    BY <1>1, <2>4, WritersDeleteIndex
  <2> QED
    BY <1>2, <2>1, <2>2, <2>3, <2>4 DEF Begin
<1>3. ASSUME NEW t \in Threads, Return(t), UNCHANGED <<docs, cfs, index, ready>>
      PROVE  WritersInv'
  <2>1. Idle.pc = "idle"
    BY DEF Idle
  <2> QED
    BY <1>1, <1>3, <2>1, WritersQuiet DEF Return
<1>4. ASSUME NEW t \in Threads, Continue(t)
      PROVE  WritersInv'
  <2>1. CASE UpdateRead(t)
    <3> DEFINE c == [call[t] EXCEPT !.pc = "create",
                       !.doc = applyUpdate(Stored(call[t].id), call[t].update)]
    <3>1. call' = [call EXCEPT ![t] = c]
      BY <1>1, <2>1 DEF UpdateRead, TypeOK
    <3>2. call[t] \in Call
      BY <1>1 DEF TypeOK
    <3>3. c.pc = "create"
      BY <3>2 DEF Call
    <3> QED
      BY <1>1, <2>1, <3>1, <3>3, WritersQuiet DEF UpdateRead
  <2>2. CASE PutRejected(t) \/ UpdateNotFound(t)
    BY <1>3, <2>2 DEF PutRejected, UpdateNotFound
  <2>3. call[t].pc \in {"idle", "lock", "create", "put"}
    BY DEF WritersInv
  <2> QED
    BY <1>1, <1>4, <2>1, <2>2, <2>3, WritersCreateNames, WritersPutIndex, WritersPutDoc
       DEF Continue, DeleteNames, RemoveIndex, RemoveRejected, RemoveDoc, OpenCursor,
           FillRow, FillRejected, FillDone
<1>5. ASSUME NEW t \in Threads, Fails(t)
      PROVE  WritersInv'
  <2>1. ~ScanFails(t)
    BY DEF WritersInv, ScanFails
  <2>2. ~CreateIndexFails(t)
    BY DEF WritersOnly, CreateIndexFails
  <2> QED
    BY <1>3, <1>5, <2>1, <2>2 DEF Fails, IOFails
<1>6. CASE UNCHANGED vars
  BY <1>1, <1>6 DEF vars, WritersInv, Entered, StoredIndexed, Indexed
<1> QED
  BY <1>1, <1>2, <1>4, <1>5, <1>6, WritersCrash DEF Next

(***************************************************************************)
(* Threads that insert, overwrite, update and drop indexes, in any number  *)
(* and any interleaving, with write errors, exceptions and crashes at any  *)
(* point, never leave a stored document that an index cannot find.         *)
(***************************************************************************)
THEOREM WritersComplete ==
    ASSUME WritersOnly
    PROVE  Spec => []IndexComplete
<1>1. WritersInv /\ [Next]_vars => WritersInv'
  BY WritersNext
<1>2. WritersInv => IndexComplete
  BY DEF WritersInv, StoredIndexed, Indexed, IndexComplete
<1> QED
  BY <1>1, <1>2, WritersInit, PTL DEF Spec

-------------------------------------------------------------------------------
(***************************************************************************)
(* Updates beside other calls.                                             *)
(*                                                                         *)
(* The document an update has in hand is the update of what is stored, for *)
(* as long as it holds collection_mutex_: every other thread that could    *)
(* store a document is waiting for that mutex.                             *)
(***************************************************************************)

\* No thread creates or deletes documents beside another one that updates them.
SoleUpdaters ==
    \A t, u \in Threads :
        t # u /\ "update" \in OpsOf[t] => OpsOf[u] \cap {"insert", "overwrite", "delete"} = {}

\* A call is one its thread may make, and an update past its read has in hand
\* what it will store.
InHand(t) ==
    LET c == call[t]
    IN  /\ c.update # None => c.pc \in {"lock", "create", "put"} /\ "update" \in OpsOf[t]
        /\ c.pc = "lock" => c.update # None
        /\ c.pc \in {"create", "put", "delete", "remove"} /\ c.update = None
              => OpsOf[t] \cap {"insert", "overwrite", "delete"} # {}
        /\ c.pc \in {"create", "put"} /\ c.update # None
              => /\ mutex = t
                 /\ docs[c.id] # None \/ c.upsert
                 /\ c.doc = applyUpdate(Stored(c.id), c.update)

UpdatersInv ==
    /\ TypeOK
    /\ \A t \in Threads : InHand(t)

LEMMA IdleInHand == Idle.pc = "idle" /\ Idle.update = None /\ Idle.id = None
BY DEF Idle

LEMMA UpdatersInit == Init => UpdatersInv
<1> SUFFICES ASSUME Init
             PROVE  UpdatersInv
  OBVIOUS
<1>1. TypeOK
  BY InitType
<1>2. \A t \in Threads : call[t].pc = "idle" /\ call[t].update = None
  BY IdleInHand DEF Init
<1> QED
  BY <1>1, <1>2 DEF UpdatersInv, InHand

\* A step of one thread that leaves the documents alone, keeps its request and
\* takes no document in hand.
LEMMA UpdatersQuiet ==
    ASSUME UpdatersInv, TypeOK', NEW t \in Threads,
           \A u \in Threads \ {t} : call'[u] = call[u],
           InHand(t)',
           docs' = docs,
           mutex' = mutex \/ mutex = t
    PROVE  UpdatersInv'
<1>1. \A u \in Threads \ {t} : InHand(u)'
  BY DEF UpdatersInv, InHand, Stored
<1> QED
  BY <1>1 DEF UpdatersInv

\* A call that begins.
LEMMA UpdatersBegin ==
    ASSUME UpdatersInv, TypeOK', NEW t \in Threads, NEW c,
           call' = [call EXCEPT ![t] = c], UNCHANGED <<docs, mutex>>,
           c.update = None \/ (c.pc = "lock" /\ "update" \in OpsOf[t]),
           c.pc = "lock" => c.update # None,
           c.pc \in {"create", "put", "delete", "remove"}
              => OpsOf[t] \cap {"insert", "overwrite", "delete"} # {}
    PROVE  UpdatersInv'
<1>1. call'[t] = c /\ \A u \in Threads \ {t} : call'[u] = call[u]
  BY DEF UpdatersInv, TypeOK
<1>2. InHand(t)'
  BY <1>1 DEF InHand
<1> QED
  BY <1>1, <1>2, UpdatersQuiet

\* A step that goes on with the same request and the same document in hand.
LEMMA UpdatersKeep ==
    ASSUME UpdatersInv, TypeOK', NEW t \in Threads,
           \A u \in Threads \ {t} : call'[u] = call[u],
           \/ call[t].pc \in {"create", "put"} /\ call'[t].pc \in {"create", "put"}
           \/ call[t].pc \in {"delete", "remove"} /\ call'[t].pc \in {"delete", "remove"}
           \/ call[t].pc \in {"cursor", "fill"} /\ call'[t].pc \in {"cursor", "fill"},
           call'[t].id = call[t].id, call'[t].doc = call[t].doc,
           call'[t].update = call[t].update, call'[t].upsert = call[t].upsert,
           UNCHANGED <<docs, mutex>>
    PROVE  UpdatersInv'
<1>1. InHand(t)'
  BY DEF UpdatersInv, InHand, Stored
<1> QED
  BY <1>1, UpdatersQuiet

LEMMA UpdatersReturn ==
    ASSUME UpdatersInv, TypeOK', NEW t \in Threads, Return(t), docs' = docs
    PROVE  UpdatersInv'
<1>1. call'[t] = Idle /\ \A u \in Threads \ {t} : call'[u] = call[u]
  BY DEF Return, UpdatersInv, TypeOK
<1>2. InHand(t)'
  BY <1>1, IdleInHand DEF InHand
<1>3. mutex' = mutex \/ mutex = t
  BY DEF Return
<1> QED
  BY <1>1, <1>2, <1>3, UpdatersQuiet

\* A call that stores or removes a document ends while no other update has one
\* in hand.
LEMMA UpdatersStore ==
    ASSUME SoleUpdaters, UpdatersInv, TypeOK', NEW t \in Threads, Return(t),
           call[t].pc \in {"put", "remove"}
    PROVE  UpdatersInv'
<1>1. call'[t] = Idle /\ \A u \in Threads \ {t} : call'[u] = call[u]
  BY DEF Return, UpdatersInv, TypeOK
<1>2. InHand(t)'
  BY <1>1, IdleInHand DEF InHand
<1>3. \A u \in Threads \ {t} : ~(call[u].pc \in {"create", "put"} /\ call[u].update # None)
  BY DEF UpdatersInv, InHand, SoleUpdaters
<1>4. \A u \in Threads \ {t} : InHand(u)'
  BY <1>1, <1>3 DEF UpdatersInv, InHand
<1> QED
  BY <1>2, <1>4 DEF UpdatersInv

LEMMA UpdatersRead ==
    ASSUME UpdatersInv, TypeOK', NEW t \in Threads, UpdateRead(t)
    PROVE  UpdatersInv'
<1>0. call[t] \in Call
  BY DEF UpdatersInv, TypeOK
<1>1. /\ call'[t].pc = "create"
      /\ call'[t].id = call[t].id
      /\ call'[t].update = call[t].update
      /\ call'[t].upsert = call[t].upsert
      /\ call'[t].doc = applyUpdate(Stored(call[t].id), call[t].update)
      /\ \A u \in Threads \ {t} : call'[u] = call[u]
  BY <1>0 DEF UpdateRead, UpdatersInv, TypeOK, Call
<1>2. InHand(t)'
  BY <1>1 DEF UpdateRead, UpdatersInv, InHand, Stored
<1>3. \A u \in Threads \ {t} : ~(call[u].pc \in {"create", "put"} /\ call[u].update # None)
  BY NoneAssumption DEF UpdateRead, UpdatersInv, InHand
<1>4. \A u \in Threads \ {t} : InHand(u)'
  BY <1>1, <1>3 DEF UpdatersInv, InHand
<1> QED
  BY <1>2, <1>4 DEF UpdatersInv

\* The steps that change nothing of a call's request, nor of its document.
LEMMA SameRequest ==
    ASSUME TypeOK, NEW t \in Threads,
           CreateNames(t) \/ PutIndex(t) \/ DeleteNames(t) \/ RemoveIndex(t)
              \/ OpenCursor(t) \/ FillRow(t)
    PROVE  /\ \A u \in Threads \ {t} : call'[u] = call[u]
           /\ \/ call[t].pc \in {"create", "put"} /\ call'[t].pc \in {"create", "put"}
              \/ call[t].pc \in {"delete", "remove"} /\ call'[t].pc \in {"delete", "remove"}
              \/ call[t].pc \in {"cursor", "fill"} /\ call'[t].pc \in {"cursor", "fill"}
           /\ call'[t].id = call[t].id /\ call'[t].doc = call[t].doc
           /\ call'[t].update = call[t].update /\ call'[t].upsert = call[t].upsert
           /\ UNCHANGED <<docs, mutex>>
<1>0. call[t] \in Call
  BY DEF TypeOK
<1>1. CASE CreateNames(t)
  <2>1. call'[t] = [call[t] EXCEPT !.pc = "put", !.todo = IndexesOf(call[t].doc)]
    BY <1>1 DEF CreateNames, TypeOK
  <2> QED
    BY <1>0, <1>1, <2>1 DEF CreateNames, TypeOK, Call
<1>2. CASE DeleteNames(t)
  <2>1. call'[t] = [call[t] EXCEPT !.pc = "remove", !.todo = IndexesOf(call[t].doc)]
    BY <1>2 DEF DeleteNames, TypeOK
  <2> QED
    BY <1>0, <1>2, <2>1 DEF DeleteNames, TypeOK, Call
<1>3. CASE PutIndex(t) \/ RemoveIndex(t)
  <2>1. PICK f \in Fields : call' = [call EXCEPT ![t].todo = @ \ {f}]
    BY <1>3 DEF PutIndex, RemoveIndex
  <2>2. call'[t] = [call[t] EXCEPT !.todo = @ \ {f}]
    BY <2>1 DEF TypeOK
  <2> QED
    BY <1>0, <1>3, <2>1, <2>2 DEF PutIndex, RemoveIndex, TypeOK, Call
<1>4. CASE OpenCursor(t)
  <2>1. call'[t] = [call[t] EXCEPT !.pc = "fill", !.rows = docs]
    BY <1>4 DEF OpenCursor, TypeOK
  <2> QED
    BY <1>0, <1>4, <2>1 DEF OpenCursor, TypeOK, Call
<1>5. CASE FillRow(t)
  <2>1. PICK i \in Ids : call' = [call EXCEPT ![t].rows[i] = None]
    BY <1>5 DEF FillRow
  <2>2. call'[t] = [call[t] EXCEPT !.rows[i] = None]
    BY <2>1 DEF TypeOK
  <2> QED
    BY <1>0, <1>5, <2>1, <2>2 DEF FillRow, TypeOK, Call
<1> QED
  BY <1>1, <1>2, <1>3, <1>4, <1>5

\* The steps by which a call returns and leaves the documents alone.
Returns(t) ==
    \/ PutRejected(t) \/ UpdateNotFound(t) \/ RemoveRejected(t)
    \/ FillRejected(t) \/ FillDone(t) \/ IOFails(t) \/ ScanFails(t)

LEMMA ReturnsKeepDocs ==
    ASSUME NEW t \in Threads, Returns(t)
    PROVE  Return(t) /\ docs' = docs
BY DEF Returns, PutRejected, UpdateNotFound, RemoveRejected, FillRejected, FillDone, IOFails,
       ScanFails

LEMMA UpdatersNext ==
    ASSUME SoleUpdaters, UpdatersInv, [Next]_vars
    PROVE  UpdatersInv'
<1>1. TypeOK /\ TypeOK'
  BY NextType DEF UpdatersInv
<1>2. ASSUME NEW t \in Threads, CallCreate(t)
      PROVE  UpdatersInv'
  <2>1. PICK id \in Ids, doc \in Inputs :
          /\ OpsOf[t] \cap {"insert", "overwrite", "delete"} # {}
          /\ call' = [call EXCEPT ![t] = [Idle EXCEPT !.pc = "create", !.id = id, !.doc = doc]]
    BY <1>2 DEF CallCreate
  <2> DEFINE c == [Idle EXCEPT !.pc = "create", !.id = id, !.doc = doc]
  <2>2. c.pc = "create" /\ c.update = None
    BY DEF Idle
  <2>3. UNCHANGED <<docs, mutex>>
    BY <1>2 DEF CallCreate
  <2> HIDE DEF c
  <2> QED
    BY <1>1, <2>1, <2>2, <2>3, UpdatersBegin DEF c
<1>3. ASSUME NEW t \in Threads, CallUpdate(t)
      PROVE  UpdatersInv'
  <2>1. PICK id \in Ids, u \in Updates, upsert \in BOOLEAN :
          call' = [call EXCEPT ![t] = [Idle EXCEPT !.pc = "lock", !.id = id,
                                                   !.update = u, !.upsert = upsert]]
    BY <1>3 DEF CallUpdate
  <2> DEFINE c == [Idle EXCEPT !.pc = "lock", !.id = id, !.update = u, !.upsert = upsert]
  <2>2. c.pc = "lock" /\ c.update # None
    BY NoneAssumption DEF Idle
  <2>3. UNCHANGED <<docs, mutex>> /\ "update" \in OpsOf[t]
    BY <1>3 DEF CallUpdate
  <2> HIDE DEF c
  <2> QED
    BY <1>1, <2>1, <2>2, <2>3, UpdatersBegin DEF c
<1>4. ASSUME NEW t \in Threads, CallDelete(t)
      PROVE  UpdatersInv'
  <2>1. PICK id \in Ids :
          call' = [call EXCEPT ![t] = [Idle EXCEPT !.pc = "delete", !.id = id, !.doc = docs[id]]]
    BY <1>4 DEF CallDelete
  <2> DEFINE c == [Idle EXCEPT !.pc = "delete", !.id = id, !.doc = docs[id]]
  <2>2. c.pc = "delete" /\ c.update = None
    BY DEF Idle
  <2>3. UNCHANGED <<docs, mutex>> /\ "delete" \in OpsOf[t]
    BY <1>4 DEF CallDelete
  <2> HIDE DEF c
  <2> QED
    BY <1>1, <2>1, <2>2, <2>3, UpdatersBegin DEF c
<1>5. ASSUME NEW t \in Threads, CallCreateIndex(t) \/ CreateIndexFails(t)
      PROVE  UpdatersInv'
  <2>1. PICK f \in Fields :
          call' = [call EXCEPT ![t] = [Idle EXCEPT !.pc = "cursor", !.field = f]]
    BY <1>5 DEF CallCreateIndex, CreateIndexFails
  <2> DEFINE c == [Idle EXCEPT !.pc = "cursor", !.field = f]
  <2>2. c.pc = "cursor" /\ c.update = None
    BY DEF Idle
  <2>3. UNCHANGED <<docs, mutex>>
    BY <1>5 DEF CallCreateIndex, CreateIndexFails
  <2> HIDE DEF c
  <2> QED
    BY <1>1, <2>1, <2>2, <2>3, UpdatersBegin DEF c
<1>6. ASSUME NEW t \in Threads, DeleteIndex(t)
      PROVE  UpdatersInv'
  BY <1>1, <1>6 DEF DeleteIndex, UpdatersInv, InHand, Stored
<1>7. ASSUME NEW t \in Threads, Continue(t) \/ Fails(t), ~CreateIndexFails(t)
      PROVE  UpdatersInv'
  <2>1. CASE CreateNames(t) \/ PutIndex(t) \/ DeleteNames(t) \/ RemoveIndex(t)
               \/ OpenCursor(t) \/ FillRow(t)
    BY <1>1, <2>1, SameRequest, UpdatersKeep
  <2>2. CASE Returns(t)
    BY <1>1, <2>2, ReturnsKeepDocs, UpdatersReturn
  <2>3. CASE PutDoc(t) \/ RemoveDoc(t)
    BY <1>1, <2>3, UpdatersStore DEF PutDoc, RemoveDoc
  <2>4. CASE UpdateRead(t)
    BY <1>1, <2>4, UpdatersRead
  <2> QED
    BY <1>7, <2>1, <2>2, <2>3, <2>4 DEF Continue, Fails, Returns
<1>8. CASE Crash
  <2>1. \A u \in Threads : call'[u].pc = "idle" /\ call'[u].update = None
    BY <1>8, IdleInHand DEF Crash
  <2> QED
    BY <1>1, <2>1 DEF UpdatersInv, InHand
<1>9. CASE UNCHANGED vars
  BY <1>1, <1>9 DEF vars, UpdatersInv, InHand, Stored
<1> QED
  BY <1>2, <1>3, <1>4, <1>5, <1>6, <1>7, <1>8, <1>9 DEF Next, Begin, Fails

\* The only step by which an update's call ends without a fault once its
\* entries are written is its PutDoc.
LEMMA StoringStep ==
    ASSUME TypeOK, Next, NEW t \in Threads, StoresUpdate(t)
    PROVE  PutDoc(t)
<1>1. call[t].pc = "put" /\ call[t].todo = {} /\ call'[t].pc = "idle" /\ faults' = faults
  BY DEF StoresUpdate
<1>2. call' # call
  BY <1>1
<1>3. ~Crash /\ \A u \in Threads : ~Fails(u)
  <2>1. ASSUME NEW kind PROVE ~Fault(kind)
    BY <1>1, FaultsAssumption DEF TypeOK, Fault
  <2> QED
    BY <2>1 DEF Crash, Fails, IOFails, ScanFails, CreateIndexFails
<1>4. \A u \in Threads : ~DeleteIndex(u)
  BY <1>2 DEF DeleteIndex
<1>5. PICK u \in Threads : Begin(u) \/ Continue(u)
  BY <1>3 DEF Next
<1>6. \A v \in Threads \ {u} : call'[v] = call[v]
  <2>1. CASE Begin(u)
    BY <1>4, <2>1 DEF Begin, CallCreate, CallUpdate, CallDelete, CallCreateIndex, TypeOK
  <2>2. CASE CreateNames(u) \/ PutIndex(u) \/ DeleteNames(u) \/ RemoveIndex(u)
          \/ UpdateRead(u) \/ OpenCursor(u) \/ FillRow(u)
    BY <2>2 DEF CreateNames, PutIndex, DeleteNames, RemoveIndex, UpdateRead, OpenCursor,
                FillRow, TypeOK
  <2>3. CASE Return(u)
    BY <2>3 DEF Return, TypeOK
  <2> QED
    BY <1>5, <2>1, <2>2, <2>3
       DEF Continue, PutRejected, PutDoc, UpdateNotFound, RemoveRejected, RemoveDoc,
           FillRejected, FillDone
<1>7. u = t
  BY <1>1, <1>6
<1>8. ~PutIndex(t) /\ ~PutRejected(t)
  BY <1>1 DEF PutIndex, PutRejected, IsMin
<1> QED
  BY <1>1, <1>4, <1>5, <1>7, <1>8
     DEF Begin, CallCreate, CallUpdate, CallDelete, CallCreateIndex, Continue, CreateNames,
         UpdateRead, UpdateNotFound, DeleteNames, RemoveIndex, RemoveRejected, RemoveDoc,
         OpenCursor, FillRow, FillRejected, FillDone

(***************************************************************************)
(* As long as no thread creates or deletes documents beside one that       *)
(* updates them, with any number of updating threads and whatever fails,   *)
(* no update is lost: each is applied to the document as it is when the    *)
(* result is stored.                                                       *)
(***************************************************************************)
THEOREM UpdatesNotLost ==
    ASSUME SoleUpdaters
    PROVE  Spec => UpdateAtomic
<1> DEFINE Stores(t) ==
      StoresUpdate(t) =>
        LET id == call[t].id
        IN  /\ docs[id] # None \/ call[t].upsert
            /\ docs' = [docs EXCEPT ![id] = applyUpdate(Stored(id), call[t].update)]
<1>1. UpdatersInv /\ [Next]_vars => UpdatersInv'
  BY UpdatersNext
<1>2. UpdatersInv /\ [Next]_vars => [\A t \in Threads : Stores(t)]_vars
  <2> SUFFICES ASSUME UpdatersInv, Next, NEW t \in Threads, StoresUpdate(t)
               PROVE  /\ docs[call[t].id] # None \/ call[t].upsert
                      /\ docs' = [docs EXCEPT ![call[t].id] =
                                    applyUpdate(Stored(call[t].id), call[t].update)]
    OBVIOUS
  <2>1. PutDoc(t)
    BY StoringStep DEF UpdatersInv
  <2>2. call[t].update # None
    BY NoneAssumption DEF UpdatersInv, TypeOK, StoresUpdate
  <2> QED
    BY <2>1, <2>2 DEF UpdatersInv, InHand, PutDoc
<1> QED
  BY <1>1, <1>2, UpdatersInit, PTL DEF Spec, UpdateAtomic

-------------------------------------------------------------------------------
(***************************************************************************)
(* Collection implements DocumentStore.                                    *)
(***************************************************************************)

Pending == [t \in Threads |-> RequestOf(call[t])]

\* Only the request of the thread that takes the step can change.
LEMMA PendingStep ==
    ASSUME NEW t \in Threads, \A u \in Threads \ {t} : call'[u] = call[u]
    PROVE  Pending' = [Pending EXCEPT ![t] = RequestOf(call[t])']
<1>1. \A u \in Threads \ {t} : RequestOf(call[u])' = RequestOf(call[u])
  BY DEF RequestOf
<1> QED
  BY <1>1 DEF Pending

LEMMA IdleRequest == RequestOf(Idle) = None
BY IdleInHand DEF RequestOf

\* A request is never mistaken for None.
LEMMA RequestType ==
    ASSUME NEW c, WellFormed(c), RequestOf(c) # None,
           c.update # None => c.pc \in {"lock", "create", "put"}
    PROVE  RequestOf(c) \in Store!Requests
<1>1. /\ c.doc \in Doc
      /\ c.update \in Updates \cup {None}
      /\ c.upsert \in BOOLEAN
      /\ c.pc \in {"lock", "create", "put", "delete", "remove"} => c.id \in Ids
  BY DEF WellFormed, Call
<1> QED
  BY <1>1 DEF RequestOf, Store!Requests

\* A call that begins asks for something or concerns no document.
LEMMA StoreBegins ==
    ASSUME UpdatersInv, TypeOK', NEW t \in Threads, UpdatersInv', call[t].pc = "idle",
           \A u \in Threads \ {t} : call'[u] = call[u], docs' = docs
    PROVE  [Store!Next]_(Store!vars)
<1>1. RequestOf(call[t]) = None
  BY DEF UpdatersInv, InHand, RequestOf
<1>2. Pending' = [Pending EXCEPT ![t] = RequestOf(call[t])'] /\ Pending[t] = None
  BY <1>1, PendingStep DEF Pending
<1>3. CASE RequestOf(call[t])' = None
  BY <1>2, <1>3 DEF Store!vars, Pending
<1>4. CASE RequestOf(call[t])' # None
  <2>1. RequestOf(call[t])' \in Store!Requests
    BY <1>4, RequestType DEF UpdatersInv, TypeOK, InHand, RequestOf
  <2>2. Store!Request(t)
    BY <1>2, <2>1 DEF Store!Request, Pending
  <2> QED
    BY <2>2 DEF Store!Next
<1> QED
  BY <1>3, <1>4

\* A call that goes on keeps its request.
LEMMA StoreContinues ==
    ASSUME UpdatersInv, UpdatersInv', NEW t \in Threads, docs' = docs,
           \A u \in Threads \ {t} : call'[u] = call[u],
           RequestOf(call[t])' = RequestOf(call[t])
    PROVE  [Store!Next]_(Store!vars)
<1>1. Pending' = Pending
  BY PendingStep DEF Pending
<1> QED
  BY <1>1 DEF Store!vars, Pending

\* A call that returns and has changed no document refuses its request, if any.
LEMMA StoreRefuses ==
    ASSUME UpdatersInv, UpdatersInv', NEW t \in Threads, docs' = docs, Return(t)
    PROVE  [Store!Next]_(Store!vars)
<1>1. call'[t] = Idle /\ \A u \in Threads \ {t} : call'[u] = call[u]
  BY DEF Return, UpdatersInv, TypeOK
<1>2. Pending' = [Pending EXCEPT ![t] = None]
  <2>1. RequestOf(call[t])' = None
    BY <1>1, IdleRequest DEF RequestOf
  <2> QED
    BY <1>1, <2>1, PendingStep
<1>3. CASE Pending[t] = None
  BY <1>2, <1>3 DEF Store!vars, Pending
<1>4. CASE Pending[t] # None
  BY <1>2, <1>4 DEF Store!Next, Store!Refuse, Pending
<1> QED
  BY <1>3, <1>4

\* PutDoc and RemoveDoc are where a request takes effect.
LEMMA StorePerforms ==
    ASSUME UpdatersInv, UpdatersInv', NEW t \in Threads, PutDoc(t) \/ RemoveDoc(t)
    PROVE  [Store!Next]_(Store!vars)
<1> DEFINE r == RequestOf(call[t])
<1>1. call'[t] = Idle /\ \A u \in Threads \ {t} : call'[u] = call[u]
  BY DEF PutDoc, RemoveDoc, Return, UpdatersInv, TypeOK
<1>2. Pending' = [Pending EXCEPT ![t] = None] /\ Pending[t] = r
  <2>1. RequestOf(call[t])' = None
    BY <1>1, IdleRequest DEF RequestOf
  <2> QED
    BY <1>1, <2>1, PendingStep DEF Pending
<1>3. call[t].id \in Ids /\ call[t].doc \in Doc
  BY DEF PutDoc, RemoveDoc, UpdatersInv, TypeOK, WellFormed, Call
<1>4. CASE PutDoc(t) /\ call[t].update # None
  <2>1. /\ r.op = "update" /\ r.id = call[t].id
        /\ r.update = call[t].update /\ r.upsert = call[t].upsert
    BY <1>4 DEF RequestOf
  <2>2. Store!Applies(docs[r.id], r)
    BY <1>4, <2>1 DEF UpdatersInv, InHand, PutDoc, Store!Applies
  <2>3. Store!Result(docs[r.id], r) = call[t].doc
    BY <1>4, <2>1 DEF UpdatersInv, InHand, PutDoc, Stored, Store!Result
  <2>4. docs' = [docs EXCEPT ![r.id] = Store!Result(docs[r.id], r)]
    BY <1>4, <2>1, <2>3 DEF PutDoc
  <2>5. r # None
    BY <1>4, RequestsAssumption, <1>3 DEF RequestOf, Store!Requests, UpdatersInv, TypeOK, Call
  <2> HIDE DEF r
  <2> QED
    BY <1>2, <2>2, <2>4, <2>5 DEF Store!Perform, Store!Next, Pending
<1>5. CASE PutDoc(t) /\ call[t].update = None
  <2>1. r.op = "create" /\ r.id = call[t].id /\ r.doc = call[t].doc
    BY <1>5 DEF RequestOf, PutDoc
  <2>2. Store!Applies(docs[r.id], r) /\ Store!Result(docs[r.id], r) = call[t].doc
    BY <2>1 DEF Store!Applies, Store!Result
  <2>4. docs' = [docs EXCEPT ![r.id] = Store!Result(docs[r.id], r)]
    BY <1>5, <2>1, <2>2 DEF PutDoc
  <2>5. r # None
    BY <1>5, RequestsAssumption, <1>3 DEF RequestOf, Store!Requests, PutDoc
  <2> HIDE DEF r
  <2> QED
    BY <1>2, <2>2, <2>4, <2>5 DEF Store!Perform, Store!Next, Pending
<1>6. CASE RemoveDoc(t)
  <2>0. call[t].update = None /\ call[t].pc = "remove"
    BY <1>6 DEF RemoveDoc, UpdatersInv, InHand
  <2>1. r.op = "delete" /\ r.id = call[t].id
    BY <2>0 DEF RequestOf
  <2>2. Store!Applies(docs[r.id], r) /\ Store!Result(docs[r.id], r) = None
    BY <2>1 DEF Store!Applies, Store!Result
  <2>4. docs' = [docs EXCEPT ![r.id] = Store!Result(docs[r.id], r)]
    BY <1>6, <2>1, <2>2 DEF RemoveDoc
  <2>5. r # None
    BY <2>0, RequestsAssumption, <1>3 DEF RequestOf, Store!Requests
  <2> HIDE DEF r
  <2> QED
    BY <1>2, <2>2, <2>4, <2>5 DEF Store!Perform, Store!Next, Pending
<1> QED
  BY <1>4, <1>5, <1>6

LEMMA StoreStep ==
    ASSUME SoleUpdaters, UpdatersInv, UpdatersInv', [Next]_vars
    PROVE  [Store!Next]_(Store!vars)
<1>1. ASSUME NEW t \in Threads, Begin(t) \/ CreateIndexFails(t)
      PROVE  [Store!Next]_(Store!vars)
  <2>1. CASE DeleteIndex(t)
    BY <2>1 DEF DeleteIndex, Store!vars
  <2>2. CASE ~DeleteIndex(t)
    <3>1. docs' = docs /\ call[t].pc = "idle"
      BY <1>1, <2>2 DEF Begin, CallCreate, CallUpdate, CallDelete, CallCreateIndex,
                        CreateIndexFails
    <3>2. \A u \in Threads \ {t} : call'[u] = call[u]
      BY <1>1, <2>2 DEF Begin, CallCreate, CallUpdate, CallDelete, CallCreateIndex,
                        CreateIndexFails, UpdatersInv, TypeOK
    <3> QED
      BY <3>1, <3>2, StoreBegins DEF UpdatersInv
  <2> QED
    BY <2>1, <2>2
<1>2. ASSUME NEW t \in Threads, Continue(t) \/ Fails(t), ~CreateIndexFails(t)
      PROVE  [Store!Next]_(Store!vars)
  <2>1. CASE CreateNames(t) \/ PutIndex(t) \/ DeleteNames(t) \/ RemoveIndex(t)
               \/ OpenCursor(t) \/ FillRow(t)
    <3>1. TypeOK
      BY DEF UpdatersInv
    <3>2. /\ \A u \in Threads \ {t} : call'[u] = call[u]
          /\ docs' = docs
          /\ RequestOf(call[t])' = RequestOf(call[t])
      BY <2>1, <3>1, SameRequest DEF RequestOf
    <3> QED
      BY <3>2, StoreContinues
  <2>2. CASE Returns(t)
    BY <2>2, ReturnsKeepDocs, StoreRefuses
  <2>3. CASE PutDoc(t) \/ RemoveDoc(t)
    BY <2>3, StorePerforms
  <2>4. CASE UpdateRead(t)
    <3>1. /\ \A u \in Threads \ {t} : call'[u] = call[u]
          /\ call'[t].id = call[t].id /\ call'[t].update = call[t].update
          /\ call'[t].upsert = call[t].upsert
          /\ docs' = docs
      BY <2>4 DEF UpdateRead, UpdatersInv, TypeOK, Call
    <3>2. call[t].update # None
      BY <2>4 DEF UpdateRead, UpdatersInv, InHand
    <3>3. RequestOf(call[t])' = RequestOf(call[t])
      BY <3>1, <3>2 DEF RequestOf
    <3> QED
      BY <3>1, <3>3, StoreContinues
  <2> QED
    BY <1>2, <2>1, <2>2, <2>3, <2>4 DEF Continue, Fails, Returns
<1>3. CASE Crash
  <2>1. Pending' = [t \in Threads |-> None] /\ docs' = docs
    BY <1>3, IdleRequest DEF Crash, Pending, RequestOf
  <2> QED
    BY <2>1 DEF Store!Next, Store!Forget, Pending
<1>4. CASE UNCHANGED vars
  BY <1>4 DEF vars, Store!vars, RequestOf
<1> QED
  BY <1>1, <1>2, <1>3, <1>4 DEF Next, Fails

(***************************************************************************)
(* Collection implements DocumentStore: as long as no thread creates or    *)
(* deletes documents beside one that updates them, its callers cannot tell *)
(* its steps, errors, exceptions and crashes from those of one atomic map. *)
(***************************************************************************)
THEOREM StoreImplemented ==
    ASSUME SoleUpdaters
    PROVE  Spec => StoreRefined
<1>1. Init => Store!Init
  BY IdleRequest DEF Init, Store!Init
<1>2. UpdatersInv /\ [Next]_vars => UpdatersInv'
  BY UpdatersNext
<1>3. UpdatersInv /\ UpdatersInv' /\ [Next]_vars => [Store!Next]_(Store!vars)
  BY StoreStep
<1> QED
  BY <1>1, <1>2, <1>3, UpdatersInit, PTL DEF Spec, StoreRefined, Store!Spec

===============================================================================
