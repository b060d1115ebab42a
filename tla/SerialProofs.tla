------------------------------ MODULE SerialProofs -----------------------------
(***************************************************************************)
(* What a collection promises a single caller, for any number of ids,      *)
(* fields and values.  The writes of a call are still separate steps; what *)
(* is gone is every other call between two of them.                        *)
(***************************************************************************)
EXTENDS CollectionProofs

\* One thread makes all the calls.
Solo(s) == \A t \in Threads \ {s} : OpsOf[t] = {}

(***************************************************************************)
(* Every call walks the indexes in the order of their names, and the first *)
(* one that refuses the document ends it.  In an orderly document the only *)
(* field that can be refused is the first one it has, so that a refused    *)
(* call has written nothing yet.                                           *)
(***************************************************************************)
Orderly(doc) ==
    \A f, g \in Fields : hasField(doc, f) /\ Throws(doc[f]) /\ hasField(doc, g) => f <= g

Only(s) == \A t \in Threads \ {s} : call[t] = Idle

\* A step of one thread leaves the calls of the others alone.
LEMMA OnlyStep ==
    ASSUME TypeOK, NEW s \in Threads, Only(s), Begin(s) \/ Continue(s) \/ Fails(s)
    PROVE  Only(s)'
<1>1. CASE \/ CallCreate(s) \/ CallUpdate(s) \/ CallDelete(s) \/ CallCreateIndex(s)
           \/ DeleteIndex(s) \/ CreateIndexFails(s)
  BY <1>1 DEF Only, TypeOK, CallCreate, CallUpdate, CallDelete, CallCreateIndex, DeleteIndex,
              CreateIndexFails
<1>2. CASE Return(s)
  BY <1>2 DEF Only, TypeOK, Return
<1>3. CASE \/ CreateNames(s) \/ PutIndex(s) \/ UpdateRead(s) \/ DeleteNames(s)
           \/ RemoveIndex(s) \/ OpenCursor(s) \/ FillRow(s)
  BY <1>3 DEF Only, TypeOK, CreateNames, PutIndex, UpdateRead, DeleteNames, RemoveIndex,
              OpenCursor, FillRow
<1> QED
  BY <1>1, <1>2, <1>3 DEF Begin, Continue, Fails, PutRejected, PutDoc, UpdateNotFound,
     RemoveRejected, RemoveDoc, FillRejected, FillDone, IOFails, ScanFails

\* A thread that makes no call takes no step.
LEMMA IdleTakesNoStep ==
    ASSUME NEW t \in Threads, call[t] = Idle, OpsOf[t] = {}
    PROVE  ~(Begin(t) \/ Continue(t) \/ Fails(t))
<1>1. call[t].pc = "idle"
  BY DEF Idle
<1>2. ~Begin(t)
  BY <1>1 DEF Begin, CallCreate, CallUpdate, CallDelete, CallCreateIndex, DeleteIndex
<1>3. ~Continue(t)
  BY <1>1 DEF Continue, CreateNames, PutIndex, PutRejected, PutDoc, UpdateRead, UpdateNotFound,
     DeleteNames, RemoveIndex, RemoveRejected, RemoveDoc, OpenCursor, FillRow, FillRejected,
     FillDone
<1>4. ~Fails(t)
  BY <1>1 DEF Fails, IOFails, ScanFails, CreateIndexFails
<1> QED
  BY <1>2, <1>3, <1>4

\* With one caller, a step is a step of that caller or a crash.
LEMMA SoloStep ==
    ASSUME NEW s \in Threads, Solo(s), TypeOK, Only(s), Next
    PROVE  /\ TypeOK'
           /\ Only(s)'
           /\ Begin(s) \/ Continue(s) \/ Fails(s) \/ Crash
<1>1. TypeOK'
  BY NextType
<1>2. Begin(s) \/ Continue(s) \/ Fails(s) \/ Crash
  <2> SUFFICES ASSUME NEW t \in Threads, Begin(t) \/ Continue(t) \/ Fails(t)
               PROVE  t = s
    BY DEF Next
  <2> QED
    BY IdleTakesNoStep DEF Solo, Only
<1>3. Only(s)'
  BY <1>2, OnlyStep DEF Crash, Only
<1> QED
  BY <1>1, <1>2, <1>3

LEMMA SoloInit ==
    ASSUME NEW s \in Threads, Init
    PROVE  TypeOK /\ Only(s) /\ call[s] = Idle
BY InitType DEF Init, Only


-------------------------------------------------------------------------------
(***************************************************************************)
(* IndexExact for one caller.                                              *)
(*                                                                         *)
(* IndexExact speaks of the moments at which no call is under way.  What   *)
(* carries it from one to the next is that every entry is either live or   *)
(* was written by the createDocument under way, for an id under which      *)
(* nothing is stored yet, and that this call has written nothing when an   *)
(* index refuses its document.                                             *)
(***************************************************************************)

\* The entry's document is stored and holds the value the entry is filed under.
Live(f, e) ==
    /\ docs[e[2]] # None
    /\ hasField(docs[e[2]], f) /\ ~Throws(docs[e[2]][f])
    /\ e = Entry(docs[e[2]], f, e[2])

\* The entry was written by the createDocument c, which is not done yet.
Fresh(c, f, e) ==
    /\ c.pc = "put"
    /\ f \notin c.todo
    /\ hasField(c.doc, f) /\ ~Throws(c.doc[f])
    /\ e = Entry(c.doc, f, c.id)

\* The indexes a call has visited come before those it has still to visit.
InOrder(c) ==
    /\ c.todo \subseteq cfs
    /\ \A f \in c.todo, g \in IndexesOf(c.doc) \ c.todo : g < f

ExactCall(c) ==
    /\ c.pc # "lock"
    /\ c.pc \in {"create", "put"} => docs[c.id] = None /\ c.doc \in Inputs
    /\ c.pc = "put" => InOrder(c)
    /\ c.pc \in {"delete", "remove"} => docs[c.id] = c.doc
    /\ c.pc = "remove" => \A f \in Fields \ c.todo : \A e \in index[f] : e[2] # c.id
    /\ c.pc = "fill" => \A i \in Ids : c.rows[i] \in {None, docs[i]}

ExactEntries(c) == \A f \in Fields : \A e \in index[f] : Live(f, e) \/ Fresh(c, f, e)

ExactInv(s) ==
    /\ TypeOK
    /\ Only(s)
    /\ ExactCall(call[s])
    /\ ExactEntries(call[s])

\* Documents are created under new ids, deleted, indexed and unindexed, but never
\* overwritten or updated; a write does not fail and the process does not die.
ExactCalls(s) ==
    /\ Solo(s)
    /\ OpsOf[s] \subseteq {"insert", "delete", "createIndex", "deleteIndex"}
    /\ \A doc \in Inputs : Orderly(doc)
    /\ "crash" \notin Faults /\ "writeError" \notin Faults

\* An entry is a pair of a key and an id.
LEMMA EntryPair ==
    ASSUME TypeOK, NEW f \in Fields, NEW e \in index[f]
    PROVE  e[2] \in Ids /\ e = <<e[1], e[2]>> /\ f \in cfs
BY DEF TypeOK

LEMMA EntryId ==
    ASSUME NEW doc, NEW f, NEW id
    PROVE  Entry(doc, f, id)[2] = id
BY DEF Entry

\* A step past the least of the indexes still to be visited keeps them in order.
LEMMA InOrderStep ==
    ASSUME TypeOK, NEW s \in Threads, NEW f \in Fields, IsMin(f, call[s].todo),
           InOrder(call[s]), cfs' = cfs,
           call'[s].doc = call[s].doc, call'[s].todo = call[s].todo \ {f}
    PROVE  InOrder(call[s])'
<1>1. IndexesOf(call[s].doc)' = IndexesOf(call[s].doc) /\ call[s].todo \subseteq Fields
  BY DEF IndexesOf, TypeOK, Call
<1> SUFFICES ASSUME NEW g \in call'[s].todo,
                    NEW h \in IndexesOf(call[s].doc) \ call'[s].todo
             PROVE  h < g
  BY <1>1 DEF InOrder
<1>2. g \in call[s].todo /\ g # f /\ f <= g
  BY DEF IsMin
<1>3. g \in Nat /\ f \in Nat
  BY <1>1, <1>2, FieldsAssumption
<1>4. CASE h = f
  BY <1>2, <1>3, <1>4
<1>5. CASE h # f
  BY <1>2, <1>5 DEF InOrder
<1> QED
  BY <1>4, <1>5

LEMMA ExactInit ==
    ASSUME NEW s \in Threads, Init
    PROVE  ExactInv(s)
<1>1. Idle.pc = "idle"
  BY DEF Idle
<1>2. ExactEntries(call[s])
  BY DEF Init, ExactEntries
<1> QED
  BY <1>1, <1>2, SoloInit DEF ExactInv, ExactCall

\* A step that leaves documents and indexes alone and after which no createDocument
\* is writing, or one begins to write.
LEMMA ExactQuiet ==
    ASSUME NEW s \in Threads, ExactInv(s), TypeOK', Only(s)',
           UNCHANGED <<docs, index>>,
           \A f \in Fields : \A e \in index[f] : ~Fresh(call[s], f, e),
           ExactCall(call[s])'
    PROVE  ExactInv(s)'
<1>1. ASSUME NEW f \in Fields, NEW e \in index[f]
      PROVE  Live(f, e)
  BY DEF ExactInv, ExactEntries, Fresh
<1>2. ExactEntries(call[s])'
  BY <1>1 DEF ExactEntries, Live
<1> QED
  BY <1>2 DEF ExactInv

\* A call that begins, with nothing written.
LEMMA ExactBegin ==
    ASSUME NEW s \in Threads, ExactCalls(s), ExactInv(s), TypeOK', Only(s)', Begin(s)
    PROVE  ExactInv(s)'
<1>0. call \in [Threads -> Call] /\ call[s].pc = "idle"
  BY DEF ExactInv, TypeOK, Begin, CallCreate, CallUpdate, CallDelete, CallCreateIndex,
         DeleteIndex
<1>1. \A f \in Fields : \A e \in index[f] : ~Fresh(call[s], f, e)
  BY <1>0 DEF Fresh
<1>2. CASE CallCreate(s)
  <2>1. PICK id \in Ids, doc \in Inputs :
          /\ docs[id] = None
          /\ call' = [call EXCEPT ![s] = [Idle EXCEPT !.pc = "create", !.id = id, !.doc = doc]]
    BY <1>2 DEF CallCreate, ExactCalls
  <2>2. call'[s].pc = "create" /\ call'[s].id = id /\ call'[s].doc = doc
    BY <1>0, <2>1 DEF Idle
  <2>3. UNCHANGED <<docs, index>>
    BY <1>2 DEF CallCreate
  <2>4. ExactCall(call[s])'
    BY <2>1, <2>2, <2>3 DEF ExactCall
  <2> QED
    BY <1>1, <2>3, <2>4, ExactQuiet
<1>3. CASE CallDelete(s)
  <2>1. PICK id \in Ids :
          call' = [call EXCEPT ![s] = [Idle EXCEPT !.pc = "delete", !.id = id,
                                                   !.doc = docs[id]]]
    BY <1>3 DEF CallDelete
  <2>2. call'[s].pc = "delete" /\ call'[s].id = id /\ call'[s].doc = docs[id]
    BY <1>0, <2>1 DEF Idle
  <2>3. UNCHANGED <<docs, index>>
    BY <1>3 DEF CallDelete
  <2>4. ExactCall(call[s])'
    BY <2>1, <2>2, <2>3 DEF ExactCall
  <2> QED
    BY <1>1, <2>3, <2>4, ExactQuiet
<1>4. CASE CallCreateIndex(s)
  <2>1. call'[s].pc = "cursor"
    BY <1>0, <1>4 DEF CallCreateIndex, Idle
  <2>2. ExactCall(call[s])'
    BY <2>1 DEF ExactCall
  <2>3. UNCHANGED <<docs, index>>
    BY <1>4 DEF CallCreateIndex
  <2> QED
    BY <1>1, <2>2, <2>3, ExactQuiet
<1>5. CASE DeleteIndex(s)
  <2>1. PICK f \in cfs : index' = [index EXCEPT ![f] = {}]
    BY <1>5 DEF DeleteIndex
  <2>2. UNCHANGED <<docs, call>>
    BY <1>5 DEF DeleteIndex
  <2>3. \A g \in Fields : index'[g] \subseteq index[g]
    BY <2>1 DEF ExactInv, TypeOK
  <2>4. ExactEntries(call[s])'
    BY <1>1, <2>2, <2>3 DEF ExactInv, ExactEntries, Live
  <2>5. ExactCall(call[s])'
    BY <1>0, <2>2 DEF ExactCall
  <2> QED
    BY <2>4, <2>5 DEF ExactInv
<1> QED
  BY <1>2, <1>3, <1>4, <1>5 DEF Begin, CallUpdate, ExactCalls

\* A call that ends without having stored or removed its document.
LEMMA ExactReturn ==
    ASSUME NEW s \in Threads, ExactInv(s), TypeOK', Only(s)', Return(s),
           UNCHANGED <<docs, index>>,
           \A f \in Fields : \A e \in index[f] : ~Fresh(call[s], f, e)
    PROVE  ExactInv(s)'
<1>1. call'[s].pc = "idle"
  BY DEF Return, Idle, ExactInv, TypeOK
<1>2. ExactCall(call[s])'
  BY <1>1 DEF ExactCall
<1> QED
  BY <1>2, ExactQuiet

LEMMA ExactCreateNames ==
    ASSUME NEW s \in Threads, ExactInv(s), TypeOK', Only(s)', CreateNames(s)
    PROVE  ExactInv(s)'
<1>1. /\ call[s].pc = "create"
      /\ call'[s].pc = "put"
      /\ call'[s].id = call[s].id
      /\ call'[s].doc = call[s].doc
      /\ call'[s].todo = IndexesOf(call[s].doc)
      /\ UNCHANGED <<docs, cfs, index>>
  BY DEF CreateNames, ExactInv, TypeOK, Call
<1>2. ExactCall(call[s])'
  BY <1>1 DEF ExactInv, ExactCall, InOrder, IndexesOf
<1> QED
  BY <1>1, <1>2, ExactQuiet DEF Fresh

\* The entry written is fresh, and the indexes still to be visited come after it.
LEMMA ExactPutIndex ==
    ASSUME NEW s \in Threads, ExactInv(s), TypeOK', Only(s)', PutIndex(s)
    PROVE  ExactInv(s)'
<1>1. PICK f \in Fields :
        /\ IsMin(f, call[s].todo)
        /\ ~Throws(call[s].doc[f])
        /\ index' = [index EXCEPT ![f] = @ \cup {Entry(call[s].doc, f, call[s].id)}]
        /\ call' = [call EXCEPT ![s].todo = @ \ {f}]
  BY DEF PutIndex, Rejects
<1>2. /\ call[s].pc = "put"
      /\ call'[s].pc = "put"
      /\ call'[s].id = call[s].id
      /\ call'[s].doc = call[s].doc
      /\ call'[s].todo = call[s].todo \ {f}
      /\ UNCHANGED <<docs, cfs>>
  BY <1>1 DEF PutIndex, ExactInv, TypeOK, Call
<1>3. f \in call[s].todo /\ hasField(call[s].doc, f) /\ call[s].todo \subseteq Fields
  BY <1>1 DEF IsMin, ExactInv, TypeOK, WellFormed, Call
<1>4. InOrder(call[s])'
  BY <1>1, <1>2, InOrderStep DEF ExactInv, ExactCall
<1>5. ExactCall(call[s])'
  BY <1>2, <1>4 DEF ExactInv, ExactCall
<1>6. ASSUME NEW g \in Fields, NEW e \in index'[g]
      PROVE  Live(g, e)' \/ Fresh(call[s], g, e)'
  <2>1. CASE e \in index[g]
    BY <1>2, <2>1 DEF ExactInv, ExactEntries, Live, Fresh
  <2>2. CASE e \notin index[g]
    <3>1. g = f /\ e = Entry(call[s].doc, f, call[s].id)
      BY <1>1, <2>2 DEF ExactInv, TypeOK
    <3> QED
      BY <1>1, <1>2, <1>3, <3>1 DEF Fresh, Entry
  <2> QED
    BY <2>1, <2>2
<1> QED
  BY <1>5, <1>6 DEF ExactInv, ExactEntries

\* The index that refuses an orderly document is the first it would be entered in.
LEMMA ExactPutRejected ==
    ASSUME NEW s \in Threads, ExactCalls(s), ExactInv(s), TypeOK', Only(s)', PutRejected(s)
    PROVE  ExactInv(s)'
<1>1. PICK f \in Fields : IsMin(f, call[s].todo) /\ Rejects(call[s].doc, f)
  BY DEF PutRejected
<1>2. call[s].pc = "put" /\ Return(s) /\ UNCHANGED <<docs, index>>
  BY DEF PutRejected
<1>3. f \in call[s].todo /\ hasField(call[s].doc, f)
  BY <1>1 DEF IsMin, ExactInv, TypeOK, WellFormed
<1>4. InOrder(call[s]) /\ Orderly(call[s].doc)
  BY <1>2 DEF ExactCalls, ExactInv, ExactCall
<1>5. Throws(call[s].doc[f])
  BY <1>1, <1>3, <1>4 DEF Rejects, InOrder
<1>6. ASSUME NEW g \in Fields, NEW e \in index[g], Fresh(call[s], g, e)
      PROVE  FALSE
  <2>1. g \in IndexesOf(call[s].doc) \ call[s].todo
    BY <1>6, EntryPair DEF Fresh, IndexesOf, ExactInv
  <2>2. g < f
    BY <1>3, <1>4, <2>1 DEF InOrder
  <2>3. f <= g
    BY <1>3, <1>4, <1>5, <1>6 DEF Orderly, Fresh
  <2> QED
    BY <2>2, <2>3, FieldsAssumption
<1> QED
  BY <1>2, <1>6, ExactReturn

LEMMA ExactPutDoc ==
    ASSUME NEW s \in Threads, ExactInv(s), TypeOK', Only(s)', PutDoc(s)
    PROVE  ExactInv(s)'
<1>1. /\ call[s].pc = "put" /\ call[s].todo = {}
      /\ call'[s].pc = "idle"
      /\ docs' = [docs EXCEPT ![call[s].id] = call[s].doc]
      /\ UNCHANGED <<cfs, index>>
  BY DEF PutDoc, Return, Idle, ExactInv, TypeOK
<1>2. /\ call[s].id \in Ids /\ docs[call[s].id] = None
      /\ call[s].doc # None
      /\ docs'[call[s].id] = call[s].doc
      /\ \A i \in Ids \ {call[s].id} : docs'[i] = docs[i]
  BY <1>1, NoneAssumption DEF ExactInv, ExactCall, TypeOK, WellFormed, Call
<1>3. ExactCall(call[s])'
  BY <1>1 DEF ExactCall
<1>4. ASSUME NEW f \in Fields, NEW e \in index[f]
      PROVE  Live(f, e)'
  <2>1. CASE Live(f, e)
    <3>1. e[2] \in Ids /\ e[2] # call[s].id
      BY <1>2, <2>1, EntryPair DEF Live, ExactInv
    <3> QED
      BY <1>2, <2>1, <3>1 DEF Live, Entry
  <2>2. CASE Fresh(call[s], f, e)
    <3>1. e[2] = call[s].id
      BY <2>2, EntryId DEF Fresh
    <3> QED
      BY <1>2, <2>2, <3>1 DEF Live, Fresh, Entry
  <2> QED
    BY <2>1, <2>2 DEF ExactInv, ExactEntries
<1> QED
  BY <1>1, <1>3, <1>4 DEF ExactInv, ExactEntries

LEMMA ExactDeleteNames ==
    ASSUME NEW s \in Threads, ExactInv(s), TypeOK', Only(s)', DeleteNames(s)
    PROVE  ExactInv(s)'
<1>1. /\ call[s].pc = "delete"
      /\ call'[s].pc = "remove"
      /\ call'[s].id = call[s].id
      /\ call'[s].doc = call[s].doc
      /\ call'[s].todo = IndexesOf(call[s].doc)
      /\ UNCHANGED <<docs, cfs, index>>
  BY DEF DeleteNames, ExactInv, TypeOK, Call
<1>2. docs[call[s].id] = call[s].doc
  BY <1>1 DEF ExactInv, ExactCall
<1>3. \A f \in Fields : \A e \in index[f] : ~Fresh(call[s], f, e)
  BY <1>1 DEF Fresh
<1>4. ASSUME NEW f \in Fields \ IndexesOf(call[s].doc), NEW e \in index[f]
      PROVE  e[2] # call[s].id
  BY <1>2, <1>3, EntryPair DEF ExactInv, ExactEntries, Live, IndexesOf
<1>5. ExactCall(call[s])'
  BY <1>1, <1>2, <1>4 DEF ExactCall
<1> QED
  BY <1>1, <1>3, <1>5, ExactQuiet

\* All the entries of the document that one of its indexes has go with one Remove.
LEMMA ExactRemoveIndex ==
    ASSUME NEW s \in Threads, ExactInv(s), TypeOK', Only(s)', RemoveIndex(s)
    PROVE  ExactInv(s)'
<1>1. PICK f \in Fields :
        /\ index' = [index EXCEPT ![f] = @ \ {Entry(call[s].doc, f, call[s].id)}]
        /\ call' = [call EXCEPT ![s].todo = @ \ {f}]
  BY DEF RemoveIndex
<1>2. /\ call[s].pc = "remove"
      /\ call'[s].pc = "remove"
      /\ call'[s].id = call[s].id
      /\ call'[s].doc = call[s].doc
      /\ call'[s].todo = call[s].todo \ {f}
      /\ UNCHANGED docs
  BY <1>1 DEF RemoveIndex, ExactInv, TypeOK, Call
<1>3. /\ index'[f] = index[f] \ {Entry(call[s].doc, f, call[s].id)}
      /\ \A g \in Fields \ {f} : index'[g] = index[g]
  BY <1>1 DEF ExactInv, TypeOK
<1>4. docs[call[s].id] = call[s].doc
  BY <1>2 DEF ExactInv, ExactCall
<1>5. ASSUME NEW g \in Fields, NEW e \in index[g]
      PROVE  Live(g, e)
  BY <1>2 DEF ExactInv, ExactEntries, Fresh
<1>6. ASSUME NEW e \in index'[f]
      PROVE  e[2] # call[s].id
  BY <1>3, <1>4, <1>5 DEF Live
<1>7. ExactCall(call[s])'
  <2> SUFFICES ASSUME NEW g \in Fields \ call'[s].todo, NEW e \in index'[g]
               PROVE  e[2] # call[s].id
    BY <1>2, <1>4 DEF ExactCall
  <2> QED
    BY <1>2, <1>3, <1>6 DEF ExactInv, ExactCall
<1>8. ExactEntries(call[s])'
  BY <1>2, <1>3, <1>5 DEF ExactEntries, Live
<1> QED
  BY <1>7, <1>8 DEF ExactInv

LEMMA ExactRemoveDoc ==
    ASSUME NEW s \in Threads, ExactInv(s), TypeOK', Only(s)', RemoveDoc(s)
    PROVE  ExactInv(s)'
<1>1. /\ call[s].pc = "remove" /\ call[s].todo = {}
      /\ call'[s].pc = "idle"
      /\ docs' = [docs EXCEPT ![call[s].id] = None]
      /\ UNCHANGED index
  BY DEF RemoveDoc, Return, Idle, ExactInv, TypeOK
<1>2. \A i \in Ids \ {call[s].id} : docs'[i] = docs[i]
  BY <1>1 DEF ExactInv, TypeOK
<1>3. ExactCall(call[s])'
  BY <1>1 DEF ExactCall
<1>4. ASSUME NEW f \in Fields, NEW e \in index[f]
      PROVE  Live(f, e)'
  <2>1. Live(f, e)
    BY <1>1 DEF ExactInv, ExactEntries, Fresh
  <2>2. e[2] \in Ids /\ e[2] # call[s].id
    BY <1>1, EntryPair DEF ExactInv, ExactCall
  <2> QED
    BY <1>2, <2>1, <2>2 DEF Live, Entry
<1> QED
  BY <1>1, <1>3, <1>4 DEF ExactInv, ExactEntries

LEMMA ExactOpenCursor ==
    ASSUME NEW s \in Threads, ExactInv(s), TypeOK', Only(s)', OpenCursor(s)
    PROVE  ExactInv(s)'
<1>1. /\ call[s].pc = "cursor"
      /\ call'[s].pc = "fill"
      /\ call'[s].rows = docs
      /\ UNCHANGED <<docs, index>>
  BY DEF OpenCursor, ExactInv, TypeOK, Call
<1>2. ExactCall(call[s])'
  BY <1>1 DEF ExactCall
<1> QED
  BY <1>1, <1>2, ExactQuiet DEF Fresh

\* The row under the cursor is what is stored.
LEMMA ExactFillRow ==
    ASSUME NEW s \in Threads, ExactInv(s), TypeOK', Only(s)', FillRow(s)
    PROVE  ExactInv(s)'
<1> DEFINE field == call[s].field
<1>1. PICK i \in Ids :
        /\ IsMin(i, RowsLeft(s))
        /\ hasField(call[s].rows[i], field) => ~Throws(call[s].rows[i][field])
        /\ index' = IF hasField(call[s].rows[i], field)
                    THEN [index EXCEPT ![field] = @ \cup {Entry(call[s].rows[i], field, i)}]
                    ELSE index
        /\ call' = [call EXCEPT ![s].rows[i] = None]
  BY DEF FillRow, Rejects
<1>2. /\ call[s].pc = "fill"
      /\ call'[s].pc = "fill"
      /\ \A j \in Ids : call'[s].rows[j] = IF j = i THEN None ELSE call[s].rows[j]
      /\ UNCHANGED docs
  BY <1>1 DEF FillRow, ExactInv, TypeOK, Call
<1>3. call[s].rows[i] = docs[i] /\ docs[i] # None
  BY <1>1, <1>2 DEF IsMin, RowsLeft, ExactInv, ExactCall
<1>4. field \in Fields
  BY <1>2 DEF ExactInv, TypeOK, WellFormed
<1>5. ExactCall(call[s])'
  BY <1>2 DEF ExactInv, ExactCall
<1>6. ASSUME NEW g \in Fields, NEW e \in index'[g]
      PROVE  Live(g, e)'
  <2>1. CASE e \in index[g]
    BY <1>2, <2>1 DEF ExactInv, ExactEntries, Live, Fresh
  <2>2. CASE e \notin index[g]
    <3>1. /\ g = field /\ hasField(docs[i], field) /\ ~Throws(docs[i][field])
          /\ e = Entry(docs[i], field, i)
      BY <1>1, <1>3, <1>4, <2>2 DEF ExactInv, TypeOK
    <3> QED
      BY <1>2, <1>3, <3>1, EntryId DEF Live
  <2> QED
    BY <2>1, <2>2
<1> QED
  BY <1>5, <1>6 DEF ExactInv, ExactEntries

LEMMA ExactNext ==
    ASSUME NEW s \in Threads, ExactCalls(s), ExactInv(s), [Next]_vars
    PROVE  ExactInv(s)'
<1>1. CASE UNCHANGED vars
  BY <1>1 DEF vars, ExactInv, TypeOK, Only, ExactCall, InOrder, IndexesOf, ExactEntries, Live
<1>2. CASE Next
  <2>1. TypeOK' /\ Only(s)' /\ (Begin(s) \/ Continue(s) \/ Fails(s) \/ Crash)
    BY <1>2, SoloStep DEF ExactCalls, ExactInv
  <2>2. ~Crash /\ ~IOFails(s)
    BY DEF Crash, IOFails, Fault, ExactCalls
  <2>3. CASE Begin(s)
    BY <2>1, <2>3, ExactBegin
  <2>4. ~UpdateRead(s) /\ ~UpdateNotFound(s)
    BY DEF UpdateRead, UpdateNotFound, ExactInv, ExactCall
  <2>5. CASE RemoveRejected(s) \/ FillRejected(s) \/ FillDone(s) \/ ScanFails(s)
    BY <2>1, <2>5, ExactReturn DEF Fresh, RemoveRejected, FillRejected, FillDone, ScanFails
  <2>6. CASE CreateIndexFails(s)
    <3>1. call[s].pc = "idle" /\ call'[s].pc = "cursor" /\ UNCHANGED <<docs, index>>
      BY <2>6 DEF CreateIndexFails, Idle, ExactInv, TypeOK
    <3>2. ExactCall(call[s])'
      BY <3>1 DEF ExactCall
    <3> QED
      BY <2>1, <3>1, <3>2, ExactQuiet DEF Fresh
  <2>7. CASE Continue(s)
    BY <2>1, <2>4, <2>5, <2>7, ExactCreateNames, ExactPutIndex, ExactPutRejected, ExactPutDoc,
       ExactDeleteNames, ExactRemoveIndex, ExactRemoveDoc, ExactOpenCursor, ExactFillRow
       DEF Continue
  <2> QED
    BY <2>1, <2>2, <2>3, <2>5, <2>6, <2>7 DEF Fails
<1> QED
  BY <1>1, <1>2

(***************************************************************************)
(* For one caller that creates documents under new ids and deletes them    *)
(* while it makes and drops indexes, no index is ever left with an entry   *)
(* that its document does not live up to, even though createIndex may fail *)
(* half way or fail to make its column family - as long as no document has *)
(* a value without a key behind another indexed field.                     *)
(***************************************************************************)
THEOREM SerialExact ==
    ASSUME \E s \in Threads : ExactCalls(s)
    PROVE  Spec => []IndexExact
<1>1. PICK s \in Threads : ExactCalls(s)
  OBVIOUS
<1>2. Init => ExactInv(s)
  BY ExactInit
<1>3. ExactInv(s) /\ [Next]_vars => ExactInv(s)'
  BY <1>1, ExactNext
<1>4. ExactInv(s) => IndexExact
  BY DEF ExactInv, ExactEntries, Live, Fresh, IndexExact
<1> QED
  BY <1>2, <1>3, <1>4, PTL DEF Spec

-------------------------------------------------------------------------------
(***************************************************************************)
(* IndexComplete for one caller, deleteDocument and createIndex included.  *)
(*                                                                         *)
(* A deleteDocument takes the entries out of the indexes before the        *)
(* document, so it must not stop half way: what the indexes it has still   *)
(* to visit hold, and that they come after those it has visited, is part   *)
(* of the invariant, as is what a createIndex has entered so far.          *)
(***************************************************************************)

\* Documents of S are all the calls pass, and what updates make of them; they are
\* orderly, and nothing cuts a deleteDocument short.
CompleteCalls(S, s) ==
    /\ Solo(s)
    /\ Inputs \subseteq S /\ EmptyDoc \in S
    /\ \A doc \in S : Orderly(doc)
    /\ \A doc \in S, u \in Updates : applyUpdate(doc, u) \in S
    /\ "scanError" \notin Faults /\ "cfError" \notin Faults
    /\ "delete" \in OpsOf[s] => "crash" \notin Faults /\ "writeError" \notin Faults

CompleteCall(S, s) ==
    LET c == call[s]
    IN  /\ c.pc \in {"create", "put", "delete", "remove"} => c.doc \in S
        /\ c.pc = "put" => \A f \in ready \ c.todo : Indexed(c.doc, f, c.id)
        /\ c.pc \in {"delete", "remove"} => docs[c.id] = c.doc /\ "delete" \in OpsOf[s]
        /\ c.pc \in {"put", "remove"} => InOrder(c)
        /\ c.pc = "remove" => \A f \in ready \cap c.todo : Indexed(c.doc, f, c.id)
        /\ c.pc \in {"cursor", "fill"} => c.field \in cfs
        /\ c.pc = "fill" =>
              \A i \in Ids : c.rows[i] # docs[i] => c.rows[i] = None /\ Indexed(docs[i], c.field, i)

\* Every stored document is in every index that is ready, but for the one whose
\* entries are being removed.
CompleteEntries(s) ==
    \A f \in ready, id \in Ids :
        docs[id] # None /\ ~(call[s].pc = "remove" /\ call[s].id = id) => Indexed(docs[id], f, id)

CompleteInv(S, s) ==
    /\ TypeOK
    /\ ready \subseteq cfs
    /\ Only(s)
    /\ \A id \in Ids : docs[id] \in S \cup {None}
    /\ CompleteCall(S, s)
    /\ CompleteEntries(s)

LEMMA CompleteInit ==
    ASSUME NEW S, NEW s \in Threads, Init
    PROVE  CompleteInv(S, s)
<1>1. Idle.pc = "idle"
  BY DEF Idle
<1>2. CompleteEntries(s) /\ ready \subseteq cfs /\ \A id \in Ids : docs[id] \in S \cup {None}
  BY DEF Init, CompleteEntries
<1> QED
  BY <1>1, <1>2, SoloInit DEF CompleteInv, CompleteCall

\* A step that leaves the store alone, and is not the end of a half-done removal.
LEMMA CompleteQuiet ==
    ASSUME NEW S, NEW s \in Threads, CompleteInv(S, s), TypeOK', Only(s)',
           UNCHANGED <<docs, index, ready>>, ready \subseteq cfs',
           CompleteCall(S, s)',
           call[s].pc # "remove"
    PROVE  CompleteInv(S, s)'
<1>1. CompleteEntries(s)'
  BY DEF CompleteInv, CompleteEntries, Indexed
<1> QED
  BY <1>1 DEF CompleteInv

LEMMA CompleteReturn ==
    ASSUME NEW S, NEW s \in Threads, CompleteInv(S, s), TypeOK', Only(s)', Return(s),
           UNCHANGED <<docs, cfs, index, ready>>, call[s].pc # "remove"
    PROVE  CompleteInv(S, s)'
<1>1. call'[s].pc = "idle"
  BY DEF Return, Idle, CompleteInv, TypeOK
<1>2. CompleteCall(S, s)'
  BY <1>1 DEF CompleteCall
<1> QED
  BY <1>2, CompleteQuiet DEF CompleteInv

LEMMA CompleteBegin ==
    ASSUME NEW S, NEW s \in Threads, CompleteCalls(S, s), CompleteInv(S, s),
           TypeOK', Only(s)', Begin(s)
    PROVE  CompleteInv(S, s)'
<1>0. call \in [Threads -> Call] /\ call[s].pc = "idle" /\ ready \subseteq cfs
  BY DEF CompleteInv, TypeOK, Begin, CallCreate, CallUpdate, CallDelete, CallCreateIndex,
         DeleteIndex
<1>1. CASE CallCreate(s)
  <2>1. call'[s].pc = "create" /\ call'[s].doc \in S
    BY <1>0, <1>1 DEF CallCreate, Idle, CompleteCalls
  <2>2. CompleteCall(S, s)'
    BY <2>1 DEF CompleteCall
  <2> QED
    BY <1>0, <1>1, <2>2, CompleteQuiet DEF CallCreate
<1>2. CASE CallUpdate(s)
  <2>1. call'[s].pc = "lock"
    BY <1>0, <1>2 DEF CallUpdate, Idle
  <2>2. CompleteCall(S, s)'
    BY <2>1 DEF CompleteCall
  <2> QED
    BY <1>0, <1>2, <2>2, CompleteQuiet DEF CallUpdate
<1>3. CASE CallDelete(s)
  <2>1. PICK id \in Ids :
          /\ docs[id] # None
          /\ call' = [call EXCEPT ![s] = [Idle EXCEPT !.pc = "delete", !.id = id,
                                                      !.doc = docs[id]]]
    BY <1>3 DEF CallDelete
  <2>2. call'[s].pc = "delete" /\ call'[s].id = id /\ call'[s].doc = docs[id]
    BY <1>0, <2>1 DEF Idle
  <2>3. docs[id] \in S /\ "delete" \in OpsOf[s] /\ docs' = docs
    BY <1>3, <2>1 DEF CompleteInv, CallDelete
  <2>4. CompleteCall(S, s)'
    BY <2>2, <2>3 DEF CompleteCall
  <2> QED
    BY <1>0, <1>3, <2>4, CompleteQuiet DEF CallDelete
<1>4. CASE CallCreateIndex(s)
  <2>1. call'[s].pc = "cursor" /\ call'[s].field \in cfs' /\ cfs \subseteq cfs'
    BY <1>0, <1>4 DEF CallCreateIndex, Idle
  <2>2. CompleteCall(S, s)'
    BY <2>1 DEF CompleteCall
  <2> QED
    BY <1>0, <1>4, <2>1, <2>2, CompleteQuiet DEF CallCreateIndex
<1>5. CASE DeleteIndex(s)
  <2>1. PICK f \in cfs : /\ cfs' = cfs \ {f}
                         /\ index' = [index EXCEPT ![f] = {}]
                         /\ ready' = ready \ {f}
    BY <1>5 DEF DeleteIndex
  <2>2. UNCHANGED <<docs, call>>
    BY <1>5 DEF DeleteIndex
  <2>3. \A g \in ready' : g \in ready /\ index'[g] = index[g]
    BY <2>1 DEF CompleteInv, TypeOK
  <2>4. CompleteEntries(s)'
    BY <2>2, <2>3 DEF CompleteInv, CompleteEntries, Indexed
  <2>5. CompleteCall(S, s)'
    BY <1>0, <2>2 DEF CompleteCall
  <2> QED
    BY <1>0, <2>1, <2>2, <2>4, <2>5 DEF CompleteInv
<1> QED
  BY <1>1, <1>2, <1>3, <1>4, <1>5 DEF Begin

LEMMA CompleteCreateNames ==
    ASSUME NEW S, NEW s \in Threads, CompleteInv(S, s), TypeOK', Only(s)', CreateNames(s)
    PROVE  CompleteInv(S, s)'
<1>1. /\ call[s].pc = "create"
      /\ call'[s].pc = "put"
      /\ call'[s].doc = call[s].doc
      /\ call'[s].todo = IndexesOf(call[s].doc)
      /\ UNCHANGED <<docs, cfs, index, ready>>
  BY DEF CreateNames, CompleteInv, TypeOK, Call
<1>2. InOrder(call[s])'
  BY <1>1 DEF InOrder, IndexesOf
<1>3. \A f \in ready \ call'[s].todo : ~hasField(call[s].doc, f)
  BY <1>1 DEF CompleteInv, IndexesOf
<1>4. CompleteCall(S, s)'
  BY <1>1, <1>2, <1>3 DEF CompleteInv, CompleteCall, Indexed
<1> QED
  BY <1>1, <1>4, CompleteQuiet DEF CompleteInv

LEMMA CompleteUpdateRead ==
    ASSUME NEW S, NEW s \in Threads, CompleteCalls(S, s), CompleteInv(S, s),
           TypeOK', Only(s)', UpdateRead(s)
    PROVE  CompleteInv(S, s)'
<1>1. /\ call[s].pc = "lock"
      /\ call'[s].pc = "create"
      /\ call'[s].doc = applyUpdate(Stored(call[s].id), call[s].update)
      /\ UNCHANGED <<docs, cfs, index, ready>>
  BY DEF UpdateRead, CompleteInv, TypeOK, Call
<1>2. call[s].id \in Ids /\ call[s].update \in Updates
  BY <1>1 DEF CompleteInv, TypeOK, WellFormed
<1>3. Stored(call[s].id) \in S
  BY <1>2 DEF Stored, CompleteInv, CompleteCalls
<1>4. call'[s].doc \in S
  BY <1>1, <1>2, <1>3 DEF CompleteCalls
<1>5. CompleteCall(S, s)'
  BY <1>1, <1>4 DEF CompleteCall
<1> QED
  BY <1>1, <1>5, CompleteQuiet DEF CompleteInv

LEMMA CompletePutIndex ==
    ASSUME NEW S, NEW s \in Threads, CompleteInv(S, s), TypeOK', Only(s)', PutIndex(s)
    PROVE  CompleteInv(S, s)'
<1>1. PICK f \in Fields :
        /\ IsMin(f, call[s].todo)
        /\ ~Rejects(call[s].doc, f)
        /\ index' = [index EXCEPT ![f] = @ \cup {Entry(call[s].doc, f, call[s].id)}]
        /\ call' = [call EXCEPT ![s].todo = @ \ {f}]
  BY DEF PutIndex
<1>2. /\ call[s].pc = "put"
      /\ call'[s].pc = "put"
      /\ call'[s].id = call[s].id
      /\ call'[s].doc = call[s].doc
      /\ call'[s].todo = call[s].todo \ {f}
      /\ UNCHANGED <<docs, cfs, ready>>
  BY <1>1 DEF PutIndex, CompleteInv, TypeOK, Call
<1>3. \A g \in Fields : index[g] \subseteq index'[g]
  BY <1>1 DEF CompleteInv, TypeOK
<1>4. Indexed(call[s].doc, f, call[s].id)'
  BY <1>1, <1>2 DEF Indexed, Rejects, CompleteInv, TypeOK
<1>5. InOrder(call[s])'
  BY <1>1, <1>2, InOrderStep DEF CompleteInv, CompleteCall
<1>6. ready \subseteq Fields
  BY DEF CompleteInv, TypeOK
<1>7. ASSUME NEW g \in ready \ call'[s].todo
      PROVE  Indexed(call[s].doc, g, call[s].id)'
  <2>1. CASE g = f
    BY <1>4, <2>1
  <2>2. CASE g # f
    <3>1. Indexed(call[s].doc, g, call[s].id)
      BY <1>2, <2>2 DEF CompleteInv, CompleteCall
    <3> QED
      BY <1>2, <1>3, <1>6, <3>1 DEF Indexed, Entry
  <2> QED
    BY <2>1, <2>2
<1>8. CompleteCall(S, s)'
  BY <1>2, <1>5, <1>7 DEF CompleteInv, CompleteCall
<1>9. CompleteEntries(s)'
  BY <1>2, <1>3, <1>6 DEF CompleteInv, CompleteEntries, Indexed, Entry
<1> QED
  BY <1>2, <1>8, <1>9 DEF CompleteInv

LEMMA CompletePutDoc ==
    ASSUME NEW S, NEW s \in Threads, CompleteInv(S, s), TypeOK', Only(s)', PutDoc(s)
    PROVE  CompleteInv(S, s)'
<1>1. /\ call[s].pc = "put" /\ call[s].todo = {}
      /\ call'[s].pc = "idle"
      /\ docs' = [docs EXCEPT ![call[s].id] = call[s].doc]
      /\ UNCHANGED <<cfs, index, ready>>
  BY DEF PutDoc, Return, Idle, CompleteInv, TypeOK
<1>2. /\ docs'[call[s].id] = call[s].doc /\ call[s].doc \in S
      /\ \A i \in Ids \ {call[s].id} : docs'[i] = docs[i]
  BY <1>1 DEF CompleteInv, CompleteCall, TypeOK, WellFormed
<1>3. CompleteCall(S, s)'
  BY <1>1 DEF CompleteCall
<1>4. ASSUME NEW f \in ready, NEW id \in Ids, docs'[id] # None
      PROVE  Indexed(docs[id], f, id)'
  <2>1. CASE id = call[s].id
    <3>1. Indexed(call[s].doc, f, id)
      BY <1>1, <2>1 DEF CompleteInv, CompleteCall
    <3> QED
      BY <1>1, <1>2, <2>1, <3>1 DEF Indexed, Entry
  <2>2. CASE id # call[s].id
    <3>1. Indexed(docs[id], f, id)
      BY <1>1, <1>2, <1>4, <2>2 DEF CompleteInv, CompleteEntries
    <3> QED
      BY <1>1, <1>2, <2>2, <3>1 DEF Indexed, Entry
  <2> QED
    BY <2>1, <2>2
<1>5. CompleteEntries(s)'
  BY <1>1, <1>4 DEF CompleteEntries
<1>6. \A id \in Ids : docs'[id] \in S \cup {None}
  BY <1>2 DEF CompleteInv
<1> QED
  BY <1>1, <1>3, <1>5, <1>6 DEF CompleteInv

LEMMA CompleteDeleteNames ==
    ASSUME NEW S, NEW s \in Threads, CompleteInv(S, s), TypeOK', Only(s)', DeleteNames(s)
    PROVE  CompleteInv(S, s)'
<1>1. /\ call[s].pc = "delete"
      /\ call'[s].pc = "remove"
      /\ call'[s].id = call[s].id
      /\ call'[s].doc = call[s].doc
      /\ call'[s].todo = IndexesOf(call[s].doc)
      /\ UNCHANGED <<docs, cfs, index, ready>>
  BY DEF DeleteNames, CompleteInv, TypeOK, Call
<1>2. InOrder(call[s])'
  BY <1>1 DEF InOrder, IndexesOf
<1>3. /\ call[s].id \in Ids /\ docs[call[s].id] = call[s].doc
      /\ call[s].doc # None
      /\ "delete" \in OpsOf[s] /\ call[s].doc \in S
  BY <1>1, NoneAssumption DEF CompleteInv, CompleteCall, TypeOK, WellFormed, Call
<1>4. \A f \in ready : Indexed(call[s].doc, f, call[s].id)
  BY <1>1, <1>3 DEF CompleteInv, CompleteEntries
<1>5. \A f \in ready : Indexed(call[s].doc, f, call[s].id)'
  BY <1>1, <1>4 DEF Indexed, Entry
<1>6. CompleteCall(S, s)'
  BY <1>1, <1>2, <1>3, <1>5 DEF CompleteCall
<1> QED
  BY <1>1, <1>6, CompleteQuiet DEF CompleteInv

\* Removing the entry of one document leaves those of the others alone.
LEMMA CompleteRemoveIndex ==
    ASSUME NEW S, NEW s \in Threads, CompleteInv(S, s), TypeOK', Only(s)', RemoveIndex(s)
    PROVE  CompleteInv(S, s)'
<1>1. PICK f \in Fields :
        /\ IsMin(f, call[s].todo)
        /\ index' = [index EXCEPT ![f] = @ \ {Entry(call[s].doc, f, call[s].id)}]
        /\ call' = [call EXCEPT ![s].todo = @ \ {f}]
  BY DEF RemoveIndex
<1>2. /\ call[s].pc = "remove"
      /\ call'[s].pc = "remove"
      /\ call'[s].id = call[s].id
      /\ call'[s].doc = call[s].doc
      /\ call'[s].todo = call[s].todo \ {f}
      /\ UNCHANGED <<docs, cfs, ready>>
  BY <1>1 DEF RemoveIndex, CompleteInv, TypeOK, Call
<1>3. /\ index'[f] = index[f] \ {Entry(call[s].doc, f, call[s].id)}
      /\ \A g \in Fields \ {f} : index'[g] = index[g]
      /\ ready \subseteq Fields
  BY <1>1 DEF CompleteInv, TypeOK
<1>4. InOrder(call[s])'
  BY <1>1, <1>2, InOrderStep DEF CompleteInv, CompleteCall
<1>5. \A g \in ready \cap call'[s].todo : Indexed(call[s].doc, g, call[s].id)'
  BY <1>2, <1>3 DEF CompleteInv, CompleteCall, Indexed, Entry
<1>6. CompleteCall(S, s)'
  BY <1>2, <1>4, <1>5 DEF CompleteInv, CompleteCall
<1>7. ASSUME NEW g \in ready, NEW id \in Ids, docs[id] # None, id # call[s].id
      PROVE  Indexed(docs[id], g, id)'
  <2>1. Indexed(docs[id], g, id)
    BY <1>7 DEF CompleteInv, CompleteEntries
  <2>2. Entry(docs[id], g, id) # Entry(call[s].doc, f, call[s].id)
    BY <1>7, EntryId
  <2>3. Entry(docs[id], g, id)' = Entry(docs[id], g, id) /\ docs' = docs
    BY <1>2 DEF Entry
  <2> QED
    BY <1>3, <2>1, <2>2, <2>3 DEF Indexed
<1>8. CompleteEntries(s)'
  BY <1>2, <1>7 DEF CompleteEntries
<1> QED
  BY <1>2, <1>6, <1>8 DEF CompleteInv

\* A deleteDocument of an orderly document is refused before it removes anything.
LEMMA CompleteRemoveRejected ==
    ASSUME NEW S, NEW s \in Threads, CompleteCalls(S, s), CompleteInv(S, s),
           TypeOK', Only(s)', RemoveRejected(s)
    PROVE  CompleteInv(S, s)'
<1>1. PICK f \in Fields : IsMin(f, call[s].todo) /\ Rejects(call[s].doc, f)
  BY DEF RemoveRejected
<1>2. /\ call[s].pc = "remove" /\ UNCHANGED <<docs, cfs, index, ready>>
      /\ call'[s].pc = "idle"
  BY DEF RemoveRejected, Return, Idle, CompleteInv, TypeOK
<1>3. f \in call[s].todo /\ hasField(call[s].doc, f)
  BY <1>1 DEF IsMin, CompleteInv, TypeOK, WellFormed
<1>4. /\ InOrder(call[s]) /\ Orderly(call[s].doc)
      /\ docs[call[s].id] = call[s].doc
  BY <1>2 DEF CompleteCalls, CompleteInv, CompleteCall
<1>5. Throws(call[s].doc[f])
  BY <1>1, <1>3, <1>4 DEF Rejects, InOrder
<1>6. ASSUME NEW g \in ready, hasField(call[s].doc, g)
      PROVE  g \in call[s].todo
  <2> SUFFICES ASSUME g \notin call[s].todo
               PROVE  FALSE
    OBVIOUS
  <2>1. g \in IndexesOf(call[s].doc) \ call[s].todo /\ g \in Fields
    BY <1>6 DEF IndexesOf, CompleteInv, TypeOK
  <2>2. g < f
    BY <1>3, <1>4, <2>1 DEF InOrder
  <2>3. f <= g
    BY <1>3, <1>4, <1>5, <1>6, <2>1 DEF Orderly
  <2> QED
    BY <2>1, <2>2, <2>3, FieldsAssumption
<1>7. \A g \in ready : Indexed(call[s].doc, g, call[s].id)
  BY <1>2, <1>6 DEF CompleteInv, CompleteCall, Indexed
<1>8. CompleteEntries(s)'
  BY <1>2, <1>4, <1>7 DEF CompleteInv, CompleteEntries, Indexed, Entry
<1>9. CompleteCall(S, s)'
  BY <1>2 DEF CompleteCall
<1> QED
  BY <1>2, <1>8, <1>9 DEF CompleteInv

LEMMA CompleteRemoveDoc ==
    ASSUME NEW S, NEW s \in Threads, CompleteInv(S, s), TypeOK', Only(s)', RemoveDoc(s)
    PROVE  CompleteInv(S, s)'
<1>1. /\ call[s].pc = "remove"
      /\ call'[s].pc = "idle"
      /\ docs' = [docs EXCEPT ![call[s].id] = None]
      /\ UNCHANGED <<cfs, index, ready>>
  BY DEF RemoveDoc, Return, Idle, CompleteInv, TypeOK
<1>2. \A i \in Ids : docs'[i] = IF i = call[s].id THEN None ELSE docs[i]
  BY <1>1 DEF CompleteInv, TypeOK
<1>3. CompleteCall(S, s)'
  BY <1>1 DEF CompleteCall
<1>4. CompleteEntries(s)'
  BY <1>1, <1>2 DEF CompleteInv, CompleteEntries, Indexed, Entry
<1> QED
  BY <1>1, <1>2, <1>3, <1>4 DEF CompleteInv

LEMMA CompleteOpenCursor ==
    ASSUME NEW S, NEW s \in Threads, CompleteInv(S, s), TypeOK', Only(s)', OpenCursor(s)
    PROVE  CompleteInv(S, s)'
<1>1. /\ call[s].pc = "cursor"
      /\ call'[s].pc = "fill"
      /\ call'[s].field = call[s].field
      /\ call'[s].rows = docs
      /\ UNCHANGED <<docs, cfs, index, ready>>
  BY DEF OpenCursor, CompleteInv, TypeOK, Call
<1>2. CompleteCall(S, s)'
  BY <1>1 DEF CompleteInv, CompleteCall
<1> QED
  BY <1>1, <1>2, CompleteQuiet DEF CompleteInv

LEMMA CompleteFillRow ==
    ASSUME NEW S, NEW s \in Threads, CompleteInv(S, s), TypeOK', Only(s)', FillRow(s)
    PROVE  CompleteInv(S, s)'
<1> DEFINE field == call[s].field
<1>1. PICK i \in Ids :
        /\ IsMin(i, RowsLeft(s))
        /\ hasField(call[s].rows[i], field) => ~Rejects(call[s].rows[i], field)
        /\ index' = IF hasField(call[s].rows[i], field)
                    THEN [index EXCEPT ![field] = @ \cup {Entry(call[s].rows[i], field, i)}]
                    ELSE index
        /\ call' = [call EXCEPT ![s].rows[i] = None]
  BY DEF FillRow
<1>2. /\ call[s].pc = "fill"
      /\ call'[s].pc = "fill"
      /\ call'[s].field = field
      /\ \A j \in Ids : call'[s].rows[j] = IF j = i THEN None ELSE call[s].rows[j]
      /\ UNCHANGED <<docs, cfs, ready>>
  BY <1>1 DEF FillRow, CompleteInv, TypeOK, Call
<1>3. call[s].rows[i] = docs[i]
  BY <1>1, <1>2 DEF IsMin, RowsLeft, CompleteInv, CompleteCall
<1>4. field \in Fields /\ ready \subseteq Fields
  BY <1>2 DEF CompleteInv, TypeOK, WellFormed
<1>5. \A g \in Fields : index[g] \subseteq index'[g]
  BY <1>1, <1>4 DEF CompleteInv, TypeOK
<1>6. Indexed(docs[i], field, i)'
  BY <1>1, <1>2, <1>3, <1>4 DEF Indexed, Rejects, Entry, CompleteInv, TypeOK
<1>7. ASSUME NEW j \in Ids, call'[s].rows[j] # docs[j]
      PROVE  call'[s].rows[j] = None /\ Indexed(docs[j], field, j)'
  <2>1. CASE j = i
    BY <1>2, <1>6, <2>1
  <2>2. CASE j # i
    <3>1. call[s].rows[j] = None /\ Indexed(docs[j], field, j)
      BY <1>2, <1>7, <2>2 DEF CompleteInv, CompleteCall
    <3> QED
      BY <1>2, <1>4, <1>5, <2>2, <3>1 DEF Indexed, Entry
  <2> QED
    BY <2>1, <2>2
<1>8. CompleteCall(S, s)'
  BY <1>2, <1>7 DEF CompleteInv, CompleteCall
<1>9. CompleteEntries(s)'
  BY <1>2, <1>4, <1>5 DEF CompleteInv, CompleteEntries, Indexed, Entry
<1> QED
  BY <1>2, <1>8, <1>9 DEF CompleteInv

LEMMA CompleteFillDone ==
    ASSUME NEW S, NEW s \in Threads, CompleteInv(S, s), TypeOK', Only(s)', FillDone(s)
    PROVE  CompleteInv(S, s)'
<1>1. /\ call[s].pc = "fill" /\ RowsLeft(s) = {}
      /\ call'[s].pc = "idle"
      /\ ready' = ready \cup {call[s].field}
      /\ UNCHANGED <<docs, cfs, index>>
  BY DEF FillDone, Return, Idle, CompleteInv, TypeOK
<1>2. call[s].field \in cfs
  BY <1>1 DEF CompleteInv, CompleteCall
<1>3. \A i \in Ids : docs[i] # None => Indexed(docs[i], call[s].field, i)
  BY <1>1 DEF RowsLeft, CompleteInv, CompleteCall
<1>4. CompleteEntries(s)'
  BY <1>1, <1>3 DEF CompleteInv, CompleteEntries, Indexed, Entry
<1>5. CompleteCall(S, s)'
  BY <1>1 DEF CompleteCall
<1> QED
  BY <1>1, <1>2, <1>4, <1>5 DEF CompleteInv

LEMMA CompleteNext ==
    ASSUME NEW S, NEW s \in Threads, CompleteCalls(S, s), CompleteInv(S, s), [Next]_vars
    PROVE  CompleteInv(S, s)'
<1>1. CASE UNCHANGED vars
  BY <1>1 DEF vars, CompleteInv, TypeOK, Only, CompleteCall, InOrder, IndexesOf,
              CompleteEntries, Indexed, Entry
<1>2. CASE Next
  <2>1. TypeOK' /\ Only(s)' /\ (Begin(s) \/ Continue(s) \/ Fails(s) \/ Crash)
    BY <1>2, SoloStep DEF CompleteCalls, CompleteInv
  <2>2. ~ScanFails(s) /\ ~CreateIndexFails(s)
    BY DEF ScanFails, CreateIndexFails, Fault, CompleteCalls
  <2>3. CASE Crash
    <3>1. call[s].pc # "remove" /\ call'[s] = Idle
      BY <2>3 DEF Crash, Fault, CompleteCalls, CompleteInv, CompleteCall
    <3>2. CompleteCall(S, s)'
      BY <3>1 DEF CompleteCall, Idle
    <3> QED
      BY <2>1, <2>3, <3>1, <3>2, CompleteQuiet DEF Crash, CompleteInv
  <2>4. CASE IOFails(s)
    <3>1. call[s].pc # "remove"
      BY <2>4 DEF IOFails, Fault, CompleteCalls, CompleteInv, CompleteCall
    <3> QED
      BY <2>1, <2>4, <3>1, CompleteReturn DEF IOFails
  <2>5. CASE PutRejected(s) \/ UpdateNotFound(s) \/ FillRejected(s)
    BY <2>1, <2>5, CompleteReturn DEF PutRejected, UpdateNotFound, FillRejected
  <2>6. CASE Begin(s)
    BY <2>1, <2>6, CompleteBegin
  <2>7. CASE Continue(s)
    BY <2>1, <2>5, <2>7, CompleteCreateNames, CompletePutIndex, CompletePutDoc,
       CompleteUpdateRead, CompleteDeleteNames, CompleteRemoveIndex, CompleteRemoveRejected,
       CompleteRemoveDoc, CompleteOpenCursor, CompleteFillRow, CompleteFillDone
       DEF Continue
  <2> QED
    BY <2>1, <2>2, <2>3, <2>4, <2>6, <2>7 DEF Fails
<1> QED
  BY <1>1, <1>2

(***************************************************************************)
(* One caller may use every operation, deleteDocument and createIndex      *)
(* included, and no stored document hides from an index that createIndex   *)
(* has returned OK for: an index filled while documents are there is as    *)
(* complete as one they are entered in when they are stored.  A crash or a *)
(* failing write does no harm either, unless documents are deleted.        *)
(***************************************************************************)
THEOREM SerialComplete ==
    ASSUME \E S \in SUBSET Doc, s \in Threads : CompleteCalls(S, s)
    PROVE  Spec => [](IndexComplete /\ ready \subseteq cfs)
<1>1. PICK S \in SUBSET Doc, s \in Threads : CompleteCalls(S, s)
  OBVIOUS
<1>2. Init => CompleteInv(S, s)
  BY CompleteInit
<1>3. CompleteInv(S, s) /\ [Next]_vars => CompleteInv(S, s)'
  BY <1>1, CompleteNext
<1>4. CompleteInv(S, s) => IndexComplete /\ ready \subseteq cfs
  BY DEF CompleteInv, CompleteEntries, Indexed, IndexComplete, BeingDeleted
<1> QED
  BY <1>2, <1>3, <1>4, PTL DEF Spec

===============================================================================
