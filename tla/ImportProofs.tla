----------------------------- MODULE ImportProofs -----------------------------
(***************************************************************************)
(* Proofs about Durable and Import: power loss takes no document away from *)
(* its indexes, and an import is no more than a thread that writes.        *)
(***************************************************************************)
EXTENDS Import, CollectionProofs, FiniteSetTheorems

-------------------------------------------------------------------------------
(***************************************************************************)
(* IndexComplete across power losses.                                      *)
(*                                                                         *)
(* What is on the disk may become the store at any moment, so everything   *)
(* that IndexComplete says of the store has to be said of the disk too: it *)
(* is one earlier moment of the store, and no index has become ready since *)
(* then.                                                                   *)
(***************************************************************************)
DiskIndexed(doc, f, id) ==
    hasField(doc, f) => ~Throws(doc[f]) /\ Entry(doc, f, id) \in disk.index[f]

DiskInv ==
    /\ disk \in [docs : [Ids -> Doc \cup {None}], index : [Fields -> SUBSET (Keys \X Ids)]]
    /\ \A f \in Fields \ cfs : disk.index[f] = {}
    /\ \A f \in ready, id \in Ids : disk.docs[id] # None => DiskIndexed(disk.docs[id], f, id)

DurableInv == WritersInv /\ DiskInv

\* The store itself is a moment that the disk may hold.
LEMMA HeldOnDisk ==
    ASSUME WritersInv, disk' = Held, UNCHANGED vars
    PROVE  DiskInv'
BY DEF Held, DiskInv, DiskIndexed, WritersInv, TypeOK, StoredIndexed, Indexed, vars

\* Writers make no index: the ready ones and the column families only go.
LEMMA WritersShrink ==
    ASSUME WritersOnly, WritersInv, [Next]_vars
    PROVE  ready' \subseteq ready /\ cfs' \subseteq cfs
<1>1. ASSUME NEW t \in Threads, Begin(t)
      PROVE  ready' \subseteq ready /\ cfs' \subseteq cfs
  <2>1. ~CallCreateIndex(t)
    BY DEF WritersOnly, CallCreateIndex
  <2> QED
    BY <1>1, <2>1 DEF Begin, CallCreate, CallUpdate, CallDelete, DeleteIndex
<1>2. ASSUME NEW t \in Threads, Continue(t)
      PROVE  ready' \subseteq ready /\ cfs' \subseteq cfs
  <2>1. ~FillDone(t)
    BY DEF WritersInv, FillDone
  <2> QED
    BY <1>2, <2>1
       DEF Continue, CreateNames, PutIndex, PutRejected, PutDoc, UpdateRead, UpdateNotFound,
           DeleteNames, RemoveIndex, RemoveRejected, RemoveDoc, OpenCursor, FillRow, FillRejected
<1>3. ASSUME NEW t \in Threads, Fails(t)
      PROVE  ready' \subseteq ready /\ cfs' \subseteq cfs
  <2>1. ~ScanFails(t)
    BY DEF WritersInv, ScanFails
  <2> QED
    BY <1>3, <2>1 DEF Fails, IOFails, CreateIndexFails
<1> QED
  BY <1>1, <1>2, <1>3 DEF Next, Crash, vars

LEMMA DiskStaysBehind ==
    ASSUME WritersOnly, DurableInv, Next, LogUnsynced
    PROVE  DurableInv'
<1>1. WritersInv'
  BY WritersNext DEF DurableInv
<1>2. ready' \subseteq ready /\ cfs' \subseteq cfs /\ ready' \subseteq cfs' /\ ready \subseteq Fields
  BY <1>1, WritersShrink DEF DurableInv, WritersInv, TypeOK
<1>3. /\ disk'.docs = disk.docs
      /\ disk'.index = [f \in Fields |-> IF f \in cfs \ cfs' THEN {} ELSE disk.index[f]]
      /\ disk' \in [docs : [Ids -> Doc \cup {None}], index : [Fields -> SUBSET (Keys \X Ids)]]
  BY DEF LogUnsynced, DurableInv, DiskInv
<1>4. \A f \in Fields \ cfs' : disk'.index[f] = {}
  BY <1>3 DEF DurableInv, DiskInv
<1>5. \A f \in ready' : f \in ready /\ disk'.index[f] = disk.index[f]
  BY <1>2, <1>3
<1>6. ASSUME NEW f \in ready', NEW id \in Ids, disk'.docs[id] # None
      PROVE  DiskIndexed(disk.docs[id], f, id)'
  BY <1>3, <1>5, <1>6 DEF DurableInv, DiskInv, DiskIndexed
<1> QED
  BY <1>1, <1>3, <1>4, <1>6 DEF DurableInv, DiskInv

LEMMA PowerLossKeeps ==
    ASSUME DurableInv, PowerLoss
    PROVE  DurableInv'
<1>1. \A t \in Threads : call'[t] = Idle /\ call'[t].pc = "idle" /\ WellFormed(call'[t])
  BY IdleWellFormed DEF PowerLoss, Idle
<1>2. call' \in [Threads -> Call]
  BY IdleType DEF PowerLoss
<1>3. faults' \in 0 .. MaxFaults
  BY FaultsAssumption DEF PowerLoss, Fault, DurableInv, WritersInv, TypeOK
<1>4. TypeOK'
  BY <1>1, <1>2, <1>3 DEF PowerLoss, DurableInv, DiskInv, WritersInv, TypeOK
<1>5. StoredIndexed'
  BY DEF PowerLoss, DurableInv, DiskInv, DiskIndexed, StoredIndexed, Indexed
<1>6. WritersInv'
  BY <1>1, <1>4, <1>5 DEF PowerLoss, DurableInv, WritersInv, Entered
<1>7. DiskInv'
  BY DEF PowerLoss, DurableInv, DiskInv, DiskIndexed
<1> QED
  BY <1>6, <1>7 DEF DurableInv

(***************************************************************************)
(* Threads that insert, overwrite, update and drop indexes, in any number  *)
(* and interleaving, never leave a stored document that an index cannot    *)
(* find, even when the machine loses power and with it any number of       *)
(* acknowledged writes, as often as it likes.                              *)
(***************************************************************************)
THEOREM DurableComplete ==
    ASSUME WritersOnly
    PROVE  DurableSpec => []IndexComplete
<1>1. DurableInit => DurableInv
  <2> SUFFICES ASSUME DurableInit
               PROVE  DurableInv
    OBVIOUS
  <2>1. WritersInv
    BY WritersInit DEF DurableInit
  <2> QED
    BY <2>1 DEF DurableInit, Held, DurableInv, DiskInv, DiskIndexed, WritersInv, TypeOK,
                StoredIndexed, Indexed
<1>2. DurableInv /\ [DurableNext]_durableVars => DurableInv'
  <2> SUFFICES ASSUME DurableInv, [DurableNext]_durableVars
               PROVE  DurableInv'
    OBVIOUS
  <2>1. CASE Persist
    <3>1. WritersInv'
      BY <2>1, WritersNext DEF Persist, DurableInv
    <3> QED
      BY <2>1, <3>1, HeldOnDisk DEF Persist, DurableInv
  <2>2. CASE UNCHANGED durableVars
    <3>1. WritersInv'
      BY <2>2, WritersNext DEF durableVars, DurableInv
    <3> QED
      BY <2>2, <3>1 DEF durableVars, vars, DurableInv, DiskInv, DiskIndexed
  <2> QED
    BY <2>1, <2>2, DiskStaysBehind, PowerLossKeeps DEF DurableNext
<1>3. DurableInv => IndexComplete
  BY DEF DurableInv, WritersInv, StoredIndexed, Indexed, IndexComplete
<1> QED
  BY <1>1, <1>2, <1>3, PTL DEF DurableSpec

-------------------------------------------------------------------------------
(***************************************************************************)
(* An import is a writer.                                                  *)
(*                                                                         *)
(* The items that have been counted are the items that have been passed,   *)
(* so the id made up for an item is that of its place; and the thread that *)
(* imports is in a createDocument, of the item in hand, exactly while the  *)
(* import says so.                                                         *)
(***************************************************************************)
DurableTyped ==
    /\ TypeOK
    /\ disk \in [docs : [Ids -> Doc \cup {None}], index : [Fields -> SUBSET (Keys \X Ids)]]
    /\ \A f \in Fields \ cfs : disk.index[f] = {}

ImportType ==
    /\ import \in [pc : {"idle", "run", "create", "ok", "error"}, file : Seq(Items), at : Nat \ {0},
                   successCount : Nat, failureCount : Nat]
    /\ alone \in BOOLEAN
    /\ import.successCount + import.failureCount = import.at - 1
    /\ import.pc # "idle" => import.file \in Files /\ import.at <= Len(import.file) + 1

InCreate ==
    /\ import.at <= Len(import.file)
    /\ Item.kind = "object"
    /\ call[Importer].pc \in {"create", "put"}
    /\ call[Importer].id = DocId
    /\ call[Importer].doc = Item.doc

ImportInv ==
    /\ DurableTyped
    /\ ImportType
    /\ IF import.pc = "create" THEN InCreate ELSE call[Importer].pc = "idle"

LEMMA DurableTypedNext ==
    ASSUME DurableTyped, [DurableNext]_durableVars
    PROVE  DurableTyped'
<1>1. CASE Next /\ LogUnsynced
  <2>1. TypeOK'
    BY <1>1, NextType DEF DurableTyped
  <2> QED
    BY <1>1, <2>1 DEF LogUnsynced, DurableTyped
<1>2. CASE Persist
  BY <1>2, NextType DEF Persist, Held, DurableTyped, TypeOK, vars
<1>3. CASE PowerLoss
  <2>1. \A t \in Threads : call'[t] = Idle /\ WellFormed(call'[t])
    BY <1>3, IdleWellFormed DEF PowerLoss
  <2>2. call' \in [Threads -> Call]
    BY <1>3, IdleType DEF PowerLoss
  <2>3. faults' \in 0 .. MaxFaults
    BY <1>3, FaultsAssumption DEF PowerLoss, Fault, DurableTyped, TypeOK
  <2> QED
    BY <1>3, <2>1, <2>2, <2>3 DEF PowerLoss, DurableTyped, TypeOK
<1>4. CASE UNCHANGED durableVars
  BY <1>4 DEF durableVars, vars, DurableTyped, TypeOK
<1> QED
  BY <1>1, <1>2, <1>3, <1>4 DEF DurableNext

\* The item in hand and the id it is stored under.
LEMMA ItemType ==
    ASSUME ImportType, import.pc # "idle", import.at <= Len(import.file)
    PROVE  /\ Item \in Items
           /\ Item.kind = "object" => DocId \in Ids /\ Item.doc \in Inputs
<1>1. Item \in Items /\ import.at \in 1 .. Len(import.file)
  BY DEF Item, ImportType
<1>2. import.successCount + import.failureCount = import.at - 1 /\ import.file \in Files
  BY DEF ImportType
<1>3. ASSUME Item.kind = "object", Item.id = None
      PROVE  PositionId[import.successCount + import.failureCount] \in Ids
  BY <1>1, <1>2, <1>3, ImportAssumption DEF Item
<1> QED
  BY <1>1, <1>3 DEF Items, DocId

\* Every step of the import is one a thread that writes could make.
LEMMA ImportWrites ==
    ASSUME ImportInv, [ImportNext]_importVars
    PROVE  [DurableNext]_durableVars
<1>1. ASSUME ImportItem
      PROVE  Next /\ LogUnsynced
  <2>1. DocId \in Ids /\ Item.doc \in Inputs
    BY <1>1, ItemType DEF ImportItem, NextItem, ImportInv
  <2>2. call[Importer].pc = "idle" /\ "overwrite" \in OpsOf[Importer]
    BY <1>1, ImportAssumption DEF ImportItem, NextItem, ImportInv
  <2>3. CallCreate(Importer)
    BY <1>1, <2>1, <2>2 DEF ImportItem, CallCreate
  <2> QED
    BY <1>1, <2>3, ImportAssumption DEF ImportItem, Next, Begin
<1>2. ASSUME Importing \/ ItemStored \/ ItemRejected \/ ItemFails
      PROVE  Next /\ LogUnsynced
  BY <1>2, ImportAssumption
     DEF Importing, ItemStored, ItemRejected, ItemFails, Next, Continue, Fails
<1>3. CASE ImportStep
  BY <1>1, <1>2, <1>3
     DEF ImportStep, StartImport, SkipItem, ItemThrows, ImportEnds, DurableNext
<1>4. CASE OtherStep
  BY <1>4 DEF OtherStep, Next, DurableNext
<1>5. CASE Stop
  BY <1>5 DEF Stop, Next, DurableNext
<1> QED
  BY <1>3, <1>4, <1>5 DEF ImportNext, DurableNext, importVars

\* A step of one thread leaves the call of another alone.
LEMMA OthersStay ==
    ASSUME TypeOK, NEW t \in Threads, NEW u \in Threads, t # u,
           Begin(t) \/ Continue(t) \/ Fails(t)
    PROVE  call'[u] = call[u]
<1>1. CASE Begin(t)
  BY <1>1 DEF Begin, CallCreate, CallUpdate, CallDelete, CallCreateIndex, DeleteIndex, TypeOK
<1>2. CASE Continue(t)
  BY <1>2 DEF Continue, CreateNames, PutIndex, PutRejected, PutDoc, UpdateRead, UpdateNotFound,
              DeleteNames, RemoveIndex, RemoveRejected, RemoveDoc, OpenCursor, FillRow,
              FillRejected, FillDone, Return, TypeOK
<1>3. CASE Fails(t)
  BY <1>3 DEF Fails, IOFails, ScanFails, CreateIndexFails, Return, TypeOK
<1> QED
  BY <1>1, <1>2, <1>3

LEMMA ImportInitInv == ImportInit => ImportInv
<1> SUFFICES ASSUME ImportInit
             PROVE  ImportInv
  OBVIOUS
<1>1. TypeOK /\ call[Importer].pc = "idle"
  BY InitType, ImportAssumption DEF ImportInit, DurableInit, Init, Idle
<1>2. DurableTyped
  BY <1>1 DEF ImportInit, DurableInit, Init, Held, DurableTyped, TypeOK
<1>3. ImportType /\ import.pc = "idle"
  BY DEF ImportInit, ImportType, NoImport
<1> QED
  BY <1>1, <1>2, <1>3 DEF ImportInv

\* An item that has been passed is counted once.
LEMMA CountedType ==
    ASSUME ImportType, import.pc # "idle", import.at <= Len(import.file), alone' \in BOOLEAN,
           import' = Succeeded \/ import' = Failed
    PROVE  /\ ImportType'
           /\ import'.pc = "run" /\ import'.file = import.file /\ import'.at = import.at + 1
           /\ import' = Succeeded => import'.failureCount = import.failureCount
           /\ import' = Failed => import'.failureCount = import.failureCount + 1
<1>1. import.at \in Nat \ {0} /\ Len(import.file) \in Nat
  BY DEF ImportType
<1> DEFINE R == [pc : {"idle", "run", "create", "ok", "error"}, file : Seq(Items), at : Nat \ {0},
                 successCount : Nat, failureCount : Nat]
<1>2. import \in R
  BY DEF ImportType
<1>4. ASSUME import' = Succeeded
      PROVE  /\ import'.pc = "run" /\ import'.file = import.file /\ import'.at = import.at + 1
             /\ import'.successCount = import.successCount + 1
             /\ import'.failureCount = import.failureCount
             /\ import' \in R
  <2>1. import' = [pc |-> "run", file |-> import.file, at |-> import.at + 1,
                   successCount |-> import.successCount + 1,
                   failureCount |-> import.failureCount]
    BY <1>2, <1>4 DEF Succeeded
  <2>2. /\ import.file \in Seq(Items) /\ import.at + 1 \in Nat \ {0}
        /\ import.successCount + 1 \in Nat /\ import.failureCount \in Nat
    BY <1>1, <1>2
  <2> QED
    BY <2>1, <2>2
<1>5. ASSUME import' = Failed
      PROVE  /\ import'.pc = "run" /\ import'.file = import.file /\ import'.at = import.at + 1
             /\ import'.successCount = import.successCount
             /\ import'.failureCount = import.failureCount + 1
             /\ import' \in R
  <2>1. import' = [pc |-> "run", file |-> import.file, at |-> import.at + 1,
                   successCount |-> import.successCount,
                   failureCount |-> import.failureCount + 1]
    BY <1>2, <1>5 DEF Failed
  <2>2. /\ import.file \in Seq(Items) /\ import.at + 1 \in Nat \ {0}
        /\ import.successCount \in Nat /\ import.failureCount + 1 \in Nat
    BY <1>1, <1>2
  <2> QED
    BY <2>1, <2>2
<1>3. /\ import' \in R
      /\ import'.pc = "run" /\ import'.file = import.file /\ import'.at = import.at + 1
  BY <1>4, <1>5
<1>6. import'.successCount + import'.failureCount = import'.at - 1
  <2>1. /\ import.successCount \in Nat /\ import.failureCount \in Nat /\ import.at \in Nat
        /\ import.successCount + import.failureCount = import.at - 1
    BY <1>1, <1>2 DEF ImportType
  <2>2. CASE import' = Succeeded
    <3>1. /\ import'.successCount = import.successCount + 1 /\ import'.failureCount = import.failureCount
          /\ import'.at = import.at + 1
      BY <1>4, <2>2
    <3> QED
      BY ONLY <2>1, <3>1
  <2>3. CASE import' = Failed
    <3>1. /\ import'.successCount = import.successCount /\ import'.failureCount = import.failureCount + 1
          /\ import'.at = import.at + 1
      BY <1>5, <2>3
    <3> QED
      BY ONLY <2>1, <3>1
  <2> QED
    BY <2>2, <2>3
<1>7. import'.file \in Files /\ import'.at <= Len(import'.file) + 1
  BY <1>1, <1>3 DEF ImportType
<1> QED
  BY <1>3, <1>4, <1>5, <1>6, <1>7 DEF ImportType

LEMMA ImportKeeps ==
    ASSUME ImportInv, [ImportNext]_importVars
    PROVE  ImportInv'
<1>1. DurableTyped'
  BY ImportWrites, DurableTypedNext DEF ImportInv
<1>t. TypeOK /\ Importer \in Threads /\ call \in [Threads -> Call] /\ ImportType
  BY ImportAssumption DEF ImportInv, DurableTyped, TypeOK
<1>2. CASE StartImport
  <2>1. PICK file \in Files : import' = [NoImport EXCEPT !.pc = "run", !.file = file]
    BY <1>2 DEF StartImport
  <2>2. file \in Seq(Items) /\ Len(file) \in Nat
    BY ImportAssumption
  <2>3. import' = [pc |-> "run", file |-> file, at |-> 1, successCount |-> 0, failureCount |-> 0]
    BY <2>1 DEF NoImport
  <2>4. call'[Importer].pc = "idle" /\ alone' \in BOOLEAN
    BY <1>2 DEF StartImport, durableVars, vars, OthersIdle
  <2> QED
    BY <1>1, <2>2, <2>3, <2>4 DEF ImportInv, ImportType
<1>3. CASE SkipItem \/ ItemThrows \/ ImportEnds
  <2>1. call'[Importer].pc = "idle"
    BY <1>3 DEF SkipItem, ItemThrows, ImportEnds, NextItem, ImportInv, durableVars, vars
  <2>2. CASE SkipItem
    BY <1>1, <1>t, <2>1, <2>2, CountedType DEF SkipItem, NextItem, ImportInv, ImportType
  <2>3. CASE ItemThrows \/ ImportEnds
    <3>1. ImportType' /\ import'.pc # "create"
      BY <1>t, <2>3 DEF ItemThrows, ImportEnds, NextItem, ImportType
    <3> QED
      BY <1>1, <2>1, <3>1 DEF ImportInv
  <2> QED
    BY <1>3, <2>2, <2>3
<1>4. CASE ImportItem
  <2> DEFINE c == [Idle EXCEPT !.pc = "create", !.id = DocId, !.doc = Item.doc]
  <2>1. call'[Importer] = c /\ c.pc = "create" /\ c.id = DocId /\ c.doc = Item.doc
    BY <1>4, <1>t DEF ImportItem, Idle
  <2>2. /\ ImportType' /\ import'.pc = "create"
        /\ import'.file = import.file /\ import'.at = import.at
        /\ import'.successCount = import.successCount
        /\ import'.failureCount = import.failureCount
    BY <1>4, <1>t DEF ImportItem, NextItem, ImportType
  <2>3. import.at <= Len(import.file) /\ Item.kind = "object"
    BY <1>4 DEF ImportItem, NextItem
  <2>4. Item' = Item
    BY <2>2 DEF Item
  <2>5. DocId' = DocId
    BY <2>2, <2>4 DEF DocId
  <2>6. InCreate'
    BY <2>1, <2>2, <2>3, <2>4, <2>5 DEF InCreate
  <2> QED
    BY <1>1, <2>2, <2>6 DEF ImportInv
<1>5. CASE Importing
  <2>1. /\ call'[Importer].pc = "put"
        /\ call'[Importer].id = call[Importer].id
        /\ call'[Importer].doc = call[Importer].doc
    BY <1>5, <1>t DEF Importing, CreateNames, PutIndex, Call
  <2> QED
    BY <1>1, <1>5, <1>t, <2>1 DEF Importing, ImportInv, ImportType, InCreate, DocId, Item
<1>6. CASE ItemStored \/ ItemRejected \/ ItemFails
  <2>1. call'[Importer].pc = "idle"
    BY <1>6, <1>t DEF ItemStored, ItemRejected, ItemFails, PutDoc, PutRejected, IOFails, Return, Idle
  <2>2. import.pc = "create" /\ import.at <= Len(import.file)
    BY <1>6 DEF ItemStored, ItemRejected, ItemFails, ImportInv, InCreate
  <2>3. \/ import' = [import EXCEPT !.pc = "error"]
        \/ import' = Succeeded
        \/ import' = Failed
    BY <1>6 DEF ItemStored, ItemRejected, ItemFails
  <2>4. alone' \in BOOLEAN
    BY <1>6, <1>t DEF ItemStored, ItemRejected, ItemFails, ImportType
  <2>5. CASE import' = [import EXCEPT !.pc = "error"]
    BY <1>1, <1>t, <2>1, <2>2, <2>4, <2>5 DEF ImportInv, ImportType
  <2> QED
    BY <1>1, <1>t, <2>1, <2>2, <2>3, <2>4, <2>5, CountedType DEF ImportInv
<1>7. CASE OtherStep
  <2>1. call'[Importer] = call[Importer]
    BY <1>7, <1>t, OthersStay DEF OtherStep
  <2>2. ImportType'
    BY <1>7, <1>t DEF OtherStep, ImportType, OthersIdle
  <2> QED
    BY <1>1, <1>7, <2>1, <2>2 DEF OtherStep, ImportInv, InCreate, DocId, Item
<1>8. CASE Stop
  <2>1. call'[Importer].pc = "idle"
    BY <1>8, <1>t DEF Stop, Crash, PowerLoss, Idle
  <2> QED
    BY <1>1, <1>8, <1>t, <2>1 DEF Stop, NoImport, ImportInv, ImportType
<1>9. CASE (Persist /\ UNCHANGED <<import, alone>>) \/ UNCHANGED importVars
  BY <1>1, <1>9 DEF Persist, importVars, durableVars, vars, ImportInv, ImportType, InCreate, DocId, Item
<1> QED
  BY <1>2, <1>3, <1>4, <1>5, <1>6, <1>7, <1>8, <1>9 DEF ImportNext, ImportStep

(***************************************************************************)
(* importFromJsonFile does nothing to the collection but createDocument,   *)
(* one document after the other: whatever holds of a thread that creates   *)
(* documents holds of one that imports files.                              *)
(***************************************************************************)
THEOREM ImportIsWriter == ImportSpec => DurableSpec
<1>1. ImportInit => DurableInit
  BY DEF ImportInit
<1>2. ImportInv /\ [ImportNext]_importVars => [DurableNext]_durableVars
  BY ImportWrites
<1>3. ImportInv /\ [ImportNext]_importVars => ImportInv'
  BY ImportKeeps
<1> QED
  BY <1>1, <1>2, <1>3, ImportInitInv, PTL DEF ImportSpec, DurableSpec

(***************************************************************************)
(* Files imported beside writers, with everything that may fail, leave no  *)
(* stored document that an index cannot find.                              *)
(***************************************************************************)
THEOREM ImportComplete ==
    ASSUME WritersOnly
    PROVE  ImportSpec => []IndexComplete
BY ImportIsWriter, DurableComplete, PTL

-------------------------------------------------------------------------------
(***************************************************************************)
(* ImportWhole.                                                            *)
(*                                                                         *)
(* It is inductive once two things are known: an item that is no object is *)
(* always counted as a failure, so that one more failure than those rules  *)
(* the import out for good; and while nobody else has written, every other *)
(* thread is idle, so that a step of theirs can only drop an index.        *)
(***************************************************************************)
Seen(file, at, kind) == {i \in 1 .. at - 1 : file[i].kind = kind}

LEMMA SeenNext ==
    ASSUME NEW file, NEW at \in Nat \ {0}, NEW kind
    PROVE  /\ file[at].kind = kind => Seen(file, at + 1, kind) = Seen(file, at, kind) \cup {at}
           /\ file[at].kind # kind => Seen(file, at + 1, kind) = Seen(file, at, kind)
BY DEF Seen

LEMMA SeenFinite ==
    ASSUME NEW file, NEW at \in Nat \ {0}, NEW kind
    PROVE  IsFiniteSet(Seen(file, at, kind)) /\ Cardinality(Seen(file, at, kind)) \in Nat
<1>1. IsFiniteSet(1 .. at - 1)
  BY FS_Interval
<1>2. Seen(file, at, kind) \subseteq 1 .. at - 1
  BY DEF Seen
<1>3. IsFiniteSet(Seen(file, at, kind))
  BY <1>1, <1>2, FS_Subset
<1> QED
  BY <1>3, FS_CardinalityType

LEMMA SeenCount ==
    ASSUME NEW file, NEW at \in Nat \ {0}, NEW kind
    PROVE  Cardinality(Seen(file, at + 1, kind)) =
               Cardinality(Seen(file, at, kind)) + IF file[at].kind = kind THEN 1 ELSE 0
<1>0. at \notin Seen(file, at, kind)
  BY DEF Seen
<1>1. at \notin Seen(file, at, kind) /\ IsFiniteSet(Seen(file, at, kind))
  BY <1>0, SeenFinite
<1>2. Cardinality(Seen(file, at, kind)) \in Nat
  BY SeenFinite
<1>3. CASE file[at].kind = kind
  <2>1. Cardinality(Seen(file, at, kind) \cup {at}) = Cardinality(Seen(file, at, kind)) + 1
    BY <1>1, FS_AddElement
  <2>2. Seen(file, at + 1, kind) = Seen(file, at, kind) \cup {at}
    BY <1>3, SeenNext
  <2> QED
    BY <1>3, <2>1, <2>2
<1>4. CASE file[at].kind # kind
  BY <1>2, <1>4, SeenNext
<1> QED
  BY <1>3, <1>4

FailuresCounted == import.failureCount >= Cardinality(ItemsSeen("other"))

WholeInv ==
    /\ ImportInv
    /\ FailuresCounted
    /\ alone => OthersIdle
    /\ ImportWhole

\* What is said of the import depends on these parts of it alone.
LEMMA WholeSame ==
    ASSUME WholeInv, docs' = docs, alone' = TRUE => alone = TRUE, alone' \in BOOLEAN,
           import'.file = import.file, import'.at = import.at,
           import'.failureCount = import.failureCount,
           import'.pc \in {"run", "create", "ok"} => import.pc \in {"run", "create", "ok"}
    PROVE  FailuresCounted' /\ ImportWhole'
<1>1. \A kind : ItemsSeen(kind)' = ItemsSeen(kind)
  BY DEF ItemsSeen
<1>2. \A i : IdOfItem(i)' = IdOfItem(i)
  BY DEF IdOfItem
<1>3. FailuresCounted'
  BY <1>1 DEF WholeInv, FailuresCounted
<1>4. ASSUME import'.pc \in {"run", "create", "ok"}, alone',
             import'.failureCount = Cardinality(ItemsSeen("other")')
      PROVE  /\ import.pc \in {"run", "create", "ok"} /\ alone
             /\ import.failureCount = Cardinality(ItemsSeen("other"))
  BY <1>1, <1>4
<1>5. ImportWhole'
  BY <1>1, <1>2, <1>4 DEF WholeInv, ImportWhole
<1> QED
  BY <1>3, <1>5

\* An item counted as a failure: no object, or the import is whole no more.
LEMMA WholeFailed ==
    ASSUME WholeInv, import' = Failed, alone' = alone, docs' = docs,
           import.pc \in {"run", "create"}, import.at <= Len(import.file)
    PROVE  FailuresCounted' /\ ImportWhole'
<1>1. /\ import'.file = import.file /\ import'.at = import.at + 1
      /\ import'.failureCount = import.failureCount + 1
  BY CountedType DEF WholeInv, ImportInv, ImportType
<1>2. import.at \in Nat \ {0} /\ import.failureCount \in Nat
  BY DEF WholeInv, ImportInv, ImportType
<1>3. \A kind : /\ ItemsSeen(kind) = Seen(import.file, import.at, kind)
                /\ ItemsSeen(kind)' = Seen(import.file, import.at + 1, kind)
  BY <1>1 DEF ItemsSeen, Seen
<1>4. Cardinality(ItemsSeen("other")) \in Nat
  BY <1>2, <1>3, SeenFinite
<1>5. Cardinality(ItemsSeen("other")') =
          Cardinality(ItemsSeen("other")) + IF import.file[import.at].kind = "other" THEN 1 ELSE 0
  BY <1>2, <1>3, SeenCount
<1>6. import.failureCount >= Cardinality(ItemsSeen("other"))
  BY DEF WholeInv, FailuresCounted
<1>7. FailuresCounted'
  BY <1>1, <1>2, <1>4, <1>5, <1>6 DEF FailuresCounted
<1>8. CASE import.file[import.at].kind # "other"
  <2>1. import'.failureCount # Cardinality(ItemsSeen("other")')
    BY <1>1, <1>2, <1>4, <1>5, <1>6, <1>8
  <2> QED
    BY <1>7, <2>1 DEF ImportWhole
<1>9. CASE import.file[import.at].kind = "other"
  <2>1. ItemsSeen("object")' = ItemsSeen("object")
    BY <1>2, <1>3, <1>9, SeenNext
  <2>2. \A i : IdOfItem(i)' = IdOfItem(i)
    BY <1>1 DEF IdOfItem
  <2>3. import'.failureCount = Cardinality(ItemsSeen("other")')
          => import.failureCount = Cardinality(ItemsSeen("other"))
    BY <1>1, <1>2, <1>4, <1>5, <1>9
  <2>4. ImportWhole'
    BY <1>1, <2>1, <2>2, <2>3 DEF WholeInv, ImportWhole
  <2> QED
    BY <1>7, <2>4
<1> QED
  BY <1>8, <1>9

LEMMA WholeStored ==
    ASSUME WholeInv, ItemStored
    PROVE  FailuresCounted' /\ ImportWhole'
<1>1. /\ import.pc = "create" /\ import' = Succeeded /\ alone' = alone /\ alone \in BOOLEAN
      /\ import.at <= Len(import.file) /\ Item.kind = "object"
      /\ call[Importer].id = DocId /\ call[Importer].doc = Item.doc
      /\ docs' = [docs EXCEPT ![DocId] = Item.doc]
  BY DEF WholeInv, ImportInv, ImportType, InCreate, ItemStored, PutDoc
<1>2. /\ import'.file = import.file /\ import'.at = import.at + 1
      /\ import'.failureCount = import.failureCount
  BY <1>1, CountedType DEF WholeInv, ImportInv
<1>3. import.at \in Nat \ {0} /\ import.failureCount \in Nat
  BY DEF WholeInv, ImportInv, ImportType
<1>4. \A kind : /\ ItemsSeen(kind) = Seen(import.file, import.at, kind)
                /\ ItemsSeen(kind)' = Seen(import.file, import.at + 1, kind)
  BY <1>2 DEF ItemsSeen, Seen
<1>5. ItemsSeen("other")' = ItemsSeen("other")
  BY <1>1, <1>3, <1>4, SeenNext DEF Item
<1>6. FailuresCounted'
  BY <1>2, <1>5 DEF WholeInv, FailuresCounted
<1>7. ItemsSeen("object")' = ItemsSeen("object") \cup {import.at}
  <2>1. import.file[import.at].kind = "object"
    BY <1>1 DEF Item
  <2>2. Seen(import.file, import.at + 1, "object") =
            Seen(import.file, import.at, "object") \cup {import.at}
    BY <1>3, <2>1, SeenNext
  <2> QED
    BY <1>4, <2>2
<1>8. \A i : IdOfItem(i)' = IdOfItem(i)
  BY <1>2 DEF IdOfItem
<1>9. IdOfItem(import.at) = DocId
  BY DEF IdOfItem, DocId, Item, WholeInv, ImportInv, ImportType
<1>10. DocId \in Ids /\ docs \in [Ids -> Doc \cup {None}]
  BY <1>1, ItemType DEF WholeInv, ImportInv, DurableTyped, TypeOK
<1>11. \A i \in ItemsSeen("object") : i \in Nat /\ import.at > i
  BY <1>3 DEF ItemsSeen
<1>12. ASSUME alone, import.failureCount = Cardinality(ItemsSeen("other")),
              NEW i \in ItemsSeen("object") \cup {import.at},
              \A j \in ItemsSeen("object") \cup {import.at} : j > i => IdOfItem(j) # IdOfItem(i)
       PROVE  docs'[IdOfItem(i)] = import.file[i].doc
  <2>1. CASE i = import.at
    BY <1>1, <1>9, <1>10, <2>1 DEF Item
  <2>2. CASE i \in ItemsSeen("object")
    <3>1. docs[IdOfItem(i)] = import.file[i].doc
      BY <1>1, <1>12, <2>2 DEF WholeInv, ImportWhole
    <3>2. IdOfItem(i) # DocId
      BY <1>9, <1>11, <1>12, <2>2
    <3> QED
      BY <1>1, <1>10, <3>1, <3>2
  <2> QED
    BY <1>12, <2>1, <2>2
<1>13. ImportWhole'
  BY <1>1, <1>2, <1>5, <1>7, <1>8, <1>12 DEF ImportWhole
<1> QED
  BY <1>6, <1>13

\* A step that begins and ends with a thread idle stores and deletes nothing.
LEMMA IdleStep ==
    ASSUME TypeOK, NEW t \in Threads, call[t].pc = "idle", call'[t].pc = "idle",
           Begin(t) \/ Continue(t) \/ Fails(t)
    PROVE  docs' = docs
<1>1. CASE Begin(t)
  BY <1>1 DEF Begin, CallCreate, CallUpdate, CallDelete, CallCreateIndex, DeleteIndex
<1>2. CASE Continue(t)
  BY <1>2 DEF Continue, CreateNames, PutIndex, PutRejected, PutDoc, UpdateRead, UpdateNotFound,
              DeleteNames, RemoveIndex, RemoveRejected, RemoveDoc, OpenCursor, FillRow,
              FillRejected, FillDone
<1>3. CASE Fails(t)
  BY <1>3 DEF Fails, IOFails, ScanFails, CreateIndexFails
<1> QED
  BY <1>1, <1>2, <1>3

LEMMA WholeOther ==
    ASSUME WholeInv, OtherStep
    PROVE  FailuresCounted' /\ ImportWhole'
<1>1. import' = import /\ alone' = (alone /\ OthersIdle') /\ alone' \in BOOLEAN
  BY DEF OtherStep, OthersIdle, WholeInv, ImportInv, ImportType
<1>2. CASE alone'
  <2>1. OthersIdle /\ OthersIdle' /\ alone
    BY <1>1, <1>2 DEF WholeInv
  <2>2. PICK t \in Threads \ {Importer} : Begin(t) \/ Continue(t) \/ Fails(t)
    BY DEF OtherStep
  <2>3. docs' = docs
    BY <2>1, <2>2, IdleStep DEF OthersIdle, WholeInv, ImportInv, DurableTyped
  <2> QED
    BY <1>1, <2>1, <2>3, WholeSame
<1>3. CASE ~alone'
  <2>1. FailuresCounted'
    BY <1>1 DEF WholeInv, FailuresCounted, ItemsSeen
  <2> QED
    BY <1>3, <2>1 DEF ImportWhole
<1> QED
  BY <1>2, <1>3

\* No step of the import, of the disk or of a power loss wakes another thread.
LEMMA AloneStep ==
    ASSUME WholeInv, ImportInv', [ImportNext]_importVars, alone'
    PROVE  OthersIdle'
<1>1. CASE StartImport
  BY <1>1 DEF StartImport, durableVars, vars, OthersIdle
<1>2. CASE OtherStep
  BY <1>2 DEF OtherStep
<1>3. CASE Stop
  <2>1. \A t \in Threads : call'[t].pc = "idle"
    BY <1>3 DEF Stop, Crash, PowerLoss, Idle
  <2> QED
    BY <2>1 DEF OthersIdle
<1>4. CASE ImportItem \/ Importing \/ ItemStored \/ ItemRejected \/ ItemFails
  <2>1. OthersIdle
    BY <1>4 DEF ImportItem, Importing, ItemStored, ItemRejected, ItemFails, WholeInv
  <2>2. \A u \in Threads \ {Importer} : call'[u] = call[u]
    <3>1. TypeOK /\ Importer \in Threads
      BY ImportAssumption DEF WholeInv, ImportInv, DurableTyped
    <3>2. CASE ImportItem
      BY <3>1, <3>2 DEF ImportItem, TypeOK
    <3>3. CASE Importing \/ ItemStored \/ ItemRejected \/ ItemFails
      <4>1. Begin(Importer) \/ Continue(Importer) \/ Fails(Importer)
        BY <3>3 DEF Importing, ItemStored, ItemRejected, ItemFails, Continue, Fails
      <4> QED
        BY <3>1, <4>1, OthersStay
    <3> QED
      BY <1>4, <3>2, <3>3
  <2> QED
    BY <2>1, <2>2 DEF OthersIdle
<1>5. CASE SkipItem \/ ItemThrows \/ ImportEnds \/ (Persist /\ UNCHANGED <<import, alone>>)
           \/ UNCHANGED importVars
  <2>1. UNCHANGED <<call, alone>>
    BY <1>5 DEF SkipItem, ItemThrows, ImportEnds, Persist, importVars, durableVars, vars
  <2> QED
    BY <2>1 DEF WholeInv, OthersIdle
<1> QED
  BY <1>1, <1>2, <1>3, <1>4, <1>5 DEF ImportNext, ImportStep

LEMMA WholeNext ==
    ASSUME WholeInv, [ImportNext]_importVars
    PROVE  WholeInv'
<1>1. ImportInv' /\ (alone' => OthersIdle')
  BY ImportKeeps, AloneStep DEF WholeInv
<1>t. ImportType /\ alone \in BOOLEAN
  BY DEF WholeInv, ImportInv, ImportType
<1>2. CASE StartImport
  <2>1. import'.at = 1 /\ import'.failureCount = 0
    BY <1>2 DEF StartImport, NoImport
  <2>2. ItemsSeen("other")' = {} /\ ItemsSeen("object")' = {}
    BY <2>1 DEF ItemsSeen
  <2> QED
    BY <1>1, <2>1, <2>2, FS_EmptySet DEF WholeInv, FailuresCounted, ImportWhole
<1>3. CASE SkipItem
  <2>1. FailuresCounted' /\ ImportWhole'
    BY <1>3, <1>t, WholeFailed DEF SkipItem, NextItem, durableVars, vars
  <2> QED
    BY <1>1, <2>1 DEF WholeInv
<1>4. CASE ItemThrows \/ ImportEnds \/ ImportItem \/ Importing
           \/ (Persist /\ UNCHANGED <<import, alone>>) \/ UNCHANGED importVars
  <2>1. docs' = docs /\ alone' = alone
    BY <1>4 DEF ItemThrows, ImportEnds, ImportItem, Importing, CreateNames, PutIndex, Persist,
                importVars, durableVars, vars
  <2>2. /\ import'.file = import.file /\ import'.at = import.at
        /\ import'.failureCount = import.failureCount
        /\ import'.pc \in {"run", "create", "ok"} => import.pc \in {"run", "create", "ok"}
    BY <1>4, <1>t DEF ItemThrows, ImportEnds, ImportItem, NextItem, Importing, importVars, ImportType
  <2>3. FailuresCounted' /\ ImportWhole'
    BY <1>t, <2>1, <2>2, WholeSame
  <2> QED
    BY <1>1, <2>3 DEF WholeInv
<1>5. CASE ItemStored
  BY <1>1, <1>5, WholeStored DEF WholeInv
<1>6. CASE ItemRejected \/ ItemFails
  <2>1. docs' = docs /\ alone' = alone /\ import.pc = "create" /\ import.at <= Len(import.file)
    BY <1>6 DEF ItemRejected, ItemFails, PutRejected, IOFails, WholeInv, ImportInv, InCreate
  <2>2. import' = Failed \/ import' = [import EXCEPT !.pc = "error"]
    BY <1>6 DEF ItemRejected, ItemFails
  <2>3. CASE import' = Failed
    BY <1>1, <2>1, <2>3, WholeFailed DEF WholeInv
  <2>4. CASE import' = [import EXCEPT !.pc = "error"]
    <3>1. /\ import'.file = import.file /\ import'.at = import.at
          /\ import'.failureCount = import.failureCount /\ import'.pc = "error"
      BY <1>t, <2>4 DEF ImportType
    <3>2. FailuresCounted' /\ ImportWhole'
      BY <1>t, <2>1, <3>1, WholeSame
    <3> QED
      BY <1>1, <3>2 DEF WholeInv
  <2> QED
    BY <2>2, <2>3, <2>4
<1>7. CASE OtherStep
  BY <1>1, <1>7, WholeOther DEF WholeInv
<1>8. CASE Stop
  <2>1. import'.pc = "idle" /\ import'.at = 1 /\ import'.failureCount = 0
    BY <1>8 DEF Stop, NoImport
  <2>2. ItemsSeen("other")' = {}
    BY <2>1 DEF ItemsSeen
  <2> QED
    BY <1>1, <2>1, <2>2, FS_EmptySet DEF WholeInv, FailuresCounted, ImportWhole
<1> QED
  BY <1>2, <1>3, <1>4, <1>5, <1>6, <1>7, <1>8 DEF ImportNext, ImportStep

(***************************************************************************)
(* Whatever the files hold and whoever reads, indexes or fails beside it:  *)
(* an import of which no object failed is whole, every object under its    *)
(* _id or under its place in the file, also when it is the second attempt. *)
(***************************************************************************)
THEOREM ImportsWhole == ImportSpec => []ImportWhole
<1>1. ImportInit => WholeInv
  <2> SUFFICES ASSUME ImportInit
               PROVE  WholeInv
    OBVIOUS
  <2>1. import.pc = "idle" /\ import.at = 1 /\ import.failureCount = 0
    BY DEF ImportInit, NoImport
  <2>2. ItemsSeen("other") = {}
    BY <2>1 DEF ItemsSeen
  <2>3. OthersIdle
    BY DEF ImportInit, DurableInit, Init, Idle, OthersIdle
  <2> QED
    BY <2>1, <2>2, <2>3, FS_EmptySet, ImportInitInv DEF WholeInv, FailuresCounted, ImportWhole
<1>2. WholeInv /\ [ImportNext]_importVars => WholeInv'
  BY WholeNext
<1>3. WholeInv => ImportWhole
  BY DEF WholeInv
<1> QED
  BY <1>1, <1>2, <1>3, PTL DEF ImportSpec

===============================================================================
