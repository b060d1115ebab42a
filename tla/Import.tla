-------------------------------- MODULE Import ---------------------------------
(***************************************************************************)
(* Collection::importFromJsonFile, beside other writers and in spite of    *)
(* errors, crashes and power losses.                                       *)
(*                                                                         *)
(* The file has been read and is a JSON array: anything else ends the call *)
(* before it changes something.  Each object of the array goes through     *)
(* createDocument, whose steps are those of Collection.                    *)
(***************************************************************************)
EXTENDS Durable, Sequences, FiniteSets

CONSTANTS
    Importer,   \* the thread that imports
    Files,      \* the arrays it may import
    PositionId  \* the id "doc_n", for each n

\* An item is an object with or without an _id, an object whose _id is no string,
\* or no object at all.
Items == [kind : {"object", "badId", "other"}, id : Ids \cup {None}, doc : Inputs]

ASSUME ImportAssumption ==
    /\ Importer \in Threads
    /\ OpsOf[Importer] = {"overwrite"}
    /\ Files \subseteq Seq(Items)
    /\ \A file \in Files : \A i \in 1 .. Len(file) :
          file[i].kind = "object" /\ file[i].id = None => PositionId[i - 1] \in Ids
    /\ \A m, n \in DOMAIN PositionId : PositionId[m] = PositionId[n] => m = n

VARIABLES
    import,     \* the import under way, or how the last one ended
    alone       \* nobody else has written documents since it began (history)

importVars == <<durableVars, import, alone>>

-------------------------------------------------------------------------------
\* at is the next item; "create" is a createDocument under way for it.
NoImport == [pc |-> "idle", file |-> <<>>, at |-> 1, successCount |-> 0, failureCount |-> 0]

ImportInit == DurableInit /\ import = NoImport /\ alone = TRUE

Item == import.file[import.at]

NextItem == import.pc = "run" /\ import.at <= Len(import.file)

OthersIdle == \A t \in Threads \ {Importer} : call[t].pc = "idle"

\* The item is counted, as a success or as a failure, and the loop goes on.
Succeeded == [import EXCEPT !.successCount = @ + 1, !.at = @ + 1, !.pc = "run"]

Failed == [import EXCEPT !.failureCount = @ + 1, !.at = @ + 1, !.pc = "run"]

StartImport ==
    /\ import.pc \notin {"run", "create"}
    /\ call[Importer].pc = "idle"
    /\ \E file \in Files : import' = [NoImport EXCEPT !.pc = "run", !.file = file]
    /\ alone' = OthersIdle
    /\ UNCHANGED durableVars

SkipItem ==
    /\ NextItem
    /\ Item.kind = "other"
    /\ import' = Failed
    /\ UNCHANGED <<durableVars, alone>>

\* get<std::string>() throws: the import returns InternalError.
ItemThrows ==
    /\ NextItem
    /\ Item.kind = "badId"
    /\ import' = [import EXCEPT !.pc = "error"]
    /\ UNCHANGED <<durableVars, alone>>

\* Mutation of DocId: documents are numbered by successes alone.
DocIdSuccesses == IF Item.id # None THEN Item.id ELSE PositionId[import.successCount]

\* The _id of the item, or else doc_<items seen so far>.
DocId == IF Item.id # None THEN Item.id ELSE PositionId[import.successCount + import.failureCount]

ImportItem ==
    /\ NextItem
    /\ Item.kind = "object"
    /\ call' = [call EXCEPT ![Importer] = [Idle EXCEPT !.pc = "create", !.id = DocId,
                                                       !.doc = Item.doc]]
    /\ import' = [import EXCEPT !.pc = "create"]
    /\ UNCHANGED <<docs, cfs, index, mutex, ready, faults, alone>>
    /\ LogUnsynced

Importing ==
    /\ import.pc = "create"
    /\ CreateNames(Importer) \/ PutIndex(Importer)
    /\ LogUnsynced
    /\ UNCHANGED <<import, alone>>

ItemStored ==
    /\ import.pc = "create"
    /\ PutDoc(Importer)
    /\ LogUnsynced
    /\ import' = Succeeded
    /\ UNCHANGED alone

\* parseValue throws, which ends the import, or an index has just been dropped.
ItemRejected ==
    /\ import.pc = "create"
    /\ PutRejected(Importer)
    /\ LogUnsynced
    /\ \E f \in Fields :
        /\ IsMin(f, call[Importer].todo)
        /\ import' = IF Throws(call[Importer].doc[f]) THEN [import EXCEPT !.pc = "error"]
                     ELSE Failed
    /\ UNCHANGED alone

ItemFails ==
    /\ import.pc = "create"
    /\ IOFails(Importer)
    /\ LogUnsynced
    /\ import' = Failed
    /\ UNCHANGED alone

\* The loop is over; the counts are printed and OK returned, whatever they are.
ImportEnds ==
    /\ import.pc = "run"
    /\ import.at > Len(import.file)
    /\ import' = [import EXCEPT !.pc = "ok"]
    /\ UNCHANGED <<durableVars, alone>>

ImportStep ==
    \/ StartImport \/ SkipItem \/ ItemThrows \/ ImportItem \/ Importing
    \/ ItemStored \/ ItemRejected \/ ItemFails \/ ImportEnds

\* A step of another thread.
OtherStep ==
    /\ \E t \in Threads \ {Importer} : Begin(t) \/ Continue(t) \/ Fails(t)
    /\ LogUnsynced
    /\ alone' = (alone /\ OthersIdle')
    /\ UNCHANGED import

\* The process dies, and the import with it.
Stop ==
    /\ (Crash /\ LogUnsynced) \/ PowerLoss
    /\ import' = NoImport
    /\ UNCHANGED alone

ImportNext == ImportStep \/ OtherStep \/ Stop \/ (Persist /\ UNCHANGED <<import, alone>>)

ImportSpec == ImportInit /\ [][ImportNext]_importVars

-------------------------------------------------------------------------------
\* The id under which item i of the file is to be found.
IdOfItem(i) == IF import.file[i].id # None THEN import.file[i].id ELSE PositionId[i - 1]

ItemsSeen(kind) == {i \in 1 .. import.at - 1 : import.file[i].kind = kind}

(***************************************************************************)
(* An import whose failures are no more than the items that are no objects *)
(* is whole: every object it has passed is stored, the last one of those   *)
(* with the same id, each under its _id or its place in the file - also    *)
(* when the import is made again over what a crash or a power loss left    *)
(* of an earlier one - unless somebody else writes documents meanwhile.    *)
(***************************************************************************)
ImportWhole ==
    import.pc \in {"run", "create", "ok"} /\ alone
        /\ import.failureCount = Cardinality(ItemsSeen("other"))
    => \A i \in ItemsSeen("object") :
          (\A j \in ItemsSeen("object") : j > i => IdOfItem(j) # IdOfItem(i))
              => docs[IdOfItem(i)] = import.file[i].doc

===============================================================================
