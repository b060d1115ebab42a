-------------------------------- MODULE Database -------------------------------
(***************************************************************************)
(* Database.cpp: the life of collections, of the Collection objects that   *)
(* stand for them, and of the export threads those objects own.            *)
(*                                                                         *)
(* One client thread calls the database (the MQTT bridge serialises its    *)
(* handlers with mtx_) and keeps the pointers getCollection gave it.       *)
(* Export threads run beside it.  What RocksDB holds survives a crash; the *)
(* objects, the pointers and the threads do not.                           *)
(***************************************************************************)
EXTENDS Naturals

CONSTANTS
    Names,      \* collection names
    Fields,     \* fields that can be indexed
    Client,     \* what a careless client does: "dropMissing", "exportTwice"
    Faults,     \* the faults that may happen
    MaxFaults,  \* a bound on how many do
    NoName      \* the client is in no call that concerns one collection

ASSUME ClientAssumption == Client \subseteq {"dropMissing", "exportTwice"}

ASSUME DatabaseFaultsAssumption ==
    /\ Faults \subseteq {"crash", "cfError", "exportError", "diskFull", "openError"}
    /\ MaxFaults \in Nat

ASSUME NoNameAssumption == NoName \notin Names

VARIABLES
    cfs,        \* collections that have a column family (on disk)
    indexes,    \* indexes of each collection that have one (on disk)
    engine,     \* db_ is usable
    isDbOpen,   \* isDbOpen_, which no constructor sets
    objects,    \* the names in collections_
    held,       \* collMap_: the client's pointers, and whether they are valid
    export,     \* where the export thread of each object is
    dump,       \* <collection>.dump
    json,       \* <collection>.json
    main,       \* the client's call
    faults      \* how many faults have happened

vars == <<cfs, indexes, engine, isDbOpen, objects, held, export, dump, json, main, faults>>

-------------------------------------------------------------------------------
(***************************************************************************)
(* The client's call.                                                      *)
(*   clear    collections_.clear() in close                                *)
(*   destroy  ~Collection of name, dropping its indexes todo               *)
(*   join     ~Collection of name, in waitForExportOperation               *)
(*   lookup   dropCollection, at getCollection                             *)
(*   strip    dropCollection, dropping the indexes todo                    *)
(*   drop     dropCollection, at engine_.dropCollection                    *)
(*   dead     the process has been terminated                              *)
(***************************************************************************)
PC == {"idle", "clear", "destroy", "join", "lookup", "strip", "drop", "dead"}

Calls == [pc : PC, name : Names \cup {NoName}, todo : SUBSET Fields, next : PC]

Idle == [pc |-> "idle", name |-> NoName, todo |-> {}, next |-> "idle"]

Init ==
    /\ cfs = {}
    /\ indexes = [n \in Names |-> {}]
    /\ engine = FALSE
    /\ isDbOpen \in BOOLEAN
    /\ objects = {}
    /\ held = [n \in Names |-> "none"]
    /\ export = [n \in Names |-> "none"]
    /\ dump = [n \in Names |-> "none"]
    /\ json = [n \in Names |-> "none"]
    /\ main = Idle
    /\ faults = 0

Fault(kind) ==
    /\ kind \in Faults
    /\ faults < MaxFaults
    /\ faults' = faults + 1

Goto(pc) == main' = [main EXCEPT !.pc = pc]

\* The client is free to call and the database is open.
Ready == main.pc = "idle" /\ engine

\* Mutation of Destroy: the destructor goes through all fields, indexed or not.
DestroyAllFields(n, pc) ==
    /\ main' = [pc |-> "destroy", name |-> n, todo |-> Fields, next |-> pc]
    /\ held' = [held EXCEPT ![n] = IF @ = "none" THEN @ ELSE "dangling"]

\* The object of n is destroyed before the client goes on at pc; pointers to it
\* are invalid from here on.
Destroy(n, pc) ==
    /\ main' = [pc |-> "destroy", name |-> n, todo |-> indexes[n], next |-> pc]
    /\ held' = [held EXCEPT ![n] = IF @ = "none" THEN @ ELSE "dangling"]

-------------------------------------------------------------------------------
Open ==
    /\ main.pc = "idle" /\ ~engine
    /\ isDbOpen' = TRUE
    /\ engine' = TRUE
    /\ UNCHANGED <<cfs, indexes, objects, held, export, dump, json, main, faults>>

\* The flag is set before engine_.open() is tried.
OpenFails ==
    /\ main.pc = "idle" /\ ~engine
    /\ Fault("openError")
    /\ isDbOpen' = TRUE
    /\ UNCHANGED <<cfs, indexes, engine, objects, held, export, dump, json, main>>

\* createCollection; the bridge then fetches a pointer.  The object of a dropped
\* collection of that name is still in collections_: the assignment destroys it.
CreateCollection ==
    /\ Ready
    /\ \E n \in Names \ cfs :
        /\ cfs' = cfs \cup {n}
        /\ objects' = objects \cup {n}
        /\ IF n \in objects
           THEN Destroy(n, "idle")
           ELSE UNCHANGED main /\ held' = [held EXCEPT ![n] = "live"]
    /\ UNCHANGED <<indexes, engine, isDbOpen, export, dump, json, faults>>

\* getCollection: an object that is there is not checked against the engine.
GetCollection ==
    /\ Ready
    /\ \E n \in cfs \cup objects :
        /\ held[n] = "none"
        /\ objects' = objects \cup {n}
        /\ held' = [held EXCEPT ![n] = "live"]
    /\ UNCHANGED <<cfs, indexes, engine, isDbOpen, export, dump, json, main, faults>>

\* Collection::createIndex and deleteIndex, through a pointer of the client.
CreateIndex ==
    /\ Ready
    /\ \E n \in Names, f \in Fields :
        /\ held[n] = "live"
        /\ indexes' = [indexes EXCEPT ![n] = @ \cup {f}]
    /\ UNCHANGED <<cfs, engine, isDbOpen, objects, held, export, dump, json, main, faults>>

DeleteIndex ==
    /\ Ready
    /\ \E n \in Names : \E f \in indexes[n] :
        /\ held[n] = "live"
        /\ indexes' = [indexes EXCEPT ![n] = @ \ {f}]
    /\ UNCHANGED <<cfs, engine, isDbOpen, objects, held, export, dump, json, main, faults>>

-------------------------------------------------------------------------------
\* dropCollection: erase the object, fetch it again, drop its indexes, drop it.
DropCollection ==
    /\ Ready
    /\ \E n \in Names :
        /\ n \in cfs \/ "dropMissing" \in Client
        /\ objects' = objects \ {n}
        /\ IF n \in objects
           THEN Destroy(n, "lookup")
           ELSE main' = [Idle EXCEPT !.pc = "lookup", !.name = n] /\ UNCHANGED held
    /\ UNCHANGED <<cfs, indexes, engine, isDbOpen, export, dump, json, faults>>

DropLookup ==
    /\ main.pc = "lookup"
    /\ main.name \in cfs
    /\ objects' = objects \cup {main.name}
    /\ main' = [main EXCEPT !.pc = "strip", !.todo = indexes[main.name]]
    /\ UNCHANGED <<cfs, indexes, engine, isDbOpen, held, export, dump, json, faults>>

\* getCollection gave nullptr, which dropCollection goes on to use.
DropNull ==
    /\ main.pc = "lookup"
    /\ main.name \notin cfs
    /\ Goto("dead")
    /\ UNCHANGED <<cfs, indexes, engine, isDbOpen, objects, held, export, dump, json, faults>>

\* An index of the collection, in ~Collection or in dropCollection.
DropIndex ==
    /\ main.pc \in {"destroy", "strip"}
    /\ \E f \in main.todo :
        /\ indexes' = [indexes EXCEPT ![main.name] = @ \ {f}]
        /\ main' = [main EXCEPT !.todo = @ \ {f}]
    /\ UNCHANGED <<cfs, engine, isDbOpen, objects, held, export, dump, json, faults>>

\* A failure is printed at most, and the loop goes on.
DropIndexFails ==
    /\ main.pc \in {"destroy", "strip"}
    /\ Fault("cfError")
    /\ \E f \in main.todo : main' = [main EXCEPT !.todo = @ \ {f}]
    /\ UNCHANGED <<cfs, indexes, engine, isDbOpen, objects, held, export, dump, json>>

IndexesDone ==
    /\ main.pc \in {"destroy", "strip"}
    /\ main.todo = {}
    /\ Goto(IF main.pc = "destroy" THEN "join" ELSE "drop")
    /\ UNCHANGED <<cfs, indexes, engine, isDbOpen, objects, held, export, dump, json, faults>>

\* Mutation of JoinExport: the destructor does not wait for the thread.
JoinExportNoWait ==
    /\ main.pc = "join"
    /\ main' = IF main.next = "idle" THEN Idle ELSE [main EXCEPT !.pc = main.next]
    /\ held' = IF main.next = "idle" THEN [held EXCEPT ![main.name] = "live"] ELSE held
    /\ UNCHANGED <<cfs, indexes, engine, isDbOpen, objects, export, dump, json, faults>>

\* Mutation of JoinExport: join() without asking joinable() first.  Without a thread
\* it throws, and an exception out of a destructor terminates the process.
JoinExportAlways ==
    /\ main.pc = "join"
    /\ export[main.name] \in {"none", "done"}
    /\ export' = [export EXCEPT ![main.name] = "none"]
    /\ main' = IF export[main.name] = "none" THEN [main EXCEPT !.pc = "dead"]
               ELSE IF main.next = "idle" THEN Idle ELSE [main EXCEPT !.pc = main.next]
    /\ held' = IF main.next = "idle" THEN [held EXCEPT ![main.name] = "live"] ELSE held
    /\ UNCHANGED <<cfs, indexes, engine, isDbOpen, objects, dump, json, faults>>

\* The end of ~Collection: wait for the export thread if there is one.  When a
\* createCollection destroyed the object, the client now fetches the new one.
JoinExport ==
    /\ main.pc = "join"
    /\ export[main.name] \in {"none", "done"}
    /\ export' = [export EXCEPT ![main.name] = "none"]
    /\ main' = IF main.next = "idle" THEN Idle ELSE [main EXCEPT !.pc = main.next]
    /\ held' = IF main.next = "idle" THEN [held EXCEPT ![main.name] = "live"] ELSE held
    /\ UNCHANGED <<cfs, indexes, engine, isDbOpen, objects, dump, json, faults>>

\* Mutation of DropCf: the bridge keeps its pointer to the dropped collection.
DropCfKeepsPointer ==
    /\ main.pc = "drop"
    /\ cfs' = cfs \ {main.name}
    /\ main' = Idle
    /\ UNCHANGED <<indexes, engine, isDbOpen, objects, held, export, dump, json, faults>>

\* The collection's column family goes; the bridge forgets its pointer.
DropCf ==
    /\ main.pc = "drop"
    /\ cfs' = cfs \ {main.name}
    /\ main' = Idle
    /\ held' = [held EXCEPT ![main.name] = "none"]
    /\ UNCHANGED <<indexes, engine, isDbOpen, objects, export, dump, json, faults>>

\* It does not go, and the bridge, told so, keeps its pointer.
DropCfFails ==
    /\ main.pc = "drop"
    /\ Fault("cfError")
    /\ main' = Idle
    /\ UNCHANGED <<cfs, indexes, engine, isDbOpen, objects, held, export, dump, json>>

-------------------------------------------------------------------------------
\* close, after the bridge's stop has cleared collMap_.
Close ==
    /\ Ready
    /\ isDbOpen' = FALSE
    /\ held' = [n \in Names |-> "none"]
    /\ Goto("clear")
    /\ UNCHANGED <<cfs, indexes, engine, objects, export, dump, json, faults>>

ClearObject ==
    /\ main.pc = "clear"
    /\ \E n \in objects :
        /\ objects' = objects \ {n}
        /\ Destroy(n, "clear")
    /\ UNCHANGED <<cfs, indexes, engine, isDbOpen, export, dump, json, faults>>

CloseEngine ==
    /\ main.pc = "clear"
    /\ objects = {}
    /\ engine' = FALSE
    /\ main' = Idle
    /\ UNCHANGED <<cfs, indexes, isDbOpen, objects, held, export, dump, json, faults>>

\* The process is killed, or has terminated itself, and a new one is started.
Crash ==
    /\ Fault("crash") \/ (main.pc = "dead" /\ UNCHANGED faults)
    /\ engine' = FALSE
    /\ isDbOpen' \in BOOLEAN
    /\ objects' = {}
    /\ held' = [n \in Names |-> "none"]
    /\ export' = [n \in Names |-> "none"]
    /\ main' = Idle
    /\ UNCHANGED <<cfs, indexes, dump, json>>

-------------------------------------------------------------------------------
\* exportAllToJsonAsync on an object with no thread to join.
StartExport ==
    /\ Ready
    /\ \E n \in Names :
        /\ held[n] = "live" /\ export[n] = "none"
        /\ export' = [export EXCEPT ![n] = "open"]
    /\ UNCHANGED <<cfs, indexes, engine, isDbOpen, objects, held, dump, json, main, faults>>

\* Assigning to a std::thread that is joinable terminates the process.
StartExportTwice ==
    /\ Ready
    /\ "exportTwice" \in Client
    /\ \E n \in Names : held[n] = "live" /\ export[n] # "none"
    /\ Goto("dead")
    /\ UNCHANGED <<cfs, indexes, engine, isDbOpen, objects, held, export, dump, json, faults>>

\* waitForExportOperation.
WaitForExport ==
    /\ Ready
    /\ \E n \in Names :
        /\ held[n] = "live" /\ export[n] = "done"
        /\ export' = [export EXCEPT ![n] = "none"]
    /\ UNCHANGED <<cfs, indexes, engine, isDbOpen, objects, held, dump, json, main, faults>>

(***************************************************************************)
(* The export thread of n, StorageEngine::exportAllToJson.                 *)
(*   open     before the dump file is opened and the collection looked up  *)
(*   scan     walking the collection with an iterator                      *)
(*   remove   the dump file is closed, the old JSON file still there       *)
(*   rename   the old JSON file is removed                                 *)
(*   done     the thread has ended and is joinable                         *)
(***************************************************************************)

\* Mutation of ExportOpen: a collection that is not found is not the end of it.
ExportOpenFallsThrough(n) ==
    /\ export[n] = "open"
    /\ dump' = [dump EXCEPT ![n] = "partial"]
    /\ export' = [export EXCEPT ![n] = IF n \in cfs THEN "scan" ELSE "remove"]
    /\ UNCHANGED <<cfs, indexes, engine, isDbOpen, objects, held, json, main, faults>>

ExportOpen(n) ==
    /\ export[n] = "open"
    /\ dump' = [dump EXCEPT ![n] = "partial"]
    /\ export' = [export EXCEPT ![n] = IF n \in cfs THEN "scan" ELSE "done"]
    /\ UNCHANGED <<cfs, indexes, engine, isDbOpen, objects, held, json, main, faults>>

ExportScan(n) ==
    /\ export[n] = "scan"
    /\ dump' = [dump EXCEPT ![n] = "whole"]
    /\ export' = [export EXCEPT ![n] = "remove"]
    /\ UNCHANGED <<cfs, indexes, engine, isDbOpen, objects, held, json, main, faults>>

\* The state of the output stream is never looked at: rows the disk does not
\* take are missing from the dump file, and the export goes on.
ExportTruncates(n) ==
    /\ Fault("diskFull")
    /\ export[n] = "scan"
    /\ export' = [export EXCEPT ![n] = "remove"]
    /\ UNCHANGED <<cfs, indexes, engine, isDbOpen, objects, held, dump, json, main>>

ExportRemove(n) ==
    /\ export[n] = "remove"
    /\ json' = [json EXCEPT ![n] = "none"]
    /\ export' = [export EXCEPT ![n] = "rename"]
    /\ UNCHANGED <<cfs, indexes, engine, isDbOpen, objects, held, dump, main, faults>>

ExportRename(n) ==
    /\ export[n] = "rename"
    /\ json' = [json EXCEPT ![n] = dump[n]]
    /\ dump' = [dump EXCEPT ![n] = "none"]
    /\ export' = [export EXCEPT ![n] = "done"]
    /\ UNCHANGED <<cfs, indexes, engine, isDbOpen, objects, held, main, faults>>

\* The directory or the dump file cannot be made, the iterator ends with an
\* error (the dump file is removed), or the rename fails.
ExportFails(n) ==
    /\ Fault("exportError")
    /\ export[n] \in {"open", "scan", "rename"}
    /\ dump' = [dump EXCEPT ![n] = IF export[n] = "scan" THEN "none" ELSE @]
    /\ export' = [export EXCEPT ![n] = "done"]
    /\ UNCHANGED <<cfs, indexes, engine, isDbOpen, objects, held, json, main>>

-------------------------------------------------------------------------------
ClientCall ==
    \/ Open \/ OpenFails \/ Close
    \/ CreateCollection \/ GetCollection \/ DropCollection
    \/ CreateIndex \/ DeleteIndex
    \/ StartExport \/ StartExportTwice \/ WaitForExport

ClientStep ==
    \/ DropIndex \/ DropIndexFails \/ IndexesDone \/ JoinExport
    \/ DropLookup \/ DropNull \/ DropCf \/ DropCfFails
    \/ ClearObject \/ CloseEngine

ExportStep(n) ==
    /\ main.pc # "dead"
    /\ \/ ExportOpen(n) \/ ExportScan(n) \/ ExportRemove(n) \/ ExportRename(n)
       \/ ExportTruncates(n) \/ ExportFails(n)

Next ==
    \/ ClientCall
    \/ ClientStep
    \/ \E n \in Names : ExportStep(n)
    \/ Crash

Spec == Init /\ [][Next]_vars

\* The client's thread and the export threads are scheduled.
Fairness == WF_vars(ClientStep) /\ \A n \in Names : WF_vars(ExportStep(n))

FairSpec == Spec /\ Fairness

-------------------------------------------------------------------------------
(***************************************************************************)
(* Type correctness; a call about a collection names it, a destructor      *)
(* knows where its caller goes on, and every index still to be dropped     *)
(* exists.                                                                 *)
(***************************************************************************)
TypeOK ==
    /\ cfs \subseteq Names
    /\ indexes \in [Names -> SUBSET Fields]
    /\ engine \in BOOLEAN
    /\ isDbOpen \in BOOLEAN
    /\ objects \subseteq Names
    /\ held \in [Names -> {"none", "live", "dangling"}]
    /\ export \in [Names -> {"none", "open", "scan", "remove", "rename", "done"}]
    /\ dump \in [Names -> {"none", "partial", "whole"}]
    /\ json \in [Names -> {"none", "partial", "whole"}]
    /\ main \in Calls
    /\ main.pc \in {"destroy", "join", "lookup", "strip", "drop"} => main.name \in Names
    /\ main.pc \in {"destroy", "join"} => main.next \in {"idle", "lookup", "clear"}
    /\ main.pc \in {"destroy", "strip"} => main.todo \subseteq indexes[main.name]
    /\ faults \in 0 .. MaxFaults

\* ~Collection is at work on the object of n.
BeingDestroyed(n) == main.pc \in {"destroy", "join"} /\ main.name = n

(***************************************************************************)
(* An export thread never outlives what it uses: while it walks a          *)
(* collection, the engine is open and the collection has its column        *)
(* family, whatever drops, re-creations and closes the client calls; and   *)
(* as long as it is joinable, the object that will join it exists.         *)
(***************************************************************************)
ExportSafe ==
    main.pc # "dead" =>
        \A n \in Names :
            /\ export[n] = "scan" => engine /\ n \in cfs
            /\ export[n] # "none" => n \in objects \/ BeingDestroyed(n)

(***************************************************************************)
(* Between its calls the bridge holds no pointer to a destroyed Collection,*)
(* though dropping, re-creating and closing all destroy them.              *)
(***************************************************************************)
NoDangling ==
    main.pc = "idle" =>
        \A n \in Names : held[n] # "none" => held[n] = "live" /\ n \in objects

(***************************************************************************)
(* The JSON file of a collection, when there is one, is a complete export, *)
(* through crashes, failures and exports of dropped collections: it is a   *)
(* dump file renamed after the whole collection was written to it.         *)
(***************************************************************************)
ExportWhole == \A n \in Names : json[n] # "partial"

(***************************************************************************)
(* dropCollection and close come to an end: every thread they join ends.   *)
(***************************************************************************)
CallsEnd == main.pc # "idle" ~> main.pc = "idle"

===============================================================================
