---------------------------- MODULE DatabaseProofs ----------------------------
(***************************************************************************)
(* What Database promises for any number of collections, indexes and       *)
(* faults and for a careless client too.                                   *)
(***************************************************************************)
EXTENDS Database, TLAPS

-------------------------------------------------------------------------------
(***************************************************************************)
(* Type correctness.                                                       *)
(***************************************************************************)

\* The client outside a call.
LEMMA DatabaseIdle == Idle \in Calls /\ Idle.pc = "idle"
BY DEF Idle, Calls, PC

LEMMA DatabaseInitType == Init => TypeOK
<1> SUFFICES ASSUME Init
             PROVE  TypeOK
  OBVIOUS
<1>1. main \in Calls /\ main.pc = "idle"
  BY DatabaseIdle DEF Init
<1>2. faults \in 0 .. MaxFaults
  BY DatabaseFaultsAssumption DEF Init
<1> QED
  BY <1>1, <1>2 DEF Init, TypeOK

\* The steps of a call and of an export keep types; so do the calls themselves.
LEMMA DatabaseCallType == TypeOK /\ ClientCall => TypeOK'
<1> SUFFICES ASSUME TypeOK, ClientCall
             PROVE  TypeOK'
  OBVIOUS
<1>1. CASE Open
  BY <1>1 DEF Open, TypeOK
<1>2. CASE OpenFails
  BY <1>2, DatabaseFaultsAssumption DEF OpenFails, Fault, TypeOK
<1>3. CASE Close
  BY <1>3 DEF Close, Ready, Goto, TypeOK, Calls, PC
<1>4. CASE CreateCollection
  BY <1>4 DEF CreateCollection, Ready, Destroy, TypeOK, Calls, PC
<1>5. CASE GetCollection
  BY <1>5 DEF GetCollection, TypeOK
<1>6. CASE DropCollection
  <2>1. PICK n \in Names :
          /\ objects' = objects \ {n}
          /\ IF n \in objects
             THEN Destroy(n, "lookup")
             ELSE main' = [Idle EXCEPT !.pc = "lookup", !.name = n] /\ UNCHANGED held
    BY <1>6 DEF DropCollection
  <2>2. /\ main' \in Calls
        /\ main'.name = n
        /\ main'.pc \in {"destroy", "lookup"}
        /\ main'.next \in {"idle", "lookup"}
        /\ main'.todo = IF main'.pc = "destroy" THEN indexes[n] ELSE {}
    <3>1. CASE n \in objects
      <4>1. main' = [pc |-> "destroy", name |-> n, todo |-> indexes[n], next |-> "lookup"]
        BY <2>1, <3>1 DEF Destroy
      <4> QED
        BY <4>1 DEF TypeOK, Calls, PC
    <3>2. CASE n \notin objects
      <4>1. main' = [pc |-> "lookup", name |-> n, todo |-> {}, next |-> "idle"]
        BY <2>1, <3>2 DEF Idle
      <4> QED
        BY <4>1 DEF Calls, PC
    <3> QED
      BY <3>1, <3>2
  <2>3. held' \in [Names -> {"none", "live", "dangling"}]
    BY <2>1 DEF Destroy, TypeOK
  <2> QED
    BY <1>6, <2>1, <2>2, <2>3 DEF DropCollection, TypeOK
<1>7. CASE CreateIndex
  BY <1>7 DEF CreateIndex, Ready, TypeOK
<1>8. CASE DeleteIndex
  BY <1>8 DEF DeleteIndex, Ready, TypeOK
<1>9. CASE StartExport
  BY <1>9 DEF StartExport, TypeOK
<1>10. CASE StartExportTwice
  BY <1>10 DEF StartExportTwice, Goto, TypeOK, Calls, PC
<1>11. CASE WaitForExport
  BY <1>11 DEF WaitForExport, TypeOK
<1> QED
  BY <1>1, <1>2, <1>3, <1>4, <1>5, <1>6, <1>7, <1>8, <1>9, <1>10, <1>11 DEF ClientCall

LEMMA DatabaseStepType == TypeOK /\ ClientStep => TypeOK'
<1> SUFFICES ASSUME TypeOK, ClientStep
             PROVE  TypeOK'
  OBVIOUS
<1>1. CASE DropIndex
  BY <1>1 DEF DropIndex, TypeOK, Calls
<1>2. CASE DropIndexFails
  BY <1>2, DatabaseFaultsAssumption DEF DropIndexFails, Fault, TypeOK, Calls
<1>3. CASE IndexesDone
  BY <1>3 DEF IndexesDone, Goto, TypeOK, Calls, PC
<1>4. CASE JoinExport
  BY <1>4 DEF JoinExport, Idle, TypeOK, Calls, PC
<1>5. CASE DropLookup
  BY <1>5 DEF DropLookup, TypeOK, Calls, PC
<1>6. CASE DropNull
  BY <1>6 DEF DropNull, Goto, TypeOK, Calls, PC
<1>7. CASE DropCf
  BY <1>7 DEF DropCf, Idle, TypeOK, Calls, PC
<1>8. CASE DropCfFails
  BY <1>8, DatabaseFaultsAssumption DEF DropCfFails, Fault, Idle, TypeOK, Calls, PC
<1>9. CASE ClearObject
  BY <1>9 DEF ClearObject, Destroy, TypeOK, Calls, PC
<1>10. CASE CloseEngine
  BY <1>10 DEF CloseEngine, Idle, TypeOK, Calls, PC
<1> QED
  BY <1>1, <1>2, <1>3, <1>4, <1>5, <1>6, <1>7, <1>8, <1>9, <1>10 DEF ClientStep

LEMMA DatabaseExportType ==
    ASSUME TypeOK, NEW n \in Names, ExportStep(n)
    PROVE  TypeOK'
<1>1. CASE ExportOpen(n)
  BY <1>1 DEF ExportOpen, TypeOK
<1>2. CASE ExportScan(n)
  BY <1>2 DEF ExportScan, TypeOK
<1>3. CASE ExportRemove(n)
  BY <1>3 DEF ExportRemove, TypeOK
<1>4. CASE ExportRename(n)
  BY <1>4 DEF ExportRename, TypeOK
<1>5. CASE ExportFails(n)
  BY <1>5, DatabaseFaultsAssumption DEF ExportFails, Fault, TypeOK
<1>6. CASE ExportTruncates(n)
  BY <1>6, DatabaseFaultsAssumption DEF ExportTruncates, Fault, TypeOK
<1> QED
  BY <1>1, <1>2, <1>3, <1>4, <1>5, <1>6 DEF ExportStep

LEMMA DatabaseNextType == TypeOK /\ [Next]_vars => TypeOK'
<1> SUFFICES ASSUME TypeOK, [Next]_vars
             PROVE  TypeOK'
  OBVIOUS
<1>1. CASE Crash
  <2>1. main' \in Calls /\ main'.pc = "idle"
    BY <1>1, DatabaseIdle DEF Crash
  <2>2. faults' \in 0 .. MaxFaults
    BY <1>1, DatabaseFaultsAssumption DEF Crash, Fault, TypeOK
  <2> QED
    BY <1>1, <2>1, <2>2 DEF Crash, TypeOK
<1>2. CASE UNCHANGED vars
  BY <1>2 DEF vars, TypeOK
<1> QED
  BY <1>1, <1>2, DatabaseCallType, DatabaseStepType, DatabaseExportType DEF Next

(***************************************************************************)
(* Whatever the client calls and whatever fails, a destructor or a drop    *)
(* knows its collection and only drops indexes that exist.                 *)
(***************************************************************************)
THEOREM DatabaseTypeCorrect == Spec => []TypeOK
BY DatabaseInitType, DatabaseNextType, PTL DEF Spec

-------------------------------------------------------------------------------
(***************************************************************************)
(* ExportSafe.                                                             *)
(*                                                                         *)
(* A drop removes the column family long after the destructor has joined   *)
(* the thread, so the invariant follows the call: Owned says who will join *)
(* a thread, Joined that a drop past its destructor has none left, and     *)
(* PointersIn that new threads only start on objects that are in the map.  *)
(***************************************************************************)
Owned == \A n \in Names :
    export[n] # "none" => engine /\ (n \in objects \/ BeingDestroyed(n))

Joined == main.pc \in {"lookup", "strip", "drop"} => export[main.name] = "none"

Scanned == \A n \in Names : export[n] = "scan" => n \in cfs

PointersIn == \A n \in Names : held[n] = "live" => n \in objects

Replaced ==
    main.pc \in {"destroy", "join"} /\ main.next = "idle" => main.name \in objects

ExportInv == TypeOK /\ Owned /\ Joined /\ Scanned /\ PointersIn /\ Replaced

LEMMA ExportInit == Init => ExportInv
BY DatabaseInitType, DatabaseIdle
   DEF Init, ExportInv, Owned, Joined, Scanned, PointersIn, Replaced

LEMMA ExportCall == ExportInv /\ TypeOK' /\ ClientCall => ExportInv'
<1> SUFFICES ASSUME ExportInv, TypeOK', ClientCall
             PROVE  ExportInv'
  OBVIOUS
<1> USE DEF ExportInv, Owned, Joined, Scanned, PointersIn, Replaced, BeingDestroyed, Ready
<1>1. CASE Open
  BY <1>1 DEF Open
<1>2. CASE OpenFails
  BY <1>2 DEF OpenFails
<1>3. CASE Close
  <2>1. main'.pc = "clear"
    BY <1>3 DEF Close, Goto, TypeOK, Calls
  <2> QED
    BY <1>3, <2>1 DEF Close, TypeOK
<1>4. CASE CreateCollection
  <2>1. PICK n \in Names \ cfs :
          /\ cfs' = cfs \cup {n}
          /\ objects' = objects \cup {n}
          /\ IF n \in objects
             THEN Destroy(n, "idle")
             ELSE UNCHANGED main /\ held' = [held EXCEPT ![n] = "live"]
    BY <1>4 DEF CreateCollection
  <2>2. CASE n \in objects
    BY <1>4, <2>1, <2>2 DEF CreateCollection, Destroy, TypeOK
  <2>3. CASE n \notin objects
    BY <1>4, <2>1, <2>3 DEF CreateCollection, TypeOK
  <2> QED
    BY <2>2, <2>3
<1>5. CASE GetCollection
  BY <1>5 DEF GetCollection, TypeOK
<1>6. CASE DropCollection
  <2>1. PICK n \in Names :
          /\ objects' = objects \ {n}
          /\ IF n \in objects
             THEN Destroy(n, "lookup")
             ELSE main' = [Idle EXCEPT !.pc = "lookup", !.name = n] /\ UNCHANGED held
    BY <1>6 DEF DropCollection
  <2>2. CASE n \in objects
    BY <1>6, <2>1, <2>2 DEF DropCollection, Destroy, TypeOK
  <2>3. CASE n \notin objects
    <3>1. main' = [pc |-> "lookup", name |-> n, todo |-> {}, next |-> "idle"]
      BY <2>1, <2>3 DEF Idle
    <3> QED
      BY <1>6, <2>1, <2>3, <3>1 DEF DropCollection, TypeOK
  <2> QED
    BY <2>2, <2>3
<1>7. CASE CreateIndex
  BY <1>7 DEF CreateIndex
<1>8. CASE DeleteIndex
  BY <1>8 DEF DeleteIndex
<1>9. CASE StartExport
  BY <1>9 DEF StartExport, TypeOK
<1>10. CASE StartExportTwice
  <2>1. main'.pc = "dead"
    BY <1>10 DEF StartExportTwice, Goto, TypeOK, Calls
  <2> QED
    BY <1>10, <2>1 DEF StartExportTwice
<1>11. CASE WaitForExport
  BY <1>11 DEF WaitForExport, TypeOK
<1> QED
  BY <1>1, <1>2, <1>3, <1>4, <1>5, <1>6, <1>7, <1>8, <1>9, <1>10, <1>11 DEF ClientCall

LEMMA ExportClientStep == ExportInv /\ TypeOK' /\ ClientStep => ExportInv'
<1> SUFFICES ASSUME ExportInv, TypeOK', ClientStep
             PROVE  ExportInv'
  OBVIOUS
<1> USE DEF ExportInv, Owned, Joined, Scanned, PointersIn, Replaced, BeingDestroyed
<1>1. CASE DropIndex \/ DropIndexFails
  <2>1. PICK f \in main.todo : main' = [main EXCEPT !.todo = @ \ {f}]
    BY <1>1 DEF DropIndex, DropIndexFails
  <2>2. main'.pc = main.pc /\ main'.name = main.name /\ main'.next = main.next
    BY <2>1 DEF TypeOK, Calls
  <2>3. UNCHANGED <<cfs, engine, objects, held, export>>
    BY <1>1 DEF DropIndex, DropIndexFails
  <2> QED
    BY <2>2, <2>3
<1>2. CASE IndexesDone
  <2>1. /\ main'.pc = IF main.pc = "destroy" THEN "join" ELSE "drop"
        /\ main'.name = main.name
        /\ main'.next = main.next
    BY <1>2 DEF IndexesDone, Goto, TypeOK, Calls
  <2> QED
    BY <1>2, <2>1 DEF IndexesDone
<1>3. CASE JoinExport
  <2>1. CASE main.next = "idle"
    BY <1>3, <2>1, DatabaseIdle DEF JoinExport, TypeOK
  <2>2. CASE main.next # "idle"
    <3>1. main'.pc = main.next /\ main'.name = main.name /\ main'.next = main.next
      BY <1>3, <2>2 DEF JoinExport, TypeOK, Calls
    <3> QED
      BY <1>3, <2>2, <3>1 DEF JoinExport, TypeOK
  <2> QED
    BY <2>1, <2>2
<1>4. CASE DropLookup
  <2>1. main'.pc = "strip" /\ main'.name = main.name
    BY <1>4 DEF DropLookup, TypeOK, Calls
  <2> QED
    BY <1>4, <2>1 DEF DropLookup, TypeOK
<1>5. CASE DropNull
  <2>1. main'.pc = "dead"
    BY <1>5 DEF DropNull, Goto, TypeOK, Calls
  <2> QED
    BY <1>5, <2>1 DEF DropNull
<1>6. CASE DropCf
  BY <1>6, DatabaseIdle DEF DropCf, TypeOK
<1>7. CASE DropCfFails
  BY <1>7, DatabaseIdle DEF DropCfFails, TypeOK
<1>8. CASE ClearObject
  BY <1>8 DEF ClearObject, Destroy, TypeOK
<1>9. CASE CloseEngine
  BY <1>9, DatabaseIdle DEF CloseEngine, TypeOK
<1> QED
  BY <1>1, <1>2, <1>3, <1>4, <1>5, <1>6, <1>7, <1>8, <1>9 DEF ClientStep

LEMMA ExportThreadStep ==
    ASSUME ExportInv, TypeOK', NEW n \in Names, ExportStep(n)
    PROVE  ExportInv'
<1> USE DEF ExportInv, Owned, Joined, Scanned, PointersIn, Replaced, BeingDestroyed, TypeOK
<1>1. CASE ExportOpen(n)
  BY <1>1 DEF ExportOpen
<1>2. CASE ExportScan(n)
  BY <1>2 DEF ExportScan
<1>3. CASE ExportRemove(n)
  BY <1>3 DEF ExportRemove
<1>4. CASE ExportRename(n)
  BY <1>4 DEF ExportRename
<1>5. CASE ExportFails(n)
  BY <1>5 DEF ExportFails
<1>6. CASE ExportTruncates(n)
  BY <1>6 DEF ExportTruncates
<1> QED
  BY <1>1, <1>2, <1>3, <1>4, <1>5, <1>6 DEF ExportStep

LEMMA ExportNext == ExportInv /\ [Next]_vars => ExportInv'
<1> SUFFICES ASSUME ExportInv, [Next]_vars
             PROVE  ExportInv'
  OBVIOUS
<1>1. TypeOK'
  BY DatabaseNextType DEF ExportInv
<1>2. CASE Crash
  BY <1>1, <1>2, DatabaseIdle
     DEF Crash, ExportInv, Owned, Joined, Scanned, PointersIn, Replaced
<1>3. CASE UNCHANGED vars
  BY <1>1, <1>3
     DEF vars, ExportInv, Owned, Joined, Scanned, PointersIn, Replaced, BeingDestroyed
<1> QED
  BY <1>1, <1>2, <1>3, ExportCall, ExportClientStep, ExportThreadStep DEF Next

(***************************************************************************)
(* Whatever the client calls, in whatever order, and whatever fails: an    *)
(* export thread never walks a collection that is dropped or closed under  *)
(* it, and never loses the object that joins it.                           *)
(***************************************************************************)
THEOREM ExportsAreSafe == Spec => []ExportSafe
<1>1. ExportInv => ExportSafe
  BY DEF ExportInv, Owned, Scanned, ExportSafe
<1> QED
  BY <1>1, ExportInit, ExportNext, PTL DEF Spec

-------------------------------------------------------------------------------
(***************************************************************************)
(* NoDangling.                                                             *)
(*                                                                         *)
(* A pointer is dangling only within the call that destroyed its object:   *)
(* the call ends by erasing the pointer (drop) or renewing it (create),    *)
(* and a close starts by erasing them all.                                 *)
(***************************************************************************)
Dangling == \A n \in Names :
    held[n] = "dangling" =>
        /\ main.name = n
        /\ main.pc \in {"destroy", "join", "lookup", "strip", "drop", "dead"}

Cleared ==
    main.pc = "clear" \/ (main.pc \in {"destroy", "join"} /\ main.next = "clear")
        => \A n \in Names : held[n] = "none"

PointerInv == ExportInv /\ Dangling /\ Cleared

LEMMA PointerInit == Init => PointerInv
BY ExportInit, DatabaseIdle DEF Init, PointerInv, Dangling, Cleared

LEMMA PointerCall == PointerInv /\ ExportInv' /\ ClientCall => PointerInv'
<1> SUFFICES ASSUME PointerInv, ExportInv', ClientCall
             PROVE  PointerInv'
  OBVIOUS
<1>0. TypeOK
  BY DEF PointerInv, ExportInv
<1> USE DEF PointerInv, Dangling, Cleared, Ready
<1>1. CASE Open \/ OpenFails \/ CreateIndex \/ DeleteIndex \/ StartExport \/ WaitForExport
  BY <1>1 DEF Open, OpenFails, CreateIndex, DeleteIndex, StartExport, WaitForExport
<1>2. CASE Close
  BY <1>2 DEF Close
<1>3. CASE CreateCollection
  <2>1. PICK n \in Names :
          IF n \in objects
          THEN Destroy(n, "idle")
          ELSE UNCHANGED main /\ held' = [held EXCEPT ![n] = "live"]
    BY <1>3 DEF CreateCollection
  <2>2. CASE n \in objects
    BY <1>0, <1>3, <2>1, <2>2 DEF CreateCollection, Destroy, TypeOK
  <2>3. CASE n \notin objects
    BY <1>0, <1>3, <2>1, <2>3 DEF CreateCollection, TypeOK
  <2> QED
    BY <2>2, <2>3
<1>4. CASE GetCollection
  BY <1>0, <1>4 DEF GetCollection, TypeOK
<1>5. CASE DropCollection
  <2>1. PICK n \in Names :
          IF n \in objects
          THEN Destroy(n, "lookup")
          ELSE main' = [Idle EXCEPT !.pc = "lookup", !.name = n] /\ UNCHANGED held
    BY <1>5 DEF DropCollection
  <2>2. CASE n \in objects
    BY <1>0, <1>5, <2>1, <2>2 DEF DropCollection, Destroy, TypeOK
  <2>3. CASE n \notin objects
    <3>1. main' = [pc |-> "lookup", name |-> n, todo |-> {}, next |-> "idle"]
      BY <2>1, <2>3 DEF Idle
    <3> QED
      BY <1>5, <2>1, <2>3, <3>1 DEF DropCollection
  <2> QED
    BY <2>2, <2>3
<1>6. CASE StartExportTwice
  <2>1. main'.pc = "dead"
    BY <1>0, <1>6 DEF StartExportTwice, Goto, TypeOK, Calls
  <2> QED
    BY <1>6, <2>1 DEF StartExportTwice
<1> QED
  BY <1>1, <1>2, <1>3, <1>4, <1>5, <1>6 DEF ClientCall

LEMMA PointerStep ==
    ASSUME "cfError" \notin Faults, PointerInv, ExportInv', ClientStep
    PROVE  PointerInv'
<1>0. TypeOK
  BY DEF PointerInv, ExportInv
<1> USE DEF PointerInv, Dangling, Cleared
<1>1. CASE DropIndex
  <2>1. PICK f \in main.todo : main' = [main EXCEPT !.todo = @ \ {f}]
    BY <1>1 DEF DropIndex
  <2>2. main'.pc = main.pc /\ main'.name = main.name /\ main'.next = main.next
    BY <1>0, <2>1 DEF TypeOK, Calls
  <2> QED
    BY <1>1, <2>2 DEF DropIndex
<1>2. CASE IndexesDone
  <2>1. /\ main'.pc = IF main.pc = "destroy" THEN "join" ELSE "drop"
        /\ main'.name = main.name
        /\ main'.next = main.next
    BY <1>0, <1>2 DEF IndexesDone, Goto, TypeOK, Calls
  <2> QED
    BY <1>2, <2>1 DEF IndexesDone
<1>3. CASE JoinExport
  <2>1. CASE main.next = "idle"
    BY <1>0, <1>3, <2>1, DatabaseIdle DEF JoinExport, TypeOK
  <2>2. CASE main.next # "idle"
    <3>1. main'.pc = main.next /\ main'.name = main.name /\ main'.next = main.next
      BY <1>0, <1>3, <2>2 DEF JoinExport, TypeOK, Calls
    <3>2. main.next \in {"lookup", "clear"} /\ held' = held
      BY <1>0, <1>3, <2>2 DEF JoinExport, TypeOK
    <3> QED
      BY <1>3, <3>1, <3>2 DEF JoinExport
  <2> QED
    BY <2>1, <2>2
<1>4. CASE DropLookup
  <2>1. main'.pc = "strip" /\ main'.name = main.name
    BY <1>0, <1>4 DEF DropLookup, TypeOK, Calls
  <2> QED
    BY <1>4, <2>1 DEF DropLookup
<1>5. CASE DropNull
  <2>1. main'.pc = "dead" /\ main'.name = main.name
    BY <1>0, <1>5 DEF DropNull, Goto, TypeOK, Calls
  <2> QED
    BY <1>5, <2>1 DEF DropNull
<1>6. CASE DropCf
  BY <1>0, <1>6, DatabaseIdle DEF DropCf, TypeOK
<1>7. ~DropIndexFails /\ ~DropCfFails
  BY DEF DropIndexFails, DropCfFails, Fault
<1>8. CASE ClearObject
  BY <1>0, <1>8 DEF ClearObject, Destroy, TypeOK
<1>9. CASE CloseEngine
  BY <1>9, DatabaseIdle DEF CloseEngine
<1> QED
  BY <1>1, <1>2, <1>3, <1>4, <1>5, <1>6, <1>7, <1>8, <1>9 DEF ClientStep

LEMMA PointerNext ==
    ASSUME "cfError" \notin Faults, PointerInv, [Next]_vars
    PROVE  PointerInv'
<1>1. ExportInv'
  BY ExportNext DEF PointerInv
<1>2. CASE \E n \in Names : ExportStep(n)
  <2>1. UNCHANGED <<held, main>>
    BY <1>2 DEF ExportStep, ExportOpen, ExportScan, ExportRemove, ExportRename, ExportTruncates, ExportFails
  <2> QED
    BY <1>1, <2>1 DEF PointerInv, Dangling, Cleared
<1>3. CASE Crash
  BY <1>1, <1>3, DatabaseIdle DEF Crash, PointerInv, Dangling, Cleared
<1>4. CASE UNCHANGED vars
  BY <1>1, <1>4 DEF vars, PointerInv, Dangling, Cleared
<1> QED
  BY <1>1, <1>2, <1>3, <1>4, PointerCall, PointerStep DEF Next

(***************************************************************************)
(* As long as RocksDB drops the column families it is asked to drop, the   *)
(* bridge never keeps a pointer to a destroyed Collection from one call to *)
(* the next, for any sequence of creates, drops, closes and crashes.       *)
(***************************************************************************)
THEOREM PointersAreValid ==
    ASSUME "cfError" \notin Faults
    PROVE  Spec => []NoDangling
<1>1. PointerInv /\ [Next]_vars => PointerInv'
  BY PointerNext
<1>2. PointerInv => NoDangling
  BY DEF PointerInv, ExportInv, TypeOK, Dangling, PointersIn, NoDangling
<1> QED
  BY <1>1, <1>2, PointerInit, PTL DEF Spec

-------------------------------------------------------------------------------
(***************************************************************************)
(* Why the JSON file is complete: an export that is about to replace it    *)
(* has a complete dump file to replace it with.                            *)
(***************************************************************************)
WholeInv ==
    /\ TypeOK
    /\ \A n \in Names : export[n] \in {"remove", "rename"} => dump[n] = "whole"
    /\ ExportWhole

\* A step of the client touches no file, and starts a thread at its beginning.
LEMMA ClientKeepsFiles ==
    ASSUME TypeOK, ClientCall \/ ClientStep
    PROVE  /\ UNCHANGED <<dump, json>>
           /\ \A n \in Names : export'[n] \in {export[n], "none", "open"}
<1> USE DEF TypeOK
<1>1. CASE ClientCall
  <2>1. CASE StartExport \/ WaitForExport
    BY <2>1 DEF StartExport, WaitForExport
  <2>2. CASE Open \/ OpenFails \/ Close \/ CreateCollection \/ GetCollection \/ DropCollection
    BY <2>2 DEF Open, OpenFails, Close, CreateCollection, GetCollection, DropCollection
  <2>3. CASE CreateIndex \/ DeleteIndex \/ StartExportTwice
    BY <2>3 DEF CreateIndex, DeleteIndex, StartExportTwice
  <2> QED
    BY <1>1, <2>1, <2>2, <2>3 DEF ClientCall
<1>2. CASE ClientStep
  <2>1. CASE JoinExport
    BY <2>1 DEF JoinExport
  <2>2. CASE DropIndex \/ DropIndexFails \/ IndexesDone \/ DropLookup \/ DropNull
    BY <2>2 DEF DropIndex, DropIndexFails, IndexesDone, DropLookup, DropNull
  <2>3. CASE DropCf \/ DropCfFails \/ ClearObject \/ CloseEngine
    BY <2>3 DEF DropCf, DropCfFails, ClearObject, CloseEngine
  <2> QED
    BY <1>2, <2>1, <2>2, <2>3 DEF ClientStep
<1> QED
  BY <1>1, <1>2

\* One step of an export thread, when the disk takes what is written to it.
LEMMA WholeExportStep ==
    ASSUME "diskFull" \notin Faults, WholeInv, NEW n \in Names, ExportStep(n), TypeOK'
    PROVE  WholeInv'
<1> USE DEF WholeInv, ExportWhole, TypeOK
<1>1. CASE ExportOpen(n)
  BY <1>1 DEF ExportOpen
<1>2. CASE ExportScan(n)
  BY <1>2 DEF ExportScan
<1>3. CASE ExportRemove(n)
  BY <1>3 DEF ExportRemove
<1>4. CASE ExportRename(n)
  BY <1>4 DEF ExportRename
<1>5. CASE ExportFails(n)
  BY <1>5 DEF ExportFails
<1>6. ~ExportTruncates(n)
  BY DEF ExportTruncates, Fault
<1> QED
  BY <1>1, <1>2, <1>3, <1>4, <1>5, <1>6 DEF ExportStep

(***************************************************************************)
(* As long as the disk takes what is written to it, a collection's JSON    *)
(* file is never a partial export, whatever crashes, errors and drops come *)
(* while exports run.                                                      *)
(***************************************************************************)
THEOREM ExportsAreWhole ==
    ASSUME "diskFull" \notin Faults
    PROVE  Spec => []ExportWhole
<1>1. Init => WholeInv
  BY DatabaseInitType DEF Init, WholeInv, ExportWhole
<1>2. ASSUME WholeInv, [Next]_vars
      PROVE  WholeInv'
  <2>1. TypeOK'
    BY <1>2, DatabaseNextType DEF WholeInv
  <2>2. CASE ClientCall \/ ClientStep
    BY <1>2, <2>1, <2>2, ClientKeepsFiles DEF WholeInv, ExportWhole
  <2>3. CASE \E n \in Names : ExportStep(n)
    BY <1>2, <2>1, <2>3, WholeExportStep
  <2>4. CASE Crash
    BY <1>2, <2>1, <2>4 DEF Crash, WholeInv, ExportWhole
  <2>5. CASE UNCHANGED vars
    BY <1>2, <2>1, <2>5 DEF vars, WholeInv, ExportWhole
  <2> QED
    BY <1>2, <2>2, <2>3, <2>4, <2>5 DEF Next
<1>3. WholeInv => ExportWhole
  BY DEF WholeInv
<1> QED
  BY <1>1, <1>2, <1>3, PTL DEF Spec

===============================================================================
