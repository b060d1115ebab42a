-------------------------------- MODULE Durable --------------------------------
(***************************************************************************)
(* Collection on a machine that may lose power.                            *)
(*                                                                         *)
(* getWriteOptions does not ask for the write-ahead log to be synced, so   *)
(* an acknowledged write reaches the disk when the operating system writes *)
(* the log, a memtable is flushed or close() calls SyncWAL.  All column    *)
(* families share one log, RocksDB syncs it before a flush of one of them, *)
(* and recovery stops at its first gap: what is found after a power loss   *)
(* is what the store held at one earlier moment.  Column families are made *)
(* and dropped in the MANIFEST, which is synced.                           *)
(***************************************************************************)
EXTENDS Collection

VARIABLE
    disk    \* the documents and indexes that recovery would find

durableVars == <<vars, disk>>

Held == [docs |-> docs, index |-> index]

DurableInit == Init /\ disk = Held

\* The indexes that have just been dropped go at once, the log stays behind.
LogUnsynced ==
    disk' = [disk EXCEPT !.index = [f \in Fields |-> IF f \in cfs \ cfs' THEN {} ELSE @[f]]]

\* Mutation of Persist: the log of the documents and that of the indexes are two.
PersistDocs ==
    /\ disk # Held
    /\ disk' = [disk EXCEPT !.docs = docs]
    /\ UNCHANGED vars

\* The log reaches the disk.
Persist ==
    /\ disk # Held
    /\ disk' = Held
    /\ UNCHANGED vars

\* The machine stops and is started again.
PowerLoss ==
    /\ Fault("powerLoss")
    /\ docs' = disk.docs
    /\ index' = disk.index
    /\ call' = [t \in Threads |-> Idle]
    /\ mutex' = None
    /\ UNCHANGED <<cfs, ready, disk>>

DurableNext == (Next /\ LogUnsynced) \/ Persist \/ PowerLoss

DurableSpec == DurableInit /\ [][DurableNext]_durableVars

===============================================================================
