----------------------------- MODULE DocumentStore -----------------------------
(***************************************************************************)
(* What Collection promises its callers, indexes aside: a map from ids to  *)
(* documents on which every call takes effect at one moment between its    *)
(* start and its return, or not at all.                                    *)
(***************************************************************************)
CONSTANTS
    Threads,            \* the callers
    Ids,                \* document ids
    Doc,                \* documents
    EmptyDoc,           \* the one an upsert starts from
    Updates,            \* the update objects callers pass to updateDocument
    applyUpdate(_, _),  \* what they make of a document
    None                \* no document, no request

VARIABLES
    docs,       \* what is stored under each id
    pending     \* the request of each caller that has not been answered

vars == <<docs, pending>>

-------------------------------------------------------------------------------
Requests ==
    [op : {"create"}, id : Ids, doc : Doc]
        \cup [op : {"update"}, id : Ids, update : Updates, upsert : BOOLEAN]
        \cup [op : {"delete"}, id : Ids]

\* What a request makes of the document stored under its id.
Result(old, r) ==
    CASE r.op = "create" -> r.doc
      [] r.op = "update" -> applyUpdate(IF old = None THEN EmptyDoc ELSE old, r.update)
      [] r.op = "delete" -> None

\* updateDocument makes no document without upsert.
Applies(old, r) == r.op = "update" => old # None \/ r.upsert

Init ==
    /\ docs = [i \in Ids |-> None]
    /\ pending = [t \in Threads |-> None]

Request(t) ==
    /\ pending[t] = None
    /\ \E r \in Requests : pending' = [pending EXCEPT ![t] = r]
    /\ UNCHANGED docs

\* The request takes effect and is answered OK.
Perform(t) ==
    /\ pending[t] # None
    /\ Applies(docs[pending[t].id], pending[t])
    /\ docs' = [docs EXCEPT ![pending[t].id] = Result(@, pending[t])]
    /\ pending' = [pending EXCEPT ![t] = None]

\* The request is answered by an error and has changed no document.
Refuse(t) ==
    /\ pending[t] # None
    /\ pending' = [pending EXCEPT ![t] = None]
    /\ UNCHANGED docs

\* The callers die; what they asked for has not happened.
Forget ==
    /\ pending' = [t \in Threads |-> None]
    /\ UNCHANGED docs

Next ==
    \/ \E t \in Threads : Request(t) \/ Perform(t) \/ Refuse(t)
    \/ Forget

Spec == Init /\ [][Next]_vars

===============================================================================
