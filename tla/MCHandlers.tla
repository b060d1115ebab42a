------------------------------ MODULE MCHandlers ------------------------------
(***************************************************************************)
(* Handlers for TLC.                                                       *)
(***************************************************************************)
EXTENDS Handlers, MCQuery

\* Every operator but $and.
StreamFilters ==
    {<<Only("$eq", 1, True), Only("$gt", 2, Yes)>>,
     <<Or(If("$lt", 1, One), If("$eq", 2, Five))>>,
     <<Only("$orderBy", 2, True)>>,
     <<Only("$eq", 1, Array)>>,
     <<Only("$gt", 1, Yes), Only("$orderBy", 2, One)>>}

\* The first index may refuse a document, the second never does.
FirstMixed == {doc \in DocsOver({Yes, One, Array}) : doc[2] # Array}

===============================================================================
