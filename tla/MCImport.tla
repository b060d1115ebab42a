------------------------------- MODULE MCImport -------------------------------
(***************************************************************************)
(* Import for TLC: a file with and one without anything wrong in it.       *)
(***************************************************************************)
EXTENDS Import, MCCollection

Object(id, doc) == [kind |-> "object", id |-> id, doc |-> doc]

Full  == [f \in Fields |-> True]
Half  == [f \in Fields |-> IF f = 1 THEN True ELSE Missing]
Bad   == [f \in Fields |-> IF f = 1 THEN True ELSE Array]

ImportInputs == {Full, Half, Bad}

\* doc_1 twice; doc_0 twice, the second time with a value no index can take, and
\* an _id that is no string.
AllFiles ==
    {<<[kind |-> "other", id |-> None, doc |-> Half], Object(None, Full), Object(2, Half)>>,
     <<Object(None, Half), Object(1, Bad), [kind |-> "badId", id |-> None, doc |-> Half]>>}

\* The ids doc_0 and doc_1.
Positions == [n \in 0 .. 1 |-> n + 1]

ImportOps == [t \in Threads |-> IF t = Importer THEN {"overwrite"} ELSE {"update", "deleteIndex"}]

===============================================================================
