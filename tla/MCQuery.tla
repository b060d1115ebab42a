-------------------------------- MODULE MCQuery --------------------------------
(***************************************************************************)
(* Query for TLC: operators alone and together, over two fields.           *)
(***************************************************************************)
EXTENDS Query, MCCollection

Rank == [k \in Keys |-> CASE k = <<"text", "">> -> 1 [] k = <<"text", "true">> -> 2 [] OTHER -> 3]

If(op, f, v) == [op |-> op, field |-> f, value |-> v]

Only(op, f, v) == [op |-> op, clauses |-> <<If(op, f, v)>>]

And(c, d) == [op |-> "$and", clauses |-> <<c, d>>]

Or(c, d) == [op |-> "$or", clauses |-> <<c, d>>]

\* Every operator; $orderBy throws here and does not in MCHandlers.
AllFilters ==
    {<<And(If("$eq", 1, True), If("$lt", 2, One)), Only("$gt", 1, Yes)>>,
     <<Or(If("$lt", 1, One), If("$eq", 2, Yes))>>,
     <<Only("$orderBy", 2, One)>>}

\* QueryNext, but the process does not die inside a deleteDocument, which would leave
\* a document without some of its entries.
SerialNext ==
    \/ FindStep
    \/ WriteStep
    \/ QueryCrash /\ \A t \in Threads : call[t].pc # "remove"

SerialSpec == QueryInit /\ [][SerialNext]_<<vars, findVars>>

\* Two clauses of $and, on two fields.
AndFilter == {<<And(If("$eq", 1, True), If("$lt", 2, One))>>}

===============================================================================
