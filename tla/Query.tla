--------------------------------- MODULE Query ---------------------------------
(***************************************************************************)
(* Collection::findDocument, run by one reader while the threads of        *)
(* Collection write.                                                       *)
(*                                                                         *)
(* A filter is walked operator by operator, in the order of the names, and *)
(* every clause is one scan of one index.  A RocksDB iterator is a         *)
(* snapshot, so a scan is one step; between two scans of one query other   *)
(* threads write.  The result is a vector in the code; here it is the set  *)
(* of the ids in it.  Scans compare keys, the order of which is KeyRank:   *)
(* KeyEncoding shows where it comes from.  $eq compares whole keys, which  *)
(* is what its scan of value# does as long as no text has a '#'.           *)
(***************************************************************************)
EXTENDS Collection, Sequences

CONSTANTS
    Filters,    \* the filters callers pass to findDocument
    KeyRank     \* the place of each key in the byte order of an index

\* The operators in the order in which iterating a filter meets them.
Operators == <<"$and", "$eq", "$gt", "$lt", "$or", "$orderBy">>

\* {op: {field: value}}; the value of $orderBy decides only on the order, which a set
\* does not have.  Any operator that is not supported inside $and or $or, $orderBy
\* among them, is "other".
FindClauses == [op : {"$eq", "$gt", "$lt", "$orderBy", "other"}, field : Fields, value : Contents]

\* One operator of a filter: $and and $or have any number of clauses, the others one.
Parts == [op : {Operators[i] : i \in 1 .. Len(Operators)}, clauses : Seq(FindClauses)]

ASSUME FiltersAssumption ==
    \A q \in Filters :
        /\ q \in Seq(Parts)
        /\ \A i \in 1 .. Len(q) :
            /\ IF q[i].op \in {"$and", "$or"}
               THEN \A j \in 1 .. Len(q[i].clauses) : q[i].clauses[j].op # "$orderBy"
               ELSE Len(q[i].clauses) = 1 /\ q[i].clauses[1].op = q[i].op
            /\ \A j \in 1 .. i - 1 : \E m, n \in 1 .. Len(Operators) :
                  q[j].op = Operators[m] /\ q[i].op = Operators[n] /\ m < n

ASSUME KeyRankAssumption ==
    /\ KeyRank \in [Keys -> Nat]
    /\ \A k, l \in Keys : KeyRank[k] = KeyRank[l] => k = l

VARIABLES
    find,       \* the findDocument under way
    touched,    \* ids some call has named since it began (history)
    steady      \* indexes that have been ready since it began (history)

findVars == <<find, touched, steady>>

-------------------------------------------------------------------------------
(***************************************************************************)
(* The local variables of findDocument.  rest is the part of the filter    *)
(* that is still to be walked, acc andDocIds or orDocIds.                  *)
(***************************************************************************)
NoFind == [pc |-> "idle", filter |-> <<>>, rest |-> <<>>, names |-> {}, acc |-> {},
           result |-> {}]

QueryInit ==
    /\ Init
    /\ find = NoFind
    /\ touched = {}
    /\ steady = {}

CallFind ==
    /\ find.pc = "idle"
    /\ \E q \in Filters :
        find' = [NoFind EXCEPT !.pc = "find", !.filter = q, !.rest = q, !.names = cfs]
    /\ touched' = {id \in Ids : \E t \in Threads : call[t].id = id}
    /\ steady' = ready
    /\ UNCHANGED vars

Walking == find.pc = "find" /\ find.rest # <<>>

Part == Head(find.rest)

Clause == Head(Part.clauses)

\* $gt and $lt refuse a value without a key, which is what null and "" have.
Unparsed(c) == c.op \in {"$gt", "$lt"} /\ parseValue(c.value) = <<"text", "">>

\* An array or an object has no key, and the value of $orderBy must be a string.
ClauseThrows(c) ==
    /\ c.op # "other"
    /\ Throws(c.value) \/ (c.op = "$orderBy" /\ c.value[1] # "string")

\* findDocumentsUsingEq, -Gt, -Lt or the scan they call returns an error; only
\* $eq looks at the names read when the query began.
ClauseFails(c) ==
    \/ c.op = "other"
    \/ c.op = "$eq" /\ c.field \notin find.names
    \/ Unparsed(c)
    \/ c.field \notin cfs

\* The keys at which the scan of a clause collects an id.
Selects(c, key) ==
    CASE c.op = "$eq" -> key = parseValue(c.value)
      [] c.op = "$gt" -> KeyRank[key] > KeyRank[parseValue(c.value)]
      [] c.op = "$lt" -> KeyRank[key] < KeyRank[parseValue(c.value)]
      [] OTHER -> TRUE

\* Mutation of Scan: $lt does not step back from the keys equal to the value.
ScanUpTo(c) ==
    {e[2] : e \in {x \in index[c.field] :
        Selects(c, x[1]) \/ (c.op = "$lt" /\ x[1] = parseValue(c.value))}}

\* Mutation of Scan: $gt does not skip the keys equal to the value.
ScanEqual(c) ==
    {e[2] : e \in {x \in index[c.field] :
        Selects(c, x[1]) \/ (c.op = "$gt" /\ x[1] = parseValue(c.value))}}

Scan(c) == {e[2] : e \in {x \in index[c.field] : Selects(c, x[1])}}

-------------------------------------------------------------------------------
\* $eq, $gt, $lt or $orderBy by itself: an error is logged and forgotten.
FindOne ==
    /\ Walking
    /\ Part.op \notin {"$and", "$or"}
    /\ ~ClauseThrows(Clause)
    /\ find' = [find EXCEPT !.rest = Tail(@),
                            !.result = IF ClauseFails(Clause) THEN @ ELSE @ \cup Scan(Clause)]
    /\ UNCHANGED <<vars, touched, steady>>

\* Mutation of Intersect: an empty accumulator is never filled.
IntersectEmpty(acc, ids) == acc \cap ids

\* $and takes an accumulator that is empty for one that has not been filled yet.
Intersect(acc, ids) == IF acc = {} THEN ids ELSE acc \cap ids

\* The next clause of $and or $or.
FindNext ==
    /\ Walking
    /\ Part.op \in {"$and", "$or"} /\ Part.clauses # <<>>
    /\ ~ClauseThrows(Clause)
    /\ ~ClauseFails(Clause)
    /\ find' = [find EXCEPT !.acc = IF Part.op = "$and" THEN Intersect(@, Scan(Clause))
                                    ELSE @ \cup Scan(Clause),
                            !.rest = <<[Part EXCEPT !.clauses = Tail(@)]>> \o Tail(@)]
    /\ UNCHANGED <<vars, touched, steady>>

\* The last clause of $and or $or is done.
FindCollect ==
    /\ Walking
    /\ Part.op \in {"$and", "$or"} /\ Part.clauses = <<>>
    /\ find' = [find EXCEPT !.result = @ \cup find.acc, !.acc = {}, !.rest = Tail(@)]
    /\ UNCHANGED <<vars, touched, steady>>

\* A clause of $and or $or fails: findDocument returns an empty vector.
FindFails ==
    /\ Walking
    /\ Part.op \in {"$and", "$or"} /\ Part.clauses # <<>>
    /\ ~ClauseThrows(Clause)
    /\ ClauseFails(Clause)
    /\ find' = [find EXCEPT !.result = {}, !.acc = {}, !.rest = <<>>]
    /\ UNCHANGED <<vars, touched, steady>>

\* The exception leaves findDocument.
FindThrows ==
    /\ Walking
    /\ Part.clauses # <<>>
    /\ ClauseThrows(Clause)
    /\ find' = NoFind /\ touched' = {} /\ steady' = {}
    /\ UNCHANGED vars

Answered == find.pc = "find" /\ find.rest = <<>>

FindReturn ==
    /\ Answered
    /\ find' = NoFind /\ touched' = {} /\ steady' = {}
    /\ UNCHANGED vars

FindStep ==
    \/ CallFind \/ FindOne \/ FindNext \/ FindCollect \/ FindFails \/ FindThrows \/ FindReturn

\* A step of a writer, and what it means to the query under way.
WriteStep ==
    /\ \E t \in Threads : Begin(t) \/ Continue(t) \/ Fails(t)
    /\ IF find.pc = "idle" THEN UNCHANGED <<touched, steady>>
       ELSE /\ touched' = touched \cup {id \in Ids : \/ docs'[id] # docs[id]
                                                     \/ \E t \in Threads : call'[t].id = id}
            /\ steady' = steady \cap ready'
    /\ UNCHANGED find

\* The process dies, and the query with it.
QueryCrash ==
    /\ Crash
    /\ find' = NoFind /\ touched' = {} /\ steady' = {}

QueryNext == FindStep \/ WriteStep \/ QueryCrash

QuerySpec == QueryInit /\ [][QueryNext]_<<vars, findVars>>

-------------------------------------------------------------------------------
(***************************************************************************)
(* What a filter means.                                                    *)
(***************************************************************************)
Matches(doc, c) ==
    /\ hasField(doc, c.field) /\ ~Throws(doc[c.field])
    /\ Selects(c, parseValue(doc[c.field]))

MatchesPart(doc, p) ==
    CASE p.op = "$and" -> p.clauses # <<>> /\ \A i \in 1 .. Len(p.clauses) : Matches(doc, p.clauses[i])
      [] OTHER -> \E i \in 1 .. Len(p.clauses) : Matches(doc, p.clauses[i])

PartsOf(q) == {q[i] : i \in 1 .. Len(q)}

\* Every clause can be answered from an index that has been ready all along.
Served(q) ==
    \A p \in PartsOf(q) : \A i \in 1 .. Len(p.clauses) :
        LET c == p.clauses[i]
        IN  c.op # "other" /\ ~Unparsed(c) /\ c.field \in steady

\* The document was there, the same, from the start of the query to its end.
Still(id) == id \notin touched /\ docs[id] # None

(***************************************************************************)
(* findDocument misses nothing: a document that is there throughout and    *)
(* matches some operator of the filter is in the result, whatever is       *)
(* written, indexed and dropped beside it between two scans.               *)
(***************************************************************************)
FindsAll ==
    Answered /\ Served(find.filter) =>
        \A id \in Ids :
            Still(id) /\ (\E p \in PartsOf(find.filter) : MatchesPart(docs[id], p))
                => id \in find.result

\* No index has an entry for this document that it does not live up to.
Exact(id) ==
    \A f \in Fields : \A e \in index[f] :
        e[2] = id => hasField(docs[id], f) /\ e = Entry(docs[id], f, id)

\* Some document matches the whole $and throughout, so its accumulator is never
\* empty once it has been filled.
Witnessed(p) == \E id \in Ids : Still(id) /\ MatchesPart(docs[id], p)

(***************************************************************************)
(* findDocument returns nothing else: a document that is there throughout, *)
(* without stale entries, and is in the result matches some operator of    *)
(* the filter - the whole of $and as long as some document does.           *)
(***************************************************************************)
FindsOnly ==
    Answered /\ Served(find.filter) =>
        \A id \in find.result :
            Still(id) /\ Exact(id)
                => \E p \in PartsOf(find.filter) :
                      MatchesPart(docs[id], p) \/ (p.op = "$and" /\ ~Witnessed(p))

(***************************************************************************)
(* $and is a logical AND: a document it returns matches every clause.      *)
(***************************************************************************)
AndMeansAll ==
    Answered /\ Served(find.filter) =>
        \A id \in find.result :
            Still(id) /\ Exact(id)
                => \E p \in PartsOf(find.filter) : MatchesPart(docs[id], p)

===============================================================================
