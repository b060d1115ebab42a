------------------------------ MODULE QueryProofs ------------------------------
(***************************************************************************)
(* What findDocument promises for any number of writers, ids, fields,      *)
(* values and filters, as long as the indexes are complete: and they are,  *)
(* by the theorems of CollectionProofs and SerialProofs.                   *)
(***************************************************************************)
EXTENDS Query, SerialProofs, SequenceTheorems

-------------------------------------------------------------------------------
\* A query changes nothing: its steps are stuttering steps of the collection.
LEMMA QueryStep == [QueryNext]_<<vars, findVars>> => [Next]_vars
BY DEF QueryNext, FindStep, CallFind, FindOne, FindNext, FindCollect, FindFails, FindThrows,
       FindReturn, WriteStep, QueryCrash, Next, vars, findVars

(***************************************************************************)
(* A collection that is queried behaves as one that is not: what is proved *)
(* of Spec holds while findDocument runs beside the writers.               *)
(***************************************************************************)
THEOREM QueryOnlyReads == QuerySpec => Spec
<1>1. QueryInit => Init
  BY DEF QueryInit
<1> QED
  BY <1>1, QueryStep, PTL DEF QuerySpec, Spec

-------------------------------------------------------------------------------
(***************************************************************************)
(* Walking a sequence from its head: what is left is an end of it.         *)
(***************************************************************************)

\* How many elements of q are done when r is left of it.
Passed(q, r) == Len(q) - Len(r)

\* All that follows the head of r is as in q.
Follows(q, r) ==
    /\ Len(r) <= Len(q)
    /\ \A i \in 2 .. Len(r) : r[i] = q[Passed(q, r) + i]

IsEnd(q, r) ==
    /\ Follows(q, r)
    /\ r # <<>> => Head(r) = q[Passed(q, r) + 1]

LEMMA PassedAll ==
    ASSUME NEW S, NEW q \in Seq(S)
    PROVE  Passed(q, <<>>) = Len(q) /\ IsEnd(q, q) /\ Passed(q, q) = 0
BY DEF Passed, IsEnd, Follows

LEMMA PassedNext ==
    ASSUME NEW S, NEW q \in Seq(S), NEW r \in Seq(S), Follows(q, r), r # <<>>
    PROVE  Passed(q, r) \in Nat /\ Passed(q, r) + 1 \in 1 .. Len(q)
BY DEF Passed, Follows

LEMMA PassedType ==
    ASSUME NEW S, NEW q \in Seq(S), NEW r \in Seq(S), Follows(q, r)
    PROVE  Passed(q, r) \in Nat
BY DEF Passed, Follows

LEMMA PassedWithin ==
    ASSUME NEW S, NEW q \in Seq(S), NEW r \in Seq(S), Follows(q, r)
    PROVE  Passed(q, r) <= Len(q) /\ \A j \in 1 .. Passed(q, r) : j \in 1 .. Len(q)
BY DEF Passed, Follows

LEMMA TailIsEnd ==
    ASSUME NEW S, NEW q \in Seq(S), NEW r \in Seq(S), Follows(q, r), r # <<>>
    PROVE  /\ Tail(r) \in Seq(S)
           /\ IsEnd(q, Tail(r))
           /\ Passed(q, Tail(r)) = Passed(q, r) + 1
<1>1. /\ Tail(r) \in Seq(S) /\ Len(Tail(r)) = Len(r) - 1
      /\ \A i \in 1 .. Len(r) - 1 : Tail(r)[i] = r[i + 1]
      /\ Len(r) \in Nat /\ Len(q) \in Nat /\ Len(r) > 0 /\ Len(r) <= Len(q)
  BY DEF Follows
<1>2. Passed(q, Tail(r)) = Passed(q, r) + 1 /\ Passed(q, r) \in Nat
  BY <1>1 DEF Passed
<1>3. ASSUME NEW i \in 1 .. Len(r) - 1
      PROVE  Tail(r)[i] = q[Passed(q, Tail(r)) + i]
  <2>1. i + 1 \in 2 .. Len(r) /\ Passed(q, r) + (i + 1) = Passed(q, Tail(r)) + i
    BY <1>1, <1>2
  <2> QED
    BY <1>1, <2>1 DEF Follows
<1>4. Follows(q, Tail(r))
  BY <1>1, <1>3 DEF Follows
<1>5. CASE Tail(r) # <<>>
  <2>1. Head(Tail(r)) = Tail(r)[1] /\ 1 \in 1 .. Len(r) - 1
    BY <1>1, <1>5
  <2> QED
    BY <1>1, <1>2, <1>3, <1>4, <2>1 DEF IsEnd
<1> QED
  BY <1>1, <1>2, <1>4, <1>5 DEF IsEnd

\* r with another head.
Rehead(r, x) == <<x>> \o Tail(r)

LEMMA NewHead ==
    ASSUME NEW S, NEW q \in Seq(S), NEW r \in Seq(S), NEW x \in S, NEW y,
           Follows(q, r), r # <<>>, y = Rehead(r, x)
    PROVE  /\ y \in Seq(S) /\ y # <<>> /\ Head(y) = x
           /\ Follows(q, y)
           /\ Passed(q, y) = Passed(q, r)
<1>1. /\ Tail(r) \in Seq(S) /\ Len(Tail(r)) = Len(r) - 1
      /\ \A i \in 1 .. Len(r) - 1 : Tail(r)[i] = r[i + 1]
      /\ <<x>> \in Seq(S) /\ Len(<<x>>) = 1 /\ <<x>>[1] = x
      /\ Len(r) \in Nat /\ Len(r) > 0
  OBVIOUS
<1>2. y \in Seq(S) /\ Len(y) = Len(r)
  BY <1>1 DEF Rehead
<1>3. \A i \in 1 .. Len(y) : y[i] = IF i <= 1 THEN <<x>>[i] ELSE Tail(r)[i - 1]
  BY <1>1, <1>2 DEF Rehead
<1>4. y # <<>> /\ Head(y) = x
  BY <1>1, <1>2, <1>3
<1>5. ASSUME NEW i \in 2 .. Len(r)
      PROVE  y[i] = r[i]
  <2>1. y[i] = Tail(r)[i - 1] /\ i - 1 \in 1 .. Len(r) - 1 /\ (i - 1) + 1 = i
    BY <1>1, <1>2, <1>3
  <2> QED
    BY <1>1, <2>1
<1>6. Passed(q, y) = Passed(q, r)
  BY <1>2 DEF Passed
<1>7. Follows(q, y)
  BY <1>2, <1>5, <1>6 DEF Follows
<1> QED
  BY <1>2, <1>4, <1>6, <1>7

-------------------------------------------------------------------------------
(***************************************************************************)
(* Where the walk over a filter stands.                                    *)
(***************************************************************************)

\* The operators that are done, the one under way, and its clauses that are done.
Done == Passed(find.filter, find.rest)

At == find.filter[Done + 1]

ClausesDone == Passed(At.clauses, Part.clauses)

FindType ==
    find \in [pc : {"find"}, filter : Filters, rest : Seq(Parts), names : SUBSET Fields,
             acc : SUBSET Ids, result : SUBSET Ids]

\* What is left of the filter is an end of it, and of its operator under way; only
\* $and and $or are ever half done.
Walks ==
    /\ Follows(find.filter, find.rest)
    /\ find.rest # <<>> =>
        /\ Part.op = At.op
        /\ IsEnd(At.clauses, Part.clauses)
        /\ ClausesDone > 0 => At.op \in {"$and", "$or"}
        /\ ClausesDone = 0 => find.acc = {}
    /\ find.rest = <<>> => find.acc = {}

\* The history: what the calls under way name is touched, and what is steady was
\* there when the query began.
Watches ==
    /\ touched \subseteq Ids
    /\ steady \subseteq ready \cap find.names
    /\ \A t \in Threads : call[t].id \in touched \cup {None}

LEMMA FilterType ==
    ASSUME NEW q \in Filters
    PROVE  /\ q \in Seq(Parts)
           /\ \A i \in 1 .. Len(q) :
                /\ q[i] \in Parts
                /\ q[i] \in PartsOf(q)
                /\ q[i].op \notin {"$and", "$or"} => Len(q[i].clauses) = 1
<1>1. q \in Seq(Parts)
  BY FiltersAssumption
<1>2. \A i \in 1 .. Len(q) : q[i] \in Parts /\ q[i] \in PartsOf(q)
  BY <1>1 DEF PartsOf
<1> QED
  BY <1>1, <1>2, FiltersAssumption

LEMMA PartType ==
    ASSUME NEW p \in Parts
    PROVE  p.clauses \in Seq(FindClauses) /\ Len(p.clauses) \in Nat
BY DEF Parts

\* The operator under way, in the filter.
LEMMA WalkAt ==
    ASSUME FindType, Walks, find.rest # <<>>
    PROVE  /\ Done \in Nat /\ Done + 1 \in 1 .. Len(find.filter)
           /\ Part \in Parts /\ Part.clauses \in Seq(FindClauses)
           /\ At \in PartsOf(find.filter) /\ At.clauses \in Seq(FindClauses)
           /\ At \in Parts
           /\ At.op \notin {"$and", "$or"} => Len(At.clauses) = 1
           /\ ClausesDone \in Nat
           /\ Part.clauses = <<>> => ClausesDone = Len(At.clauses)
<1>1. find.filter \in Seq(Parts) /\ find.rest \in Seq(Parts)
  BY FilterType DEF FindType
<1>2. Done \in Nat /\ Done + 1 \in 1 .. Len(find.filter)
  BY <1>1, PassedNext DEF Walks, Done
<1>3. Part \in Parts
  BY <1>1 DEF Part
<1>4. /\ At \in Parts /\ At \in PartsOf(find.filter)
      /\ At.op \notin {"$and", "$or"} => Len(At.clauses) = 1
  BY <1>2, FilterType DEF At, FindType
<1>5. At.clauses \in Seq(FindClauses) /\ Part.clauses \in Seq(FindClauses)
  BY <1>3, <1>4, PartType
<1>6. ClausesDone \in Nat
  BY <1>5, PassedType DEF Walks, IsEnd, ClausesDone
<1>7. Part.clauses = <<>> => ClausesDone = Len(At.clauses)
  BY <1>5, PassedAll DEF ClausesDone
<1> QED
  BY <1>2, <1>3, <1>4, <1>5, <1>6, <1>7

\* The clause under way, in the operator.
LEMMA WalkClause ==
    ASSUME FindType, Walks, find.rest # <<>>, Part.clauses # <<>>
    PROVE  /\ ClausesDone \in Nat
           /\ ClausesDone + 1 \in 1 .. Len(At.clauses)
           /\ Clause = At.clauses[ClausesDone + 1]
           /\ Clause \in FindClauses
<1>1. Part.clauses \in Seq(FindClauses) /\ At.clauses \in Seq(FindClauses)
  BY WalkAt
<1>2. IsEnd(At.clauses, Part.clauses)
  BY DEF Walks
<1>3. ClausesDone \in Nat /\ ClausesDone + 1 \in 1 .. Len(At.clauses)
  BY <1>1, <1>2, PassedNext DEF IsEnd, ClausesDone
<1>4. Clause = At.clauses[ClausesDone + 1]
  BY <1>2 DEF IsEnd, ClausesDone, Clause
<1> QED
  BY <1>1, <1>3, <1>4

\* The walk moves on to the next operator.
LEMMA WalkNextPart ==
    ASSUME FindType, Walks, find.rest # <<>>,
           find'.filter = find.filter, find'.rest = Tail(find.rest), find'.acc = {}
    PROVE  /\ Walks' /\ Done' = Done + 1 /\ find'.rest \in Seq(Parts)
           /\ find'.rest # <<>> => ClausesDone' = 0
<1>1. find.filter \in Seq(Parts) /\ find.rest \in Seq(Parts)
  BY FilterType DEF FindType
<1>2. /\ Done' = Done + 1
      /\ IsEnd(find'.filter, find'.rest)
      /\ find'.rest \in Seq(Parts)
  BY <1>1, TailIsEnd DEF Walks, Done
<1>3. CASE find'.rest = <<>>
  BY <1>2, <1>3 DEF IsEnd, Walks
<1>4. CASE find'.rest # <<>>
  <2>1. Part' = At' /\ Part' \in Parts
    BY <1>2, <1>4 DEF IsEnd, Part, At, Done
  <2>2. Part'.clauses \in Seq(FindClauses)
    BY <2>1, PartType
  <2>3. IsEnd(At'.clauses, Part'.clauses) /\ ClausesDone' = 0
    BY <2>1, <2>2, PassedAll DEF ClausesDone
  <2> QED
    BY <1>2, <1>4, <2>1, <2>3 DEF IsEnd, Walks
<1> QED
  BY <1>2, <1>3, <1>4

\* The walk moves on to the next clause of $and or $or.
LEMMA WalkNextClause ==
    ASSUME FindType, Walks, find.rest # <<>>, Part.op \in {"$and", "$or"}, Part.clauses # <<>>,
           find'.filter = find.filter,
           find'.rest = <<[Part EXCEPT !.clauses = Tail(@)]>> \o Tail(find.rest)
    PROVE  /\ Walks'
           /\ find'.rest \in Seq(Parts) /\ find'.rest # <<>>
           /\ Done' = Done /\ At' = At /\ ClausesDone' = ClausesDone + 1
<1> DEFINE x == [Part EXCEPT !.clauses = Tail(@)]
<1>1. find.filter \in Seq(Parts) /\ find.rest \in Seq(Parts)
  BY FilterType DEF FindType
<1>2. Part \in Parts /\ Part.clauses \in Seq(FindClauses) /\ At.clauses \in Seq(FindClauses)
  BY WalkAt
<1>3. /\ Tail(Part.clauses) \in Seq(FindClauses)
      /\ IsEnd(At.clauses, Tail(Part.clauses))
      /\ Passed(At.clauses, Tail(Part.clauses)) = ClausesDone + 1
  <2>1. Follows(At.clauses, Part.clauses) /\ Part.clauses # <<>>
    BY DEF Walks, IsEnd
  <2> QED
    BY ONLY <1>2, <2>1, TailIsEnd DEF ClausesDone
<1>4. x \in Parts /\ x.op = Part.op /\ x.clauses = Tail(Part.clauses)
  BY <1>2, <1>3 DEF Parts
<1>5. /\ find'.rest \in Seq(Parts) /\ find'.rest # <<>> /\ Head(find'.rest) = x
      /\ Follows(find.filter, find'.rest)
      /\ Passed(find.filter, find'.rest) = Passed(find.filter, find.rest)
  <2>1. Follows(find.filter, find.rest)
    BY DEF Walks
  <2>2. find'.rest = Rehead(find.rest, x)
    BY DEF Rehead
  <2>3. find.rest # <<>> /\ x \in Parts
    BY <1>4
  <2> HIDE DEF x
  <2> QED
    BY ONLY <1>1, <2>1, <2>2, <2>3, NewHead, Zenon
<1>6. Done' = Done /\ At' = At /\ Part' = x
  BY <1>5 DEF Done, At, Part
<1>7. ClausesDone' = ClausesDone + 1
  BY <1>3, <1>4, <1>6 DEF ClausesDone
<1>8. ClausesDone' > 0 /\ ClausesDone' # 0
  BY <1>7, WalkClause
<1> QED
  BY <1>3, <1>4, <1>5, <1>6, <1>7, <1>8 DEF Walks

\* A query begins its walk.
LEMMA WalkStart ==
    ASSUME TypeOK, CallFind
    PROVE  /\ FindType' /\ Walks' /\ Done' = 0
           /\ find'.names = cfs /\ find'.acc = {} /\ find'.result = {}
           /\ find'.rest # <<>> => ClausesDone' = 0
<1>1. PICK q \in Filters :
        find' = [NoFind EXCEPT !.pc = "find", !.filter = q, !.rest = q, !.names = cfs]
  BY DEF CallFind
<1>2. find' = [pc |-> "find", filter |-> q, rest |-> q, names |-> cfs, acc |-> {},
               result |-> {}]
  BY <1>1 DEF NoFind
<1>3. /\ find'.filter = q /\ find'.rest = q /\ find'.names = cfs
      /\ find'.acc = {} /\ find'.result = {}
  BY <1>2
<1>4. q \in Seq(Parts)
  BY FilterType
<1>5. FindType'
  BY <1>2, <1>4 DEF FindType, TypeOK
<1>6. Done' = 0 /\ IsEnd(q, q)
  BY <1>3, <1>4, PassedAll DEF Done
<1>7. ASSUME q # <<>>
      PROVE  Part' = At' /\ IsEnd(At'.clauses, Part'.clauses) /\ ClausesDone' = 0
  <2>1. Part' = At' /\ Part' \in Parts
    BY <1>3, <1>4, <1>6, <1>7 DEF Part, At, IsEnd, Done
  <2> QED
    BY <2>1, PartType, PassedAll DEF ClausesDone
<1>8. Walks'
  BY <1>3, <1>6, <1>7 DEF Walks, IsEnd
<1> QED
  BY <1>3, <1>5, <1>6, <1>7, <1>8

\* A clause of an operator of the filter finds the id.
ClauseFinds(id) ==
    \E p \in PartsOf(find.filter) : \E i \in 1 .. Len(p.clauses) : id \in Scan(p.clauses[i])

\* The walk goes on: what it adds, some clause of the filter has found.
LEMMA WalkStep ==
    ASSUME TypeOK, FindType, Walks, FindOne \/ FindNext \/ FindCollect \/ FindFails
    PROVE  /\ FindType' /\ Walks' /\ find'.filter = find.filter
           /\ \A id \in find'.result \cup find'.acc :
                id \in find.result \cup find.acc \/ ClauseFinds(id)
<1>1. /\ find.rest # <<>> /\ find.acc \subseteq Ids /\ find.result \subseteq Ids
  BY DEF FindOne, FindNext, FindCollect, FindFails, Walking, FindType
<1>2. /\ At \in PartsOf(find.filter) /\ Part.op = At.op
      /\ At.op \notin {"$and", "$or"} => Len(At.clauses) = 1
      /\ ClausesDone \in Nat
  BY <1>1, WalkAt DEF Walks
<1>3. ASSUME Part.clauses # <<>>
      PROVE  /\ Clause \in FindClauses /\ Scan(Clause) \subseteq Ids
             /\ \A id \in Scan(Clause) : ClauseFinds(id)
  <2>1. /\ ClausesDone + 1 \in 1 .. Len(At.clauses) /\ Clause \in FindClauses
        /\ Clause = At.clauses[ClausesDone + 1]
    BY <1>1, <1>3, WalkClause
  <2>2. Clause.field \in Fields
    BY <2>1 DEF FindClauses
  <2>3. Scan(Clause) \subseteq Ids
    BY <2>2 DEF Scan, TypeOK
  <2> QED
    BY <1>2, <2>1, <2>3 DEF ClauseFinds
<1>4. ASSUME NEW new \in SUBSET Ids, NEW acc \in SUBSET Ids, NEW rest \in Seq(Parts),
             find' = [pc |-> "find", filter |-> find.filter, rest |-> rest,
                      names |-> find.names, acc |-> acc, result |-> new]
      PROVE  FindType'
  BY <1>4 DEF FindType
<1>5. CASE FindOne
  <2> DEFINE new == IF ClauseFails(Clause) THEN find.result ELSE find.result \cup Scan(Clause)
  <2>1. ClausesDone = 0 /\ find.acc = {}
    BY <1>1, <1>2, <1>5 DEF Walks, FindOne
  <2>2. Part.clauses # <<>>
    <3>1. Len(At.clauses) = 1
      BY <1>2, <1>5 DEF FindOne
    <3> QED
      BY <1>1, <2>1, <3>1, WalkAt
  <2>3. find' = [pc |-> "find", filter |-> find.filter, rest |-> Tail(find.rest),
                 names |-> find.names, acc |-> {}, result |-> new]
    <3>1. find' = [find EXCEPT !.rest = Tail(@), !.result = new]
      BY <1>5 DEF FindOne
    <3> HIDE DEF new
    <3> QED
      BY <2>1, <3>1 DEF FindType
  <2>4. new \in SUBSET Ids /\ \A id \in new : id \in find.result \/ ClauseFinds(id)
    BY <1>1, <1>3, <2>2
  <2>5. /\ find'.filter = find.filter /\ find'.rest = Tail(find.rest)
        /\ find'.acc = {} /\ find'.result = new
    BY <2>3
  <2>6. Walks' /\ Tail(find.rest) \in Seq(Parts)
    BY <1>1, <2>5, WalkNextPart
  <2> HIDE DEF new
  <2>7. FindType'
    BY <1>4, <2>3, <2>4, <2>6
  <2> QED
    BY <2>4, <2>5, <2>6, <2>7
<1>6. CASE FindNext
  <2> DEFINE new == IF Part.op = "$and" THEN Intersect(find.acc, Scan(Clause))
                    ELSE find.acc \cup Scan(Clause)
             rest == <<[Part EXCEPT !.clauses = Tail(@)]>> \o Tail(find.rest)
  <2>1. Part.op \in {"$and", "$or"} /\ Part.clauses # <<>>
    BY <1>6 DEF FindNext
  <2>2. find' = [find EXCEPT !.acc = new, !.rest = rest]
    BY <1>6 DEF FindNext
  <2>3. new \in SUBSET Ids /\ \A id \in new : id \in find.acc \/ ClauseFinds(id)
    BY <1>1, <1>3, <2>1 DEF Intersect
  <2>4. find' = [pc |-> "find", filter |-> find.filter, rest |-> rest,
                 names |-> find.names, acc |-> new, result |-> find.result]
    <3> HIDE DEF new, rest
    <3> QED
      BY <2>2 DEF FindType
  <2>5. /\ find'.filter = find.filter /\ find'.rest = rest
        /\ find'.acc = new /\ find'.result = find.result
    BY <2>4
  <2>6. Walks' /\ rest \in Seq(Parts)
    BY <1>1, <2>1, <2>5, WalkNextClause
  <2> HIDE DEF new, rest
  <2>7. FindType'
    BY <1>1, <1>4, <2>3, <2>4, <2>6
  <2> QED
    BY <2>3, <2>5, <2>6, <2>7
<1>7. CASE FindCollect
  <2>1. find' = [pc |-> "find", filter |-> find.filter, rest |-> Tail(find.rest),
                 names |-> find.names, acc |-> {}, result |-> find.result \cup find.acc]
    <3>1. find' = [find EXCEPT !.result = @ \cup find.acc, !.acc = {}, !.rest = Tail(@)]
      BY <1>7 DEF FindCollect
    <3> QED
      BY <3>1 DEF FindType
  <2>2. /\ find'.filter = find.filter /\ find'.rest = Tail(find.rest)
        /\ find'.acc = {} /\ find'.result = find.result \cup find.acc
    BY <2>1
  <2>3. Walks' /\ Tail(find.rest) \in Seq(Parts)
    BY <1>1, <2>2, WalkNextPart
  <2>4. FindType'
    BY <1>1, <1>4, <2>1, <2>3
  <2> QED
    BY <2>2, <2>3, <2>4
<1>8. CASE FindFails
  <2>1. find' = [pc |-> "find", filter |-> find.filter, rest |-> <<>>,
                 names |-> find.names, acc |-> {}, result |-> {}]
    <3>1. find' = [find EXCEPT !.result = {}, !.acc = {}, !.rest = <<>>]
      BY <1>8 DEF FindFails
    <3> QED
      BY <3>1 DEF FindType
  <2>2. find'.filter = find.filter /\ find'.rest = <<>> /\ find'.acc = {} /\ find'.result = {}
    BY <2>1
  <2>3. find.filter \in Seq(Parts)
    BY FilterType DEF FindType
  <2>4. Walks'
    BY <2>2, <2>3, PassedAll DEF Walks, Follows
  <2>5. FindType'
    BY <2>1 DEF FindType
  <2> QED
    BY <2>2, <2>4, <2>5
<1> QED
  BY <1>5, <1>6, <1>7, <1>8

-------------------------------------------------------------------------------
(***************************************************************************)
(* What the operators and clauses that are done have found.                *)
(*                                                                         *)
(* FindsAll and FindsOnly speak of the end of the walk.  On the way there, *)
(* the result holds what the operators that are done match, and the        *)
(* accumulator what the clauses that are done match.  A scan sees an index *)
(* at one moment only; what carries its findings to the end is that no     *)
(* call puts, changes or removes anything of a document that is not        *)
(* touched, except by dropping a whole index, which then is not steady.    *)
(***************************************************************************)
CompleteIndexes == IndexComplete /\ ready \subseteq cfs

\* Nothing that has been looked for is missed.
Found(id) ==
    /\ \A j \in 1 .. Done : MatchesPart(docs[id], find.filter[j]) => id \in find.result
    /\ find.rest # <<>> /\ ClausesDone > 0 =>
        /\ At.op = "$and" /\ MatchesPart(docs[id], At) => id \in find.acc
        /\ At.op # "$and" /\ (\E i \in 1 .. ClausesDone : Matches(docs[id], At.clauses[i]))
              => id \in find.acc

\* The index has an entry for the document at which a scan of the clause stops.
Hit(id, c) == \E e \in index[c.field] : e[2] = id /\ Selects(c, e[1])

\* The first n clauses of an operator would collect the document.
HitsPart(id, p, n) ==
    IF p.op = "$and" THEN ~Witnessed(p) \/ \A i \in 1 .. n : Hit(id, p.clauses[i])
    ELSE \E i \in 1 .. n : Hit(id, p.clauses[i])

\* Nothing has been collected for no reason.
Justified(id) ==
    /\ id \in find.result =>
          \E j \in 1 .. Done : /\ find.filter[j].clauses # <<>>
                               /\ HitsPart(id, find.filter[j], Len(find.filter[j].clauses))
    /\ id \in find.acc => HitsPart(id, At, ClausesDone)

Querying ==
    /\ FindType
    /\ Walks
    /\ Watches
    /\ Served(find.filter) => \A id \in Ids : Still(id) => Found(id) /\ Justified(id)

QueryInv ==
    /\ TypeOK
    /\ find.pc = "find" => Querying

\* What is not touched is not being deleted.
LEMMA NotDeleted ==
    ASSUME Watches, NEW id \in Ids, Still(id)
    PROVE  ~BeingDeleted(id)
BY NoneAssumption DEF BeingDeleted, Watches, Still

\* A complete index shows a scan every document that is not touched and matches.
LEMMA ScanFinds ==
    ASSUME TypeOK, CompleteIndexes, Watches, NEW id \in Ids, NEW c \in FindClauses,
           Still(id), c.field \in steady, Matches(docs[id], c)
    PROVE  id \in Scan(c)
<1>1. c.field \in ready
  BY DEF Watches
<1>2. ~BeingDeleted(id)
  BY NotDeleted
<1>3. Entry(docs[id], c.field, id) \in index[c.field]
  BY <1>1, <1>2 DEF CompleteIndexes, IndexComplete, Still, Matches
<1>4. Selects(c, Entry(docs[id], c.field, id)[1]) /\ Entry(docs[id], c.field, id)[2] = id
  BY DEF Matches, Entry
<1> QED
  BY <1>3, <1>4 DEF Scan

LEMMA ScanHits ==
    ASSUME NEW id, NEW c, id \in Scan(c)
    PROVE  Hit(id, c)
BY DEF Scan, Hit

\* A clause of a filter that is served does not fail.
LEMMA ServedClause ==
    ASSUME CompleteIndexes, Watches, Served(find.filter), NEW p \in PartsOf(find.filter),
           NEW i \in 1 .. Len(p.clauses)
    PROVE  p.clauses[i].field \in steady /\ ~ClauseFails(p.clauses[i])
BY DEF CompleteIndexes, Watches, Served, ClauseFails

\* The clause under way of a filter that is served.
LEMMA ServedNow ==
    ASSUME CompleteIndexes, Querying, Served(find.filter), find.rest # <<>>,
           Part.clauses # <<>>
    PROVE  Clause.field \in steady /\ ~ClauseFails(Clause)
<1>1. At \in PartsOf(find.filter)
  BY WalkAt DEF Querying
<1>2. ClausesDone + 1 \in 1 .. Len(At.clauses) /\ Clause = At.clauses[ClausesDone + 1]
  BY WalkClause DEF Querying
<1> QED
  BY <1>1, <1>2, ServedClause DEF Querying

-------------------------------------------------------------------------------
LEMMA QueryCallFind ==
    ASSUME TypeOK, CompleteIndexes, CallFind
    PROVE  Querying'
<1>1. /\ FindType' /\ Walks' /\ Done' = 0
      /\ find'.names = cfs /\ find'.acc = {} /\ find'.result = {}
      /\ find'.rest # <<>> => ClausesDone' = 0
  BY WalkStart
<1>2. Watches'
  BY <1>1 DEF Watches, CallFind, CompleteIndexes, vars, TypeOK, Call
<1>3. ASSUME NEW id \in Ids
      PROVE  Found(id)' /\ Justified(id)'
  BY <1>1 DEF Found, Justified
<1> QED
  BY <1>1, <1>2, <1>3 DEF Querying

\* A step of the query that moves on to the next operator, with what the one that
\* is done has found.
LEMMA QueryNextPart ==
    ASSUME TypeOK, CompleteIndexes, Querying, find.rest # <<>>,
           UNCHANGED <<vars, touched, steady>>,
           NEW new \in SUBSET Ids,
           find' = [find EXCEPT !.rest = Tail(find.rest), !.acc = {},
                                !.result = find.result \cup new],
           Served(find.filter) => \A id \in Ids : Still(id) =>
              /\ MatchesPart(docs[id], At) => id \in new
              /\ id \in new => At.clauses # <<>> /\ HitsPart(id, At, Len(At.clauses))
    PROVE  Querying'
<1>1. /\ find'.pc = "find" /\ find'.filter = find.filter /\ find'.rest = Tail(find.rest)
      /\ find'.names = find.names /\ find'.acc = {} /\ find'.result = find.result \cup new
  BY DEF Querying, FindType
<1>2. /\ Walks' /\ Done' = Done + 1 /\ find'.rest \in Seq(Parts)
      /\ find'.rest # <<>> => ClausesDone' = 0
  BY <1>1, WalkNextPart DEF Querying
<1>3. FindType'
  BY <1>2 DEF Querying, FindType
<1>4. Watches'
  BY <1>1 DEF Querying, Watches, vars
<1>5. UNCHANGED <<docs, index, touched, steady>>
  BY DEF vars
<1>6. Served(find.filter)' <=> Served(find.filter)
  BY <1>1, <1>5 DEF Served
<1>7. Done \in Nat /\ At = find.filter[Done + 1]
  BY WalkAt DEF Querying, At
<1>8. ASSUME Served(find.filter), NEW id \in Ids, Still(id)
      PROVE  Found(id)' /\ Justified(id)'
  <2>1. Found(id) /\ Justified(id)
    BY <1>8 DEF Querying
  <2>2. ASSUME NEW j \in 1 .. Done', MatchesPart(docs[id], find.filter[j])
        PROVE  id \in find'.result
    <3>1. CASE j = Done + 1
      BY <1>1, <1>7, <1>8, <2>2, <3>1
    <3>2. CASE j # Done + 1
      <4>1. j \in 1 .. Done
        BY <1>2, <1>7, <3>2
      <4> QED
        BY <1>1, <2>1, <2>2, <4>1 DEF Found
    <3> QED
      BY <3>1, <3>2
  <2>3. Found(id)'
    <3>1. \A p : MatchesPart(docs[id], p)' <=> MatchesPart(docs[id], p)
      BY <1>5 DEF MatchesPart, Matches
    <3>2. \A j \in 1 .. Done' : MatchesPart(docs[id], find.filter[j])' => id \in find'.result
      BY <1>1, <1>5, <2>2, <3>1
    <3> QED
      BY <1>2, <3>2 DEF Found
  <2>4. \A p, n : HitsPart(id, p, n)' <=> HitsPart(id, p, n)
    BY <1>5 DEF HitsPart, Witnessed, Still, Hit
  <2>5. ASSUME id \in find'.result
        PROVE  \E j \in 1 .. Done' :
                  /\ find.filter[j].clauses # <<>>
                  /\ HitsPart(id, find.filter[j], Len(find.filter[j].clauses))
    <3>1. CASE id \in new
      <4>1. Done + 1 \in 1 .. Done'
        BY <1>2, <1>7
      <4> QED
        BY <1>7, <1>8, <3>1, <4>1
    <3>2. CASE id \in find.result
      <4>1. \A j \in 1 .. Done : j \in 1 .. Done'
        BY <1>2, <1>7
      <4> QED
        BY <2>1, <3>2, <4>1 DEF Justified
    <3> QED
      BY <1>1, <2>5, <3>1, <3>2
  <2>6. Justified(id)'
    BY <1>1, <2>4, <2>5 DEF Justified
  <2> QED
    BY <2>3, <2>6
<1>9. \A id \in Ids : Still(id)' => Still(id)
  BY <1>5 DEF Still
<1> QED
  BY <1>2, <1>3, <1>4, <1>6, <1>8, <1>9 DEF Querying

LEMMA QueryFindOne ==
    ASSUME TypeOK, CompleteIndexes, Querying, FindOne
    PROVE  Querying'
<1> DEFINE new == IF ClauseFails(Clause) THEN {} ELSE Scan(Clause)
<1>1. /\ find.rest # <<>> /\ Part.op \notin {"$and", "$or"}
      /\ UNCHANGED <<vars, touched, steady>>
      /\ find' = [find EXCEPT !.rest = Tail(@),
                              !.result = IF ClauseFails(Clause) THEN @ ELSE @ \cup Scan(Clause)]
  BY DEF FindOne, Walking
<1>2. FindType /\ Walks /\ Watches
  BY DEF Querying
<1>3. /\ At \in PartsOf(find.filter) /\ At \in Parts /\ At.op \notin {"$and", "$or"}
      /\ Len(At.clauses) = 1 /\ At.clauses \in Seq(FindClauses)
      /\ ClausesDone \in Nat
  BY <1>1, <1>2, WalkAt DEF Walks
<1>4. ClausesDone = 0 /\ find.acc = {}
  BY <1>1, <1>2, <1>3 DEF Walks
<1>5. Part.clauses # <<>>
  BY <1>1, <1>2, <1>3, <1>4, WalkAt
<1>6. Clause = At.clauses[1] /\ Clause \in FindClauses
  BY <1>1, <1>2, <1>4, <1>5, WalkClause
<1>7. Clause.field \in Fields /\ new \in SUBSET Ids
  BY <1>6 DEF FindClauses, Scan, TypeOK
<1>8. find' = [find EXCEPT !.rest = Tail(find.rest), !.acc = {}, !.result = find.result \cup new]
  <2>1. find = [pc |-> find.pc, filter |-> find.filter, rest |-> find.rest,
                names |-> find.names, acc |-> find.acc, result |-> find.result]
    BY <1>2 DEF FindType
  <2> QED
    BY <1>1, <1>4, <2>1
<1>9. ASSUME Served(find.filter), NEW id \in Ids, Still(id)
      PROVE  /\ MatchesPart(docs[id], At) => id \in new
             /\ id \in new => At.clauses # <<>> /\ HitsPart(id, At, Len(At.clauses))
  <2>1. Clause.field \in steady /\ ~ClauseFails(Clause)
    BY <1>1, <1>5, <1>9, ServedNow
  <2>2. ASSUME MatchesPart(docs[id], At)
        PROVE  id \in new
    <3>1. Matches(docs[id], Clause)
      BY <1>3, <1>6, <2>2 DEF MatchesPart
    <3> QED
      BY <1>2, <1>6, <1>9, <2>1, <3>1, ScanFinds
  <2>3. ASSUME id \in new
        PROVE  At.clauses # <<>> /\ HitsPart(id, At, Len(At.clauses))
    <3>1. Hit(id, At.clauses[1])
      BY <1>6, <2>1, <2>3, ScanHits
    <3> QED
      BY <1>3, <3>1 DEF HitsPart
  <2> QED
    BY <2>2, <2>3
<1> HIDE DEF new
<1> QED
  BY <1>1, <1>7, <1>8, <1>9, QueryNextPart

LEMMA QueryFindCollect ==
    ASSUME TypeOK, CompleteIndexes, Querying, FindCollect
    PROVE  Querying'
<1>1. /\ find.rest # <<>> /\ Part.op \in {"$and", "$or"} /\ Part.clauses = <<>>
      /\ UNCHANGED <<vars, touched, steady>>
      /\ find' = [find EXCEPT !.result = @ \cup find.acc, !.acc = {}, !.rest = Tail(@)]
  BY DEF FindCollect, Walking
<1>2. FindType /\ Walks /\ Watches
  BY DEF Querying
<1>3. /\ At.op \in {"$and", "$or"} /\ At.clauses \in Seq(FindClauses)
      /\ ClausesDone = Len(At.clauses) /\ ClausesDone \in Nat
  BY <1>1, <1>2, WalkAt DEF Walks
<1>4. find.acc \in SUBSET Ids
  BY <1>2 DEF FindType
<1>5. find' = [find EXCEPT !.rest = Tail(find.rest), !.acc = {},
                           !.result = find.result \cup find.acc]
  <2>1. find = [pc |-> find.pc, filter |-> find.filter, rest |-> find.rest,
                names |-> find.names, acc |-> find.acc, result |-> find.result]
    BY <1>2 DEF FindType
  <2> QED
    BY <1>1, <2>1
<1>6. At.clauses # <<>> => ClausesDone > 0
  BY <1>3
<1>7. ASSUME Served(find.filter), NEW id \in Ids, Still(id)
      PROVE  /\ MatchesPart(docs[id], At) => id \in find.acc
             /\ id \in find.acc => At.clauses # <<>> /\ HitsPart(id, At, Len(At.clauses))
  <2>1. Found(id) /\ Justified(id)
    BY <1>7 DEF Querying
  <2>2. ASSUME MatchesPart(docs[id], At)
        PROVE  id \in find.acc
    <3>1. CASE At.op = "$and"
      BY <1>1, <1>6, <2>1, <2>2, <3>1 DEF Found, MatchesPart
    <3>2. CASE At.op # "$and"
      <4>1. \E i \in 1 .. ClausesDone : Matches(docs[id], At.clauses[i])
        BY <1>3, <2>2, <3>2 DEF MatchesPart
      <4>2. ClausesDone > 0
        BY <1>3, <4>1
      <4> QED
        BY <1>1, <2>1, <3>2, <4>1, <4>2 DEF Found
    <3> QED
      BY <3>1, <3>2
  <2>3. ASSUME id \in find.acc
        PROVE  At.clauses # <<>> /\ HitsPart(id, At, Len(At.clauses))
    <3>1. ClausesDone # 0
      BY <1>1, <1>2, <2>3 DEF Walks
    <3> QED
      BY <1>3, <2>1, <2>3, <3>1 DEF Justified
  <2> QED
    BY <2>2, <2>3
<1> QED
  BY <1>1, <1>4, <1>5, <1>7, QueryNextPart

LEMMA QueryFindNext ==
    ASSUME TypeOK, CompleteIndexes, Querying, FindNext
    PROVE  Querying'
<1> DEFINE new == IF Part.op = "$and" THEN Intersect(find.acc, Scan(Clause))
                  ELSE find.acc \cup Scan(Clause)
           n == ClausesDone
<1>1. /\ find.rest # <<>> /\ Part.op \in {"$and", "$or"} /\ Part.clauses # <<>>
      /\ UNCHANGED <<docs, index, ready, call, touched, steady>>
      /\ find' = [find EXCEPT !.acc = new,
                              !.rest = <<[Part EXCEPT !.clauses = Tail(@)]>> \o Tail(@)]
  BY DEF FindNext, Walking, vars
<1>2. FindType /\ Walks /\ Watches
  BY DEF Querying
<1>3. /\ n \in Nat /\ n + 1 \in 1 .. Len(At.clauses)
      /\ Clause = At.clauses[n + 1] /\ Clause \in FindClauses
  BY <1>1, <1>2, WalkClause
<1>4. /\ Part.op = At.op
      /\ n = 0 => find.acc = {}
      /\ find.acc \subseteq Ids
  BY <1>1, <1>2 DEF Walks, FindType
<1>5. new \in SUBSET Ids
  BY <1>3, <1>4 DEF FindClauses, Scan, TypeOK, Intersect
<1>6. /\ find'.pc = "find" /\ find'.filter = find.filter /\ find'.names = find.names
      /\ find'.rest = <<[Part EXCEPT !.clauses = Tail(@)]>> \o Tail(find.rest)
      /\ find'.acc = new /\ find'.result = find.result
  BY <1>1, <1>2 DEF FindType
<1>7. /\ Walks' /\ find'.rest \in Seq(Parts) /\ find'.rest # <<>>
      /\ Done' = Done /\ At' = At /\ ClausesDone' = n + 1
  BY <1>1, <1>2, <1>6, WalkNextClause
<1>8. FindType' /\ Watches'
  <2>1. find' = [pc |-> "find", filter |-> find.filter, rest |-> find'.rest,
                 names |-> find.names, acc |-> new, result |-> find.result]
    BY <1>1, <1>2 DEF FindType
  <2>2. FindType'
    BY <1>2, <1>5, <1>7, <2>1 DEF FindType
  <2> QED
    BY <1>1, <1>2, <1>6, <2>2 DEF Watches
<1>9. Served(find.filter)' <=> Served(find.filter)
  BY <1>1, <1>6 DEF Served
<1>10. ASSUME Served(find.filter), NEW id \in Ids, Still(id)
       PROVE  Found(id)' /\ Justified(id)'
  <2>1. Clause.field \in steady /\ ~ClauseFails(Clause)
    BY <1>1, <1>10, ServedNow
  <2>2. ASSUME NEW w \in Ids, Still(w)
        PROVE  /\ Found(w) /\ Justified(w)
               /\ Matches(docs[w], Clause) => w \in Scan(Clause)
    <3>1. Found(w) /\ Justified(w)
      BY <1>10, <2>2 DEF Querying
    <3> QED
      BY <1>2, <1>3, <2>1, <2>2, <3>1, ScanFinds
  <2>3. ASSUME NEW w \in Ids, Still(w), At.op = "$and", MatchesPart(docs[w], At), n > 0
        PROVE  w \in find.acc
    BY <1>1, <2>2, <2>3 DEF Found
  <2>4. ASSUME At.op = "$and", MatchesPart(docs[id], At)
        PROVE  id \in new
    <3>1. Matches(docs[id], Clause)
      BY <1>3, <2>4 DEF MatchesPart
    <3>2. id \in Scan(Clause)
      BY <1>10, <2>2, <3>1
    <3>3. CASE n = 0
      BY <1>4, <2>4, <3>2, <3>3 DEF Intersect
    <3>4. CASE n > 0
      BY <1>4, <1>10, <2>3, <2>4, <3>2, <3>4 DEF Intersect
    <3> QED
      BY <1>3, <3>3, <3>4
  <2>5. ASSUME At.op # "$and", NEW i \in 1 .. n + 1, Matches(docs[id], At.clauses[i])
        PROVE  id \in new
    <3>1. CASE i = n + 1
      BY <1>3, <1>4, <1>10, <2>2, <2>5, <3>1
    <3>2. CASE i # n + 1
      <4>1. i \in 1 .. n /\ n > 0
        BY <1>3, <3>2
      <4>2. id \in find.acc
        BY <1>1, <1>10, <2>2, <2>5, <4>1 DEF Found
      <4> QED
        BY <1>4, <2>5, <4>2
    <3> QED
      BY <3>1, <3>2
  <2>6. Found(id)'
    <3>1. MatchesPart(docs[id], At)' <=> MatchesPart(docs[id], At)
      BY <1>1, <1>7 DEF MatchesPart, Matches
    <3>2. \A j \in 1 .. Done : MatchesPart(docs[id], find.filter[j]) => id \in find.result
      BY <1>10, <2>2 DEF Found
    <3> HIDE DEF new, n
    <3> QED
      BY <1>1, <1>6, <1>7, <2>4, <2>5, <3>1, <3>2 DEF Found
  <2>7. \A p, m : HitsPart(id, p, m)' <=> HitsPart(id, p, m)
    BY <1>1 DEF HitsPart, Witnessed, Still, Hit
  <2>8. ASSUME id \in new
        PROVE  HitsPart(id, At, n + 1)
    <3>1. CASE At.op = "$and"
      <4> SUFFICES ASSUME Witnessed(At), NEW i \in 1 .. n + 1
                   PROVE  Hit(id, At.clauses[i])
        BY <3>1 DEF HitsPart
      <4>1. PICK w \in Ids : Still(w) /\ MatchesPart(docs[w], At)
        BY DEF Witnessed
      <4>2. id \in Scan(Clause)
        BY <1>4, <2>8, <3>1 DEF Intersect
      <4>3. CASE i = n + 1
        BY <1>3, <4>2, <4>3, ScanHits
      <4>4. CASE i # n + 1
        <5>1. i \in 1 .. n /\ n > 0
          BY <1>3, <4>4
        <5>2. w \in find.acc
          BY <2>3, <3>1, <4>1, <5>1
        <5>3. id \in find.acc
          BY <1>4, <2>8, <3>1, <5>2 DEF Intersect
        <5> QED
          BY <1>10, <2>2, <3>1, <5>1, <5>3 DEF Justified, HitsPart
      <4> QED
        BY <4>3, <4>4
    <3>2. CASE At.op # "$and"
      <4>1. CASE id \in Scan(Clause)
        BY <1>3, <3>2, <4>1, ScanHits DEF HitsPart
      <4>2. CASE id \in find.acc
        <5>1. PICK i \in 1 .. n : Hit(id, At.clauses[i])
          BY <1>10, <2>2, <3>2, <4>2 DEF Justified, HitsPart
        <5>2. i \in 1 .. n + 1
          BY <1>3
        <5> QED
          BY <3>2, <5>1, <5>2 DEF HitsPart
      <4> QED
        BY <1>4, <2>8, <3>2, <4>1, <4>2
    <3> QED
      BY <3>1, <3>2
  <2>9. Justified(id)'
    <3> HIDE DEF new, n
    <3> QED
      BY <1>6, <1>7, <1>10, <2>2, <2>7, <2>8 DEF Justified
  <2> QED
    BY <2>6, <2>9
<1>11. \A id \in Ids : Still(id)' => Still(id)
  BY <1>1 DEF Still
<1> QED
  BY <1>7, <1>8, <1>9, <1>10, <1>11 DEF Querying

\* A filter that is served does not fail.
LEMMA QueryFindFails ==
    ASSUME TypeOK, CompleteIndexes, Querying, FindFails
    PROVE  Querying'
<1>1. /\ find.rest # <<>> /\ Part.clauses # <<>> /\ ClauseFails(Clause)
      /\ UNCHANGED <<vars, touched, steady>>
      /\ find' = [find EXCEPT !.result = {}, !.acc = {}, !.rest = <<>>]
  BY DEF FindFails, Walking
<1>2. FindType /\ Walks /\ Watches
  BY DEF Querying
<1>3. find' = [pc |-> "find", filter |-> find.filter, rest |-> <<>>, names |-> find.names,
               acc |-> {}, result |-> {}]
  BY <1>1, <1>2 DEF FindType
<1>4. /\ find'.filter = find.filter /\ find'.rest = <<>> /\ find'.names = find.names
      /\ find'.acc = {}
  BY <1>3
<1>5. FindType' /\ Watches'
  <2>1. find.filter \in Filters /\ find.names \subseteq Fields
    BY <1>2 DEF FindType
  <2>2. <<>> \in Seq(Parts)
    OBVIOUS
  <2>3. FindType'
    BY <1>3, <2>1, <2>2 DEF FindType
  <2> QED
    BY <1>1, <1>2, <1>4, <2>3 DEF Watches, vars
<1>6. Follows(find.filter, <<>>)
  <2>1. find.filter \in Seq(Parts)
    BY <1>2, FilterType DEF FindType
  <2> QED
    BY <2>1 DEF Follows
<1>7. Walks'
  BY <1>4, <1>6 DEF Walks
<1>8. ~Served(find.filter)
  BY <1>1, ServedNow
<1>9. ~Served(find.filter)'
  BY <1>1, <1>4, <1>8 DEF Served
<1> QED
  BY <1>5, <1>7, <1>9 DEF Querying

-------------------------------------------------------------------------------
\* No call takes from an index an entry of a document it does not name, but by
\* dropping the index.
LEMMA EntryStays ==
    ASSUME TypeOK, NEW t \in Threads, Begin(t) \/ Continue(t) \/ Fails(t),
           NEW f \in Fields, f \in ready', NEW e \in index[f], e[2] # call[t].id
    PROVE  e \in index'[f]
<1>1. CASE DeleteIndex(t)
  BY <1>1 DEF DeleteIndex, TypeOK
<1>2. CASE PutIndex(t)
  BY <1>2 DEF PutIndex, TypeOK
<1>3. CASE RemoveIndex(t)
  <2>1. PICK g \in Fields :
          index' = [index EXCEPT ![g] = @ \ {Entry(call[t].doc, g, call[t].id)}]
    BY <1>3 DEF RemoveIndex
  <2>2. e # Entry(call[t].doc, g, call[t].id)
    BY EntryId
  <2> QED
    BY <2>1, <2>2 DEF TypeOK
<1>4. CASE FillRow(t)
  <2>1. call[t].field \in Fields
    BY <1>4 DEF FillRow, TypeOK, WellFormed
  <2>2. PICK i \in Ids :
          index' = IF hasField(call[t].rows[i], call[t].field)
                   THEN [index EXCEPT ![call[t].field] =
                            @ \cup {Entry(call[t].rows[i], call[t].field, i)}]
                   ELSE index
    BY <1>4 DEF FillRow
  <2> QED
    BY <2>1, <2>2 DEF TypeOK
<1>5. CASE UNCHANGED index
  BY <1>5
<1> QED
  BY <1>1, <1>2, <1>3, <1>4, <1>5 DEF Begin, Continue, Fails, CallCreate, CallUpdate, CallDelete,
     CallCreateIndex, CreateNames, PutRejected, PutDoc, UpdateRead, UpdateNotFound, DeleteNames,
     RemoveRejected, RemoveDoc, OpenCursor, FillRejected, FillDone, IOFails, ScanFails,
     CreateIndexFails

\* What has been found of documents that are still there stays found.
LEMMA QueryWriteStep ==
    ASSUME TypeOK, TypeOK', Querying, WriteStep
    PROVE  Querying'
<1>1. PICK t \in Threads : Begin(t) \/ Continue(t) \/ Fails(t)
  BY DEF WriteStep
<1>2. FindType /\ Walks /\ Watches
  BY DEF Querying
<1>3. /\ find' = find
      /\ touched' = touched \cup {id \in Ids : \/ docs'[id] # docs[id]
                                               \/ \E u \in Threads : call'[u].id = id}
      /\ steady' = steady \cap ready'
  BY <1>2 DEF WriteStep, FindType
<1>4. FindType' /\ Walks' /\ Done' = Done /\ At' = At /\ ClausesDone' = ClausesDone
  BY <1>2, <1>3 DEF FindType, Walks, Done, At, ClausesDone, Part
<1>5. Watches'
  <2>1. \A u \in Threads : call'[u].id \in Ids \cup {None}
    BY DEF TypeOK, Call
  <2> QED
    BY <1>2, <1>3, <2>1 DEF Watches
<1>6. ASSUME Served(find.filter)'
      PROVE  Served(find.filter)
  BY <1>3, <1>6 DEF Served
<1>7. ASSUME NEW id \in Ids, Still(id)'
      PROVE  Still(id) /\ docs'[id] = docs[id]
  BY <1>3, <1>7 DEF Still
<1>8. ASSUME NEW p, Witnessed(p)'
      PROVE  Witnessed(p)
  <2>1. PICK w \in Ids : Still(w)' /\ MatchesPart(docs[w], p)'
    BY <1>8 DEF Witnessed
  <2>2. MatchesPart(docs[w], p)
    BY <1>7, <2>1 DEF MatchesPart, Matches
  <2> QED
    BY <1>7, <2>1, <2>2 DEF Witnessed
<1>9. ASSUME NEW id \in Ids, Still(id)', NEW c, c.field \in steady', Hit(id, c)
      PROVE  Hit(id, c)'
  <2>1. PICK e \in index[c.field] : e[2] = id /\ Selects(c, e[1])
    BY <1>9 DEF Hit
  <2>2. id \notin touched /\ id # None
    BY <1>7, <1>9, NoneAssumption DEF Still
  <2>3. e[2] # call[t].id
    BY <1>2, <2>1, <2>2 DEF Watches
  <2>4. c.field \in Fields /\ c.field \in ready'
    BY <1>3, <1>9 DEF TypeOK
  <2>5. e \in index'[c.field]
    BY <1>1, <2>3, <2>4, EntryStays
  <2> QED
    BY <2>1, <2>5 DEF Hit
<1>10. ASSUME Served(find.filter)', NEW id \in Ids, Still(id)'
       PROVE  Found(id)' /\ Justified(id)'
  <2>1. Found(id) /\ Justified(id) /\ docs'[id] = docs[id]
    BY <1>6, <1>7, <1>10 DEF Querying
  <2>2. Found(id)'
    BY <1>3, <1>4, <2>1 DEF Found, MatchesPart, Matches
  <2>3. ASSUME NEW p \in PartsOf(find.filter), NEW n \in Nat, n <= Len(p.clauses),
               HitsPart(id, p, n)
        PROVE  HitsPart(id, p, n)'
    <3>1. \A i \in 1 .. n : p.clauses[i].field \in steady'
      <4>1. p \in Parts
        BY <1>2, FilterType DEF FindType, PartsOf
      <4>2. \A i \in 1 .. n : i \in 1 .. Len(p.clauses)
        BY <2>3, <4>1, PartType
      <4> QED
        BY <1>3, <1>10, <4>2 DEF Served
    <3>2. \A i \in 1 .. n : Hit(id, p.clauses[i]) => Hit(id, p.clauses[i])'
      BY <1>9, <1>10, <3>1
    <3> QED
      BY <1>8, <2>3, <3>2 DEF HitsPart
  <2>4. ASSUME id \in find.result
        PROVE  \E j \in 1 .. Done :
                  /\ find.filter[j].clauses # <<>>
                  /\ HitsPart(id, find.filter[j], Len(find.filter[j].clauses))'
    <3>1. PICK j \in 1 .. Done :
                  /\ find.filter[j].clauses # <<>>
                  /\ HitsPart(id, find.filter[j], Len(find.filter[j].clauses))
      BY <2>1, <2>4 DEF Justified
    <3>2. find.filter \in Seq(Parts) /\ find.rest \in Seq(Parts)
      BY <1>2, FilterType DEF FindType
    <3>3. j \in 1 .. Len(find.filter)
      BY <1>2, <3>2, PassedWithin DEF Walks, Done
    <3>4. find.filter[j] \in PartsOf(find.filter) /\ find.filter[j] \in Parts
      BY <1>2, <3>3, FilterType DEF FindType
    <3>5. Len(find.filter[j].clauses) \in Nat
          /\ Len(find.filter[j].clauses) <= Len(find.filter[j].clauses)
      BY <3>4, PartType
    <3>6. \A p, n : p = find.filter[j] /\ n = Len(find.filter[j].clauses)
                      => HitsPart(id, p, n)'
      BY <2>3, <3>1, <3>4, <3>5
    <3> QED
      BY <1>3, <3>1, <3>6
  <2>5. ASSUME id \in find.acc
        PROVE  HitsPart(id, At, ClausesDone)'
    <3>1. find.rest # <<>> /\ HitsPart(id, At, ClausesDone)
      BY <1>2, <2>1, <2>5 DEF Justified, Walks
    <3>2. /\ At \in PartsOf(find.filter) /\ ClausesDone \in Nat
          /\ At.clauses \in Seq(FindClauses) /\ Part.clauses \in Seq(FindClauses)
      BY <1>2, <3>1, WalkAt
    <3>3. ClausesDone <= Len(At.clauses)
      BY <1>2, <3>1, <3>2, PassedWithin DEF Walks, IsEnd, ClausesDone
    <3>4. HitsPart(id, At, ClausesDone)' <=> (\A p, n : p = At /\ n = ClausesDone
                                                 => HitsPart(id, p, n)')
      BY <1>4
    <3> QED
      BY <2>3, <3>1, <3>2, <3>3, <3>4
  <2>6. Justified(id)'
    BY <1>3, <1>4, <2>4, <2>5 DEF Justified
  <2> QED
    BY <2>2, <2>6
<1> QED
  BY <1>4, <1>5, <1>10 DEF Querying

-------------------------------------------------------------------------------
LEMMA QueryInvInit == QueryInit => QueryInv
BY InitType DEF QueryInit, QueryInv, NoFind

LEMMA QueryInvNext ==
    ASSUME QueryInv, CompleteIndexes, [QueryNext]_<<vars, findVars>>
    PROVE  QueryInv'
<1>1. TypeOK'
  BY QueryStep, NextType DEF QueryInv
<1>2. CASE UNCHANGED <<vars, findVars>>
  <2>1. UNCHANGED <<docs, cfs, index, ready, call, find, touched, steady>>
    BY <1>2 DEF vars, findVars
  <2>2. (FindType' <=> FindType) /\ (Watches' <=> Watches)
    BY <2>1 DEF FindType, Watches
  <2>3. Done' = Done /\ At' = At /\ ClausesDone' = ClausesDone /\ Part' = Part
    BY <2>1 DEF Done, At, ClausesDone, Part
  <2>4. Walks' <=> Walks
    BY <2>1, <2>3 DEF Walks
  <2>5. Served(find.filter)' <=> Served(find.filter)
    BY <2>1 DEF Served
  <2>6. \A id : Still(id)' <=> Still(id)
    BY <2>1 DEF Still
  <2>7. \A id : Found(id)' <=> Found(id)
    BY <2>1, <2>3 DEF Found, MatchesPart, Matches
  <2>8. \A id, p, n : HitsPart(id, p, n)' <=> HitsPart(id, p, n)
    BY <2>1 DEF HitsPart, Witnessed, Still, Hit, MatchesPart, Matches
  <2>9. \A id : Justified(id)' <=> Justified(id)
    BY <2>1, <2>3, <2>8 DEF Justified
  <2>10. find'.pc = find.pc
    BY <2>1
  <2> QED
    BY <1>1, <2>2, <2>4, <2>5, <2>6, <2>7, <2>9, <2>10 DEF QueryInv, Querying
<1>3. CASE CallFind
  BY <1>1, <1>3, QueryCallFind DEF QueryInv
<1>4. CASE FindThrows \/ FindReturn \/ QueryCrash
  BY <1>1, <1>4 DEF QueryInv, FindThrows, FindReturn, QueryCrash, NoFind
<1>5. CASE FindOne \/ FindNext \/ FindCollect \/ FindFails
  <2>1. Querying
    BY <1>5 DEF QueryInv, FindOne, FindNext, FindCollect, FindFails, Walking
  <2> QED
    BY <1>1, <1>5, <2>1, QueryFindOne, QueryFindNext, QueryFindCollect, QueryFindFails
       DEF QueryInv
<1>6. CASE WriteStep
  BY <1>1, <1>6, QueryWriteStep DEF QueryInv, WriteStep
<1> QED
  BY <1>2, <1>3, <1>4, <1>5, <1>6 DEF QueryNext, FindStep

\* At the end of the walk every operator is done.
LEMMA AnsweredDone ==
    ASSUME QueryInv, Answered
    PROVE  Querying /\ Done = Len(find.filter) /\ find.filter \in Seq(Parts)
<1>1. Querying /\ find.rest = <<>> /\ find.filter \in Seq(Parts)
  BY FilterType DEF QueryInv, Answered, Querying, FindType
<1> QED
  BY <1>1, PassedAll DEF Done

LEMMA AnswerAll ==
    ASSUME QueryInv
    PROVE  FindsAll
<1> SUFFICES ASSUME Answered, Served(find.filter), NEW id \in Ids, Still(id),
                    NEW p \in PartsOf(find.filter), MatchesPart(docs[id], p)
             PROVE  id \in find.result
  BY DEF FindsAll
<1>1. PICK j \in 1 .. Len(find.filter) : p = find.filter[j]
  BY DEF PartsOf
<1> QED
  BY <1>1, AnsweredDone DEF Querying, Found

LEMMA AnswerOnly ==
    ASSUME QueryInv, CompleteIndexes
    PROVE  FindsOnly
<1> SUFFICES ASSUME Answered, Served(find.filter), NEW id \in find.result, Still(id), Exact(id)
             PROVE  \E p \in PartsOf(find.filter) :
                       MatchesPart(docs[id], p) \/ (p.op = "$and" /\ ~Witnessed(p))
  BY DEF FindsOnly
<1>1. /\ Querying /\ Done = Len(find.filter) /\ FindType /\ Watches
      /\ id \in Ids
  BY AnsweredDone DEF Querying, FindType
<1>2. PICK j \in 1 .. Len(find.filter) :
        /\ find.filter[j].clauses # <<>>
        /\ HitsPart(id, find.filter[j], Len(find.filter[j].clauses))
  BY <1>1 DEF Querying, Justified
<1> DEFINE p == find.filter[j]
<1>3. p \in PartsOf(find.filter) /\ p \in Parts
  BY <1>1, FilterType DEF FindType
<1>4. ASSUME NEW i \in 1 .. Len(p.clauses), Hit(id, p.clauses[i])
      PROVE  Matches(docs[id], p.clauses[i])
  <2> DEFINE c == p.clauses[i]
  <2>1. c.field \in steady
    BY <1>1, <1>3, ServedClause
  <2>2. c.field \in Fields /\ c.field \in ready
    BY <1>1, <2>1 DEF Watches, QueryInv, TypeOK
  <2>3. PICK e \in index[c.field] : e[2] = id /\ Selects(c, e[1])
    BY <1>4 DEF Hit
  <2>4. hasField(docs[id], c.field) /\ e = Entry(docs[id], c.field, id)
    BY <2>2, <2>3 DEF Exact
  <2>5. ~BeingDeleted(id)
    BY <1>1, NotDeleted
  <2>6. ~Throws(docs[id][c.field])
    BY <1>1, <2>2, <2>4, <2>5 DEF CompleteIndexes, IndexComplete, Still
  <2>7. e[1] = parseValue(docs[id][c.field])
    BY <2>4 DEF Entry
  <2> HIDE DEF c
  <2>8. Matches(docs[id], c)
    BY <2>3, <2>4, <2>6, <2>7 DEF Matches
  <2> QED
    BY <2>8 DEF c
<1>5. CASE p.op = "$and"
  BY <1>2, <1>3, <1>4, <1>5 DEF HitsPart, MatchesPart
<1>6. CASE p.op # "$and"
  BY <1>2, <1>3, <1>4, <1>6 DEF HitsPart, MatchesPart
<1> QED
  BY <1>5, <1>6

(***************************************************************************)
(* Whatever is written, indexed and dropped beside a query, its answer is  *)
(* right about every document that is there throughout, if the indexes it  *)
(* is served from are complete at every moment it runs.                    *)
(***************************************************************************)
THEOREM QueryAnswers == QuerySpec /\ []CompleteIndexes => [](FindsAll /\ FindsOnly)
<1>1. QueryInv /\ CompleteIndexes /\ [QueryNext]_<<vars, findVars>> => QueryInv'
  BY QueryInvNext
<1>2. QueryInv /\ CompleteIndexes => FindsAll /\ FindsOnly
  BY AnswerAll, AnswerOnly
<1> QED
  BY <1>1, <1>2, QueryInvInit, PTL DEF QuerySpec

\* The indexes of threads that insert, overwrite, update and drop indexes.
LEMMA WritersIndexes ==
    ASSUME WritersOnly
    PROVE  Spec => []CompleteIndexes
<1>1. WritersInv /\ [Next]_vars => WritersInv'
  BY WritersNext
<1>2. WritersInv => CompleteIndexes
  BY DEF WritersInv, StoredIndexed, Indexed, IndexComplete, CompleteIndexes
<1> QED
  BY <1>1, <1>2, WritersInit, PTL DEF Spec

(***************************************************************************)
(* findDocument misses no document that is there throughout, however many  *)
(* threads insert, overwrite, update and drop indexes between two of its   *)
(* scans.                                                                  *)
(***************************************************************************)
THEOREM WritersFindAll ==
    ASSUME WritersOnly
    PROVE  QuerySpec => []FindsAll
<1>1. Spec => []CompleteIndexes
  BY WritersIndexes
<1> QED
  BY <1>1, QueryOnlyReads, QueryAnswers, PTL

(***************************************************************************)
(* Beside the same threads, findDocument returns no other document that is *)
(* there throughout and has no stale entry - $and only as long as some     *)
(* document matches all of it.                                             *)
(***************************************************************************)
THEOREM WritersFindOnly ==
    ASSUME WritersOnly
    PROVE  QuerySpec => []FindsOnly
<1>1. Spec => []CompleteIndexes
  BY WritersIndexes
<1> QED
  BY <1>1, QueryOnlyReads, QueryAnswers, PTL

(***************************************************************************)
(* The same of a query beside one caller of every operation: deleting a    *)
(* document or filling an index between two scans does not disturb what    *)
(* the query says of the documents that stay.                              *)
(***************************************************************************)
THEOREM SerialFinds ==
    ASSUME \E S \in SUBSET Doc, s \in Threads : CompleteCalls(S, s)
    PROVE  QuerySpec => [](FindsAll /\ FindsOnly)
<1>1. Spec => []CompleteIndexes
  BY SerialComplete DEF CompleteIndexes
<1> QED
  BY <1>1, QueryOnlyReads, QueryAnswers, PTL

===============================================================================
