------------------------------ MODULE KeyEncoding ------------------------------
(***************************************************************************)
(* The bytes of an index: the keys that Collection.cpp makes of values and *)
(* ids, and the iterator loops of StorageEngine.cpp that answer $eq, $gt,  *)
(* $lt and $orderBy from them.                                             *)
(*                                                                         *)
(* Collection and Query see an index as a set of pairs <<value, id>> and a *)
(* scan as one selection from it; here a row is value # id in bytes, and a *)
(* scan walks the rows one by one.  Column families are opened with        *)
(* ColumnFamilyOptions(), so they have no prefix extractor, the read       *)
(* option prefix_same_as_start has no effect, and an iterator runs through *)
(* all rows in byte order.  It is a snapshot: writes made during a scan    *)
(* are not seen by it, so that here they wait for its end.                 *)
(***************************************************************************)
EXTENDS Integers, Sequences, FiniteSets

CONSTANTS
    Base,       \* how many values a byte has: 256 in the build
    Width,      \* how many bytes a number's key has: 8 in the build
    Hash,       \* the byte '#'
    Ints,       \* the int values a field may hold
    Doubles,    \* the doubles, as the bits of their 64-bit word
    Texts,      \* the strings, as sequences of bytes
    Ids         \* document ids, as sequences of bytes

Bytes == 0 .. Base - 1

Size == Base ^ Width    \* 2^64 in the build

Half == Size \div 2     \* the sign bit

ASSUME BytesAssumption ==
    /\ Base \in Nat \ {0} /\ Width \in Nat
    /\ Hash \in Bytes

\* What ^ means: the provers know nothing of it.
ASSUME PowersAssumption ==
    /\ Base ^ 0 = 1
    /\ \A i \in 0 .. Width - 1 : Base ^ (i + 1) = Base ^ i * Base

\* The bytes of a word, the highest first.
bigEndian(n) == [i \in 1 .. Width |-> (n \div Base ^ (Width - i)) % Base]

\* An int is narrower than the key, and no double is a NaN or -0.0.
ASSUME ValuesAssumption ==
    /\ Ints \subseteq -Half .. Half - 1
    /\ Size = 2 * Half
    /\ Doubles \subseteq 0 .. Size - 1
    /\ Half \notin Doubles
    /\ Texts \subseteq Seq(Bytes)
    /\ Ids \subseteq Seq(Bytes)
    /\ <<>> \notin Ids

VARIABLES
    kind,       \* what the indexed field holds, one of Kinds
    entries,    \* the pairs <<value, id>> that were put and not removed
    rows,       \* the keys of the column family, with the id each maps to
    scan        \* the scan under way

vars == <<kind, entries, rows, scan>>

-------------------------------------------------------------------------------
(***************************************************************************)
(* Keys.                                                                   *)
(***************************************************************************)
\* The loop value = (value << 8) | byte.
fromBigEndian(key) ==
    LET value[i \in 0 .. Len(key)] == IF i = 0 THEN 0 ELSE value[i - 1] * Base + key[i]
    IN  value[Len(key)]

\* value + INT64_MAX + 1 overflows for a value that is not negative; the sum wraps.
encodeIntKey(v) == bigEndian((v + (Half - 1) + 1) % Size)

\* Mutation of encodeDoubleKey: only the sign bit of a negative number is flipped.
encodeDoubleKeySign(bits) ==
    IF bits >= Half THEN bigEndian(bits - Half) ELSE bigEndian(bits + Half)

encodeDoubleKey(bits) ==
    IF bits >= Half THEN bigEndian(Size - 1 - bits) ELSE bigEndian(bits + Half)

\* Mutation of decodeIntKey: the word is not read as a signed one.
decodeIntKeyUnsigned(key) == (fromBigEndian(key) + Half) % Size

\* The sign bit flipped, and the word read as a signed one.
decodeIntKey(key) ==
    LET word == (fromBigEndian(key) + Half) % Size
    IN  IF word >= Half THEN word - Size ELSE word

decodeDoubleKey(key) ==
    LET word == fromBigEndian(key)
    IN  IF word < Half THEN Size - 1 - word ELSE word - Half

HashFree(s) == \A i \in 1 .. Len(s) : s[i] # Hash

(***************************************************************************)
(* A field holds values of one kind.  Nothing keeps a '#' out of texts and *)
(* ids: "text" is a field whose texts have none, whatever the ids, and     *)
(* "hashed" one whose texts may have any, in a collection whose ids have   *)
(* none.  With a '#' in both, two entries may meet in one row: those of    *)
(* a#b under c and of a under b#c.                                         *)
(***************************************************************************)
Kinds == {"int", "double", "text", "hashed"}

ValuesOf(k) ==
    CASE k = "int" -> Ints [] k = "double" -> Doubles
      [] k = "text" -> {v \in Texts : HashFree(v)} [] k = "hashed" -> Texts

IdsOf(k) == IF k = "hashed" THEN {id \in Ids : HashFree(id)} ELSE Ids

parseValue(v) ==
    CASE kind = "int" -> encodeIntKey(v) [] kind = "double" -> encodeDoubleKey(v) [] OTHER -> v

\* Mutation of Prefix: nothing ends the value.
PrefixOpen(v) == parseValue(v)

\* What $eq, $gt and $lt look for: value += "#".
Prefix(v) == parseValue(v) \o <<Hash>>

\* Mutation of IndexKey: nothing between the value and the id.
IndexKeyJoined(v, id) == parseValue(v) \o id

\* The key that insertIfIndexFieldExists and deleteIfIndexFieldExists build.
IndexKey(v, id) == parseValue(v) \o <<Hash>> \o id

-------------------------------------------------------------------------------
(***************************************************************************)
(* The byte order of RocksDB and the moves of its iterators.               *)
(***************************************************************************)
Less(s, t) ==
    \E i \in 1 .. Len(t) :
        /\ i <= Len(s) + 1
        /\ \A j \in 1 .. i - 1 : s[j] = t[j]
        /\ i = Len(s) + 1 \/ s[i] < t[i]

starts_with(key, prefix) ==
    Len(prefix) <= Len(key) /\ \A i \in 1 .. Len(prefix) : key[i] = prefix[i]

End == <<>>     \* the iterator is not valid

\* The places of an iterator on the first, or on the last, of some rows: just one.
First(keys) == IF keys = {} THEN {End} ELSE {k \in keys : \A l \in keys : ~Less(l, k)}

Last(keys) == IF keys = {} THEN {End} ELSE {k \in keys : \A l \in keys : ~Less(k, l)}

Seek(key) == First({k \in DOMAIN rows : ~Less(k, key)})

SeekForPrev(key) == Last({k \in DOMAIN rows : ~Less(key, k)})

NextRow(key) == First({k \in DOMAIN rows : Less(key, k)})

PrevRow(key) == Last({k \in DOMAIN rows : Less(k, key)})

-------------------------------------------------------------------------------
NoScan == [pc |-> "idle", op |-> "$eq", value |-> End, at |-> End, out |-> <<>>]

Init ==
    /\ kind \in Kinds
    /\ entries = {}
    /\ rows = <<>>
    /\ scan = NoScan

\* putIndex: a key that is there gets the new id.
putIndex(v, id) ==
    /\ scan.pc = "idle"
    /\ entries' = entries \cup {<<v, id>>}
    /\ rows' = [k \in DOMAIN rows \cup {IndexKey(v, id)} |->
                    IF k = IndexKey(v, id) THEN id ELSE rows[k]]
    /\ UNCHANGED <<kind, scan>>

remove(v, id) ==
    /\ scan.pc = "idle"
    /\ entries' = entries \ {<<v, id>>}
    /\ rows' = [k \in DOMAIN rows \ {IndexKey(v, id)} |-> rows[k]]
    /\ UNCHANGED <<kind, scan>>

StartScan(op, v, pc, at) ==
    /\ scan.pc = "idle"
    /\ scan' = [pc |-> pc, op |-> op, value |-> v, at |-> at, out |-> <<>>]
    /\ UNCHANGED <<kind, entries, rows>>

fetchDocIdsForEqual(v) == \E at \in Seek(Prefix(v)) : StartScan("$eq", v, "take", at)

\* Null and "" are refused by $gt and $lt before a scan begins.
fetchDocIdsForGreater(v) ==
    /\ parseValue(v) # <<>>
    /\ \E at \in Seek(Prefix(v)) : StartScan("$gt", v, "skip", at)

fetchDocIdsForLesser(v) ==
    /\ parseValue(v) # <<>>
    /\ \E last \in SeekForPrev(Prefix(v)) :
        \E at \in IF last # End /\ starts_with(last, Prefix(v)) THEN PrevRow(last) ELSE {last} :
            StartScan("$lt", v, "take", at)

fetchDocIdsByOrder(asc) ==
    \E at \in IF asc THEN First(DOMAIN rows) ELSE Last(DOMAIN rows) :
        StartScan(IF asc THEN "asc" ELSE "desc", End, "take", at)

Forward == scan.op \notin {"$lt", "desc"}

\* The first loop of $gt: past the rows of the value itself.
SkipRow ==
    /\ scan.pc = "skip"
    /\ scan.at # End /\ starts_with(scan.at, Prefix(scan.value))
    /\ \E at \in NextRow(scan.at) : scan' = [scan EXCEPT !.at = at]
    /\ UNCHANGED <<kind, entries, rows>>

SkipEnds ==
    /\ scan.pc = "skip"
    /\ scan.at = End \/ ~starts_with(scan.at, Prefix(scan.value))
    /\ scan' = [scan EXCEPT !.pc = "take"]
    /\ UNCHANGED <<kind, entries, rows>>

\* The loop goes on: $eq stops at the first row of another value.
Takes == scan.at # End /\ (scan.op = "$eq" => starts_with(scan.at, Prefix(scan.value)))

TakeRow ==
    /\ scan.pc = "take"
    /\ Takes
    /\ \E at \in IF Forward THEN NextRow(scan.at) ELSE PrevRow(scan.at) :
        scan' = [scan EXCEPT !.out = Append(@, <<scan.at, rows[scan.at]>>), !.at = at]
    /\ UNCHANGED <<kind, entries, rows>>

TakeEnds ==
    /\ scan.pc = "take"
    /\ ~Takes
    /\ scan' = [scan EXCEPT !.pc = "done"]
    /\ UNCHANGED <<kind, entries, rows>>

\* The iterator is deleted and the ids are returned.
Return ==
    /\ scan.pc = "done"
    /\ scan' = NoScan
    /\ UNCHANGED <<kind, entries, rows>>

Writes == \E v \in ValuesOf(kind), id \in IdsOf(kind) : putIndex(v, id) \/ remove(v, id)

Starts ==
    \/ \E v \in ValuesOf(kind) :
        fetchDocIdsForEqual(v) \/ fetchDocIdsForGreater(v) \/ fetchDocIdsForLesser(v)
    \/ \E asc \in BOOLEAN : fetchDocIdsByOrder(asc)

Next == Writes \/ Starts \/ SkipRow \/ SkipEnds \/ TakeRow \/ TakeEnds \/ Return

Spec == Init /\ [][Next]_vars

-------------------------------------------------------------------------------
\* What the doubles stand for, and the order users expect of values.
Number(bits) == IF bits < Half THEN bits ELSE Half - bits

Precedes(v, w) ==
    CASE kind = "int" -> v < w [] kind = "double" -> Number(v) < Number(w) [] OTHER -> Less(v, w)

\* No byte sorts before '#': the '#' that ends the shorter of two texts, one the
\* beginning of the other, then does not put it after the longer one.
Plain(v) == kind \in {"int", "double"} \/ \A i \in 1 .. Len(v) : v[i] > Hash

(***************************************************************************)
(* The entries of an index never run into each other: each has a row of    *)
(* its own that maps to its id, and there are no other rows, although the  *)
(* key of a number, and a text or an id, may hold the byte '#' that ends   *)
(* the value.                                                              *)
(***************************************************************************)
RowsExact ==
    /\ DOMAIN rows = {IndexKey(e[1], e[2]) : e \in entries}
    /\ \A e \in entries : rows[IndexKey(e[1], e[2])] = e[2]

\* A text that goes on with '#' where w ends has the prefix of w as well.
RunsOn(v, w) == kind = "hashed" /\ starts_with(v, Prefix(w))

\* The entries an operator asks for, and those $eq cannot tell from them.
Asked ==
    {e \in entries : CASE scan.op = "$eq" -> e[1] = scan.value \/ RunsOn(e[1], scan.value)
                       [] scan.op = "$gt" -> Precedes(scan.value, e[1])
                       [] scan.op = "$lt" -> Precedes(e[1], scan.value)
                       [] OTHER -> TRUE}

RowOf(e) == <<IndexKey(e[1], e[2]), e[2]>>

\* The scan returned the entries it was asked for, each of them once.
Returned ==
    /\ {scan.out[i] : i \in 1 .. Len(scan.out)} = {RowOf(e) : e \in Asked}
    /\ Len(scan.out) = Cardinality(Asked)

(***************************************************************************)
(* $eq finds every document that has the value, once: the loop stops at    *)
(* the first row without the prefix, and no row of the value lies beyond.  *)
(* It finds no other, if no text has a '#'; else it finds those, and only  *)
(* those, whose text begins with the value and a '#'.                      *)
(***************************************************************************)
EqualExact == scan.pc = "done" /\ scan.op = "$eq" => Returned

(***************************************************************************)
(* $gt, $lt and $orderBy follow the order of the values, not only that of  *)
(* their bytes: the entries on one side of the value, or all of them, each *)
(* once, going up, or down for $lt and desc.  It holds of numbers of one   *)
(* type and of texts without bytes up to '#'.                              *)
(***************************************************************************)
OrderExact ==
    scan.pc = "done" /\ scan.op # "$eq"
        /\ (\A e \in entries : Plain(e[1])) /\ (scan.op \in {"$gt", "$lt"} => Plain(scan.value))
    => /\ Returned
       /\ \A i \in 2 .. Len(scan.out), d \in entries : scan.out[i - 1] = RowOf(d) =>
            \A e \in entries : scan.out[i] = RowOf(e)
                => IF Forward THEN ~Precedes(e[1], d[1]) ELSE ~Precedes(d[1], e[1])

(***************************************************************************)
(* A number can be read back from its key, the overflow of encodeIntKey    *)
(* and the two ways in which a double is flipped notwithstanding.          *)
(***************************************************************************)
RoundTrip ==
    \A e \in entries :
        /\ kind = "int" => decodeIntKey(parseValue(e[1])) = e[1]
        /\ kind = "double" => decodeDoubleKey(parseValue(e[1])) = e[1]

===============================================================================
