--------------------------- MODULE KeyEncodingProofs ---------------------------
(***************************************************************************)
(* Proofs about KeyEncoding, for bytes, words and indexes of any size:     *)
(* entries keep to their own rows, numbers can be read back from their     *)
(* keys, and every scan returns exactly the entries it is asked for.       *)
(***************************************************************************)
EXTENDS KeyEncoding, SequenceTheorems, FiniteSetTheorems, WellFoundedInduction, TLAPS

-------------------------------------------------------------------------------
(***************************************************************************)
(* The byte order.                                                         *)
(***************************************************************************)
\* A nonempty set of natural numbers has a least element.
LEMMA LeastNumber ==
    ASSUME NEW S \in SUBSET Nat, S # {}
    PROVE  \E m \in S : \A n \in S : m <= n
<1> DEFINE R == {ss \in Nat \X Nat : ss[1] < ss[2]}
<1>1. IsWellFoundedOn(R, Nat)
  BY NatLessThanWellFounded DEF OpToRel
<1>2. \E m \in S : \A n \in S : ~(<<n, m>> \in R)
  <2> HIDE DEF R
  <2>1. S \subseteq Nat /\ S # {}
    OBVIOUS
  <2> QED BY ONLY <1>1, <2>1, WFMin, Zenon
<1>3. \A m, n \in S : <<n, m>> \in R <=> n < m
  OBVIOUS
<1>4. PICK m \in S : \A n \in S : ~(<<n, m>> \in R)
  BY <1>2
<1>5. \A n \in S : ~(n < m)
  BY <1>3, <1>4
<1>6. \A n \in S : m <= n
  BY <1>5
<1> QED BY <1>6

\* Two byte strings are the same, or one of them comes first.
LEMMA LessTotal ==
    ASSUME NEW s \in Seq(Int), NEW t \in Seq(Int), s # t
    PROVE  Less(s, t) \/ Less(t, s)
<1> DEFINE D == {i \in Nat \ {0} : i <= Len(s) /\ i <= Len(t) /\ s[i] # t[i]}
<1>1. CASE D = {}
  <2>1. ASSUME NEW i \in 1 .. Len(s), i <= Len(t) PROVE s[i] = t[i]
    <3>1. i \in Nat \ {0} /\ i <= Len(s)
      OBVIOUS
    <3> QED BY <1>1, <2>1, <3>1
  <2>2. Len(s) # Len(t)
    BY <2>1, SeqEqual
  <2>3. CASE Len(s) < Len(t)
    <3>1. Len(s) + 1 \in 1 .. Len(t)
      BY <2>3
    <3>2. \A j \in 1 .. (Len(s) + 1) - 1 : s[j] = t[j]
      BY <2>1, <2>3
    <3>3. Len(s) + 1 <= Len(s) + 1
      OBVIOUS
    <3> QED BY <3>1, <3>2, <3>3 DEF Less
  <2>4. CASE Len(t) < Len(s)
    <3>1. Len(t) + 1 \in 1 .. Len(s)
      BY <2>4
    <3>2. \A j \in 1 .. (Len(t) + 1) - 1 : t[j] = s[j]
      BY <2>1, <2>4
    <3>3. Len(t) + 1 <= Len(t) + 1
      OBVIOUS
    <3> QED BY <3>1, <3>2, <3>3 DEF Less
  <2> QED BY <2>2, <2>3, <2>4
<1>2. CASE D # {}
  <2>1. PICK m \in D : \A n \in D : m <= n
    BY <1>2, LeastNumber
  <2>2. ASSUME NEW j \in 1 .. m - 1 PROVE s[j] = t[j]
    <3>1. j \notin D
      BY <2>1
    <3>2. j \in Nat \ {0} /\ j <= Len(s) /\ j <= Len(t)
      BY <2>1
    <3> QED BY <3>1, <3>2
  <2>3. s[m] < t[m] \/ t[m] < s[m]
    BY <2>1
  <2> QED BY <2>1, <2>2, <2>3 DEF Less
<1> QED BY <1>1, <1>2

LEMMA LessIrreflexive ==
    ASSUME NEW s \in Seq(Int)
    PROVE  ~Less(s, s)
BY DEF Less

LEMMA LessTransitive ==
    ASSUME NEW r \in Seq(Int), NEW s \in Seq(Int), NEW t \in Seq(Int),
           Less(r, s), Less(s, t)
    PROVE  Less(r, t)
<1>1. PICK i \in 1 .. Len(s) :
        /\ i <= Len(r) + 1
        /\ \A j \in 1 .. i - 1 : r[j] = s[j]
        /\ i = Len(r) + 1 \/ r[i] < s[i]
  BY DEF Less
<1>2. PICK k \in 1 .. Len(t) :
        /\ k <= Len(s) + 1
        /\ \A j \in 1 .. k - 1 : s[j] = t[j]
        /\ k = Len(s) + 1 \/ s[k] < t[k]
  BY DEF Less
<1>3. CASE i < k
  <2>1. i \in 1 .. Len(t) /\ s[i] = t[i] /\ \A j \in 1 .. i - 1 : r[j] = t[j]
    BY <1>1, <1>2, <1>3
  <2> QED BY <1>1, <2>1 DEF Less
<1>4. CASE k <= i
  <2>1. k <= Len(s) /\ s[k] < t[k]
    BY <1>1, <1>2, <1>4
  <2>2. \A j \in 1 .. k - 1 : r[j] = t[j]
    BY <1>1, <1>2, <1>4
  <2>3. k <= Len(r) + 1 /\ (k = Len(r) + 1 \/ r[k] < t[k])
    <3>1. CASE k = i
      <4>1. i = Len(r) + 1 \/ (r[i] < s[i] /\ i <= Len(r))
        BY <1>1
      <4>2. r[i] \in Int \/ i = Len(r) + 1
        BY <4>1
      <4>3. s[k] \in Int /\ t[k] \in Int
        BY <1>2, <2>1
      <4>4. i \in Int /\ Len(r) \in Int
        OBVIOUS
      <4> QED BY ONLY <2>1, <3>1, <4>1, <4>2, <4>3, <4>4
    <3>2. CASE k < i
      BY <1>1, <2>1, <3>2
    <3> QED BY <1>4, <3>1, <3>2
  <2> QED BY <1>2, <2>2, <2>3 DEF Less
<1> QED BY <1>1, <1>2, <1>3, <1>4

\* The rows that start with a prefix lie together, from the prefix onwards.
LEMMA PrefixConvex ==
    ASSUME NEW p \in Seq(Int), NEW at \in Seq(Int), NEW k \in Seq(Int),
           ~Less(at, p), ~Less(k, at), starts_with(k, p)
    PROVE  starts_with(at, p)
<1> SUFFICES ASSUME ~starts_with(at, p) PROVE FALSE
  OBVIOUS
<1>1. at # p
  BY DEF starts_with
<1>2. Less(p, at)
  BY <1>1, LessTotal
<1>3. PICK i \in 1 .. Len(at) :
        /\ i <= Len(p) + 1
        /\ \A j \in 1 .. i - 1 : p[j] = at[j]
        /\ i = Len(p) + 1 \/ p[i] < at[i]
  BY <1>2 DEF Less
<1>4. i <= Len(p) /\ p[i] < at[i]
  BY <1>3 DEF starts_with
<1>5. i <= Len(k) /\ k[i] = p[i] /\ \A j \in 1 .. i - 1 : k[j] = at[j]
  <2>1. Len(p) <= Len(k) /\ \A j \in 1 .. Len(p) : k[j] = p[j]
    BY DEF starts_with
  <2>2. i \in 1 .. Len(p) /\ \A j \in 1 .. i - 1 : j \in 1 .. Len(p)
    BY <1>4
  <2>3. i <= Len(k) /\ k[i] = p[i]
    BY <2>1, <2>2
  <2>4. \A j \in 1 .. i - 1 : k[j] = at[j]
    BY ONLY <1>3, <2>1, <2>2
  <2> QED BY <2>3, <2>4
<1>6. Less(k, at)
  <2>1. i <= Len(k) + 1 /\ k[i] < at[i]
    BY <1>4, <1>5
  <2> QED BY <1>5, <2>1 DEF Less
<1> QED BY <1>6

\* A row that starts with a prefix does not come before it.
LEMMA PrefixFirst ==
    ASSUME NEW p \in Seq(Int), NEW k \in Seq(Int), starts_with(k, p)
    PROVE  ~Less(k, p)
BY DEF Less, starts_with

-------------------------------------------------------------------------------
(***************************************************************************)
(* Words and their bytes.  The induction over the bytes of a word is done  *)
(* with the least place at which something goes wrong.                     *)
(***************************************************************************)
LEMMA Powers == \A i \in 0 .. Width : Base ^ i \in Nat \ {0}
<1> DEFINE S == {i \in Nat : i <= Width /\ Base ^ i \notin Nat \ {0}}
<1>1. CASE S = {}
  <2>1. \A i \in 0 .. Width : i \in Nat /\ i <= Width
    BY BytesAssumption
  <2> QED BY <1>1, <2>1
<1>2. CASE S # {}
  <2>1. PICK m \in S : \A n \in S : m <= n
    BY <1>2, LeastNumber
  <2>2. m # 0
    BY <2>1, PowersAssumption
  <2>3. m - 1 \in 0 .. Width - 1 /\ (m - 1) + 1 = m
    BY <2>1, <2>2, BytesAssumption
  <2>4. Base ^ (m - 1) \in Nat \ {0}
    <3>1. m - 1 \notin S
      BY <2>1
    <3>2. m - 1 \in Nat /\ m - 1 <= Width
      BY <2>3, BytesAssumption
    <3> QED BY <3>1, <3>2
  <2>5. Base ^ m = Base ^ (m - 1) * Base
    BY <2>3, PowersAssumption
  <2>6. \A b, c \in Nat \ {0} : b * c \in Nat \ {0}
    OBVIOUS
  <2>7. Base ^ m \in Nat \ {0}
    BY <2>4, <2>5, <2>6, BytesAssumption
  <2> QED BY <2>1, <2>7
<1> QED BY <1>1, <1>2

LEMMA Sizes == Size \in Nat \ {0} /\ Half \in Nat
<1>1. Size \in Nat \ {0}
  BY Powers, BytesAssumption DEF Size
<1> QED BY <1>1 DEF Half

LEMMA DivisionTwice ==
    ASSUME NEW a \in Nat, NEW b \in Nat \ {0}, NEW c \in Nat \ {0}
    PROVE  a \div (b * c) = (a \div b) \div c
OBVIOUS

LEMMA DivisionRest ==
    ASSUME NEW a \in Nat, NEW c \in Nat \ {0}
    PROVE  a \div c \in Nat /\ a = (a \div c) * c + (a % c) /\ a % c \in 0 .. c - 1
OBVIOUS

LEMMA DivisionMonotonic ==
    ASSUME NEW a \in Nat, NEW b \in Nat, NEW c \in Nat \ {0}, a <= b
    PROVE  a \div c <= b \div c
OBVIOUS

\* The number that the first i bytes of a word are.
High(n, i) == n \div Base ^ (Width - i)

LEMMA HighByte ==
    ASSUME NEW n \in Nat, NEW i \in 1 .. Width
    PROVE  /\ High(n, i) \in Nat
           /\ bigEndian(n)[i] = High(n, i) % Base
BY Powers, BytesAssumption DEF High, bigEndian

LEMMA HighStep ==
    ASSUME NEW n \in Nat, NEW i \in 1 .. Width
    PROVE  /\ High(n, i - 1) \in Nat
           /\ High(n, i) = High(n, i - 1) * Base + bigEndian(n)[i]
           /\ bigEndian(n)[i] \in Bytes
<1> DEFINE b == Base ^ (Width - i)
<1>1. /\ Width - i \in 0 .. Width - 1 /\ Width - (i - 1) = (Width - i) + 1
      /\ Width - i \in 0 .. Width
  BY BytesAssumption
<1>2. b \in Nat \ {0} /\ Base ^ (Width - (i - 1)) = b * Base
  BY <1>1, Powers, PowersAssumption
<1>3. High(n, i - 1) = n \div (b * Base) /\ High(n, i) = n \div b
  BY <1>2 DEF High
<1> HIDE DEF b
<1>4. High(n, i - 1) = High(n, i) \div Base
  BY <1>2, <1>3, BytesAssumption, DivisionTwice
<1>5. High(n, i) \in Nat /\ bigEndian(n)[i] = High(n, i) % Base
  BY HighByte
<1> QED BY <1>4, <1>5, BytesAssumption, DivisionRest DEF Bytes

LEMMA HighEnds ==
    ASSUME NEW n \in 0 .. Size - 1
    PROVE  High(n, 0) = 0 /\ High(n, Width) = n
<1>1. High(n, 0) = n \div Size /\ High(n, Width) = n \div 1
  BY BytesAssumption, PowersAssumption DEF High, Size
<1>2. \A a \in Nat \ {0} : \A b \in 0 .. a - 1 : b \div a = 0
  OBVIOUS
<1>3. \A b \in Nat : b \div 1 = b
  OBVIOUS
<1>4. Size \in Nat \ {0} /\ n \in Nat
  BY Sizes
<1> QED BY ONLY <1>1, <1>2, <1>3, <1>4, n \in 0 .. Size - 1

\* fromBigEndian reads the word back.
LEMMA WordRead ==
    ASSUME NEW n \in 0 .. Size - 1
    PROVE  fromBigEndian(bigEndian(n)) = n
<1> DEFINE key == bigEndian(n)
           Reads(g) == g = [i \in 0 .. Len(key) |-> IF i = 0 THEN 0 ELSE g[i - 1] * Base + key[i]]
           f == [i \in 0 .. Width |-> High(n, i)]
           g == CHOOSE h : Reads(h)
<1>1. Width \in Nat /\ n \in Nat /\ Len(key) = Width
  BY BytesAssumption, Sizes DEF bigEndian
<1>2. fromBigEndian(key) = g[Len(key)]
  BY DEF fromBigEndian
<1> HIDE DEF key
<1>3. \A i \in 1 .. Width : High(n, i) = High(n, i - 1) * Base + key[i]
  BY <1>1, HighStep DEF key
<1>4. Reads(f)
  <2>1. ASSUME NEW i \in 0 .. Width
        PROVE  f[i] = IF i = 0 THEN 0 ELSE f[i - 1] * Base + key[i]
    <3>1. CASE i = 0
      BY <3>1, HighEnds
    <3>2. CASE i # 0
      <4>1. i \in 1 .. Width /\ i - 1 \in 0 .. Width
        BY <1>1, <3>2
      <4> QED BY <1>3, <3>2, <4>1
    <3> QED BY <3>1, <3>2
  <2> DEFINE h == [i \in 0 .. Width |-> IF i = 0 THEN 0 ELSE f[i - 1] * Base + key[i]]
  <2>2. f = h
    BY <2>1
  <2>3. Reads(f) <=> f = h
    BY <1>1
  <2> QED BY <2>2, <2>3
<1>5. Reads(g)
  <2> HIDE DEF Reads, f
  <2> QED BY <1>4
<1>6. /\ g[0] = 0
      /\ \A i \in 1 .. Width : g[i] = g[i - 1] * Base + key[i]
  <2>1. \A i \in 0 .. Width : g[i] = IF i = 0 THEN 0 ELSE g[i - 1] * Base + key[i]
    <3> HIDE DEF g
    <3> QED BY <1>1, <1>5
  <2> HIDE DEF g
  <2> QED BY <1>1, <2>1
<1> HIDE DEF g, f, Reads
<1> DEFINE S == {i \in Nat : i <= Width /\ g[i] # High(n, i)}
<1>7. S = {}
  <2> SUFFICES ASSUME S # {} PROVE FALSE
    OBVIOUS
  <2>1. PICK m \in S : \A j \in S : m <= j
    BY LeastNumber
  <2>2. m # 0
    BY <1>6, <2>1, HighEnds
  <2>3. m \in 1 .. Width /\ m - 1 \notin S /\ m - 1 \in Nat /\ m - 1 <= Width
    BY <1>1, <2>1, <2>2
  <2>4. g[m - 1] = High(n, m - 1)
    BY <2>3
  <2>5. g[m] = High(n, m)
    BY <1>3, <1>6, <2>3, <2>4
  <2> QED BY <2>1, <2>5
<1>8. g[Width] = High(n, Width)
  BY <1>1, <1>7
<1> QED BY <1>1, <1>2, <1>8, HighEnds DEF key

LEMMA WordDistinct ==
    ASSUME NEW n \in 0 .. Size - 1, NEW m \in 0 .. Size - 1, bigEndian(n) = bigEndian(m)
    PROVE  n = m
BY WordRead

\* The bytes of words are in the order of the words.
LEMMA WordOrder ==
    ASSUME NEW n \in 0 .. Size - 1, NEW m \in 0 .. Size - 1, n < m
    PROVE  Less(bigEndian(n), bigEndian(m))
<1> DEFINE S == {i \in Nat : i <= Width /\ High(n, i) # High(m, i)}
<1>1. n \in Nat /\ m \in Nat /\ Width \in Nat /\ Base \in Nat \ {0}
  BY BytesAssumption, Sizes
<1>2. Width \in S
  BY <1>1, HighEnds
<1>3. PICK i \in S : \A j \in S : i <= j
  BY <1>2, LeastNumber
<1>4. i # 0
  BY <1>3, HighEnds
<1>5. i \in 1 .. Width /\ i - 1 \notin S /\ i - 1 \in Nat /\ i - 1 <= Width
  BY <1>1, <1>3, <1>4
<1>6. High(n, i - 1) = High(m, i - 1)
  BY <1>5
<1>7. High(n, i) < High(m, i)
  <2>1. Base ^ (Width - i) \in Nat \ {0}
    BY <1>1, <1>5, Powers
  <2>2. High(n, i) <= High(m, i)
    BY <1>1, <2>1, DivisionMonotonic DEF High
  <2>3. High(n, i) \in Nat /\ High(m, i) \in Nat /\ High(n, i) # High(m, i)
    BY <1>1, <1>3, <1>5, HighByte
  <2> QED BY <2>2, <2>3
<1>8. bigEndian(n)[i] < bigEndian(m)[i]
  <2>1. /\ High(n, i) = High(n, i - 1) * Base + bigEndian(n)[i]
        /\ High(m, i) = High(m, i - 1) * Base + bigEndian(m)[i]
        /\ High(n, i - 1) * Base \in Nat
        /\ bigEndian(n)[i] \in Int /\ bigEndian(m)[i] \in Int
    BY <1>1, <1>5, HighStep DEF Bytes
  <2> QED BY <1>6, <1>7, <2>1
<1>9. ASSUME NEW j \in 1 .. i - 1
      PROVE  bigEndian(n)[j] = bigEndian(m)[j]
  <2>1. j \in 1 .. Width /\ j \notin S /\ j \in Nat /\ j <= Width
    BY <1>1, <1>3, <1>5
  <2>2. High(n, j) = High(m, j)
    BY <2>1
  <2> QED BY <1>1, <2>1, <2>2, HighByte
<1>10. Len(bigEndian(n)) = Width /\ Len(bigEndian(m)) = Width
  BY <1>1 DEF bigEndian
<1>11. i \in 1 .. Len(bigEndian(m)) /\ i <= Len(bigEndian(n)) + 1
  BY <1>1, <1>5, <1>10
<1> QED BY <1>8, <1>9, <1>11 DEF Less

-------------------------------------------------------------------------------
(***************************************************************************)
(* Keys.                                                                   *)
(***************************************************************************)
Numbers == {"int", "double"}

LEMMA BytesAreInts == \A k \in Seq(Bytes) : k \in Seq(Int)
BY BytesAssumption DEF Bytes

LEMMA WordBytes ==
    ASSUME NEW n \in Nat
    PROVE  bigEndian(n) \in Seq(Bytes) /\ Len(bigEndian(n)) = Width
<1>1. ASSUME NEW i \in 1 .. Width
      PROVE  (n \div Base ^ (Width - i)) % Base \in Bytes
  <2>1. Width - i \in 0 .. Width
    BY BytesAssumption
  <2>2. Base ^ (Width - i) \in Nat \ {0}
    BY <2>1, Powers
  <2>3. n \div Base ^ (Width - i) \in Int
    BY <2>2
  <2> QED BY <2>3, BytesAssumption DEF Bytes
<1> QED BY <1>1, BytesAssumption DEF bigEndian

\* The word of a number that has the order of the numbers.
Word(v) == IF kind = "double" /\ v >= Half THEN Size - 1 - v ELSE v + Half

\* A number's key is its word: for an int the overflow of the addition brings it
\* back into range.
LEMMA NumberWord ==
    ASSUME kind \in Numbers, NEW v \in ValuesOf(kind)
    PROVE  Word(v) \in 0 .. Size - 1 /\ parseValue(v) = bigEndian(Word(v))
<1>1. Half \in Nat /\ Size \in Nat /\ Size = 2 * Half
  BY Sizes, ValuesAssumption
<1>2. CASE kind = "int"
  <2>1. v \in -Half .. Half - 1
    BY <1>2, ValuesAssumption DEF ValuesOf
  <2>2. Word(v) = v + Half /\ v + (Half - 1) + 1 = v + Half /\ v + Half \in 0 .. Size - 1
    BY <1>1, <1>2, <2>1 DEF Word
  <2>3. \A x \in 0 .. Size - 1 : x % Size = x
    BY <1>1
  <2>4. (v + (Half - 1) + 1) % Size = Word(v)
    BY <2>2, <2>3
  <2> QED BY <1>2, <2>2, <2>4 DEF parseValue, encodeIntKey
<1>3. CASE kind = "double"
  <2>1. v \in 0 .. Size - 1
    BY <1>3, ValuesAssumption DEF ValuesOf
  <2>2. Word(v) \in 0 .. Size - 1
    BY <1>1, <1>3, <2>1 DEF Word
  <2> QED BY <1>3, <2>2 DEF parseValue, encodeDoubleKey, Word
<1> QED BY <1>2, <1>3 DEF Numbers

LEMMA KeyBytes ==
    ASSUME kind \in Kinds, NEW v \in ValuesOf(kind)
    PROVE  /\ parseValue(v) \in Seq(Bytes)
           /\ kind \in Numbers => Len(parseValue(v)) = Width
           /\ kind \notin Numbers => v \in Seq(Bytes) /\ parseValue(v) = v
           /\ kind = "text" => HashFree(v)
<1>1. CASE kind \in Numbers
  <2>1. Word(v) \in Nat /\ parseValue(v) = bigEndian(Word(v))
    BY <1>1, NumberWord, Sizes
  <2> QED BY <1>1, <2>1, WordBytes DEF Numbers
<1>2. CASE kind \in {"text", "hashed"}
  <2>1. v \in Texts /\ parseValue(v) = v /\ (kind = "text" => HashFree(v))
    BY <1>2 DEF ValuesOf, parseValue
  <2> QED BY <1>2, <2>1, ValuesAssumption DEF Numbers
<1> QED BY <1>1, <1>2 DEF Kinds, Numbers

\* The order of words is the order of the numbers they stand for: the bits of
\* negative doubles are flipped, and -0.0, the other word of zero, is none.
LEMMA WordPrecedes ==
    ASSUME kind \in Numbers, NEW v \in ValuesOf(kind), NEW w \in ValuesOf(kind)
    PROVE  /\ Precedes(v, w) <=> Word(v) < Word(w)
           /\ Word(v) = Word(w) => v = w
<1>1. Half \in Nat /\ Size \in Nat /\ Size = 2 * Half
  BY Sizes, ValuesAssumption
<1>2. CASE kind = "int"
  <2>1. v \in -Half .. Half - 1 /\ w \in -Half .. Half - 1
    BY <1>2, ValuesAssumption DEF ValuesOf
  <2> QED BY <1>1, <1>2, <2>1 DEF Word, Precedes
<1>3. CASE kind = "double"
  <2>1. v \in 0 .. Size - 1 /\ w \in 0 .. Size - 1 /\ v # Half /\ w # Half
    BY <1>3, ValuesAssumption DEF ValuesOf
  <2>2. Precedes(v, w) <=> Number(v) < Number(w)
    BY <1>3 DEF Precedes
  <2> QED BY <1>1, <1>3, <2>1, <2>2 DEF Word, Number
<1> QED BY <1>2, <1>3 DEF Numbers

LEMMA KeyDistinct ==
    ASSUME kind \in Kinds, NEW v \in ValuesOf(kind), NEW w \in ValuesOf(kind),
           parseValue(v) = parseValue(w)
    PROVE  v = w
<1>1. CASE kind \in Numbers
  <2>1. Word(v) = Word(w)
    BY <1>1, NumberWord, WordDistinct
  <2> QED BY <1>1, <2>1, WordPrecedes
<1>2. CASE kind \notin Numbers
  BY <1>2, KeyBytes
<1> QED BY <1>1, <1>2

\* The bytes of keys are in the order of the values.
LEMMA KeyOrder ==
    ASSUME kind \in Kinds, NEW v \in ValuesOf(kind), NEW w \in ValuesOf(kind), Precedes(v, w)
    PROVE  Less(parseValue(v), parseValue(w))
<1>1. CASE kind \in Numbers
  <2>1. Word(v) < Word(w)
    BY <1>1, WordPrecedes
  <2> QED BY <1>1, <2>1, NumberWord, WordOrder
<1>2. CASE kind \notin Numbers
  BY <1>2, KeyBytes DEF Precedes, Numbers
<1> QED BY <1>1, <1>2

LEMMA PrecedesTotal ==
    ASSUME kind \in Kinds, NEW v \in ValuesOf(kind), NEW w \in ValuesOf(kind), v # w
    PROVE  Precedes(v, w) \/ Precedes(w, v)
<1>1. CASE kind \in Numbers
  <2>1. Word(v) \in Int /\ Word(w) \in Int
    BY <1>1, NumberWord
  <2> QED BY <1>1, <2>1, WordPrecedes
<1>2. CASE kind \notin Numbers
  <2>1. v \in Seq(Int) /\ w \in Seq(Int)
    BY <1>2, KeyBytes, BytesAreInts
  <2> QED BY <1>2, <2>1, LessTotal DEF Precedes, Numbers
<1> QED BY <1>1, <1>2

\* The first '#' ends a text that has none, and a number's key ends after Width
\* bytes: a key starts with value # for no other value, unless the '#' is in the
\* value or in the id.
LEMMA KeyPrefix ==
    ASSUME NEW k \in Seq(Bytes), NEW l \in Seq(Bytes), NEW a \in Seq(Bytes),
           Len(k) = Len(l) \/ HashFree(l) \/ HashFree(a),
           starts_with(k \o <<Hash>> \o a, l \o <<Hash>>)
    PROVE  k = l \/ starts_with(k, l \o <<Hash>>)
<1> DEFINE p == l \o <<Hash>>
           r == k \o <<Hash>>
           q == r \o a
<1>1. /\ r \in Seq(Bytes) /\ Len(r) = Len(k) + 1
      /\ \A i \in 1 .. Len(k) : r[i] = k[i]
      /\ r[Len(k) + 1] = Hash
  BY BytesAssumption
<1>2. /\ Len(p) = Len(l) + 1
      /\ \A i \in 1 .. Len(l) : p[i] = l[i]
      /\ p[Len(l) + 1] = Hash
  BY BytesAssumption
<1>3. /\ Len(q) = Len(r) + Len(a)
      /\ \A i \in 1 .. Len(r) : q[i] = r[i]
      /\ \A i \in 1 .. Len(a) : q[Len(r) + i] = a[i]
  <2>1. q = r \o a /\ r \in Seq(Bytes)
    BY <1>1
  <2> HIDE DEF q, r
  <2>2. Len(q) = Len(r) + Len(a)
    BY ONLY <2>1, a \in Seq(Bytes)
  <2>3. \A i \in 1 .. Len(r) : q[i] = r[i]
    BY ONLY <2>1, a \in Seq(Bytes)
  <2>4. \A i \in 1 .. Len(a) : q[Len(r) + i] = a[i]
    BY ONLY <2>1, a \in Seq(Bytes), ConcatProperties
  <2> QED BY <2>2, <2>3, <2>4
<1>4. Len(p) <= Len(q) /\ \A i \in 1 .. Len(p) : q[i] = p[i]
  BY DEF starts_with
<1>5. Len(k) \in Nat /\ Len(l) \in Nat /\ Len(a) \in Nat
  OBVIOUS
<1> HIDE DEF q, r
<1>6. CASE Len(l) < Len(k)
  <2>1. \A i \in 1 .. Len(p) : i \in 1 .. Len(k) /\ i \in 1 .. Len(r)
    BY ONLY <1>1, <1>2, <1>5, <1>6
  <2>2. \A i \in 1 .. Len(p) : k[i] = p[i]
    BY ONLY <1>1, <1>3, <1>4, <2>1
  <2>3. Len(p) <= Len(k)
    BY ONLY <1>2, <1>5, <1>6
  <2> QED BY <2>2, <2>3 DEF starts_with
<1>7. CASE Len(l) = Len(k)
  <2>1. \A i \in 1 .. Len(k) : i \in 1 .. Len(p) /\ i \in 1 .. Len(r) /\ i \in 1 .. Len(l)
    BY ONLY <1>1, <1>2, <1>5, <1>7
  <2>2. \A i \in 1 .. Len(k) : k[i] = l[i]
    BY ONLY <1>1, <1>2, <1>3, <1>4, <2>1
  <2> QED BY <1>7, <2>2, SeqEqual
<1>8. CASE Len(k) < Len(l)
  <2>1. CASE HashFree(l)
    <3>1. /\ Len(k) + 1 \in 1 .. Len(l) /\ Len(k) + 1 \in 1 .. Len(p)
          /\ Len(k) + 1 \in 1 .. Len(r)
      BY ONLY <1>1, <1>2, <1>5, <1>8
    <3>2. l[Len(k) + 1] = Hash
      BY ONLY <1>1, <1>2, <1>3, <1>4, <3>1
    <3> QED BY <2>1, <3>1, <3>2 DEF HashFree
  <2>2. CASE HashFree(a)
    <3> DEFINE n == Len(l) - Len(k)
    <3>1. n \in 1 .. Len(a) /\ Len(r) + n = Len(l) + 1 /\ Len(l) + 1 \in 1 .. Len(p)
      BY ONLY <1>1, <1>2, <1>3, <1>4, <1>5, <1>8
    <3>2. a[n] = Hash
      BY ONLY <1>2, <1>3, <1>4, <3>1
    <3> QED BY <2>2, <3>1, <3>2 DEF HashFree
  <2> QED BY <1>5, <1>8, <2>1, <2>2
<1> QED BY <1>5, <1>6, <1>7, <1>8

\* The key of an entry, and what it starts with.
LEMMA IndexKeys ==
    ASSUME kind \in Kinds, NEW v \in ValuesOf(kind), NEW id \in Ids
    PROVE  /\ IndexKey(v, id) \in Seq(Bytes)
           /\ Prefix(v) \in Seq(Bytes)
           /\ IndexKey(v, id) # End
           /\ starts_with(IndexKey(v, id), Prefix(v))
           /\ Len(IndexKey(v, id)) > Len(Prefix(v))
<1>1. parseValue(v) \in Seq(Bytes) /\ <<Hash>> \in Seq(Bytes) /\ id \in Seq(Bytes)
  BY KeyBytes, BytesAssumption, ValuesAssumption
<1>2. Prefix(v) \in Seq(Bytes) /\ IndexKey(v, id) = Prefix(v) \o id
  BY <1>1 DEF Prefix, IndexKey
<1>3. Len(Prefix(v)) = Len(parseValue(v)) + 1
  BY <1>1 DEF Prefix
<1>4. /\ IndexKey(v, id) \in Seq(Bytes)
      /\ Len(IndexKey(v, id)) = Len(Prefix(v)) + Len(id)
      /\ \A i \in 1 .. Len(Prefix(v)) : IndexKey(v, id)[i] = Prefix(v)[i]
  BY <1>1, <1>2
<1>5. Len(IndexKey(v, id)) > 0
  BY <1>1, <1>3, <1>4
<1>6. Len(id) > 0
  BY <1>1, ValuesAssumption
<1> QED BY <1>1, <1>2, <1>3, <1>4, <1>5, <1>6 DEF starts_with, End

LEMMA IdsAmong == \A id \in IdsOf(kind) : id \in Ids /\ (kind = "hashed" => HashFree(id))
BY DEF IdsOf

LEMMA TextBytes ==
    ASSUME kind \in Kinds, NEW v \in ValuesOf(kind), kind = "hashed"
    PROVE  /\ v \in Seq(Bytes) /\ parseValue(v) = v /\ Prefix(v) = v \o <<Hash>>
           /\ Prefix(v) \in Seq(Bytes) /\ Len(v) \in Nat /\ Len(Prefix(v)) = Len(v) + 1
<1>1. v \in Seq(Bytes) /\ parseValue(v) = v
  BY KeyBytes DEF Numbers
<1> QED BY <1>1, BytesAssumption DEF Prefix

\* A key that starts with value # is that of an entry with the value, or of one
\* with a text that goes on with '#' after it.
LEMMA PrefixOwner ==
    ASSUME kind \in Kinds, NEW v \in ValuesOf(kind), NEW w \in ValuesOf(kind),
           NEW id \in IdsOf(kind)
    PROVE  starts_with(IndexKey(v, id), Prefix(w)) <=> v = w \/ RunsOn(v, w)
<1>1. parseValue(v) \in Seq(Bytes) /\ parseValue(w) \in Seq(Bytes) /\ id \in Seq(Bytes)
  BY KeyBytes, IdsAmong, ValuesAssumption
<1>2. ASSUME starts_with(IndexKey(v, id), Prefix(w)) PROVE v = w \/ RunsOn(v, w)
  <2>1. \/ Len(parseValue(v)) = Len(parseValue(w))
        \/ HashFree(parseValue(w))
        \/ HashFree(id)
    BY KeyBytes, IdsAmong DEF Kinds, Numbers
  <2>2. parseValue(v) = parseValue(w) \/ starts_with(parseValue(v), Prefix(w))
    BY <1>1, <1>2, <2>1, KeyPrefix DEF IndexKey, Prefix
  <2>3. CASE parseValue(v) = parseValue(w)
    BY <2>3, KeyDistinct
  <2>4. CASE starts_with(parseValue(v), Prefix(w))
    <3> DEFINE n == Len(parseValue(w))
    <3>1. n \in Nat /\ Len(Prefix(w)) = n + 1 /\ Prefix(w)[n + 1] = Hash
      BY <1>1, BytesAssumption DEF Prefix
    <3>2. n + 1 <= Len(parseValue(v)) /\ parseValue(v)[n + 1] = Hash
      <4>1. n + 1 \in 1 .. n + 1
        BY <3>1
      <4> QED BY <2>4, <3>1, <4>1 DEF starts_with
    <3>3. kind \notin Numbers
      BY <3>1, <3>2, KeyBytes, BytesAssumption
    <3>4. kind # "text"
      <4>1. n + 1 \in 1 .. Len(parseValue(v))
        BY <1>1, <3>1, <3>2
      <4> QED BY <3>2, <3>3, <4>1, KeyBytes DEF HashFree
    <3>5. kind = "hashed" /\ parseValue(v) = v
      BY <3>3, <3>4, KeyBytes DEF Kinds, Numbers
    <3> QED BY <2>4, <3>5 DEF RunsOn
  <2> QED BY <2>2, <2>3, <2>4
<1>3. ASSUME RunsOn(v, w) PROVE starts_with(IndexKey(v, id), Prefix(w))
  <2>1. kind = "hashed" /\ starts_with(v, Prefix(w))
    BY <1>3 DEF RunsOn
  <2>2. v \in Seq(Bytes) /\ IndexKey(v, id) = Prefix(v) \o id /\ Prefix(v) = v \o <<Hash>>
        /\ Prefix(v) \in Seq(Bytes) /\ Len(Prefix(v)) = Len(v) + 1 /\ Len(v) \in Nat
    BY <2>1, TextBytes DEF IndexKey
  <2>3. \A i \in 1 .. Len(v) : Prefix(v)[i] = v[i]
    BY <2>2, BytesAssumption
  <2>4. /\ Len(IndexKey(v, id)) = Len(Prefix(v)) + Len(id)
        /\ \A i \in 1 .. Len(Prefix(v)) : IndexKey(v, id)[i] = Prefix(v)[i]
    BY <1>1, <2>2
  <2>5. Len(Prefix(w)) <= Len(v) /\ \A i \in 1 .. Len(Prefix(w)) : v[i] = Prefix(w)[i]
    BY <2>1 DEF starts_with
  <2>6. Len(id) \in Nat /\ Len(Prefix(w)) \in Nat
    BY <1>1, <2>1, TextBytes
  <2>7. \A i \in 1 .. Len(Prefix(w)) : i \in 1 .. Len(v) /\ i \in 1 .. Len(Prefix(v))
    BY ONLY <2>2, <2>5, <2>6
  <2>8. \A i \in 1 .. Len(Prefix(w)) : IndexKey(v, id)[i] = Prefix(w)[i]
    BY ONLY <2>3, <2>4, <2>5, <2>7
  <2>9. Len(Prefix(w)) <= Len(IndexKey(v, id))
    BY ONLY <2>2, <2>4, <2>5, <2>6
  <2> QED BY <2>8, <2>9 DEF starts_with
<1>4. v = w => starts_with(IndexKey(v, id), Prefix(w))
  BY IndexKeys, IdsAmong
<1> QED BY <1>2, <1>3, <1>4

\* What goes on after a text is longer.
LEMMA RunsOnLonger ==
    ASSUME kind \in Kinds, NEW v \in ValuesOf(kind), NEW w \in ValuesOf(kind), RunsOn(v, w)
    PROVE  /\ Len(v) \in Nat /\ Len(w) \in Nat /\ Len(w) < Len(v)
           /\ Len(Prefix(w)) < Len(Prefix(v))
<1>1. kind = "hashed" /\ Len(Prefix(w)) <= Len(v)
  BY DEF RunsOn, starts_with
<1> QED BY <1>1, TextBytes

\* Two entries have the same key only if they are the same.
LEMMA IndexKeyDistinct ==
    ASSUME kind \in Kinds, NEW v \in ValuesOf(kind), NEW w \in ValuesOf(kind),
           NEW id \in IdsOf(kind), NEW jd \in IdsOf(kind),
           IndexKey(v, id) = IndexKey(w, jd)
    PROVE  v = w /\ id = jd
<1>0. id \in Ids /\ jd \in Ids
  BY IdsAmong
<1>1. v = w
  <2>1. starts_with(IndexKey(v, id), Prefix(w)) /\ starts_with(IndexKey(w, jd), Prefix(v))
    BY <1>0, IndexKeys
  <2>2. v = w \/ (RunsOn(v, w) /\ RunsOn(w, v))
    BY <2>1, PrefixOwner
  <2> QED BY <2>2, RunsOnLonger
<1>2. id \in Seq(Bytes) /\ jd \in Seq(Bytes) /\ Prefix(v) \in Seq(Bytes)
  BY <1>0, IndexKeys, ValuesAssumption
<1>3. Prefix(v) \o id = Prefix(v) \o jd
  BY <1>1 DEF IndexKey, Prefix
<1> HIDE DEF Prefix
<1> DEFINE n == Len(Prefix(v))
<1>4. Len(Prefix(v) \o id) = n + Len(id) /\ Len(Prefix(v) \o jd) = n + Len(jd)
  BY <1>2
<1>5. Len(id) = Len(jd)
  BY <1>2, <1>3, <1>4
<1>6. \A i \in 1 .. Len(id) : id[i] = (Prefix(v) \o id)[n + i] /\ jd[i] = (Prefix(v) \o jd)[n + i]
  BY <1>2, <1>5
<1>7. \A i \in 1 .. Len(id) : id[i] = jd[i]
  BY <1>3, <1>6
<1>8. id = jd
  BY <1>2, <1>5, <1>7, SeqEqual
<1> QED BY <1>1, <1>8

-------------------------------------------------------------------------------
(***************************************************************************)
(* Entries and rows.                                                       *)
(***************************************************************************)
RowsInv ==
    /\ kind \in Kinds
    /\ entries \subseteq ValuesOf(kind) \X IdsOf(kind)
    /\ RowsExact

LEMMA RowsPut ==
    ASSUME RowsInv, NEW v \in ValuesOf(kind), NEW id \in IdsOf(kind), putIndex(v, id)
    PROVE  RowsInv'
<1> USE DEF RowsInv, RowsExact
<1>1. kind' = kind /\ entries' = entries \cup {<<v, id>>}
  BY DEF putIndex
<1>2. \A e \in entries' : IndexKey(e[1], e[2])' = IndexKey(e[1], e[2])
  BY <1>1 DEF IndexKey, parseValue
<1>3. entries' \subseteq ValuesOf(kind) \X IdsOf(kind)
  BY <1>1
<1>4. DOMAIN rows' = DOMAIN rows \cup {IndexKey(v, id)}
  BY DEF putIndex
<1>5. (DOMAIN rows)' = {IndexKey(e[1], e[2]) : e \in entries'}
  <2>1. \A e \in entries' : IndexKey(e[1], e[2]) \in DOMAIN rows'
    BY <1>1, <1>4
  <2>2. ASSUME NEW k \in DOMAIN rows' PROVE \E e \in entries' : k = IndexKey(e[1], e[2])
    <3>1. CASE k \in DOMAIN rows
      BY <1>1, <3>1
    <3>2. CASE k = IndexKey(v, id)
      <4>1. <<v, id>> \in entries' /\ k = IndexKey(<<v, id>>[1], <<v, id>>[2])
        BY <1>1, <3>2
      <4> QED BY <4>1
    <3> QED BY <1>4, <3>1, <3>2
  <2> QED BY ONLY <2>1, <2>2, Zenon
<1>6. ASSUME NEW e \in entries' PROVE rows'[IndexKey(e[1], e[2])] = e[2]
  <2>1. e[1] \in ValuesOf(kind) /\ e[2] \in IdsOf(kind) /\ e = <<e[1], e[2]>>
    BY <1>3
  <2>2. CASE IndexKey(e[1], e[2]) = IndexKey(v, id)
    <3>1. e[2] = id
      BY <2>1, <2>2, IndexKeyDistinct
    <3> QED BY <1>4, <2>2, <3>1 DEF putIndex
  <2>3. CASE IndexKey(e[1], e[2]) # IndexKey(v, id)
    <3>1. e # <<v, id>>
      BY <2>3
    <3>2. e \in entries
      BY <1>1, <3>1
    <3> QED BY <2>3, <3>2 DEF putIndex
  <2> QED BY <2>2, <2>3
<1>7. (DOMAIN rows)' = {IndexKey(e[1], e[2])' : e \in entries'}
  BY <1>2, <1>5
<1> QED BY <1>1, <1>2, <1>3, <1>6, <1>7

LEMMA RowsRemove ==
    ASSUME RowsInv, NEW v \in ValuesOf(kind), NEW id \in IdsOf(kind), remove(v, id)
    PROVE  RowsInv'
<1> USE DEF RowsInv, RowsExact
<1>1. kind' = kind /\ entries' = entries \ {<<v, id>>}
  BY DEF remove
<1>2. \A e \in entries' : IndexKey(e[1], e[2])' = IndexKey(e[1], e[2])
  BY <1>1 DEF IndexKey, parseValue
<1>3. DOMAIN rows' = DOMAIN rows \ {IndexKey(v, id)}
  BY DEF remove
<1>4. ASSUME NEW e \in entries' PROVE IndexKey(e[1], e[2]) \in DOMAIN rows'
  <2>1. e \in entries /\ e # <<v, id>> /\ e[1] \in ValuesOf(kind) /\ e[2] \in IdsOf(kind)
        /\ e = <<e[1], e[2]>>
    BY <1>1
  <2>2. IndexKey(e[1], e[2]) # IndexKey(v, id)
    BY <2>1, IndexKeyDistinct
  <2> QED BY <1>3, <2>1, <2>2
<1>5. ASSUME NEW k \in DOMAIN rows' PROVE \E e \in entries' : k = IndexKey(e[1], e[2])
  <2>1. PICK e \in entries : k = IndexKey(e[1], e[2])
    BY <1>3
  <2>2. e # <<v, id>>
    BY <1>3, <2>1
  <2> QED BY <1>1, <2>1, <2>2
<1>6. (DOMAIN rows)' = {IndexKey(e[1], e[2])' : e \in entries'}
  <2>1. (DOMAIN rows)' = {IndexKey(e[1], e[2]) : e \in entries'}
    BY ONLY <1>4, <1>5, Zenon
  <2> QED BY <1>2, <2>1
<1>7. \A e \in entries' : rows'[IndexKey(e[1], e[2])] = e[2]
  BY <1>1, <1>3, <1>4 DEF remove
<1> QED BY <1>1, <1>2, <1>6, <1>7

LEMMA RowsStep ==
    ASSUME RowsInv, [Next]_vars
    PROVE  RowsInv'
<1>1. CASE Writes
  BY <1>1, RowsPut, RowsRemove DEF Writes
<1>2. CASE UNCHANGED <<kind, entries, rows>>
  BY <1>2 DEF RowsInv, RowsExact, IndexKey, parseValue
<1>3. Writes \/ UNCHANGED <<kind, entries, rows>>
  BY DEF Next, vars, Starts, fetchDocIdsForEqual, fetchDocIdsForGreater, fetchDocIdsForLesser,
         fetchDocIdsByOrder, StartScan, SkipRow, SkipEnds, TakeRow, TakeEnds, Return
<1> QED BY <1>1, <1>2, <1>3

(***************************************************************************)
(* Whatever is put and removed, in any order, every entry has its own row  *)
(* and every row its entry: a '#' in a number's key, in a text or in an id *)
(* never makes the keys of two entries the same, unless texts and ids of   *)
(* one index both have it.                                                 *)
(***************************************************************************)
THEOREM EntriesKeepRows == Spec => []RowsExact
<1>1. Init => RowsInv
  BY DEF Init, RowsInv, RowsExact, Kinds
<1>2. RowsInv /\ [Next]_vars => RowsInv'
  BY RowsStep
<1>3. RowsInv => RowsExact
  BY DEF RowsInv
<1> QED BY <1>1, <1>2, <1>3, PTL DEF Spec

\* decodeIntKey and decodeDoubleKey undo what parseValue does to a number.
LEMMA KeyRead ==
    ASSUME kind \in Kinds, NEW v \in ValuesOf(kind)
    PROVE  /\ kind = "int" => decodeIntKey(parseValue(v)) = v
           /\ kind = "double" => decodeDoubleKey(parseValue(v)) = v
<1>1. Half \in Nat /\ Size \in Nat /\ Size = 2 * Half
  BY Sizes, ValuesAssumption
<1>2. CASE kind = "int"
  <2>1. v \in -Half .. Half - 1 /\ Word(v) = v + Half
    BY <1>2, ValuesAssumption DEF ValuesOf, Word
  <2>2. fromBigEndian(parseValue(v)) = v + Half
    BY <1>2, <2>1, NumberWord, WordRead DEF Numbers
  <2>3. (v + Half) + Half = v + Size
    BY <1>1, <2>1
  <2>4. \A x \in -Half .. Half - 1 : (x + Size) % Size = IF x < 0 THEN x + Size ELSE x
    BY <1>1
  <2>5. ((v + Half) + Half) % Size = IF v < 0 THEN v + Size ELSE v
    BY <2>1, <2>3, <2>4
  <2> DEFINE word == IF v < 0 THEN v + Size ELSE v
  <2>6. decodeIntKey(parseValue(v)) = IF word >= Half THEN word - Size ELSE word
    BY <2>2, <2>5 DEF decodeIntKey
  <2>7. (IF word >= Half THEN word - Size ELSE word) = v
    BY <1>1, <2>1
  <2> QED BY <1>2, <2>6, <2>7
<1>3. CASE kind = "double"
  <2>1. v \in 0 .. Size - 1 /\ Word(v) = IF v >= Half THEN Size - 1 - v ELSE v + Half
    BY <1>3, ValuesAssumption DEF ValuesOf, Word
  <2>2. fromBigEndian(parseValue(v)) = Word(v)
    BY <1>3, NumberWord, WordRead DEF Numbers
  <2>3. decodeDoubleKey(parseValue(v)) =
          IF Word(v) < Half THEN Size - 1 - Word(v) ELSE Word(v) - Half
    BY <2>2 DEF decodeDoubleKey
  <2>4. (IF Word(v) < Half THEN Size - 1 - Word(v) ELSE Word(v) - Half) = v
    BY <1>1, <2>1
  <2> QED BY <1>3, <2>3, <2>4
<1> QED BY <1>2, <1>3

(***************************************************************************)
(* Every number in an index can be read back from its key, for bytes and   *)
(* words of any width.                                                     *)
(***************************************************************************)
THEOREM NumbersReadBack == Spec => []RoundTrip
<1>1. Init => RowsInv
  BY DEF Init, RowsInv, RowsExact, Kinds
<1>2. RowsInv /\ [Next]_vars => RowsInv'
  BY RowsStep
<1>3. RowsInv => RoundTrip
  <2> SUFFICES ASSUME RowsInv, NEW e \in entries
               PROVE  /\ kind = "int" => decodeIntKey(parseValue(e[1])) = e[1]
                      /\ kind = "double" => decodeDoubleKey(parseValue(e[1])) = e[1]
    BY DEF RoundTrip
  <2>1. kind \in Kinds /\ e[1] \in ValuesOf(kind)
    BY DEF RowsInv
  <2> QED BY <2>1, KeyRead
<1> QED BY <1>1, <1>2, <1>3, PTL DEF Spec

-------------------------------------------------------------------------------
(***************************************************************************)
(* The loops.  What a scan has taken lies in its direction, all of it      *)
(* wanted, and every row that is wanted has been taken or is not behind    *)
(* the iterator.  Only $eq may stand on a row that it does not want, which *)
(* ends it.                                                                *)
(***************************************************************************)

\* The rows that an operator means, given the prefix of its value.
Wants(op, p, k) ==
    CASE op = "$eq" -> starts_with(k, p)
      [] op = "$gt" -> ~Less(k, p) /\ ~starts_with(k, p)
      [] op = "$lt" -> Less(k, p)
      [] OTHER -> TRUE

\* The order in which it takes them.
Before(op, k, l) == IF op \in {"$lt", "desc"} THEN Less(l, k) ELSE Less(k, l)

ScanOps == {"$eq", "$gt", "$lt", "asc", "desc"}

ScanType ==
    /\ scan \in [pc : {"idle", "skip", "take", "done"}, op : ScanOps,
                 value : ValuesOf(kind) \cup {End}, at : DOMAIN rows \cup {End},
                 out : Seq((DOMAIN rows) \X Ids)]
    /\ scan.op \in {"$eq", "$gt", "$lt"} /\ scan.pc # "idle" => scan.value \in ValuesOf(kind)
    /\ scan.pc = "idle" => scan = NoScan

Target == Prefix(scan.value)

Taken(k) == \E i \in 1 .. Len(scan.out) : scan.out[i][1] = k

TakenExact ==
    \A i \in 1 .. Len(scan.out) :
        /\ scan.out[i][2] = rows[scan.out[i][1]]
        /\ Wants(scan.op, Target, scan.out[i][1])

TakenOnward ==
    \A i, j \in 1 .. Len(scan.out) : i < j => Before(scan.op, scan.out[i][1], scan.out[j][1])

Ahead ==
    scan.at # End =>
        /\ \A i \in 1 .. Len(scan.out) : Before(scan.op, scan.out[i][1], scan.at)
        /\ scan.op \in {"$eq", "$gt"} => ~Less(scan.at, Target)
        /\ scan.op # "$eq" /\ scan.pc = "take" => Wants(scan.op, Target, scan.at)

TakenAll ==
    \A k \in DOMAIN rows : Wants(scan.op, Target, k) =>
        Taken(k) \/ (scan.pc # "done" /\ scan.at # End /\ ~Before(scan.op, k, scan.at))

ScanInv ==
    scan.pc # "idle" =>
        /\ scan.pc = "skip" => scan.op = "$gt" /\ scan.out = <<>>
        /\ TakenExact /\ TakenOnward /\ TakenAll
        /\ scan.pc # "done" => Ahead

IndInv == RowsInv /\ ScanType /\ ScanInv

\* Rows are byte strings that map to ids, and the end of the rows is none.
LEMMA RowBytes ==
    ASSUME RowsInv
    PROVE  /\ End \notin DOMAIN rows
           /\ \A k \in DOMAIN rows : k \in Seq(Int) /\ rows[k] \in Ids
           /\ End \in Seq(Int)
<1>1. ASSUME NEW k \in DOMAIN rows PROVE k \in Seq(Bytes) /\ k # End /\ rows[k] \in Ids
  <2>1. PICK e \in entries : k = IndexKey(e[1], e[2])
    BY DEF RowsInv, RowsExact
  <2>2. e[1] \in ValuesOf(kind) /\ e[2] \in Ids /\ kind \in Kinds
    BY IdsAmong DEF RowsInv
  <2>3. rows[k] = e[2]
    BY <2>1 DEF RowsInv, RowsExact
  <2> QED BY <2>1, <2>2, <2>3, IndexKeys
<1>2. Seq(Bytes) \subseteq Seq(Int)
  BY BytesAssumption DEF Bytes
<1> QED BY <1>1, <1>2 DEF End

LEMMA PrefixBytes ==
    ASSUME RowsInv, NEW v \in ValuesOf(kind)
    PROVE  Prefix(v) \in Seq(Int)
<1>1. parseValue(v) \in Seq(Bytes) /\ <<Hash>> \in Seq(Bytes)
  BY KeyBytes, BytesAssumption DEF RowsInv
<1>2. Prefix(v) \in Seq(Bytes)
  BY <1>1 DEF Prefix
<1> QED BY <1>2, BytesAssumption DEF Bytes

\* No id is empty: a row of the value is longer than the prefix of the value.
LEMMA RowNotPrefix ==
    ASSUME RowsInv, NEW v \in ValuesOf(kind), NEW k \in DOMAIN rows
    PROVE  k # Prefix(v)
<1> SUFFICES ASSUME k = Prefix(v) PROVE FALSE
  OBVIOUS
<1>1. PICK e \in entries : k = IndexKey(e[1], e[2])
  BY DEF RowsInv, RowsExact
<1>2. e[1] \in ValuesOf(kind) /\ e[2] \in IdsOf(kind) /\ e[2] \in Ids /\ kind \in Kinds
  BY IdsAmong DEF RowsInv
<1>3. k \in Seq(Int) /\ starts_with(k, k)
  BY RowBytes DEF starts_with
<1>4. e[1] = v \/ RunsOn(e[1], v)
  BY <1>1, <1>2, <1>3, PrefixOwner
<1>5. Len(k) > Len(Prefix(v))
  <2>1. Len(k) > Len(Prefix(e[1])) /\ Prefix(e[1]) \in Seq(Bytes) /\ Prefix(v) \in Seq(Bytes)
    BY <1>1, <1>2, IndexKeys
  <2>2. Len(Prefix(v)) <= Len(Prefix(e[1]))
    BY <1>2, <1>4, <2>1, RunsOnLonger
  <2> QED BY <1>3, <2>1, <2>2
<1> QED BY <1>3, <1>5

LEMMA BeforeTotal ==
    ASSUME NEW op, NEW k \in Seq(Int), NEW l \in Seq(Int), k # l
    PROVE  Before(op, k, l) \/ Before(op, l, k)
BY LessTotal DEF Before

LEMMA BeforeIrreflexive ==
    ASSUME NEW op, NEW k \in Seq(Int)
    PROVE  ~Before(op, k, k)
BY LessIrreflexive DEF Before

LEMMA BeforeTransitive ==
    ASSUME NEW op, NEW k \in Seq(Int), NEW l \in Seq(Int), NEW m \in Seq(Int),
           Before(op, k, l), Before(op, l, m)
    PROVE  Before(op, k, m)
BY LessTransitive DEF Before

LEMMA LessAsymmetric ==
    ASSUME NEW k \in Seq(Int), NEW l \in Seq(Int), Less(k, l)
    PROVE  ~Less(l, k)
BY LessTransitive, LessIrreflexive

\* From a wanted row onward all rows are wanted, except by $eq.
LEMMA WantsOnward ==
    ASSUME NEW op \in ScanOps, NEW p, NEW k \in Seq(Int), NEW l \in Seq(Int),
           op \in {"$gt", "$lt"} => p \in Seq(Int),
           op # "$eq", Wants(op, p, k), Before(op, k, l)
    PROVE  Wants(op, p, l)
<1>1. CASE op = "$gt"
  <2>1. p \in Seq(Int) /\ ~Less(k, p) /\ ~starts_with(k, p) /\ Less(k, l)
    BY <1>1 DEF Wants, Before
  <2>2. ~Less(l, p)
    BY <2>1, LessTransitive
  <2>3. ~Less(l, k)
    BY <2>1, LessAsymmetric
  <2>4. ~starts_with(l, p)
    BY <2>1, <2>3, PrefixConvex
  <2> QED BY <1>1, <2>2, <2>4 DEF Wants
<1>2. CASE op = "$lt"
  BY <1>2, LessTransitive DEF Wants, Before
<1> QED BY <1>1, <1>2 DEF Wants, ScanOps

\* The first and the last of some rows.
LEMMA FirstAmong ==
    ASSUME NEW keys, NEW at \in First(keys)
    PROVE  /\ keys = {} => at = End
           /\ keys # {} => at \in keys /\ \A k \in keys : ~Less(k, at)
BY DEF First

LEMMA LastAmong ==
    ASSUME NEW keys, NEW at \in Last(keys)
    PROVE  /\ keys = {} => at = End
           /\ keys # {} => at \in keys /\ \A k \in keys : ~Less(at, k)
BY DEF Last

\* The iterator moves on from a row, in the direction of the scan.
LEMMA Onward ==
    ASSUME RowsInv, NEW k \in DOMAIN rows,
           NEW at \in IF Forward THEN NextRow(k) ELSE PrevRow(k)
    PROVE  /\ at \in DOMAIN rows \cup {End}
           /\ at # End => Before(scan.op, k, at)
           /\ \A l \in DOMAIN rows : Before(scan.op, k, l) => at # End /\ ~Before(scan.op, l, at)
<1>1. CASE Forward
  <2> DEFINE keys == {l \in DOMAIN rows : Less(k, l)}
  <2>1. /\ keys = {} => at = End
        /\ keys # {} => at \in keys /\ \A l \in keys : ~Less(l, at)
    BY <1>1, FirstAmong DEF NextRow
  <2>2. \A l, m : Before(scan.op, l, m) <=> Less(l, m)
    BY <1>1 DEF Forward, Before
  <2> QED BY <2>1, <2>2, RowBytes
<1>2. CASE ~Forward
  <2> DEFINE keys == {l \in DOMAIN rows : Less(l, k)}
  <2>1. /\ keys = {} => at = End
        /\ keys # {} => at \in keys /\ \A l \in keys : ~Less(at, l)
    BY <1>2, LastAmong DEF PrevRow
  <2>2. \A l, m : Before(scan.op, l, m) <=> Less(m, l)
    BY <1>2 DEF Forward, Before
  <2> QED BY <2>1, <2>2, RowBytes
<1> QED BY <1>1, <1>2

\* A scan starts on its first row: it has taken nothing, and misses nothing.
LEMMA ScanStarts ==
    ASSUME RowsInv, NEW op \in ScanOps, NEW v \in ValuesOf(kind) \cup {End},
           NEW pc \in {"skip", "take"}, NEW at \in DOMAIN rows \cup {End},
           StartScan(op, v, pc, at),
           op \in {"$eq", "$gt", "$lt"} => v \in ValuesOf(kind),
           pc = "skip" => op = "$gt",
           at # End => /\ op \in {"$eq", "$gt"} => ~Less(at, Prefix(v))
                       /\ op # "$eq" /\ pc = "take" => Wants(op, Prefix(v), at),
           \A k \in DOMAIN rows : Wants(op, Prefix(v), k) => at # End /\ ~Before(op, k, at)
    PROVE  ScanType' /\ ScanInv'
<1>1. /\ UNCHANGED <<kind, rows>>
      /\ scan' = [pc |-> pc, op |-> op, value |-> v, at |-> at, out |-> <<>>]
  BY DEF StartScan
<1>2. /\ scan'.pc = pc /\ scan'.op = op /\ scan'.value = v /\ scan'.at = at
      /\ scan'.out = <<>> /\ Len(scan'.out) = 0 /\ scan'.out \in Seq((DOMAIN rows) \X Ids)
  BY <1>1
<1>3. Target' = Prefix(v)
  BY <1>1, <1>2 DEF Target, Prefix, parseValue
<1>4. ScanType'
  BY <1>1, <1>2 DEF ScanType, ValuesOf
<1>5. TakenExact' /\ TakenOnward'
  BY <1>2 DEF TakenExact, TakenOnward
<1>6. Ahead' /\ TakenAll'
  BY <1>1, <1>2, <1>3 DEF Ahead, TakenAll
<1> QED BY <1>2, <1>4, <1>5, <1>6 DEF ScanInv

LEMMA EqualStarts ==
    ASSUME IndInv, NEW v \in ValuesOf(kind), fetchDocIdsForEqual(v) \/ fetchDocIdsForGreater(v)
    PROVE  ScanType' /\ ScanInv'
<1> DEFINE keys == {k \in DOMAIN rows : ~Less(k, Prefix(v))}
<1>1. PICK at \in Seek(Prefix(v)), op \in {"$eq", "$gt"} :
        StartScan(op, v, IF op = "$eq" THEN "take" ELSE "skip", at)
  BY DEF fetchDocIdsForEqual, fetchDocIdsForGreater
<1>2. /\ keys = {} => at = End
      /\ keys # {} => at \in keys /\ \A k \in keys : ~Less(k, at)
  BY FirstAmong DEF Seek
<1>3. RowsInv /\ End \notin DOMAIN rows
  BY RowBytes DEF IndInv
<1>4. ASSUME NEW k \in DOMAIN rows, Wants(op, Prefix(v), k)
      PROVE  at # End /\ ~Before(op, k, at)
  <2>1. k \in Seq(Int) /\ Prefix(v) \in Seq(Int)
    BY <1>3, RowBytes, PrefixBytes
  <2>2. k \in keys
    BY <1>4, <2>1, PrefixFirst DEF Wants
  <2> QED BY <1>2, <1>3, <2>2 DEF Before
<1>5. at \in DOMAIN rows \cup {End} /\ (at # End => ~Less(at, Prefix(v)))
  BY <1>2
<1> QED BY <1>1, <1>3, <1>4, <1>5, ScanStarts DEF ScanOps

LEMMA LesserStarts ==
    ASSUME IndInv, NEW v \in ValuesOf(kind), fetchDocIdsForLesser(v)
    PROVE  ScanType' /\ ScanInv'
<1> DEFINE P == Prefix(v)
           keys == {k \in DOMAIN rows : ~Less(P, k)}
<1>1. PICK last \in SeekForPrev(P) :
        \E at \in IF last # End /\ starts_with(last, P) THEN PrevRow(last) ELSE {last} :
            StartScan("$lt", v, "take", at)
  BY DEF fetchDocIdsForLesser
<1>2. /\ keys = {} => last = End
      /\ keys # {} => last \in keys /\ \A k \in keys : ~Less(last, k)
  BY LastAmong DEF SeekForPrev
<1>3. RowsInv /\ End \notin DOMAIN rows /\ P \in Seq(Int)
  BY RowBytes, PrefixBytes DEF IndInv
<1> HIDE DEF P
<1>4. \A k \in DOMAIN rows : k \in Seq(Int) /\ (k \in keys <=> Less(k, P))
  <2> SUFFICES ASSUME NEW k \in DOMAIN rows PROVE k \in Seq(Int) /\ (k \in keys <=> Less(k, P))
    OBVIOUS
  <2>1. k \in Seq(Int) /\ k # P
    BY <1>3, RowBytes, RowNotPrefix DEF P
  <2> QED BY <1>3, <2>1, LessTotal, LessAsymmetric
<1>5. last # End => last \in DOMAIN rows /\ Less(last, P) /\ ~starts_with(last, P)
  BY <1>2, <1>3, <1>4, PrefixFirst
<1>6. StartScan("$lt", v, "take", last)
  BY <1>1, <1>5
<1>7. ASSUME NEW k \in DOMAIN rows, Wants("$lt", P, k)
      PROVE  last # End /\ ~Before("$lt", k, last)
  <2>1. k \in keys
    BY <1>4, <1>7 DEF Wants
  <2> QED BY <1>2, <1>3, <2>1 DEF Before
<1>8. last # End => Wants("$lt", P, last)
  BY <1>5 DEF Wants
<1> QED BY <1>3, <1>5, <1>6, <1>7, <1>8, ScanStarts DEF ScanOps, P

LEMMA OrderStarts ==
    ASSUME IndInv, NEW asc \in BOOLEAN, fetchDocIdsByOrder(asc)
    PROVE  ScanType' /\ ScanInv'
<1> DEFINE op == IF asc THEN "asc" ELSE "desc"
<1>1. PICK at \in IF asc THEN First(DOMAIN rows) ELSE Last(DOMAIN rows) :
        StartScan(op, End, "take", at)
  BY DEF fetchDocIdsByOrder
<1>2. RowsInv /\ End \notin DOMAIN rows
  BY RowBytes DEF IndInv
<1>3. /\ at \in DOMAIN rows \cup {End}
      /\ \A k \in DOMAIN rows : at # End /\ ~Before(op, k, at)
  <2>1. CASE asc
    BY <1>2, <2>1, FirstAmong DEF Before
  <2>2. CASE ~asc
    BY <1>2, <2>2, LastAmong DEF Before
  <2> QED BY <2>1, <2>2
<1>4. op \in ScanOps /\ op \notin {"$eq", "$gt", "$lt"} /\ Wants(op, Prefix(End), at)
  BY DEF ScanOps, Wants
<1> HIDE DEF op
<1> QED BY <1>1, <1>2, <1>3, <1>4, ScanStarts

LEMMA ScansStart ==
    ASSUME IndInv, Starts
    PROVE  ScanType' /\ ScanInv'
BY EqualStarts, LesserStarts, OrderStarts DEF Starts

\* The row that a loop takes is wanted.
LEMMA TakesWanted ==
    ASSUME IndInv, scan.pc = "take", Takes
    PROVE  Wants(scan.op, Target, scan.at)
BY DEF IndInv, ScanInv, Ahead, Takes, Wants, Target

LEMMA RowTaken ==
    ASSUME IndInv, TakeRow
    PROVE  ScanType' /\ ScanInv'
<1> DEFINE P == Target
           n == Len(scan.out)
           op == scan.op
           Row == <<scan.at, rows[scan.at]>>
<1>1. scan.pc = "take" /\ scan.at # End /\ Takes /\ UNCHANGED <<kind, entries, rows>>
  BY DEF TakeRow, Takes
<1>2. PICK at \in IF Forward THEN NextRow(scan.at) ELSE PrevRow(scan.at) :
        scan' = [scan EXCEPT !.out = Append(scan.out, Row), !.at = at]
  BY DEF TakeRow
<1>3. /\ scan.at \in DOMAIN rows /\ scan.out \in Seq((DOMAIN rows) \X Ids)
      /\ op \in ScanOps /\ RowsInv /\ TakenExact /\ TakenOnward /\ TakenAll /\ Ahead
  BY <1>1 DEF IndInv, ScanType, ScanInv
<1>4. /\ at \in DOMAIN rows \cup {End}
      /\ at # End => Before(op, scan.at, at)
      /\ \A l \in DOMAIN rows : Before(op, scan.at, l) => at # End /\ ~Before(op, l, at)
  BY <1>2, <1>3, Onward
<1>5. End \notin DOMAIN rows /\ \A k \in DOMAIN rows : k \in Seq(Int) /\ rows[k] \in Ids
  BY <1>3, RowBytes
<1>6. Row \in (DOMAIN rows) \X Ids /\ Row[1] = scan.at /\ Row[2] = rows[scan.at]
  BY <1>3, <1>5
<1> HIDE DEF Row
<1>7. /\ n \in Nat /\ Append(scan.out, Row) \in Seq((DOMAIN rows) \X Ids)
      /\ Len(Append(scan.out, Row)) = n + 1
      /\ \A i \in 1 .. n : Append(scan.out, Row)[i] = scan.out[i]
      /\ Append(scan.out, Row)[n + 1] = Row
  BY ONLY <1>3, <1>6, AppendProperties
<1>8. /\ scan'.pc = "take" /\ scan'.op = op /\ scan'.value = scan.value /\ scan'.at = at
      /\ scan'.out = Append(scan.out, Row)
  BY <1>1, <1>2 DEF IndInv, ScanType
<1>9. ScanType'
  BY <1>1, <1>2, <1>4, <1>7 DEF IndInv, ScanType, ValuesOf
<1>10. P' = P
  BY <1>1, <1>8 DEF Target, Prefix, parseValue
<1>11. /\ Len(scan'.out) = n + 1
       /\ \A i \in 1 .. n : scan'.out[i] = scan.out[i] /\ scan.out[i][1] \in DOMAIN rows
       /\ scan'.out[n + 1][1] = scan.at /\ scan'.out[n + 1][2] = rows[scan.at]
  <2>1. \A i \in 1 .. n : scan.out[i] \in (DOMAIN rows) \X Ids
    BY ONLY <1>3
  <2>2. \A i \in 1 .. n : scan.out[i][1] \in DOMAIN rows
    BY ONLY <2>1
  <2> QED BY ONLY <1>6, <1>7, <1>8, <2>2
<1>12. Wants(op, P, scan.at)
  BY <1>1, TakesWanted
<1> HIDE DEF P, n, op
<1>13. TakenExact'
  BY <1>1, <1>3, <1>7, <1>8, <1>10, <1>11, <1>12 DEF TakenExact, P, n, op
<1>14. \A i \in 1 .. n : Before(op, scan.out[i][1], scan.at)
  BY <1>1, <1>3 DEF Ahead, n, op
<1>15. TakenOnward'
  <2> SUFFICES ASSUME NEW i \in 1 .. n + 1, NEW j \in 1 .. n + 1, i < j
               PROVE  Before(op, scan'.out[i][1], scan'.out[j][1])
    BY <1>8, <1>11 DEF TakenOnward
  <2>1. CASE j = n + 1
    <3>1. i \in 1 .. n
      BY <1>7, <2>1
    <3> QED BY <1>11, <1>14, <2>1, <3>1
  <2>2. CASE j # n + 1
    <3>1. i \in 1 .. n /\ j \in 1 .. n
      BY <1>7, <2>2
    <3> QED BY <1>3, <1>11, <3>1 DEF TakenOnward, n, op
  <2> QED BY <2>1, <2>2
<1>16. Ahead'
  <2> SUFFICES ASSUME at # End
               PROVE  /\ \A i \in 1 .. n + 1 : Before(op, scan'.out[i][1], at)
                      /\ op \in {"$eq", "$gt"} => ~Less(at, P)
                      /\ op # "$eq" => Wants(op, P, at)
    BY <1>8, <1>10, <1>11 DEF Ahead, P
  <2>1. at \in Seq(Int) /\ scan.at \in Seq(Int) /\ Before(op, scan.at, at)
    BY <1>3, <1>4, <1>5
  <2>2. ASSUME NEW i \in 1 .. n + 1 PROVE Before(op, scan'.out[i][1], at)
    <3>1. CASE i = n + 1
      BY <1>11, <2>1, <3>1
    <3>2. CASE i # n + 1
      <4>1. i \in 1 .. n
        BY <1>7, <3>2
      <4>2. Before(op, scan.out[i][1], scan.at) /\ scan.out[i][1] \in Seq(Int)
        BY <1>5, <1>11, <1>14, <4>1
      <4>3. Before(op, scan.out[i][1], at)
        BY <2>1, <4>2, BeforeTransitive
      <4> QED BY <1>11, <4>1, <4>3
    <3> QED BY <3>1, <3>2
  <2>3. op \in {"$eq", "$gt", "$lt"} => P \in Seq(Int)
    BY <1>1, <1>3, PrefixBytes DEF IndInv, ScanType, P, op, Target
  <2>4. ASSUME op \in {"$eq", "$gt"} PROVE ~Less(at, P)
    <3>1. ~Less(scan.at, P) /\ Less(scan.at, at)
      BY <1>1, <1>3, <2>1, <2>4 DEF Ahead, P, op, Before
    <3> QED BY <2>1, <2>3, <2>4, <3>1, LessTransitive
  <2>5. op # "$eq" => Wants(op, P, at)
    BY <1>3, <1>12, <2>1, <2>3, WantsOnward DEF op
  <2> QED BY <2>2, <2>4, <2>5
<1>17. TakenAll'
  <2> SUFFICES ASSUME NEW k \in DOMAIN rows, Wants(op, P, k)
               PROVE  Taken(k)' \/ (at # End /\ ~Before(op, k, at))
    BY <1>1, <1>8, <1>10 DEF TakenAll, P
  <2>1. Taken(k) => Taken(k)'
    <3> SUFFICES ASSUME NEW i \in 1 .. n, scan.out[i][1] = k
                 PROVE  Taken(k)'
      BY DEF Taken, n
    <3>1. i \in 1 .. n + 1 /\ scan'.out[i][1] = k
      BY <1>7, <1>11
    <3> QED BY <1>11, <3>1 DEF Taken
  <2>2. k = scan.at => Taken(k)'
    <3>1. n + 1 \in 1 .. n + 1
      BY <1>7
    <3> QED BY <1>11, <3>1 DEF Taken
  <2>3. CASE ~Before(op, k, scan.at) /\ k # scan.at
    <3>1. Before(op, scan.at, k)
      BY <1>3, <1>5, <2>3, BeforeTotal
    <3> QED BY <1>4, <3>1
  <2>4. Taken(k) \/ ~Before(op, k, scan.at)
    BY <1>3 DEF TakenAll, P, op
  <2> QED BY <2>1, <2>2, <2>3, <2>4
<1> QED BY <1>8, <1>9, <1>13, <1>15, <1>16, <1>17 DEF ScanInv

\* The loop of $eq ends at a row of another value, the others at the end.
LEMMA LoopEnds ==
    ASSUME IndInv, TakeEnds
    PROVE  ScanType' /\ ScanInv'
<1> DEFINE P == Target
<1>1. scan.pc = "take" /\ ~Takes /\ scan' = [scan EXCEPT !.pc = "done"]
      /\ UNCHANGED <<kind, entries, rows>>
  BY DEF TakeEnds
<1>2. /\ scan'.pc = "done" /\ scan'.op = scan.op /\ scan'.value = scan.value
      /\ scan'.out = scan.out /\ scan'.at = scan.at
  BY <1>1 DEF IndInv, ScanType
<1>3. ScanType'
  BY <1>1 DEF IndInv, ScanType, ValuesOf
<1>4. RowsInv /\ TakenExact /\ TakenOnward /\ TakenAll /\ Ahead /\ P' = P
  BY <1>1, <1>2 DEF IndInv, ScanInv, Target, Prefix, parseValue
<1>5. ASSUME NEW k \in DOMAIN rows, Wants(scan.op, P, k) PROVE Taken(k)
  <2> SUFFICES ASSUME scan.at # End, ~Before(scan.op, k, scan.at) PROVE FALSE
    BY <1>4, <1>5 DEF TakenAll
  <2>1. scan.op = "$eq" /\ ~starts_with(scan.at, P)
    BY <1>1 DEF Takes, Target
  <2>2. P \in Seq(Int) /\ scan.at \in Seq(Int) /\ k \in Seq(Int)
    BY <1>1, <1>4, <2>1, PrefixBytes, RowBytes DEF IndInv, ScanType, Target
  <2>3. ~Less(scan.at, P) /\ ~Less(k, scan.at) /\ starts_with(k, P)
    BY <1>4, <1>5, <2>1 DEF Ahead, Before, Wants
  <2> QED BY <2>1, <2>2, <2>3, PrefixConvex
<1> HIDE DEF P
<1>6. TakenExact' /\ TakenOnward'
  BY <1>1, <1>2, <1>4 DEF TakenExact, TakenOnward, P
<1>7. TakenAll'
  BY <1>1, <1>2, <1>4, <1>5 DEF TakenAll, Taken, P
<1> QED BY <1>2, <1>3, <1>6, <1>7 DEF ScanInv

\* $gt passes over the rows of the value itself.
LEMMA RowSkipped ==
    ASSUME IndInv, SkipRow
    PROVE  ScanType' /\ ScanInv'
<1> DEFINE P == Target
<1>1. /\ scan.pc = "skip" /\ scan.at # End /\ starts_with(scan.at, P)
      /\ UNCHANGED <<kind, entries, rows>>
  BY DEF SkipRow, Target
<1>2. /\ scan.op = "$gt" /\ scan.out = <<>> /\ Len(scan.out) = 0
      /\ RowsInv /\ TakenExact /\ TakenOnward /\ TakenAll /\ Ahead /\ scan.at \in DOMAIN rows
  BY <1>1 DEF IndInv, ScanInv, ScanType
<1>3. PICK at \in NextRow(scan.at) : scan' = [scan EXCEPT !.at = at]
  BY DEF SkipRow
<1>4. /\ at \in DOMAIN rows \cup {End}
      /\ at # End => Less(scan.at, at)
      /\ \A l \in DOMAIN rows : Less(scan.at, l) => at # End /\ ~Less(l, at)
  BY <1>2, <1>3, Onward DEF Forward, Before
<1>5. /\ scan'.pc = "skip" /\ scan'.op = "$gt" /\ scan'.value = scan.value
      /\ scan'.out = <<>> /\ scan'.at = at /\ Len(scan'.out) = 0
  BY <1>1, <1>2, <1>3 DEF IndInv, ScanType
<1>6. ScanType'
  BY <1>1, <1>2, <1>3, <1>4 DEF IndInv, ScanType, ValuesOf
<1>7. P' = P
  BY <1>1, <1>5 DEF Target, Prefix, parseValue
<1>8. P \in Seq(Int) /\ \A k \in DOMAIN rows : k \in Seq(Int)
  BY <1>1, <1>2, PrefixBytes, RowBytes DEF IndInv, ScanType, Target
<1> HIDE DEF P
<1>9. at # End => ~Less(at, P)
  <2>1. ~Less(scan.at, P)
    BY <1>1, <1>2 DEF Ahead, P
  <2> QED BY <1>2, <1>4, <1>8, <2>1, LessTransitive
<1>10. ASSUME NEW k \in DOMAIN rows, Wants("$gt", P, k)
       PROVE  at # End /\ ~Less(k, at)
  <2>1. ~Less(k, scan.at)
    BY <1>2, <1>10 DEF TakenAll, Taken, Before, P
  <2>2. k # scan.at
    BY <1>1, <1>10 DEF Wants
  <2>3. Less(scan.at, k)
    BY <1>2, <1>8, <2>1, <2>2, LessTotal
  <2> QED BY <1>4, <2>3
<1>11. TakenExact' /\ TakenOnward'
  BY <1>5 DEF TakenExact, TakenOnward
<1>12. Ahead'
  BY <1>5, <1>7, <1>9 DEF Ahead, P
<1>13. TakenAll'
  BY <1>1, <1>5, <1>7, <1>10 DEF TakenAll, P, Before
<1> QED BY <1>5, <1>6, <1>11, <1>12, <1>13 DEF ScanInv

LEMMA SkippingEnds ==
    ASSUME IndInv, SkipEnds
    PROVE  ScanType' /\ ScanInv'
<1>1. /\ scan.pc = "skip" /\ (scan.at = End \/ ~starts_with(scan.at, Target))
      /\ scan' = [scan EXCEPT !.pc = "take"] /\ UNCHANGED <<kind, entries, rows>>
  BY DEF SkipEnds, Target
<1>2. /\ scan'.pc = "take" /\ scan'.op = scan.op /\ scan'.value = scan.value
      /\ scan'.out = scan.out /\ scan'.at = scan.at
  BY <1>1 DEF IndInv, ScanType
<1>3. ScanType'
  BY <1>1 DEF IndInv, ScanType, ValuesOf
<1>4. /\ scan.op = "$gt" /\ TakenExact /\ TakenOnward /\ TakenAll /\ Ahead
      /\ Target' = Target
  BY <1>1, <1>2 DEF IndInv, ScanInv, Target, Prefix, parseValue
<1>5. TakenExact' /\ TakenOnward' /\ TakenAll'
  BY <1>1, <1>2, <1>4 DEF TakenExact, TakenOnward, TakenAll, Taken
<1>6. Ahead'
  BY <1>1, <1>2, <1>4 DEF Ahead, Wants
<1> QED BY <1>2, <1>3, <1>5, <1>6 DEF ScanInv

LEMMA ScanInit == Init => IndInv
<1> SUFFICES ASSUME Init PROVE IndInv
  OBVIOUS
<1>1. RowsInv
  BY DEF Init, RowsInv, RowsExact, Kinds
<1>2. NoScan.out \in Seq((DOMAIN rows) \X Ids)
  BY DEF NoScan
<1> QED BY <1>1, <1>2 DEF Init, IndInv, ScanType, ScanInv, NoScan, ScanOps

LEMMA ScanStep == IndInv /\ [Next]_vars => IndInv'
<1> SUFFICES ASSUME IndInv, [Next]_vars PROVE ScanType' /\ ScanInv'
  BY RowsStep DEF IndInv
<1>1. CASE Writes \/ Return
  <2>1. scan' = NoScan /\ kind' = kind
    BY <1>1 DEF Writes, putIndex, remove, Return, IndInv, ScanType
  <2>2. NoScan.out \in Seq((DOMAIN rows') \X Ids)
    BY DEF NoScan
  <2> QED BY <2>1, <2>2 DEF ScanType, ScanInv, ValuesOf, NoScan, ScanOps
<1>2. CASE Starts
  BY <1>2, ScansStart
<1>3. CASE SkipRow \/ SkipEnds
  BY <1>3, RowSkipped, SkippingEnds
<1>4. CASE TakeRow \/ TakeEnds
  BY <1>4, RowTaken, LoopEnds
<1>5. CASE UNCHANGED vars
  BY <1>5 DEF vars, IndInv, ScanType, ScanInv, TakenExact, TakenOnward, TakenAll, Taken, Ahead,
              Target, Prefix, parseValue, ValuesOf
<1> QED BY <1>1, <1>2, <1>3, <1>4, <1>5 DEF Next

-------------------------------------------------------------------------------
(***************************************************************************)
(* What a scan returns.                                                    *)
(***************************************************************************)

\* When a loop ends it has taken what was asked for, if that is what it wants.
LEMMA ScanReturned ==
    ASSUME IndInv, scan.pc = "done",
           \A e \in entries : e \in Asked <=> Wants(scan.op, Target, IndexKey(e[1], e[2]))
    PROVE  Returned
<1> DEFINE n == Len(scan.out)
<1>1. /\ TakenExact /\ TakenOnward
      /\ \A k \in DOMAIN rows : Wants(scan.op, Target, k) => Taken(k)
  BY DEF IndInv, ScanInv, TakenAll
<1>2. RowsInv /\ kind \in Kinds /\ scan.out \in Seq((DOMAIN rows) \X Ids)
  BY DEF IndInv, ScanType, RowsInv
<1>3. Asked \subseteq entries
  BY DEF Asked
<1>4. \A e \in entries : e[1] \in ValuesOf(kind) /\ e[2] \in IdsOf(kind) /\ e = <<e[1], e[2]>>
  BY DEF IndInv, RowsInv
<1>5. ASSUME NEW i \in 1 .. n PROVE \E e \in Asked : scan.out[i] = RowOf(e)
  <2>1. scan.out[i] \in (DOMAIN rows) \X Ids
    BY <1>2
  <2>2. scan.out[i][1] \in DOMAIN rows /\ scan.out[i] = <<scan.out[i][1], scan.out[i][2]>>
    BY ONLY <2>1
  <2>3. PICK e \in entries : scan.out[i][1] = IndexKey(e[1], e[2])
    BY <1>2, <2>2 DEF RowsInv, RowsExact
  <2>4. scan.out[i][2] = e[2]
    BY <1>1, <1>2, <2>3 DEF TakenExact, RowsInv, RowsExact
  <2>5. e \in Asked
    BY <1>1, <2>3 DEF TakenExact
  <2> QED BY <2>2, <2>3, <2>4, <2>5 DEF RowOf
<1>6. ASSUME NEW e \in Asked PROVE \E i \in 1 .. n : scan.out[i] = RowOf(e)
  <2>1. e \in entries /\ Wants(scan.op, Target, IndexKey(e[1], e[2]))
    BY <1>3
  <2>2. IndexKey(e[1], e[2]) \in DOMAIN rows /\ rows[IndexKey(e[1], e[2])] = e[2]
    BY <1>2, <2>1 DEF RowsInv, RowsExact
  <2>3. PICK i \in 1 .. n : scan.out[i][1] = IndexKey(e[1], e[2])
    BY <1>1, <2>1, <2>2 DEF Taken
  <2>4. scan.out[i] \in (DOMAIN rows) \X Ids
    BY <1>2
  <2>5. scan.out[i] = <<scan.out[i][1], scan.out[i][2]>>
    BY ONLY <2>4
  <2>6. scan.out[i][2] = e[2]
    BY <1>1, <2>2, <2>3 DEF TakenExact
  <2> QED BY <2>3, <2>5, <2>6 DEF RowOf
<1>7. {scan.out[i] : i \in 1 .. n} = {RowOf(e) : e \in Asked}
  BY ONLY <1>5, <1>6, Zenon
<1>8. n = Cardinality(Asked)
  <2> DEFINE f == [i \in 1 .. n |-> CHOOSE e \in Asked : scan.out[i] = RowOf(e)]
  <2>1. \A i \in 1 .. n : f[i] \in Asked /\ scan.out[i] = RowOf(f[i])
    BY <1>5
  <2> HIDE DEF f
  <2>2. n \in Nat
    BY <1>2
  <2>3. ASSUME NEW i \in 1 .. n, NEW j \in 1 .. n, f[i] = f[j] PROVE i = j
    <3>1. scan.out[i] = scan.out[j] /\ scan.out[i] \in (DOMAIN rows) \X Ids
      BY <1>2, <2>1, <2>3
    <3>2. scan.out[i][1] \in DOMAIN rows
      BY ONLY <3>1
    <3>3. ~Before(scan.op, scan.out[i][1], scan.out[i][1])
      BY <1>2, <3>2, RowBytes, BeforeIrreflexive
    <3> QED BY <1>1, <2>2, <3>1, <3>3 DEF TakenOnward
  <2>4. ASSUME NEW e \in Asked PROVE \E i \in 1 .. n : f[i] = e
    <3>1. PICK i \in 1 .. n : scan.out[i] = RowOf(e)
      BY <1>6
    <3>2. RowOf(f[i]) = RowOf(e) /\ f[i] \in entries /\ e \in entries
      BY <1>3, <2>1, <3>1
    <3>3. f[i][1] = e[1] /\ f[i][2] = e[2]
      BY <1>2, <1>4, <3>2, IndexKeyDistinct DEF RowOf
    <3> QED BY <1>4, <3>2, <3>3
  <2>5. f \in Bijection(1 .. n, Asked)
    <3>1. f \in [1 .. n -> Asked]
      BY <2>1 DEF f
    <3> QED BY <2>3, <2>4, <3>1 DEF Bijection, Injection, Surjection, IsInjective
  <2> QED BY <2>2, <2>5, FS_CountingElements DEF ExistsBijection
<1> QED BY <1>7, <1>8 DEF Returned

(***************************************************************************)
(* $eq is exact for every index and every width of bytes and words: the    *)
(* walk from Seek(value#) to the first row without the prefix meets every  *)
(* entry of the value once.  Of numbers and of texts without '#' it meets  *)
(* no entry of another value; where texts have a '#', it also meets those, *)
(* and only those, of the texts that begin with the value and a '#'.       *)
(***************************************************************************)
THEOREM EqualFindsExactly == Spec => []EqualExact
<1>1. ASSUME IndInv, scan.pc = "done", scan.op = "$eq" PROVE Returned
  <2>1. kind \in Kinds /\ scan.value \in ValuesOf(kind)
    BY <1>1 DEF IndInv, ScanType, RowsInv
  <2>2. ASSUME NEW e \in entries
        PROVE  e \in Asked <=> Wants(scan.op, Target, IndexKey(e[1], e[2]))
    <3>1. e[1] \in ValuesOf(kind) /\ e[2] \in IdsOf(kind)
      BY <1>1 DEF IndInv, RowsInv
    <3>2. e[1] = scan.value \/ RunsOn(e[1], scan.value)
            <=> starts_with(IndexKey(e[1], e[2]), Target)
      BY <2>1, <3>1, PrefixOwner DEF Target
    <3> QED BY <1>1, <3>2 DEF Asked, Wants
  <2> QED BY <1>1, <2>2, ScanReturned
<1>2. IndInv => EqualExact
  BY <1>1 DEF EqualExact
<1> QED BY <1>2, ScanInit, ScanStep, PTL DEF Spec

\* What starts with a key and a '#'.
LEMMA StartsWithHash ==
    ASSUME NEW k \in Seq(Bytes), NEW s \in Seq(Int), starts_with(s, k \o <<Hash>>)
    PROVE  /\ Len(k) \in Nat /\ Len(s) \in Nat /\ Len(k) + 1 <= Len(s)
           /\ s[Len(k) + 1] = Hash
           /\ \A j \in 1 .. Len(k) : s[j] = k[j]
<1> DEFINE p == k \o <<Hash>>
           n == Len(k)
<1>1. Len(p) = n + 1 /\ p[n + 1] = Hash /\ \A j \in 1 .. n : p[j] = k[j]
  BY BytesAssumption
<1>2. Len(p) <= Len(s) /\ \A i \in 1 .. Len(p) : s[i] = p[i]
  BY DEF starts_with
<1>3. n \in Nat /\ Len(s) \in Nat
  OBVIOUS
<1> HIDE DEF p, n
<1>4. n + 1 \in 1 .. Len(p) /\ \A j \in 1 .. n : j \in 1 .. Len(p)
  BY ONLY <1>1, <1>3
<1>5. s[n + 1] = Hash /\ \A j \in 1 .. n : s[j] = k[j]
  BY ONLY <1>1, <1>2, <1>4
<1> QED BY <1>1, <1>2, <1>3, <1>5 DEF n

\* Of two keys with a '#' behind them the order stays, if they are equally long or
\* no byte of theirs sorts up to '#'.
LEMMA LessWithHash ==
    ASSUME NEW k \in Seq(Bytes), NEW l \in Seq(Bytes), NEW s \in Seq(Int), NEW t \in Seq(Int),
           Less(k, l), Len(k) = Len(l) \/ \A i \in 1 .. Len(l) : l[i] > Hash,
           starts_with(s, k \o <<Hash>>), starts_with(t, l \o <<Hash>>)
    PROVE  Less(s, t)
<1>1. /\ Len(k) \in Nat /\ Len(s) \in Nat /\ Len(k) + 1 <= Len(s) /\ s[Len(k) + 1] = Hash
      /\ \A j \in 1 .. Len(k) : s[j] = k[j]
  BY StartsWithHash
<1>2. /\ Len(l) \in Nat /\ Len(t) \in Nat /\ Len(l) + 1 <= Len(t)
      /\ \A j \in 1 .. Len(l) : t[j] = l[j]
  BY StartsWithHash
<1>3. PICK i \in 1 .. Len(l) :
        /\ i <= Len(k) + 1
        /\ \A j \in 1 .. i - 1 : k[j] = l[j]
        /\ i = Len(k) + 1 \/ k[i] < l[i]
  BY DEF Less
<1>4. i \in 1 .. Len(t) /\ i <= Len(s) + 1
  <2>1. i \in 1 .. Len(l) /\ i <= Len(k) + 1
    BY <1>3
  <2>2. i \in 1 .. Len(t)
    BY ONLY <1>2, <2>1
  <2>3. i <= Len(s) + 1
    BY ONLY <1>1, <2>1
  <2> QED BY <2>2, <2>3
<1>5. ASSUME NEW j \in 1 .. i - 1 PROVE s[j] = t[j]
  <2>1. j \in 1 .. Len(k) /\ j \in 1 .. Len(l)
    BY <1>3
  <2> QED BY <1>1, <1>2, <1>3, <2>1
<1>6. s[i] < t[i]
  <2>1. CASE i = Len(k) + 1
    <3>1. Len(k) # Len(l)
      BY <2>1
    <3> QED BY <1>1, <1>2, <2>1, <3>1
  <2>2. CASE i # Len(k) + 1
    <3>1. i \in 1 .. Len(k) /\ k[i] < l[i]
      BY <1>3, <2>2
    <3> QED BY <1>1, <1>2, <3>1
  <2> QED BY <2>1, <2>2
<1> QED BY <1>4, <1>5, <1>6 DEF Less

\* The rows of two values are in the order of the values.
LEMMA RowOrder ==
    ASSUME kind \in Kinds, NEW v \in ValuesOf(kind), NEW w \in ValuesOf(kind),
           NEW s \in Seq(Int), NEW t \in Seq(Int),
           Precedes(v, w), Plain(w), starts_with(s, Prefix(v)), starts_with(t, Prefix(w))
    PROVE  Less(s, t)
<1>1. /\ parseValue(v) \in Seq(Bytes) /\ parseValue(w) \in Seq(Bytes)
      /\ Less(parseValue(v), parseValue(w))
  BY KeyBytes, KeyOrder
<1>2. \/ Len(parseValue(v)) = Len(parseValue(w))
      \/ \A i \in 1 .. Len(parseValue(w)) : parseValue(w)[i] > Hash
  <2>1. CASE kind \in Numbers
    BY <2>1, KeyBytes
  <2>2. CASE kind \notin Numbers
    BY <2>2, KeyBytes DEF Plain, Numbers
  <2> QED BY <2>1, <2>2
<1> QED BY <1>1, <1>2, LessWithHash DEF Prefix

\* What $gt, $lt and $orderBy want of plain values is what they are asked for.
LEMMA OrderWants ==
    ASSUME IndInv, scan.pc = "done", scan.op # "$eq", NEW e \in entries, Plain(e[1]),
           scan.op \in {"$gt", "$lt"} => Plain(scan.value)
    PROVE  e \in Asked <=> Wants(scan.op, Target, IndexKey(e[1], e[2]))
<1> DEFINE v == scan.value
           k == IndexKey(e[1], e[2])
<1>1. CASE scan.op \in {"$gt", "$lt"}
  <2>1. /\ kind \in Kinds /\ RowsInv /\ v \in ValuesOf(kind)
        /\ e[1] \in ValuesOf(kind) /\ e[2] \in IdsOf(kind) /\ e[2] \in Ids
    BY <1>1, IdsAmong DEF IndInv, ScanType, RowsInv
  <2>2. /\ k \in Seq(Int) /\ Target \in Seq(Int)
        /\ starts_with(k, Prefix(e[1])) /\ starts_with(Target, Target)
    <3>1. k \in Seq(Int) /\ starts_with(k, Prefix(e[1]))
      BY <2>1, IndexKeys, BytesAreInts
    <3>2. Target \in Seq(Int)
      BY <2>1, PrefixBytes DEF Target
    <3> QED BY <3>1, <3>2 DEF starts_with
  <2>3. Precedes(e[1], v) => Less(k, Target)
    BY <1>1, <2>1, <2>2, RowOrder DEF Target
  <2>4. Precedes(v, e[1]) => Less(Target, k)
    BY <2>1, <2>2, RowOrder DEF Target
  <2>5. starts_with(k, Target) <=> e[1] = v
    <3>1. starts_with(k, Target) <=> e[1] = v \/ RunsOn(e[1], v)
      BY <2>1, PrefixOwner DEF Target
    <3>2. ~RunsOn(e[1], v)
      <4> SUFFICES ASSUME kind = "hashed", starts_with(e[1], Prefix(v)) PROVE FALSE
        BY DEF RunsOn
      <4>1. v \in Seq(Bytes) /\ e[1] \in Seq(Bytes) /\ Prefix(v) = v \o <<Hash>>
        BY <2>1, TextBytes
      <4>2. Len(v) + 1 \in 1 .. Len(e[1]) /\ e[1][Len(v) + 1] = Hash
        BY <4>1, BytesAreInts, StartsWithHash
      <4>3. e[1][Len(v) + 1] > Hash
        BY <4>2 DEF Plain
      <4> QED BY <4>2, <4>3, BytesAssumption DEF Bytes
    <3> QED BY <3>1, <3>2
  <2>6. starts_with(k, Target) => ~Less(k, Target)
    BY <2>2, PrefixFirst
  <2>7. ~Precedes(v, v)
    BY <2>1, <2>2, RowOrder, LessIrreflexive, <1>1 DEF Target
  <2>8. e[1] = v \/ Precedes(e[1], v) \/ Precedes(v, e[1])
    BY <2>1, PrecedesTotal
  <2>9. ~(Less(k, Target) /\ Less(Target, k))
    BY <2>2, LessAsymmetric
  <2> HIDE DEF v, k
  <2>10. Precedes(e[1], v) <=> Less(k, Target)
    BY <2>3, <2>4, <2>5, <2>6, <2>8, <2>9
  <2>11. Precedes(v, e[1]) <=> ~Less(k, Target) /\ ~starts_with(k, Target)
    BY <2>3, <2>4, <2>5, <2>7, <2>8, <2>9
  <2> QED BY <1>1, <2>10, <2>11 DEF Asked, Wants, v, k
<1>2. CASE scan.op \notin {"$gt", "$lt"}
  BY <1>2 DEF Asked, Wants
<1> QED BY <1>1, <1>2

(***************************************************************************)
(* $gt, $lt and $orderBy follow the order of the values, for bytes, words  *)
(* and indexes of any size: they return the entries on one side of the     *)
(* value, or all of them, each once, in order.                             *)
(***************************************************************************)
THEOREM OrderFindsExactly == Spec => []OrderExact
<1>1. ASSUME IndInv, scan.pc = "done", scan.op # "$eq", \A e \in entries : Plain(e[1]),
             scan.op \in {"$gt", "$lt"} => Plain(scan.value)
      PROVE  /\ Returned
             /\ \A i \in 2 .. Len(scan.out), d \in entries : scan.out[i - 1] = RowOf(d) =>
                  \A e \in entries : scan.out[i] = RowOf(e)
                      => IF Forward THEN ~Precedes(e[1], d[1]) ELSE ~Precedes(d[1], e[1])
  <2>1. Returned
    BY <1>1, OrderWants, ScanReturned
  <2>2. ASSUME NEW i \in 2 .. Len(scan.out), NEW d \in entries, NEW e \in entries,
               scan.out[i - 1] = RowOf(d), scan.out[i] = RowOf(e)
        PROVE  IF Forward THEN ~Precedes(e[1], d[1]) ELSE ~Precedes(d[1], e[1])
    <3> DEFINE k == IndexKey(d[1], d[2])
               l == IndexKey(e[1], e[2])
    <3>1. scan.out \in Seq((DOMAIN rows) \X Ids) /\ TakenOnward
      BY <1>1 DEF IndInv, ScanType, ScanInv
    <3>2. i - 1 \in 1 .. Len(scan.out) /\ i \in 1 .. Len(scan.out) /\ i - 1 < i
      BY <3>1
    <3>3. Before(scan.op, k, l)
      BY <2>2, <3>1, <3>2 DEF TakenOnward, RowOf
    <3>4. /\ kind \in Kinds /\ d[1] \in ValuesOf(kind) /\ e[1] \in ValuesOf(kind)
          /\ d[2] \in Ids /\ e[2] \in Ids /\ Plain(d[1]) /\ Plain(e[1])
      BY <1>1, IdsAmong DEF IndInv, RowsInv
    <3>5. /\ k \in Seq(Int) /\ l \in Seq(Int)
          /\ starts_with(k, Prefix(d[1])) /\ starts_with(l, Prefix(e[1]))
      BY <3>4, IndexKeys, BytesAreInts
    <3>6. /\ Precedes(e[1], d[1]) => Less(l, k)
          /\ Precedes(d[1], e[1]) => Less(k, l)
      BY <3>4, <3>5, RowOrder
    <3>7. ~(Less(k, l) /\ Less(l, k))
      BY <3>5, LessAsymmetric
    <3> HIDE DEF k, l
    <3> QED BY <3>3, <3>6, <3>7 DEF Before, Forward
  <2> QED BY <2>1, <2>2
<1>2. IndInv => OrderExact
  BY <1>1 DEF OrderExact
<1> QED BY <1>2, ScanInit, ScanStep, PTL DEF Spec

===============================================================================
