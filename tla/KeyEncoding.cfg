SPECIFICATION Spec
CONSTANTS
    Base = 4
    Width = 2
    Hash = 1
    Ints <- AllInts
    Doubles <- AllDoubles
    Texts <- AllTexts
    Ids <- AllIds
INVARIANTS
    RowsExact
    EqualExact
    OrderExact
    RoundTrip
