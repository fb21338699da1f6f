\* A new version defines a field that records already carried.
SPECIFICATION Spec
CONSTANTS
    id = id
    note = note
    amount = amount
    short = short
    long = long
    stamp = stamp
    nil = nil
    Broken = Broken
    None = None
    Field <- MCField
    Value <- MCValue
    TypeOf <- MCTypeOf
    Length <- MCLength
    Matches <- MCMatches
    Formats <- MCFormats
    Digits <- MCDigits
    Message <- MCMessage
    Parsable <- MCParsable
    Encodable <- MCValue
    Document <- MCDocument
    First <- MCFirst
    MaxVersion = 3
    MaxPromotions = 1
    MaxKills = 0
INVARIANTS EveryVersionAcceptsOlder
CHECK_DEADLOCK FALSE
