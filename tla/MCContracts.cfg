\* Promotions under a running and restarting driver.
SPECIFICATION FairSpec
CONSTANTS
    id = id
    note = note
    amount = amount
    short = short
    long = long
    stamp = stamp
    nil = nil
    Broken = Broken
    None = None
    Field <- MCField
    Value <- MCValue
    TypeOf <- MCTypeOf
    Length <- MCLength
    Matches <- MCMatches
    Formats <- MCFormats
    Digits <- MCDigits
    Message <- MCMessage
    Parsable <- MCParsable
    Encodable <- MCValue
    Document <- MCDocument
    First <- MCFirst
    MaxVersion = 3
    MaxPromotions = 2
    MaxKills = 1
INVARIANTS TypeOK EarlierRecordsStayValid PiiHandlingAgrees SilverHasColumns
PROPERTIES VerdictsKept ReloadedInTheEnd
CHECK_DEADLOCK FALSE
