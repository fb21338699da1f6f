---------------------------- MODULE MCContracts ----------------------------
(* Contracts of a table with a key and two more fields, for TLC.           *)
EXTENDS Contracts, TLC

CONSTANTS id, note, amount,       \* fields
          short, long, stamp, nil \* values: "7", "77", a date-time and null

MCField   == {id, note, amount}
MCValue   == {short, long, stamp, nil}
MCTypeOf  == [v \in MCValue |-> IF v = nil THEN "null" ELSE "string"]
MCLength  == short :> 1 @@ long :> 2 @@ stamp :> 20 @@ nil :> 0
MCMatches == [v \in MCValue |-> {}]
MCFormats == [v \in MCValue |-> IF v = stamp THEN {"date-time"} ELSE {}]
MCDigits  == short :> <<1, 0>> @@ long :> <<2, 0>> @@ stamp :> None @@ nil :> None

MCParsable == {stamp}

Plain(types) ==
    [types |-> types, enum |-> None, pattern |-> None, format |-> None,
     min_length |-> None, max_length |-> None, decimal |-> None, pii_handling |-> "keep"]

NoteUpTo(n)    == [Plain({"string", "null"}) EXCEPT !.max_length = n]
Dated(spec)    == [spec EXCEPT !.format = "date-time"]
AmountUpTo(p)  == [Plain({"string"}) EXCEPT !.decimal = <<p, 0>>]
Hashed(spec)   == [spec EXCEPT !.pii_handling = "hash"]

Doc(required, fields) ==
    [source |-> "public.notes", key |-> {id}, required |-> {id} \cup required,
     fields |-> (id :> Plain({"string"})) @@ fields,
     compatibility |-> "BACKWARD_TRANSITIVE"]

KeyOnly    == Doc({}, <<>>)
DatedNote  == Doc({}, note :> Dated(NoteUpTo(20)))
LongNote   == Doc({}, note :> NoteUpTo(30))
HashedNote == Doc({}, note :> Hashed(NoteUpTo(30)))
NoteAndSum == Doc({}, note :> NoteUpTo(30) @@ amount :> Hashed(AmountUpTo(1)))
NeedsSum   == [Doc({amount}, amount :> Hashed(AmountUpTo(2)))
                  EXCEPT !.compatibility = "BACKWARD"]

MCDocument == {KeyOnly, DatedNote, LongNote, HashedNote, NoteAndSum, NeedsSum}
MCFirst    == {KeyOnly, LongNote, NeedsSum}

-----------------------------------------------------------------------------
(* Messages: deletions, updates with several earlier images, and the       *)
(* faults of the decoder one by one                                        *)

Row(noted)   == id :> short @@ noted
MCImage      == {Row(<<>>), Row(note :> long), Row(note :> stamp), Row(note :> nil),
                 Row(amount :> short), Row(note :> stamp @@ amount :> short)}

Change(op, before, after) ==
    [topic |-> "registered", value |-> "object", op |-> op, source |-> "fits",
     before |-> before, after |-> after, key |-> id :> short]

Insert == Change("c", None, Row(<<>>))

MCMessage ==
    {Change("d", image, None) : image \in MCImage}
    \cup {Change("u", Row(note :> long), image) : image \in MCImage}
    \cup {[Insert EXCEPT !.value = "null"], [Insert EXCEPT !.topic = "unknown"],
          [Insert EXCEPT !.value = "not UTF-8"], [Insert EXCEPT !.value = "not JSON"],
          [Insert EXCEPT !.value = "unreadable"], [Insert EXCEPT !.op = "t"],
          [Insert EXCEPT !.source = "other table"], [Insert EXCEPT !.after = Broken],
          [Insert EXCEPT !.after = None], [Insert EXCEPT !.key = Broken],
          [Insert EXCEPT !.key = id :> long], [Insert EXCEPT !.key = None]}
=============================================================================
