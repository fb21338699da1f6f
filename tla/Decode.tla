------------------------------- MODULE Decode -------------------------------
(***************************************************************************)
(* The decoder of Kafka records (libs/lakeflow_core/decode.py) and the     *)
(* projection of row images (identity.py), for the records of one source   *)
(* table.  A message is the facets of a record that the decoder decides    *)
(* on, not its text, and values that print alike are one value.            *)
(***************************************************************************)
EXTENDS ContractRules

CONSTANTS
    Message,      \* the Kafka records considered
    Broken,       \* in the place of an object: JSON of another type, or none
    Parsable,     \* the values that parse_timestamp reads
    Encodable     \* the values that UTF-8 can encode; lone surrogates it cannot

SupportedOps == {"c", "u", "d", "r"}

\* op is None unless it is a string; source is an object from "unnumbered" on.
IsMessage(msg) ==
    /\ msg.topic \in {"registered", "unknown"}
    /\ msg.value \in {"null", "not UTF-8", "not JSON", "unreadable", "not an object", "object"}
    /\ msg.op \in SupportedOps \cup {"t", None}
    /\ msg.source \in {"not an object", "unnumbered", "other table", "fits"}
    /\ msg.before \in Record \cup {None, Broken} /\ msg.after \in Record \cup {None, Broken}
    /\ msg.key \in Record \cup {None, Broken}

ASSUME MessageAssumption ==
    /\ None # Broken /\ \A msg \in Message : IsMessage(msg)
    /\ Parsable \subseteq Value /\ Encodable \subseteq Value

\* The row image that is judged.
Image(msg) == IF msg.op = "d" THEN msg.before ELSE msg.after

-----------------------------------------------------------------------------
(* Projection of a row image                                               *)

Handling(reg, f) == AllFields(reg)[f].pii_handling
IsNull(v) == TypeOf[v] = "null"

\* How each written column shows its field; dropped and unknown fields are not written.
NormalizeImage(reg, image) ==
    [f \in {g \in DOMAIN image \cap Known(reg) : Handling(reg, g) # "drop"} |->
        IF IsNull(image[f]) THEN "null"
        ELSE IF Handling(reg, f) = "hash" THEN "hmac" ELSE "clear"]

\* Written timestamps are parsed and hashed values encoded; either may raise ValueError.
\* What was parsed is printed anew, so that it can be encoded.
Normalizes(reg, image) ==
    \A f \in DOMAIN NormalizeImage(reg, image) :
        LET isTime == AllFields(reg)[f].format = "date-time" /\ TypeOf[image[f]] = "string"
        IN  /\ isTime => image[f] \in Parsable
            /\ Handling(reg, f) = "hash" /\ ~isTime => image[f] \in Encodable

-----------------------------------------------------------------------------
(* The decisions, in the order in which the first that applies counts      *)

EnvelopeFault(msg) ==
    IF msg.topic = "unknown" THEN "UNKNOWN_TOPIC"
    ELSE IF msg.value = "not UTF-8" THEN "MALFORMED_ENCODING"
    ELSE IF msg.value = "not JSON" THEN "MALFORMED_JSON"
    ELSE IF msg.value = "unreadable" THEN "DECODER_ERROR"
    ELSE IF msg.value # "object" \/ msg.op = None THEN "INVALID_ENVELOPE"
    ELSE IF msg.op \notin SupportedOps THEN "UNSUPPORTED_OP"
    ELSE IF msg.source # "fits" \/ Broken \in {msg.before, msg.after} THEN "INVALID_ENVELOPE"
    ELSE IF Image(msg) = None THEN "MISSING_ROW_IMAGE"
    ELSE None

\* The key, if there is one, names the row; the current version says by which fields.
KeyFits(reg, msg) ==
    \/ msg.key = None
    \/ /\ msg.key # Broken
       /\ \A f \in reg[Max(DOMAIN reg)].key :
             f \in DOMAIN msg.key /\ msg.key[f] = Image(msg)[f]

Images(msg) == {msg.before, msg.after} \ {None}

\* Both images are projected, only one is judged; the identity is a hash of both.
RowFault(reg, msg) ==
    IF Classify(reg, Image(msg)) = 0 THEN "CONTRACT_VIOLATION"
    ELSE IF ~KeyFits(reg, msg) THEN "KEY_MISMATCH"
    ELSE IF \E image \in Images(msg) : ~Normalizes(reg, image) THEN "MALFORMED_ROW_IMAGE"
    ELSE IF \E image \in Images(msg) : \E f \in DOMAIN image : image[f] \notin Encodable
    THEN "DECODER_ERROR"
    ELSE None

\* decode_change_event: the status, or the code of the error that leads to the DLQ.
DecodeChangeEvent(reg, msg) ==
    IF msg.value = "null" THEN "tombstone"
    ELSE IF EnvelopeFault(msg) # None THEN EnvelopeFault(msg)
    ELSE IF RowFault(reg, msg) # None THEN RowFault(reg, msg)
    ELSE "valid"
=============================================================================
