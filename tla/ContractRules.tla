--------------------------- MODULE ContractRules ---------------------------
(***************************************************************************)
(* The rules of data contracts (libs/lakeflow_core/contracts.py) for the   *)
(* versions of one source table: what a version accepts, when one version  *)
(* may follow another, which sets of versions load, and how a loaded       *)
(* registry judges a record.                                               *)
(*                                                                         *)
(* A value is what a field specification can ask of it; a document is what *)
(* the registry and the validator read of a contract file.                 *)
(***************************************************************************)
EXTENDS Integers, FiniteSetsExt

CONSTANTS
    Field,        \* field names
    Value,        \* JSON values
    None,         \* an optional keyword that is absent
    TypeOf,       \* [Value -> JsonType]
    Length,       \* [Value -> Nat], of strings
    Matches,      \* [Value -> set of the patterns that the string matches]
    Formats,      \* [Value -> set of the formats that the string has]
    Digits        \* [Value -> <<integer digits, fraction digits>>, or None]

JsonType == {"string", "integer", "number", "boolean", "null", "object", "array"}

ASSUME ValueAssumption ==
    /\ TypeOf \in [Value -> JsonType]
    /\ Length \in [Value -> Nat]
    /\ \A v \in Value : Digits[v] = None \/ Digits[v] \in Nat \X Nat

\* A field specification: an absent keyword asks nothing.
IsFieldSpec(spec) ==
    /\ spec.types \subseteq JsonType
    /\ spec.enum = None \/ spec.enum \subseteq Value
    /\ spec.min_length = None \/ spec.min_length \in Nat
    /\ spec.max_length = None \/ spec.max_length \in Nat
    /\ spec.decimal = None \/ spec.decimal \in Nat \X Nat
    /\ spec.pii_handling \in {"keep", "hash", "drop"}

\* source stands for the table and the topic.  The order of the columns of a primary key
\* is left out.
IsDocument(doc) ==
    /\ doc.source \in STRING
    /\ doc.key \subseteq Field /\ doc.required \subseteq Field
    /\ DOMAIN doc.fields \subseteq Field
    /\ \A f \in DOMAIN doc.fields : IsFieldSpec(doc.fields[f])
    /\ doc.compatibility \in {"BACKWARD", "BACKWARD_TRANSITIVE"}

-----------------------------------------------------------------------------
(* Validation of a record, a function from some fields to values           *)

Record == UNION {[S -> Value] : S \in SUBSET Field}

\* Integers are numbers.
Allowed(spec) ==
    spec.types \cup {t \in {"integer"} : "number" \in spec.types}

\* Only the digits count; a string that is not a finite number has none.
FitsDecimal(v, decimal) ==
    /\ Digits[v] # None
    /\ Digits[v][2] <= decimal[2] /\ Digits[v][1] <= decimal[1] - decimal[2]

FitsString(spec, v) ==
    /\ spec.pattern # None => spec.pattern \in Matches[v]
    /\ spec.format # None => spec.format \in Formats[v]
    /\ spec.min_length # None => spec.min_length <= Length[v]
    /\ spec.max_length # None => Length[v] <= spec.max_length
    /\ spec.decimal # None => FitsDecimal(v, spec.decimal)

\* A null is looked at before enum, whatever enum says of it.
CheckValue(spec, v) ==
    \/ TypeOf[v] = "null" /\ "null" \in spec.types
    \/ /\ TypeOf[v] # "null"
       /\ TypeOf[v] \in Allowed(spec)
       /\ spec.enum # None => v \in spec.enum
       /\ TypeOf[v] = "string" => FitsString(spec, v)

\* Fields that the contract does not define are not looked at.
Accepts(doc, r) ==
    /\ doc.required \subseteq DOMAIN r
    /\ \A f \in DOMAIN doc.fields \cap DOMAIN r : CheckValue(doc.fields[f], r[f])

-----------------------------------------------------------------------------
(* Compatibility of a version with an older one                            *)

\* Faulty: the handling of personal data may change.
FieldCompatible_AnyHandling(old, new) ==
    /\ old.types \subseteq Allowed(new)
    /\ new.enum # None => old.enum # None /\ old.enum \subseteq new.enum
    /\ new.pattern # None => new.pattern = old.pattern
    /\ new.format # None => new.format = old.format
    /\ new.max_length # None => old.max_length # None /\ old.max_length <= new.max_length
    /\ new.min_length # None => old.min_length # None /\ new.min_length <= old.min_length
    /\ old.decimal # None <=> new.decimal # None
    /\ old.decimal # None => /\ new.decimal[2] = old.decimal[2]
                             /\ old.decimal[1] <= new.decimal[1]

FieldCompatible(old, new) ==
    /\ old.types \subseteq Allowed(new)
    /\ new.enum # None => old.enum # None /\ old.enum \subseteq new.enum
    /\ new.pattern # None => new.pattern = old.pattern
    /\ new.format # None => new.format = old.format
    /\ new.max_length # None => /\ old.max_length # None
                                /\ old.max_length <= new.max_length
    /\ new.min_length # None => /\ old.min_length # None
                                /\ new.min_length <= old.min_length
    /\ old.decimal # None <=> new.decimal # None
    /\ old.decimal # None => /\ new.decimal[2] = old.decimal[2]
                             /\ old.decimal[1] <= new.decimal[1]
    /\ old.pii_handling = new.pii_handling

BackwardCompatible(old, new) ==
    /\ old.key = new.key /\ old.source = new.source
    /\ new.required \subseteq old.required
    /\ \A f \in DOMAIN old.fields \cap DOMAIN new.fields :
          FieldCompatible(old.fields[f], new.fields[f])

-----------------------------------------------------------------------------
(* A registry: a function from the active versions to their documents      *)

\* parse_contract.
WellFormed(doc) ==
    /\ \A f \in DOMAIN doc.fields :
          /\ doc.fields[f].types \notin {{}, {"null"}}
          /\ doc.fields[f].types \cap {"object", "array"} = {}
    /\ doc.required \subseteq DOMAIN doc.fields
    /\ \A f \in doc.key : f \in doc.required /\ "null" \notin doc.fields[f].types

\* Faulty: the version just before stands for all that came earlier.
ComparedWith_Last(reg, v) ==
    {u \in DOMAIN reg : u < v /\ \A w \in DOMAIN reg : w < v => w <= u}

\* The versions that v is compared with: all earlier ones or the last of them.
ComparedWith(reg, v) ==
    {u \in DOMAIN reg :
        /\ u < v
        /\ \/ reg[v].compatibility = "BACKWARD_TRANSITIVE"
           \/ \A w \in DOMAIN reg : w < v => w <= u}

\* The part of ContractRegistry's checks that needs no status.
Evolves(reg) ==
    \A v \in DOMAIN reg : \A u \in ComparedWith(reg, v) : BackwardCompatible(reg[u], reg[v])

\* all_fields: of several versions that define a field the last one counts.
Known(reg) == UNION {DOMAIN reg[v].fields : v \in DOMAIN reg}
LastWith(reg, f) == Max({v \in DOMAIN reg : f \in DOMAIN reg[v].fields})
AllFields(reg) == [f \in Known(reg) |-> reg[LastWith(reg, f)].fields[f]]

\* Faulty: a version stands for a record with fields that only others define.
Candidates_All(reg, r) == DOMAIN reg

\* The versions that define every known field of the record.
Candidates(reg, r) ==
    {v \in DOMAIN reg : DOMAIN r \cap Known(reg) \subseteq DOMAIN reg[v].fields}

Accepting(reg, r) == {v \in Candidates(reg, r) : Accepts(reg[v], r)}

\* Faulty: the newest version that accepts the record.
Classify_Newest(reg, r) ==
    IF Accepting(reg, r) = {} THEN 0 ELSE Max(Accepting(reg, r))

\* The earliest version that accepts the record, or 0 for an invalid record.
Classify(reg, r) ==
    IF Accepting(reg, r) = {} THEN 0 ELSE Min(Accepting(reg, r))

\* Faulty: the columns are those of the newest version.
Columns_Current(reg) ==
    LET fields == reg[Max(DOMAIN reg)].fields
    IN  {<<f, fields[f].pii_handling>> :
            f \in {g \in DOMAIN fields : fields[g].pii_handling # "drop"}}

\* The data columns of the silver table: f, or f_hmac for a hashed field.
Columns(reg) ==
    {<<f, AllFields(reg)[f].pii_handling>> :
        f \in {g \in Known(reg) : AllFields(reg)[g].pii_handling # "drop"}}
=============================================================================
