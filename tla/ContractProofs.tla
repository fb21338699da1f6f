--------------------------- MODULE ContractProofs ---------------------------
(***************************************************************************)
(* Proofs about the contract rules and about the registry that the driver  *)
(* uses, for all fields, values and documents, any number of versions,     *)
(* promotions and deaths.                                                  *)
(***************************************************************************)
EXTENDS Contracts, Extrema

-----------------------------------------------------------------------------
(* The rules                                                               *)

\* A compatible field specification accepts what the older one accepts.
LEMMA CompatibleFieldAccepts ==
    ASSUME NEW old, NEW new, NEW v \in Value,
           IsFieldSpec(old), IsFieldSpec(new),
           FieldCompatible(old, new), CheckValue(old, v)
    PROVE  CheckValue(new, v)
<1>1. TypeOf[v] \in JsonType /\ Length[v] \in Nat
  BY ValueAssumption
<1>2. CASE TypeOf[v] = "null"
  <2>1. "null" \in old.types
    BY <1>2 DEF CheckValue
  <2>2. "null" \in new.types
    BY <2>1 DEF FieldCompatible, Allowed
  <2> QED
    BY <1>2, <2>2 DEF CheckValue
<1>3. CASE TypeOf[v] # "null"
  <2>1. TypeOf[v] \in Allowed(new)
    BY <1>3 DEF CheckValue, FieldCompatible, Allowed
  <2>2. new.enum # None => v \in new.enum
    BY <1>3 DEF CheckValue, FieldCompatible
  <2>3. ASSUME TypeOf[v] = "string"
        PROVE  FitsString(new, v)
    <3>1. FitsString(old, v)
      BY <1>3, <2>3 DEF CheckValue
    <3>2. /\ new.pattern # None => new.pattern \in Matches[v]
          /\ new.format # None => new.format \in Formats[v]
      BY <3>1 DEF FitsString, FieldCompatible
    <3>3. /\ new.min_length # None => new.min_length <= Length[v]
          /\ new.max_length # None => Length[v] <= new.max_length
      BY <1>1, <3>1 DEF FitsString, FieldCompatible, IsFieldSpec
    <3>4. ASSUME new.decimal # None
          PROVE  FitsDecimal(v, new.decimal)
      <4>1. old.decimal # None /\ FitsDecimal(v, old.decimal)
        BY <3>1, <3>4 DEF FitsString, FieldCompatible
      <4>2. old.decimal \in Nat \X Nat /\ new.decimal \in Nat \X Nat
        BY <3>4, <4>1 DEF IsFieldSpec
      <4>3. Digits[v] \in Nat \X Nat
        BY <4>1, ValueAssumption DEF FitsDecimal
      <4>4. new.decimal[2] = old.decimal[2] /\ old.decimal[1] <= new.decimal[1]
        BY <4>1 DEF FieldCompatible
      <4> QED
        BY <4>1, <4>2, <4>3, <4>4 DEF FitsDecimal
    <3> QED
      BY <3>2, <3>3, <3>4 DEF FitsString
  <2> QED
    BY <1>3, <2>1, <2>2, <2>3 DEF CheckValue
<1> QED
  BY <1>2, <1>3

\* What check_backward_compatible guarantees: the newer version accepts every record of
\* the older one that has no field which only the newer one defines.
THEOREM CompatibleAccepts ==
    ASSUME NEW old, NEW new, NEW r \in Record,
           IsDocument(old), IsDocument(new),
           BackwardCompatible(old, new), Accepts(old, r),
           DOMAIN r \cap (DOMAIN new.fields \ DOMAIN old.fields) = {}
    PROVE  Accepts(new, r)
<1>1. new.required \subseteq DOMAIN r
  BY DEF BackwardCompatible, Accepts
<1>2. ASSUME NEW f \in DOMAIN new.fields \cap DOMAIN r
      PROVE  CheckValue(new.fields[f], r[f])
  <2>1. f \in DOMAIN old.fields \cap DOMAIN new.fields
    BY <1>2
  <2>2. r[f] \in Value
    BY <1>2 DEF Record
  <2>3. CheckValue(old.fields[f], r[f])
    BY <1>2, <2>1 DEF Accepts
  <2>4. FieldCompatible(old.fields[f], new.fields[f])
    BY <2>1 DEF BackwardCompatible
  <2>5. IsFieldSpec(old.fields[f]) /\ IsFieldSpec(new.fields[f])
    BY <2>1 DEF IsDocument
  <2> QED
    BY <2>2, <2>3, <2>4, <2>5, CompatibleFieldAccepts
<1> QED
  BY <1>1, <1>2 DEF Accepts

\* Transitive versions are compatible pair by pair.
LEMMA PairsCompatible ==
    ASSUME NEW reg, Evolves(reg), Transitive(reg),
           NEW u \in DOMAIN reg, NEW v \in DOMAIN reg, u < v
    PROVE  BackwardCompatible(reg[u], reg[v])
  BY DEF Evolves, ComparedWith, Transitive

-----------------------------------------------------------------------------
(* Registries and directories                                              *)

LEMMA RegistryType ==
    ASSUME NEW reg \in Registries
    PROVE  /\ DOMAIN reg \in SUBSET Nat /\ DOMAIN reg \subseteq Version
           /\ \A v \in DOMAIN reg : v <= MaxVersion /\ 0 < v
           /\ \A v \in DOMAIN reg : reg[v] \in Document /\ IsDocument(reg[v])
  BY BoundAssumption, DocumentAssumption DEF Registries, Version

LEMMA LoadedRegistry ==
    ASSUME NEW d \in Directory, Loads(d)
    PROVE  /\ Registry(d) \in Registries /\ DOMAIN Registry(d) = DOMAIN d
           /\ Evolves(Registry(d))
<1>1. PICK S \in SUBSET Version : d \in [S -> File \cup {Torn}]
  BY DEF Directory
<1>2. \A v \in S : d[v].doc \in Document
  BY <1>1 DEF Loads, File
<1>3. Registry(d) \in [S -> Document]
  BY <1>1, <1>2 DEF Registry
<1> QED
  BY <1>1, <1>3 DEF Registries, Registry, Loads

LEMMA NothingType ==
    /\ Nothing \in Directory /\ Nothing \in Registries
    /\ DOMAIN Nothing = {} /\ Evolves(Nothing)
<1>1. Nothing \in [{} -> File \cup {Torn}] /\ Nothing \in [{} -> Document]
  BY DEF Nothing
<1>2. {} \in SUBSET Version
  OBVIOUS
<1> QED
  BY <1>1, <1>2 DEF Nothing, Directory, Registries, Evolves

LEMMA WithType ==
    ASSUME NEW d \in Directory, NEW v \in Version, NEW file \in File \cup {Torn}
    PROVE  /\ With(d, v, file) \in Directory
           /\ DOMAIN With(d, v, file) = {v} \cup DOMAIN d
           /\ With(d, v, file)[v] = file
<1>1. PICK S \in SUBSET Version : d \in [S -> File \cup {Torn}]
  BY DEF Directory
<1>2. With(d, v, file) = [w \in {v} \cup S |-> IF w = v THEN file ELSE d[w]]
  BY <1>1 DEF With
<1>3. With(d, v, file) \in [{v} \cup S -> File \cup {Torn}]
  BY <1>1, <1>2
<1> QED
  BY <1>1, <1>2, <1>3 DEF Directory

\* The last version that defines a field.
LEMMA LastWithType ==
    ASSUME NEW reg \in Registries, NEW f \in Known(reg)
    PROVE  /\ LastWith(reg, f) \in DOMAIN reg
           /\ f \in DOMAIN reg[LastWith(reg, f)].fields
           /\ \A v \in DOMAIN reg : f \in DOMAIN reg[v].fields => v <= LastWith(reg, f)
<1> DEFINE S == {v \in DOMAIN reg : f \in DOMAIN reg[v].fields}
<1>1. S \in SUBSET Int /\ S # {} /\ \A n \in S : n <= MaxVersion
  BY RegistryType DEF Known
<1>2. MaxVersion \in Int
  BY BoundAssumption
<1>3. Max(S) \in S /\ \A n \in S : n <= Max(S)
  <2> HIDE DEF S
  <2> QED
    BY <1>1, <1>2, MaxIsGreatest
<1> QED
  BY <1>3 DEF LastWith

LEMMA ColumnsType ==
    ASSUME NEW reg \in Registries
    PROVE  Columns(reg) \subseteq Field \X {"keep", "hash"}
<1> SUFFICES ASSUME NEW f \in Known(reg), AllFields(reg)[f].pii_handling # "drop"
             PROVE  f \in Field /\ AllFields(reg)[f].pii_handling \in {"keep", "hash"}
  BY DEF Columns
<1>1. LastWith(reg, f) \in DOMAIN reg /\ f \in DOMAIN reg[LastWith(reg, f)].fields
  BY LastWithType
<1>2. IsDocument(reg[LastWith(reg, f)])
  BY <1>1, RegistryType
<1>3. AllFields(reg)[f] = reg[LastWith(reg, f)].fields[f]
  BY DEF AllFields
<1> QED
  BY <1>1, <1>2, <1>3 DEF IsDocument, IsFieldSpec

LEMMA NoColumns == Columns(Nothing) = {}
  BY NothingType DEF Columns, Known

-----------------------------------------------------------------------------
(* Type correctness                                                        *)

LEMMA InitType == Init => TypeOK
<1> SUFFICES ASSUME Init PROVE TypeOK
  OBVIOUS
<1>1. PICK doc \in First : dir = With(Nothing, 1, [doc |-> doc, status |-> "current"])
  BY DEF Init
<1>2. 1 \in Version /\ [doc |-> doc, status |-> "current"] \in File
  BY BoundAssumption, DocumentAssumption DEF Version, File
<1>3. dir \in Directory
  BY <1>1, <1>2, NothingType, WithType
<1>4. 0 \in 0..MaxVersion /\ 0 \in 0..MaxPromotions /\ 0 \in 0..MaxKills
  BY BoundAssumption
<1> QED
  BY <1>3, <1>4, NothingType DEF Init, TypeOK, Idle, Down

LEMMA NextType == TypeOK /\ [Next]_vars => TypeOK'
<1> SUFFICES ASSUME TypeOK, [Next]_vars PROVE TypeOK'
  OBVIOUS
<1> USE DEF TypeOK
<1>a. Version \subseteq 0..MaxVersion /\ Version \subseteq Nat
  BY BoundAssumption DEF Version
<1>b. DOMAIN dir \in SUBSET Version /\ \A v \in DOMAIN dir : dir[v] \in File \cup {Torn}
  BY DEF Directory
<1>1. ASSUME NEW v \in Version, NEW doc \in Document, StartPromotion(v, doc)
      PROVE  TypeOK'
  <2>1. promotions' \in 0..MaxPromotions
    BY <1>1, BoundAssumption DEF StartPromotion
  <2>2. promoter' = [pc |-> "demote", left |-> DOMAIN dir, version |-> v, doc |-> doc,
                     text |-> Torn, file |-> 0]
    BY <1>1 DEF StartPromotion, Idle
  <2>3. 0 \in 0..MaxVersion
    BY BoundAssumption
  <2> QED
    BY <1>1, <1>a, <1>b, <2>1, <2>2, <2>3 DEF StartPromotion
<1>2. ASSUME NEW v \in Version, NEW text \in File, Open(v, text),
             promoter.pc = "demote", UNCHANGED <<driver, due, table, promotions, kills>>
      PROVE  TypeOK'
  <2> DEFINE new == With(dir, v, Torn)
  <2>a. new \in Directory /\ DOMAIN new = {v} \cup DOMAIN dir /\ new[v] = Torn
    <3>1. dir \in Directory /\ Torn \in File \cup {Torn}
      OBVIOUS
    <3> HIDE DEF TypeOK
    <3> QED
      BY <3>1, WithType
  <2>b. dir' = new
    BY <1>2 DEF Open
  <2> HIDE DEF new
  <2>1. dir' \in Directory /\ DOMAIN dir' = {v} \cup DOMAIN dir /\ dir'[v] = Torn
    BY <2>a, <2>b
  <2>2. promoter' = [promoter EXCEPT !.pc = "fill", !.file = v, !.text = text]
    BY <1>2 DEF Open
  <2>3. /\ promoter'.pc = "fill" /\ promoter'.file = v /\ promoter'.text = text
        /\ promoter'.left = promoter.left /\ promoter'.doc = promoter.doc
        /\ promoter'.version = promoter.version
    BY <2>2
  <2>4. promoter' \in [pc : {"idle", "demote", "fill"}, left : SUBSET Version,
                       version : 0..MaxVersion, doc : Document \cup {None},
                       text : File \cup {Torn}, file : 0..MaxVersion]
    BY <2>2, <1>a
  <2> QED
    BY <1>2, <2>1, <2>3, <2>4
<1>3. ASSUME NEW v \in Version, DemoteFile(v)
      PROVE  TypeOK'
  <2>1. CASE dir[v] = Torn /\ promoter' = Idle /\ UNCHANGED dir
    BY <1>3, <2>1, BoundAssumption DEF DemoteFile, Idle
  <2>2. CASE dir[v].status = "current" /\ Open(v, [dir[v] EXCEPT !.status = "superseded"])
    <3>1. v \in DOMAIN dir /\ dir[v] \in File
      BY <1>3, <1>b, <2>2 DEF DemoteFile, Torn
    <3>2. [dir[v] EXCEPT !.status = "superseded"] \in File
      BY <3>1 DEF File
    <3> QED
      BY <1>2, <1>3, <2>2, <3>2 DEF DemoteFile
  <2>3. CASE /\ dir[v].status = "superseded"
             /\ promoter' = [promoter EXCEPT !.left = @ \ {v}] /\ UNCHANGED dir
    BY <1>3, <2>3 DEF DemoteFile
  <2> QED
    BY <1>3, <2>1, <2>2, <2>3 DEF DemoteFile
<1>4. CASE WriteTarget
  <2>1. [doc |-> promoter.doc, status |-> "current"] \in File /\ promoter.version \in Version
    BY <1>4 DEF WriteTarget, File
  <2> QED
    BY <1>2, <1>4, <2>1 DEF WriteTarget
<1>5. CASE FillFile
  <2>1. /\ promoter.file \in Version /\ promoter.text \in File
        /\ promoter.file \in DOMAIN dir
    BY <1>5, <1>b DEF FillFile
  <2> DEFINE new == With(dir, promoter.file, promoter.text)
  <2>a. new \in Directory /\ DOMAIN new = {promoter.file} \cup DOMAIN dir
    BY <2>1, WithType
  <2>b. dir' = new
    BY <1>5 DEF FillFile
  <2> HIDE DEF new
  <2>2. dir' \in Directory /\ DOMAIN dir' = DOMAIN dir
    BY <2>1, <2>a, <2>b
  <2>3. CASE promoter.text.status = "superseded"
    BY <1>5, <2>2, <2>3 DEF FillFile
  <2>4. CASE promoter.text.status # "superseded"
    BY <1>5, <2>2, <2>4, BoundAssumption DEF FillFile, Idle
  <2> QED
    BY <2>3, <2>4
<1>6. CASE KillPromoter
  BY <1>6, BoundAssumption DEF KillPromoter, Idle
<1>7. CASE StartDriver
  BY <1>7 DEF StartDriver
<1>8. CASE CheckFingerprint
  BY <1>8 DEF CheckFingerprint
<1>9. CASE ListFiles
  BY <1>9, <1>b, NothingType DEF ListFiles
<1>10. CASE ReadFile
  <2> DEFINE v == Min(driver.left)
  <2>1. driver.left \in SUBSET Nat /\ driver.left # {}
    BY <1>10, <1>a, <1>b DEF ReadFile
  <2>2. v \in driver.left
    BY <2>1, MinIsLeast
  <2>3. v \in Version /\ dir[v] \in File \cup {Torn}
    BY <2>2, <1>b
  <2> HIDE DEF v
  <2>4. With(driver.parsed, v, dir[v]) \in Directory
    BY <2>3, WithType
  <2>5. /\ driver' = [driver EXCEPT !.left = @ \ {v}, !.parsed = With(@, v, dir[v])]
        /\ driver.pc = "read"
        /\ UNCHANGED <<dir, promoter, due, table, promotions, kills>>
    BY <1>10 DEF ReadFile, v
  <2> QED
    BY <2>4, <2>5
<1>11. CASE EndRead
  <2>a. due' \in BOOLEAN
    BY <1>11 DEF EndRead, BatchEnds
  <2>1. CASE Loads(driver.parsed) /\ driver' = [driver EXCEPT !.pc = "ensure"]
    BY <1>11, <2>a, <2>1 DEF EndRead
  <2>2. CASE driver' = Down
    BY <1>11, <2>a, <2>2, NothingType DEF EndRead, Down
  <2>3. CASE driver' = [driver EXCEPT !.pc = "ready", !.parsed = Nothing]
    BY <1>11, <2>a, <2>3, NothingType DEF EndRead
  <2> QED
    BY <1>11, <2>1, <2>2, <2>3 DEF EndRead
<1>12. CASE EnsureTables
  <2>1. Registry(driver.parsed) \in Registries
    BY <1>12, LoadedRegistry DEF EnsureTables
  <2>2. table' \subseteq Field \X {"keep", "hash"}
    BY <1>12, <2>1, ColumnsType DEF EnsureTables
  <2> QED
    BY <1>12, <2>2 DEF EnsureTables
<1>13. CASE Install
  <2>1. Registry(driver.parsed) \in Registries
    BY <1>13, LoadedRegistry DEF Install
  <2> QED
    BY <1>13, <2>1, NothingType DEF Install, Down, BatchEnds
<1>14. CASE KillDriver
  BY <1>14, NothingType, BoundAssumption DEF KillDriver, Down
<1>15. CASE Arrive
  BY <1>15 DEF Arrive
<1>16. CASE UNCHANGED vars
  BY <1>16 DEF vars
<1> QED
  BY <1>1, <1>3, <1>4, <1>5, <1>6, <1>7, <1>8, <1>9, <1>10, <1>11, <1>12, <1>13,
     <1>14, <1>15, <1>16 DEF Next, Promoter, Driver

\* Every reachable state is well typed; in particular only what loads is installed, and
\* a file is empty exactly while or after a promotion was about to fill it.
THEOREM TypeCorrect == Spec => []TypeOK
<1>1. Init => TypeOK
  BY InitType
<1>2. TypeOK /\ [Next]_vars => TypeOK'
  BY NextType
<1> QED
  BY <1>1, <1>2, PTL DEF Spec

-----------------------------------------------------------------------------
(* The registry in use                                                     *)

\* The registry in use has passed the checks of load_registry, and silver has
\* its columns; those of the next one are added before it is installed.
InUse ==
    /\ Evolves(driver.registry)
    /\ Columns(driver.registry) \subseteq table
    /\ driver.pc = "install" => Columns(Registry(driver.parsed)) \subseteq table

LEMMA InitInUse == Init => InUse
  BY NothingType, NoColumns DEF Init, InUse, Down

LEMMA NextInUse == TypeOK /\ InUse /\ [Next]_vars => InUse'
<1> SUFFICES ASSUME TypeOK, InUse, [Next]_vars PROVE InUse'
  OBVIOUS
<1> USE DEF InUse
<1>a. driver \in [pc : {"down", "list", "read", "ensure", "install", "ready"},
                 registry : Registries, fingerprint : Directory,
                 left : SUBSET Version, parsed : Directory]
  BY DEF TypeOK
<1>1. CASE Promoter
  <2>1. UNCHANGED <<driver, table>>
    BY <1>1 DEF Promoter, StartPromotion, DemoteFile, WriteTarget, FillFile, KillPromoter
  <2> QED
    BY <2>1
<1>2. CASE StartDriver \/ CheckFingerprint \/ ListFiles \/ ReadFile
  <2>1. driver'.registry = driver.registry /\ driver'.pc # "install" /\ UNCHANGED table
    BY <1>2, <1>a DEF StartDriver, CheckFingerprint, ListFiles, ReadFile
  <2> QED
    BY <2>1
<1>3. CASE driver' = Down /\ UNCHANGED table
  BY <1>3, NothingType, NoColumns DEF Down
<1>4. CASE EndRead
  <2>1. CASE driver' # Down
    <3>1. driver'.registry = driver.registry /\ driver'.pc # "install" /\ UNCHANGED table
      BY <1>4, <1>a, <2>1 DEF EndRead
    <3> QED
      BY <3>1
  <2> QED
    BY <1>3, <1>4, <2>1 DEF EndRead
<1>5. CASE EnsureTables
  <2>1. /\ driver'.registry = driver.registry /\ driver'.parsed = driver.parsed
        /\ table' = table \cup Columns(Registry(driver.parsed))
    BY <1>5, <1>a DEF EnsureTables
  <2> QED
    BY <2>1
<1>6. CASE Install
  <2>1. driver.pc = "install" /\ Loads(driver.parsed) /\ driver.parsed \in Directory
    BY <1>6 DEF Install, TypeOK
  <2>2. Evolves(Registry(driver.parsed))
    BY <2>1, LoadedRegistry
  <2>3. /\ driver'.registry = Registry(driver.parsed) /\ driver'.pc = "ready"
        /\ UNCHANGED table
    BY <1>6 DEF Install, Down
  <2> QED
    BY <2>1, <2>2, <2>3
<1>7. CASE KillDriver
  BY <1>3, <1>7 DEF KillDriver
<1>8. CASE Arrive \/ UNCHANGED vars
  BY <1>8 DEF Arrive, vars
<1> QED
  BY <1>1, <1>2, <1>4, <1>5, <1>6, <1>7, <1>8 DEF Next, Driver

LEMMA InUseCorrect == Spec => [](TypeOK /\ InUse)
<1>1. Init => TypeOK /\ InUse
  BY InitType, InitInUse
<1>2. TypeOK /\ InUse /\ [Next]_vars => TypeOK' /\ InUse'
  BY NextType, NextInUse
<1> QED
  BY <1>1, <1>2, PTL DEF Spec

\* Whatever is promoted, killed or read half-way: between two versions that the driver
\* uses, the later accepts what the earlier accepts, up to fields it newly defines.
THEOREM UsedVersionsAccept == Spec => []EarlierRecordsStayValid
<1>1. TypeOK /\ InUse => EarlierRecordsStayValid
  <2> SUFFICES ASSUME TypeOK, InUse, Transitive(driver.registry),
                      NEW u \in DOMAIN driver.registry, NEW v \in DOMAIN driver.registry,
                      NEW r \in Record, u < v, Accepts(driver.registry[u], r),
                      NewlyDefined(driver.registry, u, v, r) = {}
               PROVE  Accepts(driver.registry[v], r)
    BY DEF EarlierRecordsStayValid, TransitiveInUse
  <2>1. driver.registry \in Registries /\ Evolves(driver.registry)
    BY DEF TypeOK, InUse
  <2>2. IsDocument(driver.registry[u]) /\ IsDocument(driver.registry[v])
    BY <2>1, RegistryType
  <2>3. BackwardCompatible(driver.registry[u], driver.registry[v])
    BY <2>1, PairsCompatible
  <2> QED
    BY <2>2, <2>3, CompatibleAccepts DEF NewlyDefined
<1> QED
  BY <1>1, InUseCorrect, PTL

\* The handling of a field is that of every version which defines it.
LEMMA OneHandling ==
    ASSUME NEW reg \in Registries, Evolves(reg), Transitive(reg),
           NEW v \in DOMAIN reg, NEW f \in DOMAIN reg[v].fields
    PROVE  /\ f \in Known(reg)
           /\ AllFields(reg)[f].pii_handling = reg[v].fields[f].pii_handling
<1> DEFINE w == LastWith(reg, f)
<1>1. f \in Known(reg)
  BY DEF Known
<1>2. w \in DOMAIN reg /\ f \in DOMAIN reg[w].fields /\ v <= w
  BY <1>1, LastWithType
<1>3. AllFields(reg)[f] = reg[w].fields[f]
  BY <1>1 DEF AllFields
<1> HIDE DEF w
<1>4. v \in Nat /\ w \in Nat
  BY <1>2, RegistryType
<1>5. CASE v = w
  BY <1>1, <1>3, <1>5
<1>6. CASE v < w
  <2>1. BackwardCompatible(reg[v], reg[w])
    BY <1>2, <1>6, PairsCompatible
  <2>2. FieldCompatible(reg[v].fields[f], reg[w].fields[f])
    BY <1>2, <2>1 DEF BackwardCompatible
  <2> QED
    BY <1>1, <1>3, <2>2 DEF FieldCompatible
<1> QED
  BY <1>2, <1>4, <1>5, <1>6

\* A verdict other than 0 is a version that accepts the record.
LEMMA VerdictAccepts ==
    ASSUME NEW reg \in Registries, NEW r, Classify(reg, r) # 0
    PROVE  /\ Accepting(reg, r) \in SUBSET Nat /\ Accepting(reg, r) # {}
           /\ Classify(reg, r) = Min(Accepting(reg, r))
           /\ Classify(reg, r) \in Accepting(reg, r)
<1>1. Accepting(reg, r) # {} /\ Classify(reg, r) = Min(Accepting(reg, r))
  BY DEF Classify
<1>2. Accepting(reg, r) \in SUBSET Nat
  BY RegistryType DEF Accepting, Candidates
<1> QED
  BY <1>1, <1>2, MinIsLeast

\* The projection of an image shows a field as its one handling says.
LEMMA ProjectedAsHandled ==
    ASSUME NEW reg, NEW image, NEW f \in DOMAIN image \cap Known(reg),
           Handling(reg, f) \in {"keep", "hash", "drop"}
    PROVE  LET columns == NormalizeImage(reg, image)
           IN  (IF f \in DOMAIN columns THEN columns[f] ELSE "absent")
                   \in Shown[Handling(reg, f)]
<1>1. CASE Handling(reg, f) = "drop"
  <2>1. f \notin DOMAIN NormalizeImage(reg, image)
    BY <1>1 DEF NormalizeImage
  <2> QED
    BY <1>1, <2>1 DEF Shown
<1>2. CASE Handling(reg, f) # "drop"
  <2>1. /\ f \in DOMAIN NormalizeImage(reg, image)
        /\ NormalizeImage(reg, image)[f]
              = IF IsNull(image[f]) THEN "null"
                ELSE IF Handling(reg, f) = "hash" THEN "hmac" ELSE "clear"
    BY <1>2 DEF NormalizeImage
  <2> QED
    BY <1>2, <2>1 DEF Shown
<1> QED
  BY <1>1, <1>2

\* The images of an accepted record are projected with the fields of all versions, and
\* show every field as each version that defines it says.
THEOREM ProjectionAgrees == Spec => []PiiHandlingAgrees
<1>1. TypeOK /\ InUse => PiiHandlingAgrees
  <2> DEFINE reg == driver.registry
  <2> SUFFICES ASSUME TypeOK, InUse, Transitive(reg),
                      NEW msg \in Message, NEW image \in Images(msg), NEW v \in DOMAIN reg,
                      NEW f \in DOMAIN image \cap DOMAIN reg[v].fields
               PROVE  LET columns == NormalizeImage(reg, image)
                      IN  (IF f \in DOMAIN columns THEN columns[f] ELSE "absent")
                              \in Shown[reg[v].fields[f].pii_handling]
    BY DEF PiiHandlingAgrees, TransitiveInUse
  <2>1. reg \in Registries /\ Evolves(reg)
    BY DEF TypeOK, InUse
  <2> HIDE DEF reg
  <2>2. f \in Known(reg) /\ Handling(reg, f) = reg[v].fields[f].pii_handling
    BY <2>1, OneHandling DEF Handling
  <2>3. reg[v].fields[f].pii_handling \in {"keep", "hash", "drop"}
    BY <2>1, RegistryType DEF IsDocument, IsFieldSpec
  <2> QED
    BY <2>2, <2>3, ProjectedAsHandled
<1> QED
  BY <1>1, InUseCorrect, PTL

\* A batch finds in silver the columns of every version in use.
THEOREM ColumnsExist == Spec => []SilverHasColumns
<1>1. TypeOK /\ InUse => SilverHasColumns
  <2> DEFINE reg == driver.registry
  <2> SUFFICES ASSUME TypeOK, InUse, Transitive(reg), NEW v \in DOMAIN reg,
                      NEW f \in DOMAIN reg[v].fields,
                      reg[v].fields[f].pii_handling # "drop"
               PROVE  <<f, reg[v].fields[f].pii_handling>> \in table
    BY DEF SilverHasColumns, TransitiveInUse
  <2>1. reg \in Registries /\ Evolves(reg) /\ Columns(reg) \subseteq table
    BY DEF TypeOK, InUse
  <2> HIDE DEF reg
  <2>2. /\ f \in Known(reg)
        /\ AllFields(reg)[f].pii_handling = reg[v].fields[f].pii_handling
    BY <2>1, OneHandling
  <2>3. <<f, AllFields(reg)[f].pii_handling>> \in Columns(reg)
    BY <2>2 DEF Columns
  <2> QED
    BY <2>1, <2>2, <2>3
<1> QED
  BY <1>1, InUseCorrect, PTL

\* Versions added behind the last one leave the verdict on a record as it was.
LEMMA AddedVersionsKeepVerdicts ==
    ASSUME NEW old \in Registries, NEW new \in Registries, Continues(old, new)
    PROVE  SameVerdicts(old, new)
<1> SUFFICES ASSUME NEW r \in Record, Classify(old, r) # 0,
                    DOMAIN r \cap Known(new) \subseteq Known(old)
             PROVE  Classify(new, r) = Classify(old, r)
  BY DEF SameVerdicts
<1> DEFINE v == Classify(old, r)
           A == Accepting(old, r)
           B == Accepting(new, r)
<1>1. A \in SUBSET Nat /\ A # {} /\ v = Min(A) /\ v \in A
  BY VerdictAccepts
<1>2. B \in SUBSET Nat
  BY RegistryType DEF Accepting, Candidates
<1>3. Known(old) \subseteq Known(new)
  BY DEF Known, Continues
<1>4. \A u \in DOMAIN old : u \in A <=> u \in B
  BY <1>3 DEF Accepting, Candidates, Continues
<1>5. v \in B
  BY <1>1, <1>4 DEF Accepting, Candidates
<1>6. ASSUME NEW u \in B PROVE v <= u
  <2>1. CASE u \in DOMAIN old
    BY <1>1, <1>4, <2>1, MinIsLeast
  <2>2. CASE u \notin DOMAIN old
    <3>1. u \in DOMAIN new \ DOMAIN old
      BY <1>6, <2>2 DEF Accepting, Candidates
    <3>2. Max(DOMAIN old) < u
      BY <3>1 DEF Continues
    <3>3. v \in DOMAIN old
      BY <1>1 DEF Accepting, Candidates
    <3>4. DOMAIN old \in SUBSET Int /\ \A w \in DOMAIN old : w <= MaxVersion
      BY RegistryType
    <3>5. MaxVersion \in Int
      BY BoundAssumption
    <3>6. Max(DOMAIN old) \in DOMAIN old /\ v <= Max(DOMAIN old)
      <4> HIDE DEF v
      <4> QED
        BY <3>3, <3>4, <3>5, MaxIsGreatest
    <3>7. v \in Int /\ u \in Int /\ Max(DOMAIN old) \in Int
      BY <1>1, <1>2, <1>6, <3>4, <3>6
    <3> HIDE DEF v
    <3> QED
      BY <3>2, <3>6, <3>7
  <2> QED
    BY <2>1, <2>2
<1>7. v = Min(B)
  <2> HIDE DEF v, B
  <2> QED
    BY <1>2, <1>5, <1>6, MinIsLeast
<1> QED
  BY <1>5, <1>7 DEF Classify

\* No reload that adds versions changes the verdict on a record without new fields.
THEOREM ReloadsKeepVerdicts == Spec => VerdictsKept
<1>1. TypeOK /\ TypeOK' => [Continues(driver.registry, driver'.registry) =>
                               SameVerdicts(driver.registry, driver'.registry)]_driver
  <2> SUFFICES ASSUME TypeOK, TypeOK', Continues(driver.registry, driver'.registry)
               PROVE  SameVerdicts(driver.registry, driver'.registry)
    OBVIOUS
  <2>1. driver.registry \in Registries /\ driver'.registry \in Registries
    BY DEF TypeOK
  <2> QED
    BY <2>1, AddedVersionsKeepVerdicts
<1> QED
  BY <1>1, TypeCorrect, PTL DEF VerdictsKept
=============================================================================
