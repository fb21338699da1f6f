----------------------------- MODULE Contracts -----------------------------
(***************************************************************************)
(* The contract files of one source table, rewritten file by file by       *)
(* `lakeflowctl contract promote`, and the driver of the streaming job,    *)
(* which looks at them before every batch and reads them when they have    *)
(* changed.  Either process may die between any two steps.                 *)
(*                                                                         *)
(* A proposed file is written by its authors before the promotion and is   *)
(* only read by it, so it is a parameter of the promotion here.  One       *)
(* promotion runs at a time.  The contracts of other tables are files of   *)
(* their own that a promotion leaves alone.                                *)
(***************************************************************************)
EXTENDS Decode

CONSTANTS
    Document,       \* the contracts that may be proposed
    First,          \* those that version 1 may be at the beginning
    MaxVersion,     \* bound: version numbers, below 10
    MaxPromotions,  \* bound: promotions
    MaxKills        \* bound: deaths of either process

ASSUME DocumentAssumption ==
    /\ \A doc \in Document : IsDocument(doc)
    /\ First \subseteq {doc \in Document : WellFormed(doc)}

ASSUME BoundAssumption ==
    MaxVersion \in Nat \ {0} /\ MaxPromotions \in Nat /\ MaxKills \in Nat

VARIABLES
    dir,         \* the contract files
    promoter,    \* the promotion that runs
    driver,      \* the driver: its registry and the reading of a new one
    due,         \* whether records wait that the running or the next batch takes
    table,       \* the data columns of the silver table
    promotions,  \* number of promotions begun
    kills        \* number of deaths

vars == <<dir, promoter, driver, due, table, promotions, kills>>

Version == 1..MaxVersion
File == [doc : Document, status : {"current", "superseded"}]

\* A file opened for writing is empty until the text is written.
Torn == [doc |-> None, status |-> "torn"]

Directory == UNION {[S -> File \cup {Torn}] : S \in SUBSET Version}
Registries == UNION {[S -> Document] : S \in SUBSET Version}
Nothing == [v \in {} |-> Torn]

Registry(d) == [v \in DOMAIN d |-> d[v].doc]

\* load_registry on what was read of the files.
Loads(d) ==
    /\ DOMAIN d # {}
    /\ \A v \in DOMAIN d : d[v] # Torn /\ WellFormed(d[v].doc)
    /\ {v \in DOMAIN d : d[v].status = "current"} = {Max(DOMAIN d)}
    /\ Evolves(Registry(d))

With(d, v, file) == [w \in {v} \cup DOMAIN d |-> IF w = v THEN file ELSE d[w]]

Idle == [pc |-> "idle", left |-> {}, version |-> 0, doc |-> None, text |-> Torn, file |-> 0]
Down == [pc |-> "down", registry |-> Nothing, fingerprint |-> Nothing,
         left |-> {}, parsed |-> Nothing]

Init ==
    /\ dir \in {With(Nothing, 1, [doc |-> doc, status |-> "current"]) : doc \in First}
    /\ promoter = Idle /\ driver = Down
    /\ due = FALSE /\ table = {} /\ promotions = 0 /\ kills = 0

-----------------------------------------------------------------------------
(* lakeflowctl contract promote                                            *)

StartPromotion(v, doc) ==
    /\ promoter.pc = "idle" /\ promotions < MaxPromotions
    /\ promoter' = [Idle EXCEPT !.pc = "demote", !.left = DOMAIN dir,
                                !.version = v, !.doc = doc]
    /\ promotions' = promotions + 1
    /\ UNCHANGED <<dir, driver, due, table, kills>>

\* write_text opens the file, which empties it, and then fills it.
Open(v, text) ==
    /\ dir' = With(dir, v, Torn)
    /\ promoter' = [promoter EXCEPT !.pc = "fill", !.file = v, !.text = text]

\* The next file of the folder; one that is not JSON ends the promotion.
DemoteFile(v) ==
    /\ promoter.pc = "demote" /\ v \in promoter.left
    /\ \/ dir[v] = Torn /\ promoter' = Idle /\ UNCHANGED dir
       \/ dir[v].status = "current" /\ Open(v, [dir[v] EXCEPT !.status = "superseded"])
       \/ /\ dir[v].status = "superseded"
          /\ promoter' = [promoter EXCEPT !.left = @ \ {v}] /\ UNCHANGED dir
    /\ UNCHANGED <<driver, due, table, promotions, kills>>

\* Faulty: the status of the proposal is copied with it.
WriteTarget_Proposed ==
    /\ promoter.pc = "demote" /\ promoter.left = {}
    /\ Open(promoter.version, [doc |-> promoter.doc, status |-> "proposed"])
    /\ UNCHANGED <<driver, due, table, promotions, kills>>

WriteTarget ==
    /\ promoter.pc = "demote" /\ promoter.left = {}
    /\ Open(promoter.version, [doc |-> promoter.doc, status |-> "current"])
    /\ UNCHANGED <<driver, due, table, promotions, kills>>

\* The set is validated only after the target is written: a refusal changes nothing.
FillFile ==
    /\ promoter.pc = "fill"
    /\ dir' = With(dir, promoter.file, promoter.text)
    /\ promoter' = IF promoter.text.status = "superseded"
                   THEN [promoter EXCEPT !.pc = "demote", !.left = @ \ {promoter.file}]
                   ELSE Idle
    /\ UNCHANGED <<driver, due, table, promotions, kills>>

KillPromoter ==
    /\ promoter.pc # "idle" /\ kills < MaxKills
    /\ promoter' = Idle /\ kills' = kills + 1
    /\ UNCHANGED <<dir, driver, due, table, promotions>>

-----------------------------------------------------------------------------
(* The driver of the streaming job                                         *)

\* main, up to load_registry.
StartDriver ==
    /\ driver.pc = "down"
    /\ driver' = [driver EXCEPT !.pc = "list"]
    /\ UNCHANGED <<dir, promoter, due, table, promotions, kills>>

\* Records arrive; the batch that takes them may come at any time.
Arrive ==
    /\ ~due /\ due' = TRUE
    /\ UNCHANGED <<dir, promoter, driver, table, promotions, kills>>

\* A batch, which Spark starts only for records, compares the digest of the files with
\* that of the registry.  It uses a registry that is up to date.
CheckFingerprint ==
    /\ driver.pc = "ready" /\ due
    /\ \/ dir = driver.fingerprint /\ due' = FALSE /\ UNCHANGED driver
       \/ dir # driver.fingerprint /\ driver' = [driver EXCEPT !.pc = "list"] /\ UNCHANGED due
    /\ UNCHANGED <<dir, promoter, table, promotions, kills>>

ListFiles ==
    /\ driver.pc = "list"
    /\ driver' = [driver EXCEPT !.pc = "read", !.left = DOMAIN dir, !.parsed = Nothing]
    /\ UNCHANGED <<dir, promoter, due, table, promotions, kills>>

\* Files are read one by one in the order of their names, v1 to v9.
ReadFile ==
    /\ driver.pc = "read" /\ driver.left # {}
    /\ LET v == Min(driver.left)
       IN  driver' = [driver EXCEPT !.left = @ \ {v},
                                    !.parsed = With(@, v, dir[v])]
    /\ UNCHANGED <<dir, promoter, due, table, promotions, kills>>

\* A driver that starts reads outside any batch; one that runs ends its batch.
BatchEnds == due' = (due /\ driver.registry = Nothing)

\* A change that does not load is rejected; a driver that starts exits.
EndRead ==
    /\ driver.pc = "read" /\ driver.left = {}
    /\ \/ Loads(driver.parsed) /\ driver' = [driver EXCEPT !.pc = "ensure"] /\ UNCHANGED due
       \/ /\ ~Loads(driver.parsed) /\ BatchEnds
          /\ driver' = IF driver.registry = Nothing THEN Down
                       ELSE [driver EXCEPT !.pc = "ready", !.parsed = Nothing]
    /\ UNCHANGED <<dir, promoter, table, promotions, kills>>

\* ensure_tables adds the columns that are missing and removes none.
EnsureTables ==
    /\ driver.pc = "ensure"
    /\ table' = table \cup Columns(Registry(driver.parsed))
    /\ driver' = [driver EXCEPT !.pc = "install"]
    /\ UNCHANGED <<dir, promoter, due, promotions, kills>>

\* Faulty: the fingerprint is taken again when the registry is installed.
Install_Fingerprint ==
    /\ driver.pc = "install"
    /\ driver' = [Down EXCEPT !.pc = "ready", !.registry = Registry(driver.parsed),
                              !.fingerprint = dir]
    /\ BatchEnds /\ UNCHANGED <<dir, promoter, table, promotions, kills>>

Install ==
    /\ driver.pc = "install"
    /\ driver' = [Down EXCEPT !.pc = "ready", !.registry = Registry(driver.parsed),
                              !.fingerprint = driver.parsed]
    /\ BatchEnds /\ UNCHANGED <<dir, promoter, table, promotions, kills>>

KillDriver ==
    /\ driver.pc # "down" /\ kills < MaxKills
    /\ driver' = Down /\ kills' = kills + 1
    /\ UNCHANGED <<dir, promoter, due, table, promotions>>

-----------------------------------------------------------------------------
Promoter ==
    \/ \E v \in Version, doc \in Document : StartPromotion(v, doc)
    \/ \E v \in Version : DemoteFile(v)
    \/ WriteTarget \/ FillFile \/ KillPromoter

Driver == StartDriver \/ CheckFingerprint \/ ListFiles \/ ReadFile \/ EndRead
             \/ EnsureTables \/ Install

Next == Promoter \/ Driver \/ KillDriver \/ Arrive

Spec == Init /\ [][Next]_vars

\* Docker restarts the driver, and Spark triggers a batch whenever records wait.  That
\* records arrive is not assumed.
FairSpec == Spec /\ WF_vars(Driver)

-----------------------------------------------------------------------------
(* Properties                                                              *)

\* Types, and what lies between two steps of either process.
TypeOK ==
    /\ dir \in Directory
    /\ promoter \in [pc : {"idle", "demote", "fill"}, left : SUBSET Version,
                     version : 0..MaxVersion, doc : Document \cup {None},
                     text : File \cup {Torn}, file : 0..MaxVersion]
    /\ driver \in [pc : {"down", "list", "read", "ensure", "install", "ready"},
                   registry : Registries, fingerprint : Directory,
                   left : SUBSET Version, parsed : Directory]
    /\ promoter.pc # "idle" => promoter.doc \in Document /\ promoter.version \in Version
    /\ promoter.left \subseteq DOMAIN dir
    /\ promoter.pc = "fill" => /\ promoter.text \in File
                              /\ promoter.file \in DOMAIN dir /\ dir[promoter.file] = Torn
    /\ driver.left \subseteq DOMAIN dir
    /\ driver.pc \in {"ensure", "install"} => Loads(driver.parsed)
    /\ due \in BOOLEAN
    /\ table \subseteq Field \X {"keep", "hash"}
    /\ promotions \in 0..MaxPromotions /\ kills \in 0..MaxKills

Transitive(reg) == \A v \in DOMAIN reg : reg[v].compatibility = "BACKWARD_TRANSITIVE"

\* Batches are judged and written, with versions that are all transitive.
TransitiveInUse == driver.pc = "ready" /\ Transitive(driver.registry)

\* Fields of the record that version v defines and version u does not.
NewlyDefined(reg, u, v, r) ==
    DOMAIN r \cap (DOMAIN reg[v].fields \ DOMAIN reg[u].fields)

\* In a registry that the driver uses, a version accepts what an earlier one accepted,
\* as far as it does not define more fields of the record, however the files were
\* promoted, killed half-way and read in between (check_backward_compatible).
EarlierRecordsStayValid ==
    TransitiveInUse =>
        \A u, v \in DOMAIN driver.registry : \A r \in Record :
            (u < v /\ Accepts(driver.registry[u], r) /\ NewlyDefined(driver.registry, u, v, r) = {})
                => Accepts(driver.registry[v], r)

\* What the docstring of check_backward_compatible and ADR-0004 say instead: a version
\* accepts every record that an earlier one accepted.
EveryVersionAcceptsOlder ==
    TransitiveInUse =>
        \A u, v \in DOMAIN driver.registry : \A r \in Record :
            u < v /\ Accepts(driver.registry[u], r) => Accepts(driver.registry[v], r)

\* How a field with some handling may show in the projection of an image that has it.
Shown == [keep |-> {"clear", "null"}, hash |-> {"hmac", "null"}, drop |-> {"absent"}]

\* An image is projected with the fields of all versions, and the image that is not judged
\* is projected too.  In an accepted record every field of both images is kept, hashed or
\* dropped as each version that defines it says, whichever of them accepted the record
\* (normalize_image, with all_fields).
PiiHandlingAgrees ==
    TransitiveInUse =>
        LET reg == driver.registry
        IN  \A msg \in {m \in Message : DecodeChangeEvent(reg, m) = "valid"} :
            \A image \in Images(msg) : \A v \in DOMAIN reg :
            \A f \in DOMAIN image \cap DOMAIN reg[v].fields :
                LET columns == NormalizeImage(reg, image)
                IN  (IF f \in DOMAIN columns THEN columns[f] ELSE "absent")
                        \in Shown[reg[v].fields[f].pii_handling]

\* Every version the driver uses has its columns in silver before a record is projected,
\* also after it was superseded and after crashes between DDL and use (ensure_tables).
SilverHasColumns ==
    TransitiveInUse =>
        \A v \in DOMAIN driver.registry : \A f \in DOMAIN driver.registry[v].fields :
            LET handling == driver.registry[v].fields[f].pii_handling
            IN  handling # "drop" => <<f, handling>> \in table

\* new is old with versions added behind the last one.
Continues(old, new) ==
    /\ old # new /\ DOMAIN old # {} /\ DOMAIN old \subseteq DOMAIN new
    /\ \A v \in DOMAIN old : new[v] = old[v]
    /\ \A v \in DOMAIN new \ DOMAIN old : Max(DOMAIN old) < v

SameVerdicts(old, new) ==
    \A r \in Record :
        (Classify(old, r) # 0 /\ DOMAIN r \cap Known(new) \subseteq Known(old))
            => Classify(new, r) = Classify(old, r)

\* A reload that adds versions never rejects and never stamps with another version a
\* record that was accepted and has no field that only the added versions define.
VerdictsKept ==
    [][Continues(driver.registry, driver'.registry) =>
          SameVerdicts(driver.registry, driver'.registry)]_driver

\* If records keep coming, a directory that stays loadable is the registry of the running
\* driver in the end, whatever the promotions did while it was being read; the files are
\* looked at in no other place than a batch (_maybe_reload_contracts).
ReloadedInTheEnd ==
    []<>due => <>[](Loads(dir) => driver.pc = "ready" /\ driver.registry = Registry(dir))
=============================================================================
