------------------------- MODULE MaintenanceProofs --------------------------
(***************************************************************************)
(* Proofs about table maintenance, for any number of runners, any log of   *)
(* snapshots and any retention periods: no file that can still be read is  *)
(* deleted, and what a record says of a rewrite is true of it.             *)
(***************************************************************************)
EXTENDS Maintenance, Extrema, SequenceTheorems

RunInv ==
    /\ stage \in [Runner -> Stage]
    /\ before \in [Runner -> Nat]
    /\ evidence \in [Runner -> Evidence]
    /\ orphans \in [Runner -> SUBSET Nat]
    /\ status \in [Runner -> {"none", "skipped", "succeeded", "failed"}]
    /\ own \in [Runner -> Nat]
    /\ alone \in [Runner -> BOOLEAN]

\* The current snapshot is never expired.
TypeInv ==
    /\ log \in Seq(Snapshot)
    /\ expired \subseteq DOMAIN log /\ Len(log) \notin expired
    /\ written \in Nat /\ pending \in Nat /\ clock \in Nat
    /\ DOMAIN stored \subseteq 1..written
    /\ \A f \in DOMAIN stored : stored[f] \in Nat
    /\ draft \in [Runner -> [old : SUBSET File, new : File]]
    /\ RunInv

-----------------------------------------------------------------------------
(* The log                                                                 *)

LEMMA LessIsSubset == \A rows : Less(rows) \subseteq rows
  BY DEF Less

LEMMA FilesType ==
    ASSUME TypeInv
    PROVE  /\ Files \in SUBSET File
           /\ Rows(Files) \in SUBSET Nat
           /\ log # <<>> => Len(log) \in Live
           /\ Ids(Files) \subseteq Referenced
<1>1. log # <<>> => /\ Len(log) \in 1..Len(log)
                    /\ log[Len(log)] \in Snapshot
                    /\ DOMAIN log = 1..Len(log)
  BY DEF TypeInv
<1>2. log # <<>> => Len(log) \in Live
  BY <1>1 DEF TypeInv, Live
<1>3. Files \in SUBSET File
  BY <1>1 DEF Files, Snapshot
<1>4. Rows(Files) \in SUBSET Nat
  BY <1>3 DEF Rows, File
<1>5. Ids(Files) \subseteq Referenced
  BY <1>2 DEF Files, Referenced, Ids
<1> QED
  BY <1>2, <1>3, <1>4, <1>5

\* A commit leaves what is in the log as it was.
LEMMA CommitAppends ==
    ASSUME TypeInv, NEW operation \in {"append", "overwrite", "replace"},
           NEW files \in SUBSET File, Commit(operation, files)
    PROVE  /\ log' \in Seq(Snapshot)
           /\ Len(log) \in Nat /\ Len(log') = Len(log) + 1
           /\ DOMAIN log = 1..Len(log) /\ DOMAIN log' = 1..(Len(log) + 1)
           /\ \A n \in 1..Len(log) : log'[n] = log[n]
           /\ log'[Len(log) + 1] =
                [operation |-> operation, files |-> files, at |-> clock]
<1> DEFINE s == [operation |-> operation, files |-> files, at |-> clock]
<1>1. s \in Snapshot
  BY DEF TypeInv, Snapshot
<1>2. log' = Append(log, s) /\ log \in Seq(Snapshot)
  BY DEF Commit, TypeInv
<1> HIDE DEF s
<1>3. /\ log' \in Seq(Snapshot) /\ Len(log') = Len(log) + 1
      /\ \A n \in 1..Len(log) : log'[n] = log[n]
      /\ log'[Len(log) + 1] = s
  BY <1>1, <1>2, AppendProperties
<1>4. /\ Len(log) \in Nat /\ DOMAIN log = 1..Len(log)
      /\ DOMAIN log' = 1..Len(log')
  BY <1>2, <1>3, LenProperties
<1> QED
  BY <1>3, <1>4 DEF s

\* What the stream and the rewrites commit.
LEMMA CommittedType ==
    ASSUME TypeInv
    PROVE  /\ [id |-> pending, rows |-> {Len(log) + 1}] \in File
           /\ \A f \in Files : [f EXCEPT !.rows = Less(@)] \in File
           /\ \A r \in Runner : draft[r].new \in File
           /\ NoDraft \in [old : SUBSET File, new : File]
<1>1. Len(log) \in Nat /\ pending \in Nat
  BY LenProperties DEF TypeInv
<1>2. [id |-> pending, rows |-> {Len(log) + 1}] \in File
  BY <1>1 DEF File
<1>3. ASSUME NEW f \in Files PROVE [f EXCEPT !.rows = Less(@)] \in File
  BY FilesType, LessIsSubset DEF File
<1>4. \A r \in Runner : draft[r].new \in File
  BY DEF TypeInv
<1>5. NoDraft \in [old : SUBSET File, new : File]
  BY DEF NoDraft, NoFile, File
<1> QED
  BY <1>2, <1>3, <1>4, <1>5

-----------------------------------------------------------------------------
(* Types                                                                   *)

LEMMA RunType ==
    ASSUME RunInv, TypeInv, NEW r \in Runner, Maintain(r)
    PROVE  RunInv'
<1>1. CASE Begin(r) \/ TableExists(r) \/ StatsBefore(r)
  <2>1. Len(log) \in Nat
    BY LenProperties DEF TypeInv
  <2> QED
    BY <1>1, <2>1 DEF RunInv, Begin, TableExists, StatsBefore, Goto, Stage
<1>2. CASE PlanRewrite(r) \/ CommitRewrite(r)
  <2>1. Len(log) \in Nat
    BY LenProperties DEF TypeInv
  <2>2. PICK s \in {"plan", "find", "rewrite"} :
          /\ stage' = [stage EXCEPT ![r] = s]
          /\ UNCHANGED <<before, evidence, orphans, status, alone>>
    BY <1>2 DEF PlanRewrite, CommitRewrite, Goto
  <2>3. own' = own \/ own' = [own EXCEPT ![r] = Len(log) + 1]
    BY <1>2 DEF PlanRewrite, CommitRewrite
  <2>4. stage' \in [Runner -> Stage]
    BY <2>2 DEF RunInv, Stage
  <2>5. own' \in [Runner -> Nat]
    <3>1. own \in [Runner -> Nat] /\ Len(log) + 1 \in Nat
      BY <2>1 DEF RunInv
    <3> QED
      BY <2>3, <3>1
  <2> QED
    BY <2>2, <2>4, <2>5 DEF RunInv
<1>3. CASE FindRewrite(r)
  <2> DEFINE rewrites == {n \in Live : log[n].operation = "replace" /\ n > before[r]}
  <2>1. CASE before[r] = 0 \/ rewrites = {}
    BY <1>3, <2>1 DEF RunInv, FindRewrite, Goto, Stage
  <2>2. CASE ~(before[r] = 0 \/ rewrites = {})
    <3>1. rewrites \in SUBSET (1..Len(log)) /\ Len(log) \in Nat
      BY LenProperties DEF Live, TypeInv
    <3>2. Max(rewrites) \in 1..Len(log)
      <4>1. \A n \in rewrites : n <= Len(log)
        BY <3>1
      <4>2. rewrites \in SUBSET Int /\ Len(log) \in Int /\ rewrites # {}
        BY <2>2, <3>1
      <4> HIDE DEF rewrites
      <4>3. Max(rewrites) \in rewrites
        BY <4>1, <4>2, MaxIsGreatest
      <4> QED
        BY <3>1, <4>3
    <3>3. Content(Max(rewrites)) \in SUBSET Nat
      <4>1. log[Max(rewrites)] \in Snapshot
        BY <3>2 DEF TypeInv
      <4> HIDE DEF rewrites
      <4> QED
        BY <3>2, <4>1 DEF Content, Rows, Snapshot, File
    <3>4. [rewrite |-> Max(rewrites), rows |-> Content(Max(rewrites)),
           match |-> "none"] \in Evidence
      BY <3>2, <3>3 DEF Evidence
    <3>5. /\ evidence' = [evidence EXCEPT ![r] = [rewrite |-> Max(rewrites),
                            rows |-> Content(Max(rewrites)), match |-> "none"]]
          /\ stage' = [stage EXCEPT ![r] = "parent"]
          /\ UNCHANGED <<before, orphans, status, own, alone>>
      BY <1>3, <2>2 DEF FindRewrite, Goto
    <3> HIDE DEF rewrites
    <3> QED
      BY <3>4, <3>5 DEF RunInv, Stage
  <2> QED
    BY <2>1, <2>2
<1>4. CASE CompareParent(r)
  <2>1. PICK m \in {"same", "changed"} : evidence' = [evidence EXCEPT ![r].match = m]
    BY <1>4 DEF CompareParent
  <2>2. evidence' \in [Runner -> Evidence]
    BY <2>1 DEF RunInv, Evidence
  <2> QED
    BY <1>4, <2>2 DEF RunInv, CompareParent, Goto, Stage
<1>5. CASE ExpireSnapshots(r) \/ ScanOrphans(r) \/ RemoveOrphans(r)
  <2>1. Orphans \in SUBSET Nat
    BY DEF Orphans, TypeInv
  <2> QED
    BY <1>5, <2>1 DEF RunInv, ExpireSnapshots, ScanOrphans, RemoveOrphans, Goto, Stage
<1>6. CASE StatsAfter(r) \/ Fail(r)
  BY <1>6 DEF RunInv, StatsAfter, Fail, Goto, Stage
<1>7. CASE Record(r)
  <2>1. NoEvidence \in Evidence
    BY DEF NoEvidence, Evidence
  <2> QED
    BY <1>7, <2>1 DEF RunInv, Record, Goto, Stage
<1> QED
  BY <1>1, <1>2, <1>3, <1>4, <1>5, <1>6, <1>7 DEF Maintain

\* The steps that leave the table and the rewrites alone.
LEMMA QuietType ==
    ASSUME TypeInv, RunInv', UNCHANGED <<log, expired, stored, written, pending>>,
           clock' \in Nat, draft' \in [Runner -> [old : SUBSET File, new : File]]
    PROVE  TypeInv'
  BY DEF TypeInv

LEMMA WriteType ==
    ASSUME TypeInv, written' = written + 1, WriteFile(written')
    PROVE  /\ written' \in Nat
           /\ DOMAIN stored' = DOMAIN stored \cup {written + 1}
           /\ DOMAIN stored' \subseteq 1..written'
           /\ stored'[written + 1] = clock
           /\ \A f \in DOMAIN stored : stored'[f] = stored[f]
           /\ \A f \in DOMAIN stored' : stored'[f] \in Nat
  BY DEF TypeInv, WriteFile

LEMMA CommitType ==
    ASSUME TypeInv, RunInv', NEW operation \in {"append", "overwrite", "replace"},
           NEW files \in SUBSET File, Commit(operation, files),
           UNCHANGED <<expired, stored, written, clock>>, pending' \in Nat,
           draft' \in [Runner -> [old : SUBSET File, new : File]]
    PROVE  TypeInv'
<1>1. /\ log' \in Seq(Snapshot) /\ Len(log) \in Nat /\ Len(log') = Len(log) + 1
      /\ DOMAIN log \subseteq DOMAIN log' /\ DOMAIN log = 1..Len(log)
  BY CommitAppends DEF Commit
<1>2. expired' \subseteq DOMAIN log' /\ Len(log') \notin expired'
  BY <1>1 DEF TypeInv
<1> QED
  BY <1>1, <1>2 DEF TypeInv

LEMMA StreamCommitsWhat ==
    ASSUME TypeInv, StreamCommits
    PROVE  \E operation \in {"append", "overwrite"}, files \in SUBSET File :
              /\ Commit(operation, files)
              /\ Ids(files) \subseteq Ids(Files) \cup {pending}
<1> DEFINE f == [id |-> pending, rows |-> {Len(log) + 1}]
<1>1. f \in File
  BY CommittedType
<1>2. CASE Commit("append", Files \cup {f})
  <2>1. Files \cup {f} \in SUBSET File
    BY <1>1, FilesType
  <2>2. Ids(Files \cup {f}) \subseteq Ids(Files) \cup {pending}
    BY DEF Ids
  <2> HIDE DEF f
  <2> QED
    BY <1>2, <2>1, <2>2
<1>3. ASSUME NEW g \in Files,
             Commit("overwrite", (Files \ {g}) \cup {f} \cup {[g EXCEPT !.rows = Less(@)]})
      PROVE  \E operation \in {"append", "overwrite"}, files \in SUBSET File :
                /\ Commit(operation, files)
                /\ Ids(files) \subseteq Ids(Files) \cup {pending}
  <2> DEFINE h == [g EXCEPT !.rows = Less(@)]
             all == (Files \ {g}) \cup {f} \cup {h}
  <2>1. h \in File /\ h.id = g.id
    BY CommittedType, FilesType DEF File
  <2>2. all \in SUBSET File
    BY <1>1, <2>1, FilesType
  <2>3. f.id = pending
    OBVIOUS
  <2>4. Ids(all) \subseteq Ids(Files) \cup {pending}
    <3> HIDE DEF f, h
    <3> QED
      BY <2>1, <2>3 DEF Ids
  <2> HIDE DEF all
  <2> QED
    BY <1>3, <2>2, <2>4 DEF all
<1> QED
  BY <1>2, <1>3 DEF StreamCommits

LEMMA TypeStep == TypeInv /\ [Next]_vars => TypeInv'
<1> SUFFICES ASSUME TypeInv, [Next]_vars PROVE TypeInv'
  OBVIOUS
<1> USE DEF table, run
<1>1. CASE Create \/ StreamDies \/ Tick \/ UNCHANGED vars
  BY <1>1 DEF Create, StreamDies, Tick, vars, TypeInv, RunInv
<1>2. CASE StreamWrites
  <2>1. RunInv' /\ UNCHANGED <<log, expired, clock, draft>>
    BY <1>2 DEF StreamWrites, TypeInv, RunInv
  <2> QED
    BY <1>2, <2>1, WriteType DEF StreamWrites, TypeInv
<1>3. CASE StreamCommits
  <2>1. RunInv' /\ UNCHANGED <<expired, stored, written, clock, draft>> /\ pending' = 0
    BY <1>3 DEF StreamCommits, TypeInv, RunInv
  <2>2. PICK operation \in {"append", "overwrite"}, files \in SUBSET File :
          Commit(operation, files)
    BY <1>3, StreamCommitsWhat
  <2>3. draft' \in [Runner -> [old : SUBSET File, new : File]] /\ pending' \in Nat
    BY <2>1 DEF TypeInv
  <2> QED
    BY <2>1, <2>2, <2>3, CommitType
<1>4. ASSUME NEW r \in Runner, Maintain(r) PROVE TypeInv'
  <2>1. RunInv'
    BY <1>4, RunType DEF TypeInv
  <2>2. CASE PlanRewrite(r)
    <3>1. CASE UNCHANGED <<stored, written, draft>>
      BY <2>1, <2>2, <3>1, QuietType DEF PlanRewrite, TypeInv
    <3>2. CASE ~ UNCHANGED <<stored, written, draft>>
      <4>1. PICK rows \in Rewritten(Rows(Files)) :
              draft' = [draft EXCEPT ![r] =
                          [old |-> Files, new |-> [id |-> written + 1, rows |-> rows]]]
        BY <2>2, <3>2 DEF PlanRewrite
      <4>2. rows \in SUBSET Nat
        BY FilesType, LessIsSubset DEF Rewritten
      <4>3. [old |-> Files, new |-> [id |-> written + 1, rows |-> rows]]
              \in [old : SUBSET File, new : File]
        BY <4>2, FilesType DEF File, TypeInv
      <4>4. draft' \in [Runner -> [old : SUBSET File, new : File]]
        BY <4>1, <4>3 DEF TypeInv
      <4>5. /\ written' = written + 1 /\ WriteFile(written')
            /\ UNCHANGED <<log, expired, pending, clock>>
        BY <2>2, <3>2 DEF PlanRewrite
      <4> QED
        BY <2>1, <4>4, <4>5, WriteType DEF TypeInv
    <3> QED
      BY <3>1, <3>2
  <2>3. CASE CommitRewrite(r)
    <3>1. /\ UNCHANGED <<expired, stored, written, pending, clock>>
          /\ draft' = [draft EXCEPT ![r] = NoDraft]
      BY <2>3 DEF CommitRewrite
    <3>2. draft' \in [Runner -> [old : SUBSET File, new : File]] /\ pending' \in Nat
      BY <3>1, CommittedType DEF TypeInv
    <3>3. CASE UNCHANGED log
      BY <2>1, <3>1, <3>2, <3>3, QuietType DEF TypeInv
    <3>4. CASE Commit("replace", (Files \ draft[r].old) \cup {draft[r].new})
      <4>1. (Files \ draft[r].old) \cup {draft[r].new} \in SUBSET File
        BY FilesType, CommittedType
      <4> QED
        BY <2>1, <3>1, <3>2, <3>4, <4>1, CommitType
    <3> QED
      BY <2>3, <3>3, <3>4 DEF CommitRewrite
  <2>4. CASE ExpireSnapshots(r)
    <3>1. /\ UNCHANGED <<log, written, pending, clock, draft>>
          /\ expired' = expired \cup {n \in DOMAIN log : Old(n)}
          /\ DOMAIN stored' \subseteq DOMAIN stored
          /\ \A f \in DOMAIN stored' : stored'[f] = stored[f]
      BY <2>4 DEF ExpireSnapshots
    <3>2. expired' \subseteq DOMAIN log /\ Len(log) \notin expired'
      BY <3>1, LenProperties DEF TypeInv, Old
    <3> QED
      BY <2>1, <3>1, <3>2 DEF TypeInv
  <2>5. CASE RemoveOrphans(r)
    <3>1. /\ UNCHANGED <<log, expired, written, pending, clock, draft>>
          /\ DOMAIN stored' \subseteq DOMAIN stored
          /\ \A f \in DOMAIN stored' : stored'[f] = stored[f]
      BY <2>5 DEF RemoveOrphans
    <3> QED
      BY <2>1, <3>1 DEF TypeInv
  <2>6. CASE \/ Begin(r) \/ TableExists(r) \/ StatsBefore(r) \/ FindRewrite(r)
             \/ CompareParent(r) \/ ScanOrphans(r) \/ StatsAfter(r) \/ Record(r)
    BY <2>1, <2>6, QuietType DEF Begin, TableExists, StatsBefore, FindRewrite,
       CompareParent, ScanOrphans, StatsAfter, Record, TypeInv
  <2>7. CASE Fail(r)
    <3>1. /\ UNCHANGED <<table, clock>>
          /\ draft' = [draft EXCEPT ![r] = NoDraft]
      BY <2>7 DEF Fail
    <3>2. draft' \in [Runner -> [old : SUBSET File, new : File]]
      BY <3>1, CommittedType DEF TypeInv
    <3> QED
      BY <2>1, <3>1, <3>2, QuietType DEF TypeInv
  <2> QED
    BY <1>4, <2>2, <2>3, <2>4, <2>5, <2>6, <2>7 DEF Maintain
<1> QED
  BY <1>1, <1>2, <1>3, <1>4 DEF Next, Stream

LEMMA InitType == ASSUME MaintenanceAssumption, Init PROVE TypeInv
  BY DEF Init, TypeInv, RunInv, Stage, NoDraft, NoFile, File, NoEvidence, Evidence

THEOREM TypeCorrect == Spec => []TypeInv
<1>1. Init => TypeInv
  BY InitType, MaintenanceAssumption
<1> QED
  BY <1>1, TypeStep, PTL DEF Spec

-----------------------------------------------------------------------------
(* Files                                                                   *)

\* The files of all snapshots, expired ones included.
Logged == UNION {Ids(log[n].files) : n \in DOMAIN log}

\* Every write has a file of its own, and what is about to be committed is one.
DraftInv ==
    /\ \A r \in Runner : stage[r] = "rewrite" => draft[r].new.id # 0
    /\ \A r \in Runner : draft[r].new.id # 0 =>
          /\ draft[r].new.id # pending
          /\ \A q \in Runner \ {r} : draft[q].new.id # draft[r].new.id

\* A file under way is stored, in no snapshot and too young to be an orphan;
\* what a runner is about to delete is neither under way nor in a snapshot that
\* can be read.
FileInv ==
    /\ NoFileMissing
    /\ Logged \subseteq 1..written
    /\ InFlight \subseteq DOMAIN stored
    /\ InFlight \cap Logged = {}
    /\ \A f \in InFlight : clock <= stored[f] + OrphanRetention
    /\ \A r \in Runner : /\ orphans[r] \subseteq 1..written
                         /\ orphans[r] \cap (Referenced \cup InFlight) = {}

LEMMA ReferencedIsLogged == Referenced \subseteq Logged
  BY DEF Referenced, Logged, Live

\* One more snapshot: its files, and nothing else, become referenced.
LEMMA CommitRefers ==
    ASSUME TypeInv, NEW operation \in {"append", "overwrite", "replace"},
           NEW files \in SUBSET File, Commit(operation, files), UNCHANGED expired
    PROVE  /\ Referenced' \subseteq Referenced \cup Ids(files)
           /\ Logged' \subseteq Logged \cup Ids(files)
<1>1. /\ DOMAIN log = 1..Len(log) /\ DOMAIN log' = 1..(Len(log) + 1)
      /\ \A n \in 1..Len(log) : log'[n] = log[n]
      /\ log'[Len(log) + 1].files = files /\ Len(log) \in Nat
  BY CommitAppends DEF Commit
<1>2. ASSUME NEW n \in DOMAIN log' PROVE n \in DOMAIN log \/ log'[n].files = files
  BY <1>1
<1>3. Logged' \subseteq Logged \cup Ids(files)
  BY <1>1, <1>2 DEF Logged, Ids
<1>4. Referenced' \subseteq Referenced \cup Ids(files)
  BY <1>1, <1>2 DEF Referenced, Live, Ids
<1> QED
  BY <1>3, <1>4

\* The commit of a file that was under way.
LEMMA CommitKeepsFiles ==
    ASSUME TypeInv, FileInv, NEW f \in InFlight,
           NEW operation \in {"append", "overwrite", "replace"},
           NEW files \in SUBSET File, Commit(operation, files),
           Ids(files) \subseteq Ids(Files) \cup {f},
           UNCHANGED <<expired, stored, written, clock, orphans>>,
           InFlight' \subseteq InFlight \ {f}
    PROVE  FileInv'
<1>1. /\ Referenced' \subseteq Referenced \cup {f}
      /\ Logged' \subseteq Logged \cup {f}
  <2>1. /\ Referenced' \subseteq Referenced \cup Ids(files)
        /\ Logged' \subseteq Logged \cup Ids(files)
    BY CommitRefers DEF Commit
  <2> QED
    BY <2>1, FilesType, ReferencedIsLogged
<1>2. f \in DOMAIN stored /\ f \in 1..written
  BY DEF FileInv, TypeInv
<1>3. NoFileMissing' /\ Logged' \subseteq 1..written'
  BY <1>1, <1>2 DEF FileInv, NoFileMissing
<1>4. InFlight' \subseteq DOMAIN stored' /\ InFlight' \cap Logged' = {}
  BY <1>1 DEF FileInv
<1>5. \A g \in InFlight' : clock' <= stored'[g] + OrphanRetention
  BY DEF FileInv
<1>6. ASSUME NEW r \in Runner
      PROVE  orphans'[r] \subseteq 1..written' /\ orphans'[r] \cap (Referenced' \cup InFlight') = {}
  BY <1>1 DEF FileInv
<1> QED
  BY <1>3, <1>4, <1>5, <1>6 DEF FileInv

\* A new file is written.
LEMMA WriteKeepsFiles ==
    ASSUME TypeInv, FileInv, written' = written + 1, WriteFile(written'),
           UNCHANGED <<log, expired, clock, orphans>>,
           InFlight' \subseteq InFlight \cup {written + 1}
    PROVE  FileInv'
<1>1. /\ written \in Nat /\ clock \in Nat
      /\ DOMAIN stored' = DOMAIN stored \cup {written + 1}
      /\ stored'[written + 1] = clock
      /\ \A f \in DOMAIN stored : stored'[f] = stored[f]
  BY WriteType DEF TypeInv
<1>2. Referenced' = Referenced /\ Logged' = Logged
  BY DEF Referenced, Logged, Live
<1>3. Logged' \subseteq 1..written' /\ written + 1 \notin Logged
  BY <1>1, <1>2 DEF FileInv
<1>4. NoFileMissing' /\ InFlight' \subseteq DOMAIN stored' /\ InFlight' \cap Logged' = {}
  BY <1>1, <1>2, <1>3 DEF FileInv, NoFileMissing
<1>5. \A g \in InFlight' : clock' <= stored'[g] + OrphanRetention
  BY <1>1, MaintenanceAssumption DEF FileInv
<1>6. ASSUME NEW r \in Runner
      PROVE  orphans'[r] \subseteq 1..written' /\ orphans'[r] \cap (Referenced' \cup InFlight') = {}
  <2>1. orphans[r] \subseteq 1..written /\ orphans[r] \cap (Referenced \cup InFlight) = {}
    BY DEF FileInv
  <2>2. written + 1 \notin 1..written /\ 1..written \subseteq 1..written'
    BY <1>1
  <2> QED
    BY <1>2, <2>1, <2>2
<1> QED
  BY <1>3, <1>4, <1>5, <1>6 DEF FileInv

\* Neither the snapshots nor the files change.
LEMMA QuietKeepsFiles ==
    ASSUME FileInv, UNCHANGED <<log, expired, stored, written, clock>>,
           InFlight' \subseteq InFlight,
           \A r \in Runner : orphans'[r] \subseteq orphans[r]
    PROVE  FileInv'
<1>1. Referenced' = Referenced /\ Logged' = Logged
  BY DEF Referenced, Logged, Live
<1> QED
  BY <1>1 DEF FileInv, NoFileMissing

LEMMA TickKeepsFiles == ASSUME TypeInv, FileInv, Tick PROVE FileInv'
<1>1. /\ \A f \in InFlight : clock < stored[f] + OrphanRetention
      /\ clock' = clock + 1
      /\ UNCHANGED <<log, expired, stored, written, pending, draft, orphans>>
  BY DEF Tick, table, run
<1>2. Referenced' = Referenced /\ Logged' = Logged /\ InFlight' = InFlight
  BY <1>1 DEF Referenced, Logged, Live, InFlight
<1>3. \A f \in InFlight : clock \in Nat /\ stored[f] \in Nat
  BY DEF FileInv, TypeInv
<1>4. \A f \in InFlight' : clock' <= stored'[f] + OrphanRetention
  BY <1>1, <1>2, <1>3, MaintenanceAssumption
<1> QED
  BY <1>1, <1>2, <1>4 DEF FileInv, NoFileMissing

\* Expiry removes only files of expired snapshots that no other refers to.
LEMMA ExpireKeepsFiles ==
    ASSUME TypeInv, FileInv, NEW r \in Runner, ExpireSnapshots(r)
    PROVE  FileInv'
<1> DEFINE dropped == UNION {Ids(log[n].files) : n \in expired'}
           kept    == UNION {Ids(log[n].files) : n \in DOMAIN log \ expired'}
<1>1. /\ UNCHANGED <<log, written, pending, clock, draft, orphans>>
      /\ expired' = expired \cup {n \in DOMAIN log : Old(n)}
      /\ stored' = [f \in DOMAIN stored \ (dropped \ kept) |-> stored[f]]
  BY DEF ExpireSnapshots
<1>2. expired' \subseteq DOMAIN log /\ expired \subseteq expired'
  BY <1>1 DEF TypeInv
<1>3. kept = Referenced' /\ kept \subseteq Referenced /\ dropped \subseteq Logged
  BY <1>1, <1>2 DEF Referenced, Live, Logged
<1>4. Logged' = Logged /\ InFlight' = InFlight
  BY <1>1 DEF Logged, InFlight
<1> HIDE DEF dropped, kept
<1>5. /\ DOMAIN stored' = DOMAIN stored \ (dropped \ kept)
      /\ \A f \in DOMAIN stored' : stored'[f] = stored[f]
  BY <1>1
<1>6. NoFileMissing' /\ InFlight' \subseteq DOMAIN stored'
  BY <1>3, <1>4, <1>5 DEF FileInv, NoFileMissing
<1>7. \A f \in InFlight' : clock' <= stored'[f] + OrphanRetention
  BY <1>1, <1>4, <1>5, <1>6 DEF FileInv
<1> QED
  BY <1>1, <1>3, <1>4, <1>6, <1>7 DEF FileInv

\* What is old enough to be an orphan is not under way.
LEMMA ScanKeepsFiles ==
    ASSUME TypeInv, FileInv, NEW r \in Runner, ScanOrphans(r)
    PROVE  FileInv'
<1>1. /\ UNCHANGED <<log, expired, stored, written, pending, clock, draft>>
      /\ orphans' = [orphans EXCEPT ![r] = Orphans]
  BY DEF ScanOrphans, table
<1>2. Referenced' = Referenced /\ Logged' = Logged /\ InFlight' = InFlight
  BY <1>1 DEF Referenced, Logged, Live, InFlight
<1>3. Orphans \subseteq 1..written /\ Orphans \cap (Referenced \cup InFlight) = {}
  <2>1. ASSUME NEW f \in Orphans, f \in InFlight PROVE FALSE
    <3>1. stored[f] + OrphanRetention < clock /\ clock <= stored[f] + OrphanRetention
      BY <2>1 DEF Orphans, FileInv
    <3>2. stored[f] \in Nat /\ clock \in Nat
      BY <2>1 DEF Orphans, TypeInv
    <3> QED
      BY <3>1, <3>2, MaintenanceAssumption
  <2> QED
    BY <2>1 DEF Orphans, TypeInv
<1>4. ASSUME NEW q \in Runner
      PROVE  orphans'[q] \subseteq 1..written /\ orphans'[q] \cap (Referenced \cup InFlight) = {}
  <2>1. orphans'[q] = IF q = r THEN Orphans ELSE orphans[q]
    BY <1>1 DEF TypeInv, RunInv
  <2> QED
    BY <1>3, <2>1 DEF FileInv
<1> QED
  BY <1>1, <1>2, <1>4 DEF FileInv, NoFileMissing

LEMMA RemoveKeepsFiles ==
    ASSUME TypeInv, FileInv, NEW r \in Runner, RemoveOrphans(r)
    PROVE  FileInv'
<1>1. /\ UNCHANGED <<log, expired, written, pending, clock, draft>>
      /\ DOMAIN stored' = DOMAIN stored \ orphans[r]
      /\ \A f \in DOMAIN stored' : stored'[f] = stored[f]
      /\ orphans' = [orphans EXCEPT ![r] = {}]
  BY DEF RemoveOrphans
<1>2. Referenced' = Referenced /\ Logged' = Logged /\ InFlight' = InFlight
  BY <1>1 DEF Referenced, Logged, Live, InFlight
<1>3. orphans[r] \cap (Referenced \cup InFlight) = {}
  BY DEF FileInv
<1>4. NoFileMissing' /\ InFlight' \subseteq DOMAIN stored'
  BY <1>1, <1>2, <1>3 DEF FileInv, NoFileMissing
<1>5. \A f \in InFlight' : clock' <= stored'[f] + OrphanRetention
  BY <1>1, <1>2, <1>4 DEF FileInv
<1>6. \A q \in Runner : orphans'[q] \subseteq orphans[q]
  BY <1>1 DEF TypeInv, RunInv
<1> QED
  BY <1>1, <1>2, <1>4, <1>5, <1>6 DEF FileInv

\* What becomes of the files under way when a runner has done with its draft.
LEMMA DraftDropped ==
    ASSUME TypeInv, DraftInv, NEW r \in Runner, draft' = [draft EXCEPT ![r] = NoDraft],
           UNCHANGED pending
    PROVE  /\ InFlight' \subseteq InFlight \ {draft[r].new.id}
           /\ \A q \in Runner : draft'[q] = IF q = r THEN NoDraft ELSE draft[q]
<1>1. \A q \in Runner : draft'[q] = IF q = r THEN NoDraft ELSE draft[q]
  BY DEF TypeInv
<1>2. NoDraft.new.id = 0
  BY DEF NoDraft, NoFile
<1> QED
  BY <1>1, <1>2 DEF InFlight, DraftInv

LEMMA DraftStep ==
    ASSUME TypeInv, FileInv, DraftInv, [Next]_vars
    PROVE  DraftInv'
<1> USE DEF table, run
<1>1. CASE Create \/ StreamDies \/ StreamCommits \/ Tick \/ UNCHANGED vars
  <2>1. UNCHANGED <<draft, stage>> /\ pending' \in {pending, 0}
    BY <1>1 DEF Create, StreamDies, StreamCommits, Tick, vars
  <2> QED
    BY <2>1 DEF DraftInv
<1>2. \A q \in Runner : draft[q].new.id # 0 => draft[q].new.id \in 1..written
  BY DEF InFlight, FileInv, TypeInv
<1>3. pending # 0 => pending \in 1..written
  BY DEF InFlight, FileInv, TypeInv
<1>4. written \in Nat
  BY DEF TypeInv
<1>5. CASE StreamWrites
  <2>1. UNCHANGED <<draft, stage>> /\ pending' = written + 1
    BY <1>5 DEF StreamWrites
  <2> QED
    BY <1>2, <1>4, <2>1 DEF DraftInv
<1>6. ASSUME NEW r \in Runner, PlanRewrite(r) PROVE DraftInv'
  <2>1. UNCHANGED pending
    BY <1>6 DEF PlanRewrite
  <2>2. CASE Goto(r, "find") /\ UNCHANGED draft
    BY <2>1, <2>2 DEF Goto, DraftInv, TypeInv, RunInv
  <2>3. CASE ~(Goto(r, "find") /\ UNCHANGED draft)
    <3>1. PICK rows : draft' = [draft EXCEPT ![r] =
                         [old |-> Files, new |-> [id |-> written + 1, rows |-> rows]]]
      BY <1>6, <2>3 DEF PlanRewrite
    <3>2. stage' = [stage EXCEPT ![r] = "rewrite"]
      BY <1>6, <2>3 DEF PlanRewrite, Goto
    <3>3. \A q \in Runner : draft'[q].new.id =
                              IF q = r THEN written + 1 ELSE draft[q].new.id
      BY <3>1 DEF TypeInv
    <3>4. \A q \in Runner : stage'[q] = IF q = r THEN "rewrite" ELSE stage[q]
      BY <3>2 DEF TypeInv, RunInv
    <3> QED
      BY <1>2, <1>3, <1>4, <2>1, <3>3, <3>4 DEF DraftInv
  <2> QED
    BY <2>2, <2>3
<1>7. ASSUME NEW r \in Runner, CommitRewrite(r) \/ Fail(r) PROVE DraftInv'
  <2>1. /\ draft' = [draft EXCEPT ![r] = NoDraft] /\ UNCHANGED pending
        /\ \E s \in Stage \ {"rewrite"} : stage' = [stage EXCEPT ![r] = s]
    BY <1>7 DEF CommitRewrite, Fail, Goto, Stage
  <2>2. \A q \in Runner : stage'[q] = "rewrite" => q # r /\ stage[q] = "rewrite"
    BY <2>1 DEF TypeInv, RunInv
  <2>3. \A q \in Runner : draft'[q] = IF q = r THEN NoDraft ELSE draft[q]
    BY <2>1, DraftDropped
  <2>4. NoDraft.new.id = 0
    BY DEF NoDraft, NoFile
  <2> QED
    BY <2>1, <2>2, <2>3, <2>4 DEF DraftInv
<1>8. ASSUME NEW r \in Runner, Maintain(r),
             ~PlanRewrite(r), ~CommitRewrite(r), ~Fail(r)
      PROVE  DraftInv'
  <2>1. /\ UNCHANGED <<draft, pending>>
        /\ \E s \in Stage \ {"rewrite"} : stage' = [stage EXCEPT ![r] = s]
    BY <1>8 DEF Maintain, Begin, TableExists, StatsBefore, FindRewrite, CompareParent,
       ExpireSnapshots, ScanOrphans, RemoveOrphans, StatsAfter, Record, Goto, Stage
  <2>2. \A q \in Runner : stage'[q] = "rewrite" => stage[q] = "rewrite"
    BY <2>1 DEF TypeInv, RunInv
  <2> QED
    BY <2>1, <2>2 DEF DraftInv
<1> QED
  BY <1>1, <1>5, <1>6, <1>7, <1>8 DEF Next, Stream

LEMMA FileStep ==
    ASSUME TypeInv, FileInv, DraftInv, [Next]_vars
    PROVE  FileInv'
<1> USE DEF table, run
<1>1. CASE Create \/ StreamDies \/ UNCHANGED vars
  <2>1. /\ UNCHANGED <<log, expired, stored, written, clock, draft, orphans>>
        /\ pending' \in {pending, 0}
    BY <1>1 DEF Create, StreamDies, vars
  <2>2. InFlight' \subseteq InFlight
    BY <2>1 DEF InFlight
  <2> QED
    BY <2>1, <2>2, QuietKeepsFiles
<1>2. CASE StreamWrites
  <2>1. /\ written' = written + 1 /\ pending' = written + 1
        /\ UNCHANGED <<log, expired, clock, orphans, draft>>
    BY <1>2 DEF StreamWrites
  <2>2. InFlight' \subseteq InFlight \cup {written + 1}
    BY <2>1 DEF InFlight
  <2>3. WriteFile(written')
    BY <1>2, <2>1 DEF StreamWrites
  <2> QED
    BY <2>1, <2>2, <2>3, WriteKeepsFiles
<1>3. CASE StreamCommits
  <2>1. PICK operation \in {"append", "overwrite"}, files \in SUBSET File :
          Commit(operation, files) /\ Ids(files) \subseteq Ids(Files) \cup {pending}
    BY <1>3, StreamCommitsWhat
  <2>2. /\ pending # 0 /\ pending' = 0
        /\ UNCHANGED <<expired, stored, written, clock, draft, orphans>>
    BY <1>3 DEF StreamCommits
  <2>3. pending \in InFlight /\ InFlight' \subseteq InFlight \ {pending}
    BY <2>2 DEF InFlight, DraftInv
  <2> QED
    BY <2>1, <2>2, <2>3, CommitKeepsFiles DEF Commit
<1>4. CASE Tick
  BY <1>4, TickKeepsFiles
<1>5. ASSUME NEW r \in Runner, PlanRewrite(r) PROVE FileInv'
  <2>1. UNCHANGED <<log, expired, pending, clock, orphans>>
    BY <1>5 DEF PlanRewrite
  <2>2. CASE UNCHANGED <<stored, written, draft>>
    <3>1. InFlight' = InFlight
      BY <2>1, <2>2 DEF InFlight
    <3> QED
      BY <2>1, <2>2, <3>1, QuietKeepsFiles
  <2>3. CASE ~ UNCHANGED <<stored, written, draft>>
    <3>1. PICK rows : draft' = [draft EXCEPT ![r] =
                         [old |-> Files, new |-> [id |-> written + 1, rows |-> rows]]]
      BY <1>5, <2>3 DEF PlanRewrite
    <3>2. \A q \in Runner : draft'[q].new.id =
                              IF q = r THEN written + 1 ELSE draft[q].new.id
      BY <3>1 DEF TypeInv
    <3>3. InFlight' \subseteq InFlight \cup {written + 1}
      BY <2>1, <3>2 DEF InFlight
    <3>4. written' = written + 1 /\ WriteFile(written')
      BY <1>5, <2>3 DEF PlanRewrite
    <3> QED
      BY <2>1, <3>3, <3>4, WriteKeepsFiles
  <2> QED
    BY <2>2, <2>3
<1>6. ASSUME NEW r \in Runner, CommitRewrite(r) PROVE FileInv'
  <2> DEFINE f == draft[r].new.id
             files == (Files \ draft[r].old) \cup {draft[r].new}
  <2>1. /\ draft' = [draft EXCEPT ![r] = NoDraft] /\ stage[r] = "rewrite"
        /\ UNCHANGED <<expired, stored, written, pending, clock, orphans>>
    BY <1>6 DEF CommitRewrite, At
  <2>2. InFlight' \subseteq InFlight \ {f} /\ f \in InFlight
    BY <2>1, DraftDropped DEF DraftInv, InFlight
  <2>3. CASE Commit("replace", files)
    <3>1. files \in SUBSET File /\ Ids(files) \subseteq Ids(Files) \cup {f}
      BY FilesType, CommittedType DEF Ids
    <3> HIDE DEF f, files
    <3> QED
      BY <2>1, <2>2, <2>3, <3>1, CommitKeepsFiles DEF Commit
  <2>4. CASE UNCHANGED log
    BY <2>1, <2>2, <2>4, QuietKeepsFiles
  <2> QED
    BY <1>6, <2>3, <2>4 DEF CommitRewrite
<1>7. ASSUME NEW r \in Runner, ExpireSnapshots(r) \/ ScanOrphans(r) \/ RemoveOrphans(r)
      PROVE  FileInv'
  BY <1>7, ExpireKeepsFiles, ScanKeepsFiles, RemoveKeepsFiles
<1>8. ASSUME NEW r \in Runner, Fail(r) PROVE FileInv'
  <2>1. /\ UNCHANGED <<log, expired, stored, written, pending, clock>>
        /\ draft' = [draft EXCEPT ![r] = NoDraft]
        /\ orphans' = [orphans EXCEPT ![r] = {}]
    BY <1>8 DEF Fail
  <2>2. \A q \in Runner : orphans'[q] \subseteq orphans[q]
    BY <2>1 DEF TypeInv, RunInv
  <2> QED
    BY <2>1, <2>2, DraftDropped, QuietKeepsFiles
<1>9. ASSUME NEW r \in Runner,
             \/ Begin(r) \/ TableExists(r) \/ StatsBefore(r) \/ FindRewrite(r)
             \/ CompareParent(r) \/ StatsAfter(r) \/ Record(r)
      PROVE  FileInv'
  <2>1. UNCHANGED <<log, expired, stored, written, pending, clock, draft, orphans>>
    BY <1>9 DEF Begin, TableExists, StatsBefore, FindRewrite, CompareParent, StatsAfter,
       Record
  <2>2. InFlight' = InFlight
    BY <2>1 DEF InFlight
  <2> QED
    BY <2>1, <2>2, QuietKeepsFiles
<1> QED
  BY <1>1, <1>2, <1>3, <1>4, <1>5, <1>6, <1>7, <1>8, <1>9 DEF Next, Stream, Maintain

\* No file that a snapshot still needs is ever deleted, whatever the stream and
\* the other runners do between the statements (Policy 70-76).
THEOREM FilesStay == Spec => []NoFileMissing
<1>1. Init => FileInv /\ DraftInv
  <2> SUFFICES ASSUME Init PROVE FileInv /\ DraftInv
    OBVIOUS
  <2>1. log = <<>> /\ written = 0 /\ pending = 0 /\ \A r \in Runner : draft[r] = NoDraft
    BY DEF Init
  <2>2. NoDraft.new.id = 0
    BY DEF NoDraft, NoFile
  <2>3. Logged = {} /\ Referenced = {} /\ InFlight = {}
    BY <2>1, <2>2 DEF Logged, Referenced, Live, InFlight
  <2>4. \A r \in Runner : stage[r] = "idle" /\ orphans[r] = {}
    BY DEF Init
  <2> QED
    BY <2>1, <2>2, <2>3, <2>4 DEF FileInv, DraftInv, NoFileMissing
<1>2. TypeInv /\ FileInv /\ DraftInv /\ [Next]_vars => (FileInv /\ DraftInv)'
  BY FileStep, DraftStep
<1>3. FileInv => NoFileMissing
  BY DEF FileInv
<1> QED
  BY <1>1, <1>2, <1>3, TypeCorrect, PTL DEF Spec

-----------------------------------------------------------------------------
(* Evidence                                                                *)

\* What a run knows of a rewrite is what the log says.
Truth(r) ==
    LET n == evidence[r].rewrite
    IN  /\ before[r] \in 0..Len(log) /\ own[r] \in 0..Len(log) /\ n \in 0..Len(log)
        /\ n # 0 => evidence[r].rows = Content(n)
        /\ stage[r] = "parent" => n # 0
        /\ evidence[r].match # "none" =>
              /\ n # 0
              /\ evidence[r].match = "same" <=> Content(n) = Content(n - 1)

Reset(r) ==
    /\ stage[r] = "idle" => own[r] = 0
    /\ status[r] = "succeeded" => stage[r] = "record"

\* Nobody else rewrites or expires beside a run that is alone: the newest
\* rewrite after its beginning is its own, and is there when it is looked for.
Rewrote(r) ==
    /\ own[r] > before[r] /\ log[own[r]].operation = "replace"
    /\ \A n \in DOMAIN log : log[n].operation = "replace" => n <= own[r] \/ n <= before[r]
    /\ stage[r] \in {"plan", "rewrite", "find"} => own[r] \notin expired

Compared(r) ==
    /\ stage[r] \in {"parent", "expire", "scan", "remove", "after"} =>
          evidence[r].rewrite = own[r]
    /\ stage[r] \in {"expire", "scan", "remove", "after"} => evidence[r].match # "none"
    /\ status[r] = "succeeded" =>
          evidence[r].rewrite = own[r] /\ evidence[r].match = "same"

Undisturbed(r) ==
    /\ stage[r] # "idle" /\ \A q \in Runner \ {r} : stage[q] = "idle"
    /\ stage[r] \in {"exists", "before"} => own[r] = 0
    /\ own[r] # 0 => Rewrote(r)
    /\ own[r] # 0 /\ before[r] # 0 => Compared(r)

RunOk(r) == Truth(r) /\ Reset(r) /\ (alone[r] => Undisturbed(r))

LEMMA LogStep ==
    ASSUME TypeInv, [Next]_vars
    PROVE  /\ Len(log) \in Nat /\ Len(log') \in Nat /\ Len(log) <= Len(log')
           /\ DOMAIN log = 1..Len(log) /\ DOMAIN log' = 1..Len(log')
           /\ \A n \in 1..Len(log) : log'[n] = log[n]
           /\ \A n \in 0..Len(log) : Content(n)' = Content(n)
<1>1. \/ UNCHANGED log
      \/ \E operation \in {"append", "overwrite", "replace"}, files \in SUBSET File :
            Commit(operation, files)
  <2>1. CASE StreamCommits
    BY <2>1, StreamCommitsWhat
  <2>2. ASSUME NEW r \in Runner, CommitRewrite(r)
        PROVE  \/ UNCHANGED log
               \/ \E files \in SUBSET File : Commit("replace", files)
    <3> DEFINE files == (Files \ draft[r].old) \cup {draft[r].new}
    <3>1. files \in SUBSET File
      BY FilesType, CommittedType
    <3>2. UNCHANGED log \/ Commit("replace", files)
      BY <2>2 DEF CommitRewrite
    <3> HIDE DEF files
    <3> QED
      BY <3>1, <3>2
  <2>3. CASE Create \/ StreamWrites \/ StreamDies \/ Tick \/ UNCHANGED vars
    BY <2>3 DEF Create, StreamWrites, StreamDies, Tick, vars, table
  <2>4. ASSUME NEW r \in Runner, Maintain(r), ~CommitRewrite(r)
        PROVE  UNCHANGED log
    BY <2>4 DEF Maintain, Begin, TableExists, StatsBefore, PlanRewrite, FindRewrite,
       CompareParent, ExpireSnapshots, ScanOrphans, RemoveOrphans, StatsAfter, Fail,
       Record, table
  <2> QED
    BY <2>1, <2>2, <2>3, <2>4 DEF Next, Stream
<1>2. Len(log) \in Nat /\ DOMAIN log = 1..Len(log)
  BY LenProperties DEF TypeInv
<1>3. CASE UNCHANGED log
  BY <1>2, <1>3 DEF Content
<1>4. ASSUME NEW operation \in {"append", "overwrite", "replace"},
             NEW files \in SUBSET File, Commit(operation, files)
      PROVE  /\ Len(log') = Len(log) + 1 /\ DOMAIN log' = 1..(Len(log) + 1)
             /\ \A n \in 1..Len(log) : log'[n] = log[n]
  BY <1>4, CommitAppends DEF Commit
<1>5. \/ UNCHANGED log
      \/ /\ Len(log') = Len(log) + 1 /\ DOMAIN log' = 1..(Len(log) + 1)
         /\ \A n \in 1..Len(log) : log'[n] = log[n]
  BY <1>1, <1>4
<1>6. \A n \in 1..Len(log) : log'[n] = log[n]
  BY <1>5
<1>7. \A n \in 0..Len(log) : Content(n)' = Content(n)
  BY <1>2, <1>6 DEF Content
<1> QED
  BY <1>2, <1>5, <1>6, <1>7

\* The stream does not rewrite.
LEMMA StreamDoesNotRewrite ==
    ASSUME TypeInv, StreamCommits
    PROVE  \A n \in DOMAIN log' \ DOMAIN log : log'[n].operation # "replace"
<1>1. PICK operation \in {"append", "overwrite"}, files \in SUBSET File :
        Commit(operation, files)
  BY StreamCommitsWhat
<1>2. /\ Len(log) \in Nat /\ DOMAIN log = 1..Len(log) /\ DOMAIN log' = 1..(Len(log) + 1)
      /\ log'[Len(log) + 1] =
           [operation |-> operation, files |-> files, at |-> clock]
  BY <1>1, CommitAppends DEF Commit
<1> QED
  BY <1>2

\* The log may grow while a run stands still.
LEMMA TruthKept ==
    ASSUME TypeInv, [Next]_vars, NEW r \in Runner, Truth(r),
           own'[r] = own[r], evidence'[r] = evidence[r],
           before'[r] \in {before[r], Len(log)},
           stage'[r] = "parent" => stage[r] = "parent"
    PROVE  Truth(r)'
<1> DEFINE n == evidence[r].rewrite
<1>1. /\ Len(log) \in Nat /\ Len(log') \in Nat /\ Len(log) <= Len(log')
      /\ \A m \in 0..Len(log) : Content(m)' = Content(m)
  BY LogStep
<1>2. n \in 0..Len(log) /\ own[r] \in 0..Len(log) /\ before'[r] \in 0..Len(log)
  BY <1>1 DEF Truth
<1>3. Content(n)' = Content(n)
  BY <1>1, <1>2
<1>4. n # 0 => Content(n - 1)' = Content(n - 1)
  BY <1>1, <1>2
<1>5. /\ n \in 0..Len(log') /\ own'[r] \in 0..Len(log')
      /\ before'[r] \in 0..Len(log')
  BY <1>1, <1>2
<1> QED
  BY <1>3, <1>4, <1>5 DEF Truth, Content

LEMMA Standing ==
    ASSUME TypeInv, [Next]_vars, NEW r \in Runner, RunOk(r),
           own'[r] = own[r], evidence'[r] = evidence[r], stage'[r] = stage[r],
           status'[r] = status[r], before'[r] = before[r],
           alone'[r] => /\ alone[r] /\ UNCHANGED expired
                        /\ \A q \in Runner \ {r} : stage'[q] = stage[q]
                        /\ \A n \in DOMAIN log' \ DOMAIN log : log'[n].operation # "replace"
    PROVE  RunOk(r)'
<1>1. Truth(r)' /\ Reset(r)'
  BY TruthKept DEF RunOk, Reset
<1>2. ASSUME alone'[r] PROVE Undisturbed(r)'
  <2>1. /\ Len(log) \in Nat /\ DOMAIN log = 1..Len(log)
        /\ \A n \in 1..Len(log) : log'[n] = log[n]
    BY LogStep
  <2>2. Undisturbed(r) /\ own[r] \in 0..Len(log)
    BY <1>2 DEF RunOk, Truth
  <2>3. own[r] # 0 => Rewrote(r)'
    BY <1>2, <2>1, <2>2 DEF Undisturbed, Rewrote
  <2>4. Compared(r)' <=> Compared(r)
    BY DEF Compared
  <2> QED
    BY <1>2, <2>2, <2>3, <2>4 DEF Undisturbed
<1> QED
  BY <1>1, <1>2 DEF RunOk

LEMMA FindsOwn ==
    ASSUME TypeInv, NEW r \in Runner, RunOk(r), alone[r], own[r] # 0, stage[r] = "find"
    PROVE  /\ own[r] \in {n \in Live : log[n].operation = "replace" /\ n > before[r]}
           /\ \A n \in Live : log[n].operation = "replace" /\ n > before[r] => n <= own[r]
<1>1. Rewrote(r) /\ own[r] \in 0..Len(log) /\ before[r] \in 0..Len(log)
  BY DEF RunOk, Undisturbed, Truth
<1>2. Len(log) \in Nat /\ DOMAIN log = 1..Len(log)
  BY LenProperties DEF TypeInv
<1> QED
  BY <1>1, <1>2 DEF Rewrote, Live

LEMMA ActingOk ==
    ASSUME TypeInv, [Next]_vars, NEW r \in Runner, Maintain(r), RunOk(r)
    PROVE  RunOk(r)'
<1> USE DEF table
<1>0. /\ Len(log) \in Nat /\ DOMAIN log = 1..Len(log)
      /\ before[r] \in 0..Len(log) /\ own[r] \in 0..Len(log)
  BY LogStep DEF RunOk, Truth
<1>1. CASE Begin(r)
  <2>1. /\ stage[r] = "idle" /\ stage' = [stage EXCEPT ![r] = "exists"]
        /\ UNCHANGED <<before, evidence, status, own>>
        /\ alone'[r] = (\A p \in Runner \ {r} : stage[p] = "idle")
    BY <1>1 DEF Begin, Goto, At
  <2>2. \A q \in Runner : stage'[q] = IF q = r THEN "exists" ELSE stage[q]
    BY <2>1 DEF TypeInv, RunInv
  <2>3. own'[r] = 0 /\ status'[r] # "succeeded"
    BY <2>1 DEF RunOk, Reset
  <2>4. Truth(r)'
    BY <2>1, <2>2, TruthKept DEF RunOk
  <2> QED
    BY <2>1, <2>2, <2>3, <2>4 DEF RunOk, Reset, Undisturbed
<1>2. CASE TableExists(r) \/ StatsBefore(r)
  <2>1. PICK s \in {"before", "plan", "record"} : stage' = [stage EXCEPT ![r] = s]
    BY <1>2 DEF TableExists, StatsBefore, Goto
  <2>2. /\ UNCHANGED <<evidence, own, alone>> /\ before'[r] \in {before[r], Len(log)}
        /\ status'[r] \in {status[r], "skipped"} /\ stage[r] \in {"exists", "before"}
    BY <1>2 DEF TableExists, StatsBefore, At, TypeInv, RunInv
  <2>3. \A q \in Runner : stage'[q] = IF q = r THEN s ELSE stage[q]
    BY <2>1 DEF TypeInv, RunInv
  <2>4. Truth(r)'
    BY <2>2, <2>3, TruthKept DEF RunOk
  <2> QED
    BY <2>2, <2>3, <2>4 DEF RunOk, Reset, Undisturbed
<1>3. CASE PlanRewrite(r)
  <2>1. PICK s \in {"find", "rewrite"} : stage' = [stage EXCEPT ![r] = s]
    BY <1>3 DEF PlanRewrite, Goto
  <2>2. /\ UNCHANGED <<log, expired, before, evidence, own, alone, status>>
        /\ stage[r] = "plan"
    BY <1>3 DEF PlanRewrite, At
  <2>3. \A q \in Runner : stage'[q] = IF q = r THEN s ELSE stage[q]
    BY <2>1 DEF TypeInv, RunInv
  <2>4. Truth(r)'
    BY <2>2, <2>3, TruthKept DEF RunOk
  <2> QED
    BY <2>2, <2>3, <2>4 DEF RunOk, Reset, Undisturbed, Rewrote, Compared
<1>4. CASE CommitRewrite(r)
  <2>1. PICK s \in {"find", "plan"} : stage' = [stage EXCEPT ![r] = s]
    BY <1>4 DEF CommitRewrite, Goto
  <2>2. UNCHANGED <<expired, before, evidence, alone, status>> /\ stage[r] = "rewrite"
    BY <1>4 DEF CommitRewrite, At
  <2>3. \A q \in Runner : stage'[q] = IF q = r THEN s ELSE stage[q]
    BY <2>1 DEF TypeInv, RunInv
  <2>4. CASE UNCHANGED <<log, own>>
    <3>1. Truth(r)'
      BY <2>2, <2>3, <2>4, TruthKept DEF RunOk
    <3> QED
      BY <2>2, <2>3, <2>4, <3>1 DEF RunOk, Reset, Undisturbed, Rewrote, Compared
  <2>5. CASE ~ UNCHANGED <<log, own>>
    <3> DEFINE files == (Files \ draft[r].old) \cup {draft[r].new}
    <3>1. Commit("replace", files) /\ own' = [own EXCEPT ![r] = Len(log) + 1]
      BY <1>4, <2>5 DEF CommitRewrite
    <3>2. files \in SUBSET File
      BY FilesType, CommittedType
    <3> HIDE DEF files
    <3>3. /\ Len(log') = Len(log) + 1 /\ DOMAIN log' = 1..(Len(log) + 1)
          /\ log'[Len(log) + 1].operation = "replace"
      BY <3>1, <3>2, CommitAppends DEF Commit
    <3>4. own'[r] = Len(log) + 1 /\ Len(log) + 1 \notin expired
      BY <1>0, <3>1 DEF TypeInv, RunInv
    <3>5. Truth(r)'
      <4>1. /\ evidence[r].rewrite \in 0..Len(log)
            /\ \A m \in 0..Len(log) : Content(m)' = Content(m)
        BY LogStep DEF RunOk, Truth
      <4> PICK n \in 0..Len(log) : n = evidence[r].rewrite
        BY <4>1
      <4>2. n # 0 => Content(n)' = Content(n) /\ Content(n - 1)' = Content(n - 1)
        BY <1>0, <4>1
      <4> QED
        BY <1>0, <2>2, <2>3, <3>3, <3>4, <4>1, <4>2 DEF RunOk, Truth, Content
    <3>6. Rewrote(r)'
      BY <1>0, <2>2, <3>3, <3>4 DEF Rewrote
    <3>7. Compared(r)'
      BY <2>2, <2>3 DEF RunOk, Reset, Compared
    <3> QED
      BY <2>2, <2>3, <3>5, <3>6, <3>7 DEF RunOk, Reset, Undisturbed
  <2> QED
    BY <2>4, <2>5
<1>5. CASE FindRewrite(r)
  <2> DEFINE rewrites == {n \in Live : log[n].operation = "replace" /\ n > before[r]}
  <2>1. /\ UNCHANGED <<log, expired, before, own, alone, status>> /\ stage[r] = "find"
        /\ \A n : Content(n)' = Content(n)
    BY <1>5 DEF FindRewrite, At, Content
  <2>2. CASE before[r] = 0 \/ rewrites = {}
    <3>1. evidence' = evidence /\ stage' = [stage EXCEPT ![r] = "expire"]
      BY <1>5, <2>2 DEF FindRewrite, Goto
    <3>2. \A q \in Runner : stage'[q] = IF q = r THEN "expire" ELSE stage[q]
      BY <3>1 DEF TypeInv, RunInv
    <3>3. Truth(r)'
      BY <2>1, <3>1, <3>2, TruthKept DEF RunOk
    <3>4. alone[r] /\ own[r] # 0 => before[r] = 0
      BY <2>1, <2>2, FindsOwn
    <3> QED
      BY <2>1, <3>2, <3>3, <3>4 DEF RunOk, Reset, Undisturbed, Rewrote
  <2>3. CASE ~(before[r] = 0 \/ rewrites = {})
    <3> DEFINE top == Max(rewrites)
    <3>1. /\ evidence' = [evidence EXCEPT ![r] =
                            [rewrite |-> top, rows |-> Content(top), match |-> "none"]]
          /\ stage' = [stage EXCEPT ![r] = "parent"]
      BY <1>5, <2>3 DEF FindRewrite, Goto
    <3>2. /\ \A q \in Runner : stage'[q] = IF q = r THEN "parent" ELSE stage[q]
          /\ evidence'[r] = [rewrite |-> top, rows |-> Content(top), match |-> "none"]
      BY <3>1 DEF TypeInv, RunInv
    <3>3. top \in rewrites /\ \A n \in rewrites : n <= top
      <4>1. /\ rewrites \in SUBSET Int /\ rewrites # {} /\ Len(log) \in Int
            /\ \A n \in rewrites : n <= Len(log)
        BY <1>0, <2>3 DEF Live
      <4> HIDE DEF rewrites
      <4> QED
        BY <4>1, MaxIsGreatest
    <3>4. top \in 1..Len(log) /\ top > before[r] /\ log[top].operation = "replace"
          /\ top \in Live
      BY <1>0, <3>3 DEF Live
    <3>5. alone[r] /\ own[r] # 0 => top = own[r]
      <4>1. alone[r] /\ own[r] # 0 => own[r] <= top /\ top <= own[r]
        BY <2>1, <3>3, <3>4, FindsOwn
      <4> HIDE DEF top
      <4> QED
        BY <1>0, <3>4, <4>1
    <3> HIDE DEF top, rewrites
    <3>6. Truth(r)'
      BY <1>0, <2>1, <3>2, <3>4 DEF Truth
    <3> QED
      BY <2>1, <3>2, <3>5, <3>6 DEF RunOk, Reset, Undisturbed, Rewrote, Compared
  <2> QED
    BY <2>2, <2>3
<1>6. CASE CompareParent(r)
  <2> DEFINE n == evidence[r].rewrite
             m == IF evidence[r].rows = Content(Parent(r)) THEN "same" ELSE "changed"
  <2>1. /\ UNCHANGED <<log, expired, before, own, alone, status>> /\ stage[r] = "parent"
        /\ stage' = [stage EXCEPT ![r] = "expire"]
        /\ evidence' = [evidence EXCEPT ![r].match = m]
        /\ \A k : Content(k)' = Content(k)
    BY <1>6 DEF CompareParent, At, Goto, Content
  <2>2. /\ \A q \in Runner : stage'[q] = IF q = r THEN "expire" ELSE stage[q]
        /\ evidence'[r].rewrite = n /\ evidence'[r].rows = evidence[r].rows
        /\ evidence'[r].match = m
    BY <2>1 DEF TypeInv, RunInv, Evidence
  <2>3. /\ n # 0 /\ n \in 0..Len(log) /\ evidence[r].rows = Content(n)
        /\ Parent(r) = n - 1
    BY <2>1 DEF RunOk, Truth, Parent
  <2>4. m \in {"same", "changed"} /\ (m = "same" <=> Content(n) = Content(n - 1))
    BY <2>3
  <2> HIDE DEF n, m
  <2>5. Truth(r)'
    BY <1>0, <2>1, <2>2, <2>3, <2>4 DEF Truth
  <2> QED
    BY <2>1, <2>2, <2>4, <2>5 DEF RunOk, Reset, Undisturbed, Rewrote, Compared, n
<1>7. CASE ExpireSnapshots(r) \/ ScanOrphans(r) \/ RemoveOrphans(r)
  <2>1. PICK s \in {"expire", "scan", "remove", "after"} : stage' = [stage EXCEPT ![r] = s]
    BY <1>7 DEF ExpireSnapshots, ScanOrphans, RemoveOrphans, Goto
  <2>2. /\ UNCHANGED <<log, before, evidence, own, alone, status>>
        /\ stage[r] \in {"expire", "scan", "remove"}
    BY <1>7 DEF ExpireSnapshots, ScanOrphans, RemoveOrphans, At
  <2>3. \A q \in Runner : stage'[q] = IF q = r THEN s ELSE stage[q]
    BY <2>1 DEF TypeInv, RunInv
  <2>4. Truth(r)'
    BY <2>2, <2>3, TruthKept DEF RunOk
  <2> QED
    BY <2>2, <2>3, <2>4 DEF RunOk, Reset, Undisturbed, Rewrote, Compared
<1>8. CASE StatsAfter(r) \/ Fail(r)
  <2>1. /\ UNCHANGED <<log, before, evidence, own, alone>> /\ stage[r] # "idle"
        /\ stage' = [stage EXCEPT ![r] = "record"]
        /\ status'[r] = "succeeded" =>
              stage[r] = "after" /\ evidence[r].match # "changed"
    BY <1>8 DEF StatsAfter, Fail, At, Goto, TypeInv, RunInv
  <2>2. \A q \in Runner : stage'[q] = IF q = r THEN "record" ELSE stage[q]
    BY <2>1 DEF TypeInv, RunInv
  <2>3. Truth(r)'
    BY <2>1, <2>2, TruthKept DEF RunOk
  <2>4. evidence[r].match \in {"none", "same", "changed"}
    BY DEF TypeInv, RunInv, Evidence
  <2> QED
    BY <2>1, <2>2, <2>3, <2>4 DEF RunOk, Reset, Undisturbed, Rewrote, Compared
<1>9. CASE Record(r)
  <2>1. /\ UNCHANGED log /\ stage'[r] = "idle" /\ status'[r] = "none"
        /\ before'[r] = 0 /\ own'[r] = 0 /\ ~alone'[r]
        /\ evidence'[r] = NoEvidence
    BY <1>9 DEF Record, Goto, TypeInv, RunInv
  <2>2. Truth(r)'
    BY <1>0, <2>1 DEF Truth, NoEvidence
  <2> QED
    BY <2>1, <2>2 DEF RunOk, Reset
<1> QED
  BY <1>1, <1>2, <1>3, <1>4, <1>5, <1>6, <1>7, <1>8, <1>9 DEF Maintain

\* Beside a runner that acts no other one is alone.
LEMMA OthersOk ==
    ASSUME TypeInv, [Next]_vars, NEW r \in Runner, Maintain(r),
           NEW q \in Runner \ {r}, RunOk(q)
    PROVE  RunOk(q)'
<1>1. /\ own'[q] = own[q] /\ evidence'[q] = evidence[q] /\ stage'[q] = stage[q]
      /\ status'[q] = status[q] /\ before'[q] = before[q]
  BY DEF Maintain, Begin, TableExists, StatsBefore, PlanRewrite, CommitRewrite,
     FindRewrite, CompareParent, ExpireSnapshots, ScanOrphans, RemoveOrphans, StatsAfter,
     Fail, Record, Goto, TypeInv, RunInv
<1>2. ~alone'[q]
  <2>1. CASE Begin(r)
    BY <2>1 DEF Begin
  <2>2. CASE ~Begin(r)
    <3>1. stage[r] # "idle" /\ alone'[q] = alone[q]
      BY <2>2 DEF Maintain, TableExists, StatsBefore, PlanRewrite, CommitRewrite,
         FindRewrite, CompareParent, ExpireSnapshots, ScanOrphans, RemoveOrphans,
         StatsAfter, Fail, Record, At, TypeInv, RunInv
    <3> QED
      BY <3>1 DEF RunOk, Undisturbed
  <2> QED
    BY <2>1, <2>2
<1> QED
  BY <1>1, <1>2, Standing

\* What a record says of a rewrite is true, and a run that reports success beside
\* no other one has lost nothing (maintenance.py 5-6).
THEOREM EvidenceHolds == Spec => []EvidenceIsTrue
<1> DEFINE Inv == \A r \in Runner : RunOk(r)
<1>1. Init => Inv
  BY DEF Init, RunOk, Truth, Reset, NoEvidence
<1>2. TypeInv /\ Inv /\ [Next]_vars => Inv'
  <2> SUFFICES ASSUME TypeInv, Inv, [Next]_vars, NEW q \in Runner
               PROVE  RunOk(q)'
    OBVIOUS
  <2>1. ASSUME NEW r \in Runner, Maintain(r) PROVE RunOk(q)'
    BY <2>1, ActingOk, OthersOk
  <2>2. CASE Create \/ StreamWrites \/ StreamDies \/ Tick \/ UNCHANGED vars
    <3>1. UNCHANGED <<run, log, expired>>
      BY <2>2 DEF Create, StreamWrites, StreamDies, Tick, vars, table
    <3> QED
      BY <3>1, Standing DEF run
  <2>3. CASE StreamCommits
    <3>1. UNCHANGED <<run, expired>>
      BY <2>3 DEF StreamCommits
    <3> QED
      BY <2>3, <3>1, StreamDoesNotRewrite, Standing DEF run
  <2> QED
    BY <2>1, <2>2, <2>3 DEF Next, Stream
<1>3. Inv => EvidenceIsTrue
  <2> SUFFICES ASSUME NEW r \in Runner, RunOk(r)
               PROVE  /\ LET n == evidence[r].rewrite
                         IN  evidence[r].match # "none" =>
                               (evidence[r].match = "same" <=> Content(n) = Content(n - 1))
                      /\ status[r] = "succeeded" /\ alone[r] /\ before[r] # 0 /\ own[r] # 0 =>
                           Content(own[r]) = Content(own[r] - 1)
    BY DEF EvidenceIsTrue
  <2> QED
    BY DEF RunOk, Truth, Undisturbed, Compared
<1> QED
  BY <1>1, <1>2, <1>3, TypeCorrect, PTL DEF Spec
=============================================================================
