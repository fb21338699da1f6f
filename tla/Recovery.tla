----------------------------- MODULE Recovery ------------------------------
(***************************************************************************)
(* The control channel of the Recovery Lab.  The API writes request files; *)
(* the driver's control thread polls for them and the thread that runs the *)
(* batches asks, after each batch record, whether it was told to exit.     *)
(* Both threads acknowledge in files named after the request, so they may  *)
(* write the same file.  Docker restarts a driver that has exited, and     *)
(* Spark runs a batch again that has no commit marker.                     *)
(*                                                                         *)
(* A request stands for the place of its file in the sorted directory; its *)
(* name, and so its place, begins with the action.  Reading and removing a *)
(* request file is one step: nobody else touches the file, and a driver    *)
(* that dies between the two has done nothing.                             *)
(***************************************************************************)
EXTENDS Integers, FiniteSets, FiniteSetsExt

CONSTANTS
    Request,       \* requests, by the place of their file
    Action,        \* the action of each request
    Batches,       \* bound: batches of the stream
    Applied,       \* for each batch, whether it applies events
    MaxKills       \* bound: deaths of the driver that nobody asked for here

ASSUME RequestAssumption ==
    /\ Request \subseteq Nat
    /\ IsFiniteSet(Request)
    /\ Action \in [Request -> {"crash_now", "crash_after_commit", "other"}]

ASSUME BatchAssumption ==
    /\ Batches \in Nat /\ MaxKills \in Nat
    /\ Applied \in [1..Batches -> BOOLEAN]

VARIABLES
    sent,       \* requests the API has written
    requests,   \* files in requests/
    acks,       \* files in acks/
    tmp,        \* their temporary files
    up,         \* whether the driver runs
    control,    \* its control thread
    armed,      \* crash_after_commit: the armed request
    stream,     \* its batch thread
    attempts,   \* attempts in the batch record of each batch: 0 without one, 2 for 2 or more
    committed,  \* batches with a commit marker
    contended,  \* requests that fired while the other thread acknowledged them
    exits,      \* deaths of the driver that each request caused: 2 for 2 or more
    kills

files   == <<requests, acks, tmp>>
driver  == <<up, control, armed, stream>>
history == <<contended, exits, kills>>
vars    == <<sent, files, driver, attempts, committed, history>>

None == -1
OneMore(n) == IF n < 2 THEN n + 1 ELSE n
Batch == 1..Batches

\* What an acknowledgement says: the note, and the batch after which the request fired.
Said(note) == [note |-> note, batch |-> 0]
FiredAfter(b) == [note |-> "fired", batch |-> b]
NoFile == Said("none")

\* A file that cannot be read: emptied, or with the end of a longer text after a shorter.
Torn == Said("torn")
Ack == {NoFile, Torn, Said("armed"), Said("exiting"), Said("error")}
          \cup {FiredAfter(b) : b \in Batch}

Note(r) == Said(IF Action[r] = "crash_now" THEN "exiting"
                ELSE IF Action[r] = "crash_after_commit" THEN "armed" ELSE "error")

Asleep == [pc |-> "asleep", of |-> None, listed |-> {}]
Idle   == [pc |-> "idle", of |-> None]

Init ==
    /\ sent = {} /\ requests = {}
    /\ acks = [r \in Request |-> NoFile] /\ tmp = [r \in Request |-> NoFile]
    /\ contended = {}
    /\ up = TRUE /\ control = Asleep /\ armed = None /\ stream = Idle
    /\ attempts = [b \in Batch |-> 0] /\ committed = 0
    /\ exits = [r \in Request |-> 0] /\ kills = 0

-----------------------------------------------------------------------------
(* The API                                                                 *)

\* The file appears at once: it is written under a name the driver does not look for.
RequestControl(r) ==
    /\ r \notin sent
    /\ sent' = sent \cup {r} /\ requests' = requests \cup {r}
    /\ UNCHANGED <<acks, tmp, driver, attempts, committed, history>>

-----------------------------------------------------------------------------
(* Both threads: ack, and death                                            *)

\* write_text: open the file, which empties it, ...
OpenTmp(r) ==
    /\ tmp' = [tmp EXCEPT ![r] = Torn]
    /\ UNCHANGED acks

\* Over the text of the other thread it may leave the end of that one.
Filled(old, text) == IF old = Torn THEN {text} ELSE {text, Torn}

\* ... and write to what was opened, wherever the other thread has moved it since.
FillTmp(r, text) ==
    \/ /\ tmp[r] # NoFile
       /\ \E new \in Filled(tmp[r], text) : tmp' = [tmp EXCEPT ![r] = new]
       /\ UNCHANGED acks
    \/ /\ tmp[r] = NoFile
       /\ \E new \in Filled(acks[r], text) : acks' = [acks EXCEPT ![r] = new]
       /\ UNCHANGED tmp

\* os.replace publishes what is in the temporary file, whoever wrote it.
CanReplace(r) == tmp[r] # NoFile
ReplaceTmp(r) ==
    /\ CanReplace(r)
    /\ acks' = [acks EXCEPT ![r] = tmp[r]]
    /\ tmp' = [tmp EXCEPT ![r] = NoFile]

Die == up' = FALSE /\ control' = Asleep /\ armed' = None /\ stream' = Idle

DieFor(r) ==
    /\ Die
    /\ exits' = [exits EXCEPT ![r] = OneMore(@)]
    /\ UNCHANGED <<sent, contended, files, attempts, committed, kills>>

-----------------------------------------------------------------------------
(* The control thread                                                      *)

Poll ==
    /\ up /\ control.pc = "asleep"
    /\ control' = [pc |-> "next", of |-> None, listed |-> requests]
    /\ UNCHANGED <<sent, files, up, armed, stream, attempts, committed, history>>

EndPoll ==
    /\ up /\ control.pc = "next" /\ control.listed = {}
    /\ control' = Asleep
    /\ UNCHANGED <<sent, files, up, armed, stream, attempts, committed, history>>

\* Faulty: the file stays until its request has been handled.
Removed_Later(r) == requests
Removed(r) == requests \ {r}

NextListed == Min(control.listed)

Take ==
    /\ up /\ control.pc = "next" /\ control.listed # {}
    /\ requests' = Removed(NextListed)
    /\ control' = [pc |-> "act", of |-> NextListed, listed |-> control.listed \ {NextListed}]
    /\ UNCHANGED <<sent, acks, tmp, up, armed, stream, attempts, committed, history>>

\* Faulty: a file that cannot be read ends the poll and stays.
Unreadable_Raises ==
    /\ up /\ control.pc = "next" /\ control.listed # {}
    /\ control' = Asleep
    /\ UNCHANGED <<sent, files, up, armed, stream, attempts, committed, history>>

Unreadable ==
    /\ up /\ control.pc = "next" /\ control.listed # {}
    /\ requests' = Removed(NextListed)
    /\ control' = [control EXCEPT !.listed = @ \ {NextListed}]
    /\ UNCHANGED <<sent, acks, tmp, up, armed, stream, attempts, committed, history>>

\* Faulty: crash_now exits before it is acknowledged.
Act_ExitsFirst ==
    /\ up /\ control.pc = "act"
    /\ armed' = IF Action[control.of] = "crash_after_commit" THEN control.of ELSE armed
    /\ control' = [control EXCEPT
          !.pc = IF Action[control.of] = "crash_now" THEN "exit" ELSE "open"]
    /\ UNCHANGED <<sent, files, up, stream, attempts, committed, history>>

\* The slot holds one request: the last one wins.
Act ==
    /\ up /\ control.pc = "act"
    /\ armed' = IF Action[control.of] = "crash_after_commit" THEN control.of ELSE armed
    /\ control' = [control EXCEPT !.pc = "open"]
    /\ UNCHANGED <<sent, files, up, stream, attempts, committed, history>>

OpenAck ==
    /\ up /\ control.pc = "open"
    /\ OpenTmp(control.of)
    /\ control' = [control EXCEPT !.pc = "fill"]
    /\ UNCHANGED <<sent, requests, up, armed, stream, attempts, committed, history>>

FillAck ==
    /\ up /\ control.pc = "fill"
    /\ FillTmp(control.of, Note(control.of))
    /\ control' = [control EXCEPT !.pc = "replace"]
    /\ UNCHANGED <<sent, requests, up, armed, stream, attempts, committed, history>>

ReplaceAck ==
    /\ up /\ control.pc = "replace"
    /\ \/ /\ ReplaceTmp(control.of)
          /\ control' = [control EXCEPT
                !.pc = IF Action[control.of] = "crash_now" THEN "exit" ELSE "next"]
       \/ \* FileNotFoundError, logged by _loop; the rest is left to the next poll
          /\ ~CanReplace(control.of)
          /\ control' = Asleep /\ UNCHANGED <<acks, tmp>>
    /\ UNCHANGED <<sent, requests, up, armed, stream, attempts, committed, history>>

Exit == up /\ control.pc = "exit" /\ DieFor(control.of)

-----------------------------------------------------------------------------
(* The batch thread.  Sink.tla has the steps between StartBatch and Record *)

Current == committed + 1

StartBatch ==
    /\ up /\ stream.pc = "idle" /\ committed < Batches
    /\ stream' = [Idle EXCEPT !.pc = "running"]
    /\ UNCHANGED <<sent, files, up, control, armed, attempts, committed, history>>

Record ==
    /\ up /\ stream.pc = "running"
    /\ attempts' = [attempts EXCEPT ![Current] = OneMore(@)]
    /\ stream' = [stream EXCEPT !.pc = "recorded"]
    /\ UNCHANGED <<sent, files, up, control, armed, committed, history>>

\* maybe_crash_after_commit
Pass ==
    /\ up /\ stream.pc = "recorded"
    /\ armed = None \/ ~Applied[Current]
    /\ stream' = [stream EXCEPT !.pc = "returned"]
    /\ UNCHANGED <<sent, files, up, control, armed, attempts, committed, history>>

Fire ==
    /\ up /\ stream.pc = "recorded"
    /\ armed # None /\ Applied[Current]
    /\ stream' = [pc |-> "open", of |-> armed]
    /\ armed' = None
    /\ contended' = IF control.pc \in {"open", "fill", "replace"} /\ control.of = armed
                      THEN contended \cup {armed} ELSE contended
    /\ UNCHANGED <<sent, files, up, control, attempts, committed, exits, kills>>

OpenFired ==
    /\ up /\ stream.pc = "open"
    /\ OpenTmp(stream.of)
    /\ stream' = [stream EXCEPT !.pc = "fill"]
    /\ UNCHANGED <<sent, requests, up, control, armed, attempts, committed, history>>

FillFired ==
    /\ up /\ stream.pc = "fill"
    /\ FillTmp(stream.of, FiredAfter(Current))
    /\ stream' = [stream EXCEPT !.pc = "replace"]
    /\ UNCHANGED <<sent, requests, up, control, armed, attempts, committed, history>>

\* Faulty: an acknowledgement that fails is logged, and the batch goes on.
ReplaceFired_Logs ==
    /\ up /\ stream.pc = "replace"
    /\ \/ ReplaceTmp(stream.of) /\ stream' = [stream EXCEPT !.pc = "exit"]
       \/ /\ ~CanReplace(stream.of) /\ UNCHANGED <<acks, tmp>>
          /\ stream' = [stream EXCEPT !.pc = "returned"]
    /\ UNCHANGED <<sent, requests, up, control, armed, attempts, committed, history>>

\* If the file is gone the batch fails and the query with it: the driver exits as well.
ReplaceFired ==
    /\ up /\ stream.pc = "replace"
    /\ \/ ReplaceTmp(stream.of)
       \/ ~CanReplace(stream.of) /\ UNCHANGED <<acks, tmp>>
    /\ stream' = [stream EXCEPT !.pc = "exit"]
    /\ UNCHANGED <<sent, requests, up, control, armed, attempts, committed, history>>

ExitFired == up /\ stream.pc = "exit" /\ DieFor(stream.of)

CommitBatch ==
    /\ up /\ stream.pc = "returned"
    /\ committed' = Current
    /\ stream' = Idle
    /\ UNCHANGED <<sent, files, up, control, armed, attempts, history>>

-----------------------------------------------------------------------------

Kill ==
    /\ up /\ kills < MaxKills
    /\ Die /\ kills' = kills + 1
    /\ UNCHANGED <<sent, contended, files, attempts, committed, exits>>

Restart ==
    /\ ~up /\ up' = TRUE
    /\ UNCHANGED <<sent, files, control, armed, stream, attempts, committed, history>>

ControlThread == \/ Poll \/ EndPoll \/ Take \/ Unreadable \/ Act
                 \/ OpenAck \/ FillAck \/ ReplaceAck \/ Exit
BatchThread == \/ StartBatch \/ Record \/ Pass \/ Fire \/ OpenFired \/ FillFired \/ ReplaceFired
               \/ ExitFired \/ CommitBatch

Next == \/ \E r \in Request : RequestControl(r)
        \/ ControlThread \/ BatchThread \/ Kill \/ Restart

Spec == Init /\ [][Next]_vars

\* Either thread runs on, whatever the other does, and Docker restarts the driver.
FairSpec == Spec /\ WF_vars(ControlThread) /\ WF_vars(BatchThread) /\ WF_vars(Restart)

-----------------------------------------------------------------------------
(* Properties                                                              *)

TypeOK ==
    /\ sent \subseteq Request /\ requests \subseteq sent
    /\ acks \in [Request -> Ack] /\ tmp \in [Request -> Ack]
    /\ contended \subseteq Request /\ up \in BOOLEAN
    /\ control \in [pc : {"asleep", "next", "act", "open", "fill", "replace", "exit"},
                    of : Request \cup {None}, listed : SUBSET Request]
    /\ armed \in Request \cup {None}
    /\ stream \in [pc : {"idle", "running", "recorded", "open", "fill", "replace", "exit",
                          "returned"},
                   of : Request \cup {None}]
    /\ attempts \in [Batch -> 0..2] /\ committed \in 0..Batches
    /\ exits \in [Request -> 0..2] /\ kills \in 0..MaxKills

\* However the threads interleave and however often the driver restarts, a request makes it
\* exit once: never a crash loop, and never one exit for the file and one for the slot.
OneExitPerRequest == \A r \in Request : exits[r] <= 1

\* The acknowledgement of a request that fired names a batch that had its record and no
\* commit marker then, so that it is run again before it counts as committed.
FiredBatchIsRepeated ==
    \A r \in Request, b \in Batch :
        acks[r] = FiredAfter(b) =>
            /\ Applied[b] /\ attempts[b] >= 1
            /\ committed >= b => attempts[b] >= 2

\* Nobody finds the driver gone for a request that has no acknowledgement, and the
\* acknowledgement tells what it did; but if the request fired while the other thread
\* was still acknowledging it as armed, the file may say less, or be unreadable
\* (control.py 59-60, 70-72, 78-79).
ExitsAreAcknowledged ==
    \A r \in Request : exits[r] > 0 =>
        /\ acks[r] # NoFile
        /\ r \notin contended =>
              acks[r] \in {Said("exiting")} \cup {FiredAfter(b) : b \in Batch}

\* The driver takes every request, also behind files it cannot read and after restarts.
RequestsAreTaken == \A r \in Request : r \in sent ~> r \notin requests

\* No set of requests keeps the stream from committing all batches.
BatchesAreCommitted == <>(committed = Batches)
=============================================================================
