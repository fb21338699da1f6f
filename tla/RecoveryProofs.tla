--------------------------- MODULE RecoveryProofs ---------------------------
(***************************************************************************)
(* Proofs about the control channel, for any requests and batches and any  *)
(* number of deaths.                                                       *)
(***************************************************************************)
EXTENDS Recovery, Extrema

Handling == {"act", "open", "fill", "replace", "exit"}
Firing   == {"open", "fill", "replace", "exit"}
Writing  == {"open", "fill", "replace"}

HandledBy(r) == control.pc \in Handling /\ control.of = r
FiredBy(r)   == stream.pc \in Firing /\ stream.of = r

\* What the threads hold while they are at a step.
ThreadInv ==
    /\ control.listed \subseteq requests
    /\ control.pc \in Handling => control.of \in sent \ requests
    /\ armed # None => armed \in sent \ requests
    /\ stream.pc \in Firing => stream.of \in sent \ requests
    /\ stream.pc # "idle" => committed < Batches

\* Where a request can be: it leaves its file once, is handed over once, and what has made
\* the driver exit is nowhere any more.
OnceInv ==
    \A r \in Request :
        /\ control.pc = "act" /\ control.of = r => armed # r /\ ~FiredBy(r)
        /\ exits[r] > 0 => r \in sent \ requests /\ ~HandledBy(r) /\ armed # r /\ ~FiredBy(r)
        /\ exits[r] <= 1

\* A batch that a request fired after has its record, and gets another attempt before it
\* can be committed; the same for what is still in a temporary file.
FiredOk(b) ==
    /\ Applied[b] /\ attempts[b] >= 1 /\ b <= Current
    /\ committed >= b => attempts[b] >= 2
    /\ b = Current /\ attempts[b] = 1 => stream.pc \in {"idle", "running", "replace", "exit"}

FiredInv ==
    /\ stream.pc \in {"recorded", "returned"} \cup Firing => attempts[Current] >= 1
    /\ stream.pc \in Firing => Applied[Current]
    /\ \A r \in Request, b \in Batch :
          FiredAfter(b) \in {acks[r], tmp[r]} => FiredOk(b)

\* What the acknowledgement of an exit says.
Told == {Said("exiting")} \cup {FiredAfter(b) : b \in Batch}

\* Only crash_now makes the control thread exit, and only it is acknowledged by one
\* thread; a request that fired is written by one thread if it is not contended.
ActionInv ==
    /\ armed # None => Action[armed] = "crash_after_commit"
    /\ stream.pc \in Firing => Action[stream.of] = "crash_after_commit"
    /\ control.pc = "exit" => Action[control.of] = "crash_now"
    /\ stream.pc \in Firing /\ stream.of \notin contended /\ control.pc \in Writing =>
          control.of # stream.of

\* What is in the files while a thread is at work on them: without another one its own
\* text, with another one at least some file.
WriterInv ==
    /\ control.pc \in Handling /\ Action[control.of] = "crash_now" =>
          /\ control.pc = "fill" => tmp[control.of] = Torn
          /\ control.pc = "replace" => tmp[control.of] = Said("exiting")
          /\ control.pc = "exit" => acks[control.of] = Said("exiting")
    /\ stream.pc \in {"fill", "replace"} =>
          acks[stream.of] # NoFile \/ tmp[stream.of] # NoFile
    /\ stream.pc = "exit" => acks[stream.of] # NoFile
    /\ stream.pc \in Firing /\ stream.of \notin contended =>
          /\ stream.pc = "fill" => tmp[stream.of] = Torn
          /\ stream.pc = "replace" => tmp[stream.of] = FiredAfter(Current)
          /\ stream.pc = "exit" => acks[stream.of] = FiredAfter(Current)

ToldInv ==
    \A r \in Request : exits[r] > 0 =>
        /\ acks[r] # NoFile
        /\ r \notin contended => acks[r] \in Told

Base == TypeOK /\ ThreadInv

-----------------------------------------------------------------------------
(* Facts about the constants and about single operators                    *)

\* The path that is taken next is one of the listed ones.
LEMMA NextIsListed ==
    ASSUME control.listed \subseteq Request, control.listed # {}
    PROVE  NextListed \in control.listed
<1>1. control.listed \in SUBSET Nat
  BY RequestAssumption
<1> QED
  BY <1>1, MinIsLeast DEF NextListed

LEMMA Acknowledgements ==
    /\ NoFile \in Ack /\ Torn \in Ack /\ Torn # NoFile
    /\ \A r \in Request : Note(r) # Torn
    /\ \A r \in Request : Action[r] = "crash_now" => Note(r) = Said("exiting")
    /\ \A b \in Batch : FiredAfter(b) # Torn
    /\ \A r \in Request : Note(r) \in Ack /\ Note(r) # NoFile
    /\ \A b \in Batch : FiredAfter(b) \in Ack /\ FiredAfter(b) # NoFile
    /\ \A b \in Batch, r \in Request : FiredAfter(b) # Note(r)
    /\ \A b, c \in Batch : FiredAfter(b) = FiredAfter(c) => b = c
  BY RequestAssumption DEF Ack, NoFile, Torn, Said, FiredAfter, Note

\* Opening and filling a temporary file: what becomes of the two files of a request.
LEMMA Opens ==
    ASSUME TypeOK, NEW r \in Request, OpenTmp(r)
    PROVE  /\ acks' = acks /\ tmp' \in [Request -> Ack] /\ tmp'[r] = Torn
           /\ \A q \in Request : q # r => tmp'[q] = tmp[q]
  BY Acknowledgements DEF OpenTmp, TypeOK

LEMMA Fills ==
    ASSUME TypeOK, NEW r \in Request, NEW text \in Ack, text # NoFile, FillTmp(r, text)
    PROVE  /\ acks' \in [Request -> Ack] /\ tmp' \in [Request -> Ack]
           /\ \A q \in Request : q # r => acks'[q] = acks[q] /\ tmp'[q] = tmp[q]
           /\ acks'[r] \in {acks[r], text, Torn} /\ tmp'[r] \in {tmp[r], text, Torn}
           /\ acks[r] # NoFile => acks'[r] # NoFile
           /\ tmp[r] # NoFile => tmp'[r] # NoFile
           /\ tmp[r] = Torn => tmp'[r] = text /\ acks' = acks
<1>1. \A old : Filled(old, text) \subseteq {text, Torn} /\ Filled(Torn, text) = {text}
  BY DEF Filled
<1>2. acks \in [Request -> Ack] /\ tmp \in [Request -> Ack] /\ Torn \in Ack /\ Torn # NoFile
  BY Acknowledgements DEF TypeOK
<1>3. CASE tmp[r] # NoFile
  <2>1. PICK new \in Filled(tmp[r], text) : tmp' = [tmp EXCEPT ![r] = new] /\ acks' = acks
    BY <1>3 DEF FillTmp
  <2> QED
    BY <1>1, <1>2, <2>1
<1>4. CASE tmp[r] = NoFile
  <2>1. PICK new \in Filled(acks[r], text) : acks' = [acks EXCEPT ![r] = new] /\ tmp' = tmp
    BY <1>4 DEF FillTmp
  <2> QED
    BY <1>1, <1>2, <1>4, <2>1
<1> QED
  BY <1>3, <1>4

LEMMA NoneIsNoRequest == None \notin Request
  BY RequestAssumption DEF None

LEMMA CurrentBatch ==
    ASSUME TypeOK, committed < Batches
    PROVE  Current \in Batch
  BY BatchAssumption DEF TypeOK, Current, Batch

LEMMA OneMoreBound == \A n \in 0..2 : OneMore(n) \in 0..2 /\ OneMore(n) >= n /\ OneMore(n) >= 1
  BY DEF OneMore

-----------------------------------------------------------------------------
(* Types, and what the threads hold                                        *)

LEMMA BaseInit == Init => Base
  BY RequestAssumption, BatchAssumption, Acknowledgements
  DEF Init, Base, TypeOK, ThreadInv, Asleep, Idle, Batch, None, Handling, Firing

LEMMA BaseStep == Base /\ [Next]_vars => Base'
<1> SUFFICES ASSUME Base, [Next]_vars PROVE Base'
  OBVIOUS
<1> USE DEF Base, TypeOK, ThreadInv, Handling, Firing, files, driver, history
<1>1. ASSUME NEW r \in Request, RequestControl(r) PROVE Base'
  BY <1>1 DEF RequestControl
<1>2. CASE Poll
  BY <1>2 DEF Poll, Asleep
<1>3. CASE EndPoll
  BY <1>3 DEF EndPoll, Asleep
<1>4. CASE Take
  <2>1. NextListed \in control.listed
    BY <1>4, NextIsListed DEF Take
  <2> QED
    BY <1>4, <2>1 DEF Take, Removed
<1>5. CASE Unreadable
  <2>1. NextListed \in control.listed
    BY <1>5, NextIsListed DEF Unreadable
  <2> QED
    BY <1>5, <2>1 DEF Unreadable, Removed
<1>6. CASE Act
  BY <1>6, NoneIsNoRequest DEF Act
<1>7. CASE OpenAck
  BY <1>7, Acknowledgements DEF OpenAck, OpenTmp
<1>21. CASE FillAck
  <2>1. Note(control.of) \in Ack /\ Note(control.of) # NoFile /\ control.of \in Request
    BY <1>21, Acknowledgements DEF FillAck
  <2>2. acks' \in [Request -> Ack] /\ tmp' \in [Request -> Ack]
    BY <1>21, <2>1, Fills DEF FillAck
  <2> QED
    BY <1>21, <2>2 DEF FillAck
<1>8. CASE ReplaceAck
  BY <1>8, Acknowledgements DEF ReplaceAck, ReplaceTmp, Asleep
<1>9. CASE Exit
  BY <1>9, OneMoreBound DEF Exit, DieFor, Die, Asleep, Idle
<1>10. CASE StartBatch
  BY <1>10 DEF StartBatch, Idle
<1>11. CASE Record
  BY <1>11, OneMoreBound, CurrentBatch DEF Record
<1>12. CASE Pass
  BY <1>12 DEF Pass
<1>13. CASE Fire
  BY <1>13 DEF Fire
<1>14. CASE OpenFired
  BY <1>14, Acknowledgements DEF OpenFired, OpenTmp
<1>22. CASE FillFired
  <2>1. /\ FiredAfter(Current) \in Ack /\ FiredAfter(Current) # NoFile
        /\ stream.of \in Request
    BY <1>22, Acknowledgements, CurrentBatch DEF FillFired
  <2>2. acks' \in [Request -> Ack] /\ tmp' \in [Request -> Ack]
    BY <1>22, <2>1, Fills DEF FillFired
  <2> QED
    BY <1>22, <2>2 DEF FillFired
<1>15. CASE ReplaceFired
  BY <1>15, Acknowledgements DEF ReplaceFired, ReplaceTmp
<1>16. CASE ExitFired
  BY <1>16, OneMoreBound DEF ExitFired, DieFor, Die, Asleep, Idle
<1>17. CASE CommitBatch
  BY <1>17, BatchAssumption DEF CommitBatch, Current, Idle
<1>18. CASE Kill
  <2>1. kills' \in 0..MaxKills
    BY <1>18, BatchAssumption DEF Kill
  <2>2. Asleep' = Asleep /\ Idle' = Idle
    BY DEF Asleep, Idle
  <2> QED
    BY <1>18, <2>1, <2>2 DEF Kill, Die, Asleep, Idle
<1>19. CASE Restart
  BY <1>19 DEF Restart
<1>20. CASE UNCHANGED vars
  BY <1>20 DEF vars
<1> QED
  BY <1>1, <1>2, <1>3, <1>4, <1>5, <1>6, <1>7, <1>8, <1>9, <1>10, <1>11, <1>12, <1>13, <1>14,
     <1>15, <1>16, <1>17, <1>18, <1>19, <1>20, <1>21, <1>22
  DEF Next, ControlThread, BatchThread

\* Requests, files, threads and counters are well typed in every reachable state.
THEOREM TypeCorrect == Spec => []TypeOK
<1>1. Base => TypeOK
  BY DEF Base
<1> QED
  BY BaseInit, BaseStep, <1>1, PTL DEF Spec

-----------------------------------------------------------------------------
(* One exit per request                                                    *)

LEMMA OnceStep == Base /\ OnceInv /\ [Next]_vars => OnceInv'
<1> SUFFICES ASSUME Base, OnceInv, [Next]_vars, NEW q \in Request
             PROVE  /\ control'.pc = "act" /\ control'.of = q => armed' # q /\ ~FiredBy(q)'
                    /\ exits'[q] > 0 => /\ q \in sent' \ requests'
                                        /\ ~HandledBy(q)' /\ armed' # q /\ ~FiredBy(q)'
                    /\ exits'[q] <= 1
  BY DEF OnceInv
<1>1. /\ control.pc = "act" /\ control.of = q => armed # q /\ ~FiredBy(q)
      /\ exits[q] > 0 => q \in sent \ requests /\ ~HandledBy(q) /\ armed # q /\ ~FiredBy(q)
      /\ exits[q] <= 1 /\ exits[q] \in 0..2
  BY DEF OnceInv, Base, TypeOK
<1> USE DEF Base, TypeOK, ThreadInv, HandledBy, FiredBy, Handling, Firing, files, driver, history
<1>2. CASE UNCHANGED <<exits, armed, stream>> /\ sent \subseteq sent' /\ requests' \subseteq requests
           /\ (control'.pc \in Handling =>
                  /\ control'.of = control.of /\ control.pc \in Handling
                  /\ control'.pc = "act" => control.pc = "act")
  BY <1>1, <1>2
<1>3. CASE up' = FALSE /\ Die /\ UNCHANGED <<sent, requests>>
           /\ (exits' = exits \/ \E r \in Request : /\ HandledBy(r) \/ FiredBy(r)
                                                   /\ exits' = [exits EXCEPT ![r] = OneMore(@)])
  <2>1. exits'[q] > 0 => q \in sent \ requests
    BY <1>1, <1>3
  <2>2. exits'[q] <= 1
    BY <1>1, <1>3 DEF OneMore
  <2> QED
    BY <1>3, <2>1, <2>2, NoneIsNoRequest DEF Die, Asleep, Idle
<1>4. ASSUME NEW r \in Request, RequestControl(r)
      PROVE  /\ UNCHANGED <<exits, armed, stream, control>> /\ sent' = sent \cup {r}
             /\ requests' = requests \cup {r} /\ r \notin sent
  BY <1>4 DEF RequestControl
<1>5. CASE \E r \in Request : RequestControl(r)
  BY <1>1, <1>4, <1>5
<1>6. CASE Take
  <2>1. NextListed \in control.listed
    BY <1>6, NextIsListed DEF Take
  <2>2. NextListed \in requests
    BY <2>1
  <2>3. /\ control' = [pc |-> "act", of |-> NextListed,
                      listed |-> control.listed \ {NextListed}]
        /\ requests' = requests \ {NextListed} /\ UNCHANGED <<sent, armed, stream, exits>>
    BY <1>6 DEF Take, Removed
  <2> HIDE DEF NextListed
  <2> QED
    BY <1>1, <2>2, <2>3, NoneIsNoRequest
<1>7. CASE Act
  BY <1>1, <1>7 DEF Act
<1>8. CASE Fire
  BY <1>1, <1>8, NoneIsNoRequest DEF Fire
<1>9. CASE Exit
  BY <1>3, <1>9 DEF Exit, DieFor, Die
<1>10. CASE ExitFired
  BY <1>3, <1>10 DEF ExitFired, DieFor, Die
<1>11. CASE Kill
  BY <1>3, <1>11 DEF Kill, Die
<1>12. CASE Poll \/ EndPoll \/ Unreadable \/ Restart
  <2>1. CASE Poll \/ EndPoll
    <3>1. control'.pc \in {"asleep", "next"}
      <4>1. CASE Poll
        BY <4>1 DEF Poll, Asleep
      <4>2. CASE EndPoll
        BY <4>2 DEF EndPoll, Asleep
      <4> QED
        BY <2>1, <4>1, <4>2
    <3>2. UNCHANGED <<exits, armed, stream, sent, requests>>
      BY <2>1 DEF Poll, EndPoll
    <3> QED
      BY <1>2, <3>1, <3>2
  <2>2. CASE Unreadable
    BY <1>2, <2>2 DEF Unreadable, Removed
  <2>3. CASE Restart
    BY <1>2, <2>3 DEF Restart
  <2> QED
    BY <1>12, <2>1, <2>2, <2>3
<1>15. CASE OpenAck \/ FillAck \/ ReplaceAck
  BY <1>2, <1>15 DEF OpenAck, FillAck, ReplaceAck, Asleep
<1>13. CASE \/ StartBatch \/ Record \/ Pass \/ OpenFired \/ FillFired \/ ReplaceFired
            \/ CommitBatch
  <2>1. /\ UNCHANGED <<exits, armed, control, sent, requests>>
        /\ FiredBy(q)' => FiredBy(q)
    BY <1>13 DEF StartBatch, Record, Pass, OpenFired, FillFired, ReplaceFired, CommitBatch, Idle
  <2> QED
    BY <1>1, <2>1
<1>14. CASE UNCHANGED vars
  BY <1>1, <1>14 DEF vars
<1> QED
  BY <1>5, <1>6, <1>7, <1>8, <1>9, <1>10, <1>11, <1>12, <1>13, <1>14, <1>15
  DEF Next, ControlThread, BatchThread

\* No request makes the driver exit twice, however the threads interleave and whenever the
\* driver dies and restarts.
THEOREM OneExit == Spec => []OneExitPerRequest
<1>1. Init => OnceInv
  BY NoneIsNoRequest DEF Init, OnceInv, Asleep, FiredBy, HandledBy, Idle, Firing, Handling
<1>2. OnceInv => OneExitPerRequest
  BY DEF OnceInv, OneExitPerRequest
<1> QED
  BY BaseInit, BaseStep, OnceStep, <1>1, <1>2, PTL DEF Spec

-----------------------------------------------------------------------------
(* The batch a request fires after                                         *)

\* What a step of anything but the batch thread leaves alone.
BatchesUnchanged ==
    UNCHANGED <<attempts, committed>> /\ (stream' = stream \/ stream'.pc = "idle")

\* Such a step may only move acknowledgements from the temporary file.
LEMMA FiredKept ==
    ASSUME Base, FiredInv, BatchesUnchanged,
           \A r \in Request, b \in Batch :
              FiredAfter(b) \in {acks'[r], tmp'[r]} => FiredAfter(b) \in {acks[r], tmp[r]}
    PROVE  FiredInv'
  BY DEF FiredInv, FiredOk, BatchesUnchanged, Current, Firing

LEMMA FiredStep == Base /\ FiredInv /\ [Next]_vars => FiredInv'
<1> SUFFICES ASSUME Base, FiredInv, [Next]_vars PROVE FiredInv'
  OBVIOUS
<1> USE DEF files, driver, history
<1>1. CASE \/ \E r \in Request : RequestControl(r)
           \/ Poll \/ EndPoll \/ Take \/ Unreadable \/ Act \/ Exit \/ ExitFired \/ Kill \/ Restart
  <2>1. BatchesUnchanged /\ UNCHANGED <<acks, tmp>>
    BY <1>1
    DEF BatchesUnchanged, RequestControl, Poll, EndPoll, Take, Unreadable, Act, Exit, ExitFired,
        Kill, Restart, DieFor, Die, Idle
  <2> QED
    BY <2>1, FiredKept
<1>2. CASE OpenAck \/ FillAck
  <2>1. /\ BatchesUnchanged /\ control.of \in Request
        /\ OpenTmp(control.of) \/ FillTmp(control.of, Note(control.of))
    BY <1>2 DEF OpenAck, FillAck, BatchesUnchanged, Base, ThreadInv, TypeOK, Handling
  <2>2. TypeOK /\ Note(control.of) \in Ack /\ Note(control.of) # NoFile
    BY <2>1, Acknowledgements DEF Base
  <2>3. \A q \in Request :
          /\ acks'[q] \in {acks[q], tmp[q], Note(control.of), Torn}
          /\ tmp'[q] \in {acks[q], tmp[q], Note(control.of), Torn}
    BY <2>1, <2>2, Opens, Fills
  <2> QED
    BY <2>1, <2>3, FiredKept, Acknowledgements
<1>3. CASE ReplaceAck
  <2>1. /\ BatchesUnchanged /\ control.of \in Request
        /\ ReplaceTmp(control.of) \/ UNCHANGED <<acks, tmp>>
    BY <1>3 DEF ReplaceAck, BatchesUnchanged, Base, ThreadInv, TypeOK, Handling
  <2>2. tmp \in [Request -> Ack] /\ acks \in [Request -> Ack]
    BY DEF Base, TypeOK
  <2> QED
    BY <2>1, <2>2, FiredKept, Acknowledgements DEF ReplaceTmp
<1> USE DEF FiredInv, FiredOk, Firing, Base, TypeOK, ThreadInv
<1>4. CASE StartBatch
  BY <1>4 DEF StartBatch, Idle, Current
<1>5. CASE Record
  <2>1. Current \in Batch /\ attempts[Current] \in 0..2
    BY <1>5, CurrentBatch DEF Record
  <2>2. attempts'[Current] >= 1 /\ (attempts[Current] >= 1 => attempts'[Current] >= 2)
    BY <1>5, <2>1 DEF Record, OneMore
  <2>3. \A b \in Batch : b # Current => attempts'[b] = attempts[b]
    BY <1>5 DEF Record
  <2>4. Current' = Current /\ stream'.pc = "recorded" /\ UNCHANGED <<committed, acks, tmp>>
    BY <1>5 DEF Record, Current
  <2>5. \A b \in Batch : FiredOk(b) => FiredOk(b)'
    BY <2>1, <2>2, <2>3, <2>4 DEF FiredOk, Batch
  <2> QED
    BY <2>2, <2>4, <2>5
<1>6. CASE Pass
  BY <1>6 DEF Pass, Current
<1>7. CASE Fire
  BY <1>7 DEF Fire, Current
<1>8. CASE FillFired
  <2>1. Current \in Batch /\ stream.of \in Request
    BY <1>8, CurrentBatch DEF FillFired
  <2>2. /\ Current' = Current /\ stream'.pc = "replace" /\ UNCHANGED <<committed, attempts>>
        /\ FillTmp(stream.of, FiredAfter(Current))
    BY <1>8 DEF FillFired, Current
  <2>3. attempts[Current] >= 1 /\ Applied[Current]
    BY <1>8 DEF FillFired
  <2>4. FiredOk(Current)'
    BY <2>1, <2>2, <2>3 DEF Current, Batch
  <2>5. \A b \in Batch : FiredOk(b) => FiredOk(b)'
    BY <2>2 DEF Current
  <2>7. \A q \in Request : {acks'[q], tmp'[q]} \subseteq
                              {acks[q], tmp[q], FiredAfter(Current), Torn}
    BY <2>1, <2>2, Fills, Acknowledgements
  <2>6. ASSUME NEW r \in Request, NEW b \in Batch, FiredAfter(b) \in {acks'[r], tmp'[r]}
        PROVE  b = Current \/ FiredAfter(b) \in {acks[r], tmp[r]}
    BY <2>1, <2>6, <2>7, Acknowledgements
  <2> QED
    BY <2>2, <2>3, <2>4, <2>5, <2>6
<1>12. CASE OpenFired
  <2>1. stream.of \in Request
    BY <1>12 DEF OpenFired
  <2>2. /\ Current' = Current /\ stream'.pc = "fill" /\ stream.pc = "open"
        /\ UNCHANGED <<committed, attempts>> /\ OpenTmp(stream.of)
    BY <1>12 DEF OpenFired, Current
  <2>3. \A b \in Batch : FiredOk(b) => FiredOk(b)'
    BY <2>2 DEF Current
  <2>4. ASSUME NEW r \in Request, NEW b \in Batch, FiredAfter(b) \in {acks'[r], tmp'[r]}
        PROVE  FiredAfter(b) \in {acks[r], tmp[r]}
    BY <2>1, <2>2, <2>4, Opens, Acknowledgements
  <2> QED
    BY <2>2, <2>3, <2>4
<1>9. CASE ReplaceFired
  <2>1. Current \in Batch /\ stream.of \in Request
    BY <1>9, CurrentBatch DEF ReplaceFired
  <2>2. /\ Current' = Current /\ stream'.pc = "exit" /\ UNCHANGED <<committed, attempts>>
        /\ ReplaceTmp(stream.of) \/ UNCHANGED <<acks, tmp>>
    BY <1>9 DEF ReplaceFired, Current
  <2>3. attempts[Current] >= 1 /\ Applied[Current]
    BY <1>9 DEF ReplaceFired
  <2>4. \A b \in Batch : FiredOk(b) => FiredOk(b)'
    BY <2>2 DEF Current
  <2>5. ASSUME NEW r \in Request, NEW b \in Batch, FiredAfter(b) \in {acks'[r], tmp'[r]}
        PROVE  FiredAfter(b) \in {acks[r], tmp[r]}
    BY <2>1, <2>2, <2>5, Acknowledgements DEF ReplaceTmp
  <2> QED
    BY <2>2, <2>3, <2>4, <2>5
<1>10. CASE CommitBatch
  <2>1. /\ Current \in Batch /\ committed' = Current /\ stream'.pc = "idle"
        /\ UNCHANGED <<attempts, acks, tmp>> /\ stream.pc = "returned"
    BY <1>10, CurrentBatch DEF CommitBatch, Idle
  <2>2. committed \in Nat /\ Current = committed + 1 /\ Current' = committed + 2
    BY <2>1, BatchAssumption DEF Current
  <2>3. ASSUME NEW b \in Batch, FiredOk(b)
        PROVE  FiredOk(b)'
    <3>1. b \in Nat /\ attempts[b] \in 0..2
      BY DEF Batch
    <3>2. b = Current => attempts[b] >= 2
      BY <2>1, <2>3, <3>1
    <3> QED
      BY <2>1, <2>2, <2>3, <3>1, <3>2
  <2> QED
    BY <2>1, <2>3
<1>11. CASE UNCHANGED vars
  BY <1>11 DEF vars, Current
<1> QED
  BY <1>1, <1>2, <1>3, <1>4, <1>5, <1>6, <1>7, <1>8, <1>9, <1>10, <1>11, <1>12
  DEF Next, ControlThread, BatchThread

\* An acknowledgement that names a batch is true of it: it had its record and no commit
\* marker, and is run again before it is committed.
THEOREM FiredIsRepeated == Spec => []FiredBatchIsRepeated
<1>1. Init => FiredInv
  BY Acknowledgements DEF Init, FiredInv, Idle, Firing
<1>2. Base /\ FiredInv => FiredBatchIsRepeated
  BY DEF FiredInv, FiredOk, FiredBatchIsRepeated
<1> QED
  BY BaseInit, BaseStep, FiredStep, <1>1, <1>2, PTL DEF Spec

-----------------------------------------------------------------------------
(* Acknowledgements before exits                                           *)

LEMMA ActionStep == Base /\ OnceInv /\ ActionInv /\ [Next]_vars => ActionInv'
<1> SUFFICES ASSUME Base, OnceInv, ActionInv, [Next]_vars PROVE ActionInv'
  OBVIOUS
<1> USE DEF ActionInv, Base, TypeOK, ThreadInv, Handling, Firing, Writing, files, driver, history
<1>1. CASE Act
  <2>1. stream.pc \in Firing => stream.of # control.of
    BY <1>1 DEF Act, OnceInv, FiredBy
  <2> QED
    BY <1>1, <2>1, NoneIsNoRequest DEF Act
<1>2. CASE Fire
  BY <1>2 DEF Fire
<1>3. CASE Take
  BY <1>3 DEF Take
<1>4. CASE ReplaceAck
  <2>1. CASE control'.pc = "exit"
    BY <1>4, <2>1 DEF ReplaceAck, Asleep
  <2>2. CASE control'.pc \in {"next", "asleep"}
    BY <1>4, <2>2 DEF ReplaceAck
  <2> QED
    BY <1>4, <2>1, <2>2 DEF ReplaceAck, Asleep
<1>5. CASE Poll \/ EndPoll \/ Unreadable \/ OpenAck \/ FillAck
  BY <1>5 DEF Poll, EndPoll, Unreadable, OpenAck, FillAck, Asleep
<1>6. CASE \/ StartBatch \/ Record \/ Pass \/ OpenFired \/ FillFired \/ ReplaceFired
           \/ CommitBatch
  BY <1>6 DEF StartBatch, Record, Pass, OpenFired, FillFired, ReplaceFired, CommitBatch, Idle
<1>7. CASE Die /\ contended' = contended
  BY <1>7 DEF Die, Asleep, Idle
<1>8. CASE Exit \/ ExitFired \/ Kill
  BY <1>7, <1>8 DEF Exit, ExitFired, Kill, DieFor
<1>9. CASE (\E r \in Request : RequestControl(r)) \/ Restart \/ UNCHANGED vars
  BY <1>9 DEF RequestControl, Restart, vars
<1> QED
  BY <1>1, <1>2, <1>3, <1>4, <1>5, <1>6, <1>8, <1>9 DEF Next, ControlThread, BatchThread

LEMMA WriterStep ==
    Base /\ ActionInv /\ WriterInv /\ [Next]_vars => WriterInv'
<1> SUFFICES ASSUME Base, ActionInv, WriterInv, [Next]_vars PROVE WriterInv'
  OBVIOUS
<1> USE DEF WriterInv, Base, TypeOK, ThreadInv, Handling, Firing, Writing, files, driver, history
<1>1. CASE \/ \E r \in Request : RequestControl(r)
           \/ Poll \/ EndPoll \/ Take \/ Unreadable \/ Act \/ StartBatch \/ Record \/ Pass
           \/ Restart
  <2>1. /\ UNCHANGED <<acks, tmp, contended, committed>>
        /\ control' = control \/ control'.pc \notin {"fill", "replace", "exit"}
        /\ stream' = stream \/ stream'.pc \notin Firing
    BY <1>1 DEF RequestControl, Poll, EndPoll, Take, Unreadable, Act, StartBatch, Record, Pass,
                Restart, Asleep, Idle
  <2> QED
    BY <2>1 DEF Current
<1>2. CASE Fire
  <2>1. /\ UNCHANGED <<acks, tmp, control>> /\ stream'.pc = "open"
    BY <1>2 DEF Fire
  <2> QED
    BY <2>1
<1>3. CASE CommitBatch
  <2>1. /\ UNCHANGED <<acks, tmp, control>> /\ stream'.pc = "idle"
    BY <1>3 DEF CommitBatch, Idle
  <2> QED
    BY <2>1
<1>4. CASE Die /\ UNCHANGED <<acks, tmp>>
  BY <1>4 DEF Die, Asleep, Idle
<1>5. CASE Exit \/ ExitFired \/ Kill
  BY <1>4, <1>5 DEF Exit, ExitFired, Kill, DieFor
<1>6. CASE OpenAck
  <2>1. /\ UNCHANGED <<stream, contended, committed>> /\ control' = [control EXCEPT !.pc = "fill"]
        /\ control.pc = "open" /\ control.of \in Request /\ OpenTmp(control.of)
    BY <1>6 DEF OpenAck
  <2>2. /\ acks' = acks /\ tmp'[control.of] = Torn /\ Torn # NoFile
        /\ \A q \in Request : q # control.of => tmp'[q] = tmp[q]
    BY <2>1, Opens, Acknowledgements
  <2>3. stream.pc \in Firing /\ stream.of \notin contended => stream.of # control.of
    BY <2>1 DEF ActionInv
  <2>4. control'.pc = "fill" /\ control'.of = control.of /\ Current' = Current
    BY <2>1 DEF Current
  <2> QED
    BY <2>1, <2>2, <2>3, <2>4
<1>7. CASE FillAck
  <2>1. /\ UNCHANGED <<stream, contended, committed>>
        /\ control' = [control EXCEPT !.pc = "replace"]
        /\ control.pc = "fill" /\ control.of \in Request
        /\ FillTmp(control.of, Note(control.of))
    BY <1>7 DEF FillAck
  <2>2. /\ \A q \in Request : q # control.of => acks'[q] = acks[q] /\ tmp'[q] = tmp[q]
        /\ acks[control.of] # NoFile => acks'[control.of] # NoFile
        /\ tmp[control.of] # NoFile => tmp'[control.of] # NoFile
        /\ tmp[control.of] = Torn => tmp'[control.of] = Note(control.of)
    BY <2>1, Fills, Acknowledgements
  <2>3. stream.pc \in Firing /\ stream.of \notin contended => stream.of # control.of
    BY <2>1 DEF ActionInv
  <2>4. control'.pc = "replace" /\ control'.of = control.of /\ Current' = Current
    BY <2>1 DEF Current
  <2>5. Action[control.of] = "crash_now" => tmp'[control.of] = Said("exiting")
    BY <2>1, <2>2, Acknowledgements
  <2> QED
    BY <2>1, <2>2, <2>3, <2>4, <2>5
<1>8. CASE ReplaceAck
  <2>1. /\ UNCHANGED <<stream, contended, committed>> /\ control.pc = "replace"
        /\ control.of \in Request /\ Current' = Current
    BY <1>8 DEF ReplaceAck, Current
  <2>2. CASE UNCHANGED <<acks, tmp>> /\ control' = Asleep
    BY <2>1, <2>2 DEF Asleep
  <2>3. CASE /\ ReplaceTmp(control.of)
             /\ control' = [control EXCEPT !.pc =
                              IF Action[control.of] = "crash_now" THEN "exit" ELSE "next"]
    <3>1. /\ acks'[control.of] = tmp[control.of] /\ acks'[control.of] # NoFile
          /\ \A q \in Request : q # control.of => acks'[q] = acks[q] /\ tmp'[q] = tmp[q]
      BY <2>1, <2>3 DEF ReplaceTmp, CanReplace
    <3>2. stream.pc \in Firing /\ stream.of \notin contended => stream.of # control.of
      BY <2>1 DEF ActionInv
    <3>3. /\ control'.of = control.of
          /\ control'.pc = IF Action[control.of] = "crash_now" THEN "exit" ELSE "next"
      BY <2>3
    <3> QED
      BY <2>1, <3>1, <3>2, <3>3
  <2> QED
    BY <1>8, <2>2, <2>3 DEF ReplaceAck
<1>9. CASE OpenFired \/ FillFired \/ ReplaceFired
  <2>1. /\ UNCHANGED <<control, contended, committed>> /\ stream'.of = stream.of
        /\ stream.pc \in Firing /\ stream.of \in Request /\ Current' = Current
        /\ Current \in Batch
    BY <1>9, CurrentBatch DEF OpenFired, FillFired, ReplaceFired, Current
  <2>2. control.pc \in Handling /\ Action[control.of] = "crash_now" => control.of # stream.of
    BY <2>1 DEF ActionInv
  <2>3. CASE OpenFired
    <3>1. /\ acks' = acks /\ tmp'[stream.of] = Torn /\ Torn # NoFile /\ stream'.pc = "fill"
          /\ \A q \in Request : q # stream.of => tmp'[q] = tmp[q]
      BY <2>1, <2>3, Opens, Acknowledgements DEF OpenFired
    <3> QED
      BY <2>1, <2>2, <3>1
  <2>4. CASE FillFired
    <3>1. FillTmp(stream.of, FiredAfter(Current)) /\ stream.pc = "fill" /\ stream'.pc = "replace"
      BY <2>4 DEF FillFired
    <3>2. /\ \A q \in Request : q # stream.of => acks'[q] = acks[q] /\ tmp'[q] = tmp[q]
          /\ acks[stream.of] # NoFile => acks'[stream.of] # NoFile
          /\ tmp[stream.of] # NoFile => tmp'[stream.of] # NoFile
          /\ tmp[stream.of] = Torn => tmp'[stream.of] = FiredAfter(Current)
      BY <2>1, <3>1, Fills, Acknowledgements
    <3> QED
      BY <2>1, <2>2, <3>1, <3>2
  <2>5. CASE ReplaceFired
    <3>1. stream.pc = "replace" /\ stream'.pc = "exit"
      BY <2>5 DEF ReplaceFired
    <3>2. CASE ReplaceTmp(stream.of)
      <4>1. /\ acks'[stream.of] = tmp[stream.of] /\ acks'[stream.of] # NoFile
            /\ \A q \in Request : q # stream.of => acks'[q] = acks[q] /\ tmp'[q] = tmp[q]
        BY <2>1, <3>2 DEF ReplaceTmp, CanReplace
      <4> QED
        BY <2>1, <2>2, <3>1, <4>1
    <3>3. CASE tmp[stream.of] = NoFile /\ UNCHANGED <<acks, tmp>>
      BY <2>1, <2>2, <3>1, <3>3, Acknowledgements
    <3> QED
      BY <2>5, <3>2, <3>3 DEF ReplaceFired, CanReplace
  <2> QED
    BY <1>9, <2>3, <2>4, <2>5
<1>10. CASE UNCHANGED vars
  BY <1>10 DEF vars, Current
<1> QED
  BY <1>1, <1>2, <1>3, <1>5, <1>6, <1>7, <1>8, <1>9, <1>10 DEF Next, ControlThread, BatchThread

\* What has made the driver exit is in nobody's hands, so its acknowledgement stays.
LEMMA ToldStep ==
    Base /\ OnceInv /\ ActionInv /\ WriterInv /\ ToldInv /\ [Next]_vars => ToldInv'
<1> SUFFICES ASSUME Base, OnceInv, ActionInv, WriterInv, ToldInv, [Next]_vars,
                    NEW q \in Request, exits'[q] > 0
             PROVE  acks'[q] # NoFile /\ (q \notin contended' => acks'[q] \in Told)
  BY DEF ToldInv, Told
<1> USE DEF Base, TypeOK, ThreadInv, Handling, Firing, files, driver, history
<1>1. CASE exits[q] > 0
  <2>1. ~HandledBy(q) /\ ~FiredBy(q) /\ armed # q
    BY <1>1 DEF OnceInv
  <2>2. acks[q] # NoFile /\ (q \notin contended => acks[q] \in Told)
    BY <1>1 DEF ToldInv
  <2>3. contended \subseteq contended'
    BY DEF Next, ControlThread, BatchThread, vars, RequestControl, Poll, EndPoll, Take,
           Unreadable, Act, OpenAck, FillAck, ReplaceAck, Exit, DieFor, StartBatch, Record, Pass,
           Fire, OpenFired, FillFired, ReplaceFired, ExitFired, CommitBatch, Kill, Restart
  <2>4. acks'[q] = acks[q]
    <3>1. CASE FillAck
      <4>1. control.of \in Request /\ control.of # q /\ FillTmp(control.of, Note(control.of))
        BY <2>1, <3>1 DEF FillAck, HandledBy
      <4> QED
        BY <4>1, Fills, Acknowledgements
    <3>2. CASE FillFired
      <4>1. /\ stream.of \in Request /\ stream.of # q /\ Current \in Batch
            /\ FillTmp(stream.of, FiredAfter(Current))
        BY <2>1, <3>2, CurrentBatch DEF FillFired, FiredBy
      <4> QED
        BY <4>1, Fills, Acknowledgements
    <3>3. CASE ReplaceAck
      BY <2>1, <3>3 DEF ReplaceAck, ReplaceTmp, HandledBy
    <3>4. CASE ReplaceFired
      BY <2>1, <3>4 DEF ReplaceFired, ReplaceTmp, FiredBy
    <3> QED
      BY <3>1, <3>2, <3>3, <3>4
      DEF Next, ControlThread, BatchThread, vars, RequestControl, Poll, EndPoll, Take,
          Unreadable, Act, OpenAck, OpenTmp, Exit, DieFor, StartBatch, Record, Pass, Fire,
          OpenFired, ExitFired, CommitBatch, Kill, Restart
  <2> QED
    BY <2>2, <2>3, <2>4
<1>2. CASE ~(exits[q] > 0)
  <2>1. CASE Exit
    <3>1. control.of = q /\ acks' = acks /\ control.pc = "exit"
      BY <1>2, <2>1 DEF Exit, DieFor
    <3>2. acks[q] = Said("exiting")
      BY <3>1 DEF WriterInv, ActionInv
    <3>3. Said("exiting") # NoFile
      BY DEF Said, NoFile
    <3> QED
      BY <3>1, <3>2, <3>3 DEF Told
  <2>2. CASE ExitFired
    <3>1. /\ stream.of = q /\ acks' = acks /\ contended' = contended /\ stream.pc = "exit"
          /\ Current \in Batch
      BY <1>2, <2>2, CurrentBatch DEF ExitFired, DieFor
    <3>2. acks[q] # NoFile /\ (q \notin contended => acks[q] = FiredAfter(Current))
      BY <3>1 DEF WriterInv
    <3> QED
      BY <3>1, <3>2 DEF Told
  <2>3. exits' = exits \/ Exit \/ ExitFired
    BY DEF Next, ControlThread, BatchThread, vars, RequestControl, Poll, EndPoll, Take,
           Unreadable, Act, OpenAck, FillAck, ReplaceAck, StartBatch, Record, Pass,
           Fire, OpenFired, FillFired, ReplaceFired, CommitBatch, Kill, Restart
  <2> QED
    BY <1>2, <2>1, <2>2, <2>3
<1> QED
  BY <1>1, <1>2

\* The driver never exits for a request without an acknowledgement that says what it did,
\* unless both threads were at the same file; and even then there is one.
THEOREM AcknowledgedFirst == Spec => []ExitsAreAcknowledged
<1>1. Init => OnceInv /\ ActionInv /\ WriterInv /\ ToldInv
  BY NoneIsNoRequest
  DEF Init, OnceInv, ActionInv, WriterInv, ToldInv, Asleep, Idle, FiredBy, HandledBy, Firing,
      Handling, Writing
<1>2. ToldInv => ExitsAreAcknowledged
  BY DEF ToldInv, Told, ExitsAreAcknowledged
<1> QED
  BY BaseInit, BaseStep, OnceStep, ActionStep, WriterStep, ToldStep, <1>1, <1>2, PTL DEF Spec
=============================================================================
