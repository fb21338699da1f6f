----------------------------- MODULE Lakehouse -----------------------------
(***************************************************************************)
(* What the lakehouse promises about the change events of the source, with *)
(* no batch, crash, epoch or commit in sight (ADR-0003, "Guarantee         *)
(* statement").  A ledger of distinct change events (bronze) only grows,   *)
(* and the current row of every key (silver) only moves to a later change. *)
(* An event is entered in the ledger only when the current row of its key  *)
(* already reflects it or something newer, so a reader who sees an event   *)
(* in bronze never sees an older state in silver.                          *)
(***************************************************************************)
EXTENDS Integers

CONSTANTS
    Key,        \* primary keys, over all source tables
    Event,      \* change events, by event_id
    KeyOf,      \* [Event -> Key]: the row an event changes
    Lsn,        \* [Event -> Nat]: its position in the source's log
    NoEvent     \* not an event: the key has no row yet

VARIABLES
    current,    \* [Key -> Event or NoEvent]: the change each row shows
    ledger      \* the change events recorded so far

NoLsn == -1

\* The LSN a row shows; a missing row is older than every change.
LsnShown(e) == IF e = NoEvent THEN NoLsn ELSE Lsn[e]

Init ==
    /\ current = [k \in Key |-> NoEvent]
    /\ ledger = {}

\* The rows of some keys move, each to a later change of its own key.
Advance ==
    /\ current' \in [Key -> Event \cup {NoEvent}]
    /\ \A k \in Key :
        \/ current'[k] = current[k]
        \/ /\ current'[k] \in Event
           /\ KeyOf[current'[k]] = k
           /\ LsnShown(current'[k]) > LsnShown(current[k])
    /\ UNCHANGED ledger

\* Events are entered once the rows they change have caught up with them.
Enter ==
    /\ \E S \in SUBSET Event :
        /\ \A e \in S : Lsn[e] <= LsnShown(current[KeyOf[e]])
        /\ ledger' = ledger \cup S
    /\ UNCHANGED current

Next == Advance \/ Enter

Spec == Init /\ [][Next]_<<current, ledger>>

=============================================================================
