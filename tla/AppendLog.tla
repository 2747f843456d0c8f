----------------------------- MODULE AppendLog -----------------------------
(***************************************************************************)
(* What a ledger promises to those who read it: a list of entries that     *)
(* only grows, one entry at a time, through any crash and restart.  There  *)
(* is no disk, no index and no hash here; the detailed specification is    *)
(* Ledgers.                                                                *)
(***************************************************************************)
EXTENDS Sequences

CONSTANT Entries

VARIABLES
    log,     \* the entries a reader is shown, or was last shown
    status   \* "up", "down" or "refused": whether the ledger can be read

vars == <<log, status>>

Init == log = <<>> /\ status = "up"

Add ==
    /\ status = "up"
    /\ \E e \in Entries : log' = Append(log, e)
    /\ UNCHANGED status

Stop ==
    /\ status = "up"
    /\ status' = "down"
    /\ UNCHANGED log

\* The ledger comes back with everything it ever showed.  At most one entry is
\* new: the one whose writer was told of an error, or of nothing at all.
Start ==
    /\ status = "down"
    /\ status' = "up"
    /\ \/ UNCHANGED log
       \/ \E e \in Entries : log' = Append(log, e)

\* Or it does not come back at all: it never starts with another list.
Refuse ==
    /\ status = "down"
    /\ status' = "refused"
    /\ UNCHANGED log

Next == Add \/ Stop \/ Start \/ Refuse

Spec == Init /\ [][Next]_vars

=============================================================================
