----------------------------- MODULE NewestWins -----------------------------
(***************************************************************************)
(* What a session promises of its cache: generations of the tree are       *)
(* accepted in order, and what is stored is one of them and never gives    *)
(* way to an older one.  Which of them are stored is left open: a save may *)
(* be late, superseded or fail.                                            *)
(***************************************************************************)
EXTENDS Naturals

VARIABLES
    accepted,   \* the newest generation accepted
    stored      \* the generation the store holds, 0 for none of this session

Init == accepted = 0 /\ stored = 0

Accept ==
    /\ accepted' \in Nat /\ accepted' > accepted
    /\ UNCHANGED stored

Store ==
    /\ stored' \in 1..accepted /\ stored' > stored
    /\ UNCHANGED accepted

Spec == Init /\ [][Accept \/ Store]_<<accepted, stored>>

=============================================================================
