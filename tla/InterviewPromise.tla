-------------------------- MODULE InterviewPromise --------------------------
(***************************************************************************)
(* What the booking of interviews owes to the candidates, whatever the     *)
(* commands behind it: a slot is promised to one candidate, a candidate    *)
(* has one slot, and a slot promised is never exchanged for another        *)
(* without having been withdrawn.                                          *)
(***************************************************************************)
CONSTANTS Cand, Slot, None
VARIABLE promise

Exclusive ==
    \A c, d \in Cand : promise[c] = promise[d] => c = d \/ promise[c] = None

Init == promise \in [Cand -> Slot \cup {None}] /\ Exclusive

\* Slots held by hand or written from an old copy are not promises: they make
\* a booking fail and never succeed.
Book(c, s) ==
    /\ promise[c] = None
    /\ \A d \in Cand : promise[d] # s
    /\ promise' = [promise EXCEPT ![c] = s]

Withdraw(C) ==
    promise' = [c \in Cand |-> IF c \in C THEN None ELSE promise[c]]

Next ==
    \/ \E c \in Cand, s \in Slot : Book(c, s)
    \/ \E C \in SUBSET Cand : Withdraw(C)

Spec == Init /\ [][Next]_promise
=============================================================================
