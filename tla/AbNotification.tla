--------------------------- MODULE AbNotification ---------------------------
(***************************************************************************)
(* What the processing of a signed "analyse du besoin" (AB) promises to    *)
(* its readers, whatever webhook deliveries, retries and backend instances *)
(* do underneath: the two notification mails are one batch, a batch is     *)
(* reserved before anything is sent, a reservation is given back only      *)
(* while no mail has left, each recipient gets at most one copy, and once  *)
(* the batch is closed nothing is ever sent again.                         *)
(*                                                                         *)
(* AbSignature implements this specification (see AbSignature!Batch).      *)
(***************************************************************************)
EXTENDS Naturals

CONSTANT Recipient      \* the mailboxes one batch addresses

VARIABLES
    phase,              \* "open", "reserved" or "closed"
    copies              \* copies[r]: mails that left for r

batchVars == <<phase, copies>>

NothingSent == \A r \in Recipient : copies[r] = 0

BatchInit ==
    /\ phase = "open"
    /\ copies = [r \in Recipient |-> 0]

\* A delivery obtains the exclusive right to send the batch.
Reserve ==
    /\ phase = "open"
    /\ phase' = "reserved"
    /\ UNCHANGED copies

\* It failed before any mail: a later delivery may try again.
GiveBack ==
    /\ phase = "reserved"
    /\ NothingSent
    /\ phase' = "open"
    /\ UNCHANGED copies

\* One copy leaves; it may be the last act of the batch.
SendCopy(r) ==
    /\ phase = "reserved"
    /\ copies[r] = 0
    /\ copies' = [copies EXCEPT ![r] = 1]
    /\ phase' \in {"reserved", "closed"}

\* The batch ends: every mail was attempted, or the reservation was lost.
Close ==
    /\ phase \in {"open", "reserved"}
    /\ phase' = "closed"
    /\ UNCHANGED copies

BatchNext ==
    \/ Reserve
    \/ GiveBack
    \/ \E r \in Recipient : SendCopy(r)
    \/ Close

BatchSpec == BatchInit /\ [][BatchNext]_batchVars
=============================================================================
