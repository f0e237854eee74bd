----------------------------- MODULE SaSequence -----------------------------
(***************************************************************************)
(* An apprentice (alternant) and the follow-up sequences (SA) planned for  *)
(* him: two MongoDB collections, and the single commands the repositories  *)
(* run on them.  One alternant is enough: every command names one, and two *)
(* alternants share no SA.                                                 *)
(*                                                                         *)
(* A date is a day, counted from any origin.                               *)
(***************************************************************************)
EXTENDS Integers, Sequences, FiniteSetsExt

CONSTANTS
    Sa,                     \* identifiers that can be drawn
    Contact,                \* people to be reached before a SA is done
    None,
    First, Second, Period,  \* the plan: J+15, 10 weeks, then every 4 months
    MaxPlan                 \* at most so many SA are planned

VARIABLES
    sa,             \* sa[s]: the document of the SA s
    alt,            \* the alternant
    rupture         \* his broken contracts: how many, and how many "quits"

saVars == <<sa, alt, rupture>>

ASSUME SaAssumption ==
    /\ First \in Nat /\ Second \in Nat /\ Period \in Nat /\ MaxPlan \in Nat
    /\ First < Second /\ 0 < Period
    /\ None \notin Int /\ None \notin Sa
    /\ IsFiniteSet(Sa)

SaStatus == {"pending", "done", "not_done"}
SaRec == [st : SaStatus \cup {"none", "deleted"}, day : Int, num : Nat,
          auto : BOOLEAN, contacts : SUBSET Contact, real : Int \cup {None},
          arch : BOOLEAN, soon : BOOLEAN, late : BOOLEAN]
Planned(st, day, num, auto) ==
    [st |-> st, day |-> day, num |-> num, auto |-> auto, contacts |-> {},
     real |-> None, arch |-> FALSE, soon |-> FALSE, late |-> FALSE]
NoSa == Planned("none", 0, 0, FALSE)

Reason == {"rupture", "end"}
AltRec == [st : {"none", "active", "archived", "deleted"},
           reason : Reason \cup {"none"}, company : BOOLEAN]
Person(st, reason) == [st |-> st, reason |-> reason, company |-> TRUE]

Live(s) == sa[s].st \in SaStatus
Known == alt.st \in {"active", "archived"}

-----------------------------------------------------------------------------
(* buildSaDates.                                                           *)

Due(start, n) == start + (IF n = 1 THEN First ELSE Second + (n - 2) * Period)

\* Three dates without an end, else those that are not past it.
SaDates(start, end) ==
    LET Kept == IF end = None THEN 1 .. 3
                ELSE {n \in 1 .. MaxPlan : Due(start, n) <= end}
    IN [n \in 1 .. Cardinality(Kept) |-> Due(start, n)]

-----------------------------------------------------------------------------
(* AlternantSequenceRepository.                                            *)

\* Mutant: the SA are counted, deleted ones leave their numbers to others.
numeroByCount == 1 + Cardinality({s \in Sa : Live(s)})

nextNumero == 1 + Max({0} \cup {sa[s].num : s \in {s \in Sa : Live(s)}})

\* A new document, if an identifier is left: any will do.
NewSa == CHOOSE s \in Sa : sa[s].st = "none"
CanCreate == \E s \in Sa : sa[s].st = "none"

deleteAll(Gone) ==
    [s \in Sa |-> IF s \in Gone THEN [sa[s] EXCEPT !.st = "deleted"] ELSE sa[s]]
AutoPending == {s \in Sa : sa[s].st = "pending" /\ sa[s].auto}

\* Mutant: the SA itself is shifted.
LaterOrSame(num) == {s \in AutoPending : sa[s].num >= num}

\* Mutant: SA made by hand are shifted as well.
LaterManual(num) == {s \in Sa : sa[s].st = "pending" /\ sa[s].num > num}

\* The SA shiftLaterPending reads, and then moves one by one.
Later(num) == {s \in AutoPending : sa[s].num > num}

\* Mutant: only the SA that are not archived yet are looked for.
setArchivedOnce(arch) ==
    [s \in Sa |-> IF Live(s) /\ ~sa[s].arch THEN [sa[s] EXCEPT !.arch = arch]
                 ELSE sa[s]]

\* All the SA of the alternant.
setArchived(arch) ==
    [s \in Sa |-> IF Live(s) THEN [sa[s] EXCEPT !.arch = arch] ELSE sa[s]]

=============================================================================
