-------------------------------- MODULE MCSa --------------------------------
(* A small instance of SaNotification: two requests and the scheduler.     *)
EXTENDS SaNotification

CONSTANTS s1, s2, s3, mentor, trainer

Sas == {s1, s2, s3}
Contacts == {mentor, trainer}
At(f, alt_, r) == [sa |-> f, alt |-> alt_, rupture |-> r,
                   today |-> 0, ops |-> 0, faults |-> 0]
NoRupture == [all |-> 0, quits |-> 0]
Empty == [s \in Sas |-> NoSa]

\* Nobody yet.
Nobody == At(Empty, [st |-> "none", reason |-> "none", company |-> FALSE], NoRupture)

\* One planned SA all of whose contacts were made, one after it.
Following ==
    At([Empty EXCEPT ![s1] = [Planned("pending", 0, 1, TRUE) EXCEPT !.contacts = Contacts],
                     ![s2] = Planned("pending", 1, 2, TRUE)],
       Person("active", "none"), NoRupture)

\* A SA is done, one made by hand comes after.
Mixed ==
    At([Empty EXCEPT ![s1] = [Planned("done", 0, 1, TRUE) EXCEPT
                              !.contacts = Contacts, !.real = 0],
                     ![s2] = Planned("pending", 1, 2, FALSE)],
       Person("active", "none"), [all |-> 1, quits |-> 0])

\* He has quit.
Gone ==
    At([Empty EXCEPT ![s1] = [Planned("pending", 0, 1, TRUE) EXCEPT !.arch = TRUE]],
       Person("archived", "rupture"), [all |-> 2, quits |-> 1])


\* The two requests overlap, on one day and without a failure; or there is only
\* one, the days pass and something fails.
Crowded(w) == [w EXCEPT !.today = LastDay, !.faults = MaxFaults]
Alone(w) == [w EXCEPT !.ops = MaxOps - 1]
Situations == {Crowded(w) : w \in {Nobody, Following, Mixed, Gone}}
              \cup {Alone(w) : w \in {Nobody, Following, Mixed, Gone}}
=============================================================================
