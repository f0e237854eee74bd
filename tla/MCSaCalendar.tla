---------------------------- MODULE MCSaCalendar ----------------------------
(* Two SA planned one after the other, two members of the teaching staff;  *)
(* one more SA can be made by hand.                                        *)
EXTENDS SaCalendar, TLC

CONSTANTS s1, s2, s3, contact, u1, u2, e1, e2, e3

Sas == {s1, s2, s3}
Contacts == {contact}
Windows == {<<0, 9>>}
Sym == Permutations({u1, u2}) \cup Permutations({e1, e2, e3})
Situations ==
    {[s \in Sas |-> IF s = s1
                    THEN [Planned("pending", 1, 1, TRUE) EXCEPT !.contacts = c]
                    ELSE IF s = s2 THEN Planned("pending", 3, 2, TRUE)
                    ELSE NoSa] :
        c \in SUBSET Contacts}
=============================================================================
