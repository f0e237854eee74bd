----------------------------- MODULE MCMatching -----------------------------
(* A small instance of Matching: two requests in every order, from the     *)
(* stages an offer goes through.                                           *)
EXTENDS Matching, TLC

CONSTANTS l1, l2, l3

Links == {l1, l2, l3}
Purposes == Cand \cup {Selection}
Old == {l1}
Row(st, use, l) == [st |-> st, use |-> use, root |-> l]
NoLinks == [l \in Links |-> NoLink(l)]

At(st, slots, f, links) ==
    [offer |-> [st |-> st, slots |-> slots], cand |-> f, link |-> links,
     fiche |-> [c \in Cand |-> IF f[c].st = "IMMERSING" THEN "IMMERSING"
                               ELSE "SEEKING"]]
All(st) == [c \in Cand |-> Fresh(st, None)]

\* One candidate is pre-selected.
Started(c) == At("NOT_MATCHED", {}, [Nobody EXCEPT ![c] = Fresh("PRE_SELECTED", None)],
                 NoLinks)

\* The candidates have accepted; an old link of the company has been blocked.
Ready == At("MATCHED", {}, All("ACCEPTED"),
            [NoLinks EXCEPT ![l1] = Row("LOCKED", Selection, l1)])

\* The company chooses on one link and has not opened the other.
Choosing == At("CV_SEND", {}, All("SEND"),
               [NoLinks EXCEPT ![l1] = Row("AUTHENTICATED", Selection, l1),
                               ![l2] = Row("SENDING", Selection, l2)])

\* The company has kept the candidates, who have their links.
Booking(c, d) == At("CV_SEND", Slot, All("INTERVIEW"),
                    [NoLinks EXCEPT ![l1] = Row("AUTHENTICATED", c, l1),
                                    ![l2] = Row("AUTHENTICATED", d, l2)])

\* It has kept one and may still use its link, the other has just accepted.
Mixed(c, d) == At("CV_SEND", Slot,
                  [All("ACCEPTED") EXCEPT ![c] = Fresh("INTERVIEW", None)],
                  [NoLinks EXCEPT ![l1] = Row("AUTHENTICATED", Selection, l1),
                                  ![l2] = Row("AUTHENTICATED", c, l2)])

\* One is in immersion, the other has an interview.
Met(c, d) == LET s == CHOOSE s \in Slot : TRUE
                 t == CHOOSE t \in Slot : t # s
             IN At("IMMERSING", Slot,
                   [All("IMMERSING") EXCEPT
                    ![c] = [@ EXCEPT !.slot = s, !.concl = "IMMERSING"],
                    ![d] = Fresh("INTERVIEW", t)], NoLinks)

Situations == {Ready, Choosing} \cup
    {Started(c) : c \in Cand} \cup
    UNION {{Booking(p[1], p[2]), Mixed(p[1], p[2]), Met(p[1], p[2])} :
           p \in {p \in Cand \X Cand : p[1] # p[2]}}

Sym == Permutations(Cand) \cup Permutations(Req) \cup Permutations(Desk)
=============================================================================
