----------------------------- MODULE MCAbOffers -----------------------------
(* Instances of AbOffers.                                                  *)
EXTENDS AbOffers, TLC

Pos(job, tps, count) == [job |-> job, tps |-> tps, count |-> count]

Sales == Pos("sales", <<"ntc">>, 1)
Desk  == Pos("desk", <<"cc">>, 1)

\* Each list begins with the shorter one.
Growing == {<<Sales>>, <<Sales, Desk>>}
\* The first position may also be removed.
Shrinking == Growing \cup {<<Desk>>}

Places == {"sales", "desk"} \X {"ntc", "cc"}

\* Three requests without a failure, or two with one.
Busy   == {<<3, 0>>, <<2, 1>>}
Serial == {<<3, 0>>}

Users == Permutations(Staff)

\* One offer per training and per seat, in the order of the form.
ASSUME buildOffers(<<Pos("sales", <<"cc", "ntc">>, 2), Pos("desk", <<>>, 0)>>)
       = << <<"sales", "cc">>, <<"sales", "cc">>, <<"sales", "ntc">>,
            <<"sales", "ntc">>, <<"desk", None>> >>
=============================================================================
