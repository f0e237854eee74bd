-------------------------- MODULE MCQuestionnaire --------------------------
(* Small instances of Questionnaire.                                       *)
EXTENDS Questionnaire, TLC

\* Two questions; the second revision adds one to the first.
TwoRevs == <<1, 2>>
OneRev == <<2>>

\* Neither the browsers nor the requests are told apart by any property.
Symmetry == Permutations(Device) \cup Permutations(Req)
=============================================================================
