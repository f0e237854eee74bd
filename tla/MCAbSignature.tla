--------------------------- MODULE MCAbSignature ---------------------------
(* Small instances of AbSignature.                                         *)
EXTENDS AbSignature

\* ab_webhook: two requests on instance "a", one on "b".
TwoInst == {"a", "b"}
HookPass == {"p1", "p2", "p3"}
HookInstOf == [x \in {"p1", "p2", "p3", "u"} |-> IF x = "p3" THEN "b" ELSE "a"]
HookFaults == {"duplicate", "timeout", "region", "crash", "lookup", "claim",
               "claimApplied", "sign", "empty", "prepare", "sender", "mail",
               "release", "store", "earlySign"}

\* ab_lifecycle: every kind of user, one request at a time.
OneInst == {"a"}
OnePass == {"p1"}
LifeInstOf == [x \in {"p1", "u", "v", "e"} |-> "a"]
LifeFaults == {"crash", "empty", "release", "releaseApplied", "mark", "store"}

\* ab_liveness: two requests, one instance, failures a retry makes up for.
LivePass == {"p1", "p2"}
LiveInstOf == [x \in {"p1", "p2", "u"} |-> "a"]
LiveFaults == {"duplicate", "claim", "sign", "empty", "prepare", "sender", "mail"}

\* ab_empty_download, ab_relance_signed: the smallest
\* instances in which the code does not do what its comments say.
EmptyFaults == {"empty"}
NoFaults == {}
=============================================================================
