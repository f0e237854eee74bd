--------------------------- MODULE ExternalAccess ---------------------------
(***************************************************************************)
(* The magic links given to people who have no account: the rows of the    *)
(* MySQL table external_access, from their creation to their end, and the  *)
(* requests that open, close, revoke and regenerate them.                  *)
(*                                                                         *)
(* Every request reads the row, decides on that copy, and writes with an   *)
(* UPDATE or a DELETE that filters on the signature alone.  The variable   *)
(* desk holds the requests between their read and their write.             *)
(***************************************************************************)
EXTENDS Naturals

CONSTANTS
    Link,           \* signatures that can be drawn
    Limited,        \* rows of the time when links had an expires_at
    Purpose,        \* what a link is for
    NoPurpose,
    Desk            \* requests on links served at the same time

ASSUME AccessAssumption ==
    NoPurpose \notin Purpose /\ Limited \subseteq Link /\ Link # {}

VARIABLES
    link,           \* link[l]: the row, and the link it was regenerated from
    late,           \* limited links whose expires_at has passed
    desk,           \* desk[d]: a request that has read a row
    closed,         \* history: links that were closed (COMPLETED)
    overtaken,      \* history: links written by a request whose copy was old
    doubled         \* history: links regenerated by two requests at once

accessHistory == <<closed, overtaken, doubled>>
accessVars == <<link, late, desk, accessHistory>>

LinkStatus == {"none", "SENDING", "AUTHENTICATED", "COMPLETED", "LOCKED",
               "EXPIRED", "deleted"}
LinkRow == [st : LinkStatus, use : Purpose \cup {NoPurpose}, root : Link]
Present(l) == link[l].st \notin {"none", "deleted"}

NoLink(l) == [st |-> "none", use |-> NoPurpose, root |-> l]
DeskStep == {"idle", "authenticate", "expire", "complete", "lock", "delete",
             "create"}
DeskRec == [pc : DeskStep, l : Link, st : LinkStatus]
NoDesk == [pc |-> "idle", l |-> CHOOSE l \in Link : TRUE, st |-> "none"]

\* UPDATE external_access SET status = s WHERE signature = l, by a request
\* that had read the status seen: the row may have changed, or be gone.
SetStatus(l, s, seen) ==
    /\ link' = IF Present(l) THEN [link EXCEPT ![l].st = s] ELSE link
    /\ closed' = IF s = "COMPLETED" /\ Present(l) THEN closed \cup {l}
                 ELSE closed
    /\ overtaken' = IF s # "COMPLETED" /\ link[l].st # seen
                    THEN overtaken \cup {l} ELSE overtaken
    /\ UNCHANGED <<late, doubled>>

\* INSERT of a new row for the use p, regenerated from root.
Insert(l, p, root) ==
    /\ link[l].st = "none"
    /\ link' = [link EXCEPT ![l] = [st |-> "SENDING", use |-> p,
                                    root |-> root]]

-----------------------------------------------------------------------------
(* Requests: the read.                                                     *)

Read(d, l, step) ==
    /\ desk[d].pc = "idle"
    /\ Present(l)
    /\ desk' = [desk EXCEPT ![d] = [pc |-> step, l |-> l, st |-> link[l].st]]
    /\ UNCHANGED <<link, late, closed, overtaken>>

\* Mutant: a completed link can be opened again.
OpenLinkCompleted(d, l) ==
    /\ link[l].st \in {"SENDING", "COMPLETED"} /\ l \notin late
    /\ Read(d, l, "authenticate")
    /\ UNCHANGED doubled

\* openLink: a link that is neither closed nor blocked nor expired.  Opening
\* one that is AUTHENTICATED already only issues another cookie.
OpenLink(d, l) ==
    /\ link[l].st = "SENDING" /\ l \notin late
    /\ Read(d, l, "authenticate")
    /\ UNCHANGED doubled

\* openLink and requireExternalGuest, on a row whose expires_at has passed.
FindExpired(d, l) ==
    /\ link[l].st \in {"SENDING", "AUTHENTICATED"} /\ l \in late
    /\ Read(d, l, "expire")
    /\ UNCHANGED doubled

\* close and complete.
CloseLink(d, l) ==
    /\ link[l].st # "COMPLETED"
    /\ Read(d, l, "complete")
    /\ UNCHANGED doubled

RevokeLink(d, l) ==
    /\ link[l].st # "COMPLETED"
    /\ Read(d, l, "lock")
    /\ UNCHANGED doubled

\* The new row of the desk e comes from the same first link as l.
Regenerating(e, l) ==
    desk[e].pc \in {"delete", "create"} /\ link[desk[e].l].root = link[l].root

\* Mutant: the old row is kept.
RegenerateKeeps(d, l) ==
    /\ link[l].st \in {"EXPIRED", "LOCKED"}
    /\ Read(d, l, "create")
    /\ doubled' = IF \E e \in Desk : Regenerating(e, l)
                  THEN doubled \cup {link[l].root} ELSE doubled

\* regenerate: only an expired or blocked link.
RegenerateLink(d, l) ==
    /\ link[l].st \in {"EXPIRED", "LOCKED"}
    /\ Read(d, l, "delete")
    /\ doubled' = IF \E e \in Desk : Regenerating(e, l)
                  THEN doubled \cup {link[l].root} ELSE doubled

-----------------------------------------------------------------------------
(* Requests: the write.                                                    *)

DeskDone(d) == desk' = [desk EXCEPT ![d] = NoDesk]

Target(pc) == CASE pc = "authenticate" -> "AUTHENTICATED"
                [] pc = "expire" -> "EXPIRED"
                [] pc = "complete" -> "COMPLETED"
                [] pc = "lock" -> "LOCKED"

WriteStatus(d) ==
    /\ desk[d].pc \in {"authenticate", "expire", "complete", "lock"}
    /\ SetStatus(desk[d].l, Target(desk[d].pc), desk[d].st)
    /\ DeskDone(d)

DeleteLink(d) ==
    /\ desk[d].pc = "delete"
    /\ LET l == desk[d].l IN
       /\ link' = [link EXCEPT ![l].st = "deleted"]
       /\ overtaken' = IF link[l].st # desk[d].st THEN overtaken \cup {l}
                       ELSE overtaken
    /\ desk' = [desk EXCEPT ![d].pc = "create"]
    /\ UNCHANGED <<late, closed, doubled>>

\* generate: a new signature for the same use.
CreateLink(d, l) ==
    /\ desk[d].pc = "create"
    /\ Insert(l, link[desk[d].l].use, link[desk[d].l].root)
    /\ DeskDone(d)
    /\ UNCHANGED <<late, accessHistory>>

\* A command fails or the process stops: the request ends where it is.
DeskFails(d) ==
    /\ desk[d].pc # "idle"
    /\ DeskDone(d)
    /\ UNCHANGED <<link, late, accessHistory>>

-----------------------------------------------------------------------------
(* Time.                                                                   *)

ExpiryPasses(l) ==
    /\ l \in Limited \ late
    /\ late' = late \cup {l}
    /\ UNCHANGED <<link, desk, accessHistory>>

\* deleteExpired, the daily purge: whatever the status, and atomically.
PurgeLink(l) ==
    /\ l \in late /\ Present(l)
    /\ link' = [link EXCEPT ![l].st = "deleted"]
    /\ overtaken' = overtaken \cup {l}
    /\ UNCHANGED <<late, desk, closed, doubled>>

LinkRequest ==
    \E d \in Desk, l \in Link :
        \/ OpenLink(d, l) \/ FindExpired(d, l) \/ CloseLink(d, l)
        \/ RevokeLink(d, l) \/ RegenerateLink(d, l)

LinkWrite ==
    \E d \in Desk :
        \/ WriteStatus(d) \/ DeleteLink(d)
        \/ \E l \in Link : CreateLink(d, l)

LinkTime == \E l \in Link : ExpiryPasses(l) \/ PurgeLink(l)

-----------------------------------------------------------------------------
(* Properties.                                                             *)

\* The variables hold what the code can store in them.
AccessTypeOK ==
    /\ link \in [Link -> LinkRow]
    /\ late \subseteq Limited
    /\ desk \in [Desk -> DeskRec]
    /\ closed \subseteq Link
    /\ overtaken \subseteq Link
    /\ doubled \subseteq Link

\* "Jusqu'a cloture explicite (COMPLETED)": once closed, a link stays closed;
\* only a request that had read the row before the closing, or the purge of
\* an old row, undoes it.
ClosedLinkStays ==
    \A l \in closed : link[l].st = "COMPLETED" \/ l \in overtaken

\* Regenerating replaces a link: of a link and those regenerated from it one
\* row exists at most, unless two people regenerated it at the same time.
OneRowPerLink ==
    \A l, m \in Link :
        Present(l) /\ Present(m) /\ link[l].root = link[m].root =>
            l = m \/ link[l].root \in doubled

=============================================================================
