----------------------------- MODULE SaCalendar -----------------------------
(***************************************************************************)
(* The SA of an alternant in the Google calendars of the teaching staff:   *)
(* every edit is pushed to each calendar, and looking at a calendar first  *)
(* brings back what was moved there.  The domain writes of a request are   *)
(* one step here (SaPlanning takes them apart); every call to Google is a  *)
(* step, and may fail.  One request is served at a time.                   *)
(*                                                                         *)
(* The events themselves are external: Google keeps them, people move and  *)
(* delete them by hand.                                                    *)
(***************************************************************************)
EXTENDS SaSequence

CONSTANTS
    User,           \* teaching staff with a Google account
    Event,          \* identifiers Google can give
    Window,         \* the ranges of days a page shows
    Margin,         \* pushes look for events so many days around
    Day,            \* days the staff enter
    Situation,      \* the SA at first, all of them in every calendar
    MaxOps          \* bound: requests and edits by hand

VARIABLES
    calendar,       \* calendar[u][e]: the event e of u, or NoEvent
    ids,            \* google_event_ids: ids[s][u]
    job,            \* the request being served
    moved,          \* history: events moved by hand, not looked at since
    want,           \* history: the day each SA was given
    ops

vars == <<saVars, calendar, ids, job, moved, want, ops>>

NoEvent == [s |-> None, day |-> 0]
NoItems == [s \in Sa |-> None]
NoJob == [pc |-> "idle", u |-> None, window |-> <<0, 0>>, events |-> {},
          listed |-> [e \in Event |-> NoEvent], items |-> NoItems,
          todo |-> {}, changed |-> {}, users |-> {}, gone |-> {}]

Active(s) == Live(s) /\ ~sa[s].arch /\ alt.st = "active"

\* effectiveDate.
EffectiveDay(s) == IF sa[s].st = "done" /\ sa[s].real # None
                   THEN sa[s].real ELSE sa[s].day
ItemsOf(S) == [s \in Sa |-> IF s \in S THEN EffectiveDay(s) ELSE None]
Pending(items) == {s \in Sa : items[s] # None}

Init ==
    /\ sa \in Situation
    /\ alt = Person("active", "none") /\ rupture = [all |-> 0, quits |-> 0]
    /\ ids \in [Sa -> [User -> Event \cup {None}]]
    /\ \A u \in User :
        /\ \A s \in Sa : (ids[s][u] # None) = Live(s)
        /\ \A s, t \in Sa : ids[s][u] = ids[t][u] => s = t \/ ids[s][u] = None
    /\ calendar = [u \in User |-> [e \in Event |->
            IF \E s \in Sa : ids[s][u] = e
            THEN LET s == CHOOSE s \in Sa : ids[s][u] = e
                 IN [s |-> s, day |-> EffectiveDay(s)]
            ELSE NoEvent]]
    /\ job = NoJob /\ moved = {} /\ want = [s \in Sa |-> sa[s].day] /\ ops = 0

-----------------------------------------------------------------------------
(* Requests of the staff, up to their first call to Google.                *)

Serve(rec) ==
    /\ job.pc = "idle" /\ ops < MaxOps /\ ops' = ops + 1
    /\ job' = rec
    /\ UNCHANGED <<calendar, ids, moved>>

\* syncSequencesForAllPedas.
SyncJob(S) == IF S = {} THEN NoJob
              ELSE [NoJob EXCEPT !.pc = "sync", !.changed = S, !.users = User]

\* removeSequencesForAllPedas.
RemoveJob(S) ==
    LET gone == {<<u, ids[s][u]>> : u \in User, s \in S} \ (User \X {None})
    IN IF gone = {} THEN NoJob ELSE [NoJob EXCEPT !.pc = "remove", !.gone = gone]

\* What a new date of s makes of the dates, the SA after it moved by as much.
Shifted(days, s, day) ==
    [t \in Sa |-> IF t \in Later(sa[s].num) THEN days[t] + day - sa[s].day
                  ELSE IF t = s THEN day ELSE days[t]]
Days == [s \in Sa |-> sa[s].day]
WithDays(days) == [s \in Sa |-> [sa[s] EXCEPT !.day = days[s]]]

rescheduleSequence(s, day) ==
    /\ Live(s) /\ sa[s].st # "done"
    /\ sa' = WithDays(Shifted(Days, s, day))
    /\ want' = Shifted(want, s, day)
    /\ Serve(SyncJob({s} \ {t \in Sa : sa[t].arch}))
    /\ UNCHANGED <<alt, rupture>>

completeSequence(s, day) ==
    /\ Live(s) /\ sa[s].contacts = Contact
    /\ sa' = [WithDays([Shifted(Days, s, day) EXCEPT ![s] = sa[s].day]) EXCEPT
              ![s].st = "done", ![s].real = day]
    /\ want' = [Shifted(want, s, day) EXCEPT ![s] = want[s]]
    /\ Serve(SyncJob({t \in Sa : Live(t) /\ ~sa[t].arch}))
    /\ UNCHANGED <<alt, rupture>>

createSequence(day) ==
    /\ Known /\ CanCreate
    /\ sa' = [sa EXCEPT ![NewSa] = Planned("pending", day, nextNumero, FALSE)]
    /\ want' = [want EXCEPT ![NewSa] = day]
    /\ Serve(SyncJob({NewSa}))
    /\ UNCHANGED <<alt, rupture>>

deleteSequence(s) ==
    /\ Live(s)
    /\ sa' = deleteAll({s})
    /\ Serve(RemoveJob({s}))
    /\ UNCHANGED <<alt, rupture, want>>

archiveAlternant ==
    /\ Known
    /\ sa' = setArchived(TRUE) /\ alt' = Person("archived", "rupture")
    /\ Serve(RemoveJob({s \in Sa : Live(s)}))
    /\ UNCHANGED <<rupture, want>>

unarchiveAlternant ==
    /\ Known
    /\ sa' = setArchived(FALSE) /\ alt' = Person("active", "none")
    /\ Serve(SyncJob({s \in Sa : Live(s)}))
    /\ UNCHANGED <<rupture, want>>

-----------------------------------------------------------------------------
(* Edits by hand in Google.                                                *)

ByHand(u, e, evt) ==
    /\ ops < MaxOps /\ ops' = ops + 1
    /\ calendar[u][e].s # None
    /\ calendar' = [calendar EXCEPT ![u][e] = evt]
    /\ UNCHANGED <<saVars, ids, job, want>>

MoveEvent(u, e, day) ==
    /\ ByHand(u, e, [calendar[u][e] EXCEPT !.day = day])
    /\ moved' = moved \cup {<<u, e>>}

DeleteEvent(u, e) ==
    /\ ByHand(u, e, NoEvent)
    /\ moved' = moved \ {<<u, e>>}

-----------------------------------------------------------------------------
(* Pushing: the events as they were listed, the SA as they were read.      *)

Listed(u, from, to) ==
    {e \in Event : calendar[u][e].s # None /\ calendar[u][e].day \in from .. to}

\* byTag: the event listed last wins, and they come by date.
Tagged(s) ==
    {e \in job.events : /\ job.listed[e].s = s
                        /\ \A f \in job.events : job.listed[f].s = s =>
                            job.listed[f].day <= job.listed[e].day}

\* pushItems, for one SA; a call that fails is counted and forgotten.
Push(s) ==
    /\ job.pc = "push" /\ s \in Pending(job.items)
    /\ LET u == job.u
           evt == [s |-> s, day |-> job.items[s]]
       IN \/ /\ Tagged(s) = {}
             /\ \E e \in Event :
                 /\ calendar[u][e] = NoEvent
                 /\ calendar' = [calendar EXCEPT ![u][e] = evt]
                 /\ ids' = [ids EXCEPT ![s][u] = e]
             /\ UNCHANGED moved
          \/ \E e \in Tagged(s) :
                 /\ IF job.listed[e] = evt THEN UNCHANGED <<calendar, moved>>
                    ELSE /\ calendar[u][e] # NoEvent
                         /\ calendar' = [calendar EXCEPT ![u][e] = evt]
                         /\ moved' = moved \ {<<u, e>>}
                 /\ ids' = [ids EXCEPT ![s][u] = e]
          \/ UNCHANGED <<calendar, ids, moved>>
    /\ job' = [job EXCEPT !.items[s] = None]
    /\ UNCHANGED <<saVars, want, ops>>

\* The items are done: on to the other users, after a view only if it moved
\* a SA.
Pushed ==
    /\ job.pc = "push" /\ Pending(job.items) = {}
    /\ job' = IF job.users = {} \/ job.changed = {} THEN NoJob
              ELSE [job EXCEPT !.pc = "sync"]
    /\ UNCHANGED <<saVars, calendar, ids, moved, want, ops>>

\* syncSequencesForAllPedas and syncAllForUser look for events around the
\* dates of the SA they push, and leave a user whose list fails.
SyncUser(u) ==
    /\ job.pc = "sync" /\ u \in job.users
    /\ LET items == ItemsOf({s \in job.changed : Live(s) /\ ~sa[s].arch})
           days == {items[s] : s \in Pending(items)}
           rest == [job EXCEPT !.users = @ \ {u}]
       IN \/ /\ days # {}
             /\ job' = [rest EXCEPT !.pc = "push", !.u = u, !.items = items,
                  !.listed = calendar[u],
                  !.events = Listed(u, Min(days) - Margin, Max(days) + Margin)]
          \/ job' = IF rest.users = {} THEN NoJob ELSE rest
    /\ UNCHANGED <<saVars, calendar, ids, moved, want, ops>>

\* The push of all active SA to one calendar.
syncAllForUser(u) ==
    /\ Serve(LET S == {s \in Sa : Active(s)} IN
             IF S = {} THEN NoJob ELSE [SyncJob(S) EXCEPT !.users = {u}])
    /\ UNCHANGED <<saVars, want>>

\* safeDelete, for one event.
Remove(u, e) ==
    /\ job.pc = "remove" /\ <<u, e>> \in job.gone
    /\ calendar' \in {calendar, [calendar EXCEPT ![u][e] = NoEvent]}
    /\ job' = IF job.gone = {<<u, e>>} THEN NoJob
              ELSE [job EXCEPT !.gone = @ \ {<<u, e>>}]
    /\ UNCHANGED <<saVars, ids, moved, want, ops>>

-----------------------------------------------------------------------------
(* Looking at a calendar: listAndSyncForUser.                              *)

View(u, window) ==
    /\ Serve([NoJob EXCEPT !.pc = "reconcile", !.u = u, !.window = window,
                           !.listed = calendar[u], !.users = User,
                           !.events = Listed(u, window[1], window[2]),
                           !.todo = Listed(u, window[1], window[2])])
    /\ UNCHANGED <<saVars, want>>

\* reconcile, for the next event in the order they were listed in: the event
\* of a SA that is over is deleted, another one gives a waiting SA its date.
Reconcile(e) ==
    /\ job.pc = "reconcile" /\ e \in job.todo
    /\ \A f \in job.todo : job.listed[e].day <= job.listed[f].day
    /\ LET u == job.u
           s == job.listed[e].s
           day == job.listed[e].day
           rest == [job EXCEPT !.todo = @ \ {e}]
       IN \/ /\ ~Active(s)
             /\ calendar' \in {calendar, [calendar EXCEPT ![u][e] = NoEvent]}
             /\ job' = rest
             /\ UNCHANGED <<sa, ids, want>>
          \/ /\ Active(s) /\ (sa[s].st # "pending" \/ sa[s].day = day)
             /\ ids' = [ids EXCEPT ![s][u] = e]
             /\ job' = rest
             /\ UNCHANGED <<sa, calendar, want>>
          \/ /\ Active(s) /\ sa[s].st = "pending" /\ sa[s].day # day
             /\ ids' = [ids EXCEPT ![s][u] = e]
             /\ sa' = WithDays(Shifted(Days, s, day))
             /\ want' = IF <<u, e>> \in moved THEN Shifted(want, s, day) ELSE want
             /\ job' = [rest EXCEPT !.changed = @ \cup {s}]
             /\ UNCHANGED calendar
    /\ moved' = moved \ {<<job.u, e>>}
    /\ UNCHANGED <<alt, rupture, ops>>

\* The SA are read again, and those the page shows are pushed.
Reconciled ==
    /\ job.pc = "reconcile" /\ job.todo = {}
    /\ job' = [job EXCEPT !.pc = "push", !.items = ItemsOf({s \in Sa :
                Active(s) /\ EffectiveDay(s) \in job.window[1] .. job.window[2]})]
    /\ UNCHANGED <<saVars, calendar, ids, moved, want, ops>>

-----------------------------------------------------------------------------

Next ==
    \/ \E s \in Sa, day \in Day :
        rescheduleSequence(s, day) \/ completeSequence(s, day)
    \/ \E day \in Day : createSequence(day)
    \/ \E s \in Sa : deleteSequence(s) \/ Push(s)
    \/ archiveAlternant \/ unarchiveAlternant
    \/ \E u \in User :
        \/ \E e \in Event : (\E day \in Day : MoveEvent(u, e, day))
                            \/ DeleteEvent(u, e) \/ Remove(u, e)
        \/ SyncUser(u) \/ syncAllForUser(u)
        \/ \E window \in Window : View(u, window)
    \/ Pushed \/ Reconciled
    \/ \E e \in Event : Reconcile(e)

Spec == Init /\ [][Next]_vars

-----------------------------------------------------------------------------

\* "Deplace sa date prevue et decale d'autant les SA suivantes", for an edit
\* in the application and for an event moved in Google alike: once a request
\* is over, every SA has the day these decisions give it.
PlanKept == job.pc = "idle" => \A s \in Sa : Live(s) => sa[s].day = want[s]

=============================================================================
