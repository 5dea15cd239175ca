------------------------------ MODULE Closures ------------------------------
(***************************************************************************)
(* School closures (internal/handlers/holidays.go): holidays and pauses an *)
(* admin registers and cancels.  Each request is one transaction under a   *)
(* table lock, which may also send a broadcast to every parent.  The date  *)
(* a request works with is read when it arrives, before it waits for the   *)
(* lock.                                                                   *)
(***************************************************************************)
EXTENDS Broadcasts

CONSTANTS
    MaxDate,         \* bound: dates are 0..MaxDate
    StartDate,       \* today at the start
    MaxHolidayDays,  \* the longest holiday
    Existing         \* what closure 1 may be at the start, or NoClosure

Dates == 0..MaxDate
Infinity == MaxDate + 1
ClosureIds == 1..(MaxRequests + 1)
NoClosure == [kind |-> "none", start |-> Infinity + 1, end |-> 0, notice |-> 0]
Closure == [kind : {"holiday", "pause"}, start : Dates,
            end : Dates \cup {Infinity}, notice : 0..MaxRequests]

ASSUME ClosuresAssumption ==
    /\ MaxDate \in Nat /\ StartDate \in 0..MaxDate
    /\ MaxHolidayDays \in Nat \ {0}
    /\ Existing \subseteq Closure \cup {NoClosure}
    /\ \A c \in Existing : /\ c.notice = 0
                           /\ c # NoClosure => c.start <= c.end

VARIABLES
    today,     \* Clock's date
    closures,  \* school_closures by id, NoClosure when there is no such row
    lastId,    \* ids handed out
    cancels    \* history: [id, today] of every cancellation carried out

calendar == <<closures, lastId, cancels>>
allVars == <<vars, today, calendar>>

ClosuresTypeOK ==
    /\ today \in Dates
    /\ lastId \in 1..(MaxRequests + 1)
    /\ closures \in [ClosureIds -> Closure \cup {NoClosure}]
    /\ \A id \in ClosureIds :
         closures[id] # NoClosure => closures[id].start <= closures[id].end

ClosuresInit ==
    /\ Init
    /\ today = StartDate
    /\ \E c \in Existing :
         /\ c # NoClosure => "cancel" \in workload
         /\ closures = [id \in ClosureIds |->
                           IF id = 1 THEN c ELSE NoClosure]
    /\ lastId = 1 /\ cancels = <<>>

-----------------------------------------------------------------------------

Covers(c, d) == c.start <= d /\ d <= c.end

\* Whether DayOn and schoolDaySQL find a closure over the date.
Closed(d) == \E id \in DOMAIN closures : Covers(closures[id], d)

\* parseClosure; a holiday without an end is one day long.
Valid(c) ==
    /\ c.start <= c.end
    /\ c.kind = "holiday" => /\ c.end # Infinity
                             /\ c.end - c.start < MaxHolidayDays
    /\ c.kind = "pause" => c.start >= today

\* Nobody is told of a closure that is already over.
WillNotify(c, notify) == notify /\ c.end >= today

BeginCreate(r) ==
    /\ Accepts(r, "create")
    /\ \E c \in {x \in Closure : x.notice = 0},
          notify \in BOOLEAN, text \in Texts :
         /\ Valid(c)
         /\ req' = [req EXCEPT ![r] =
              [Idle EXCEPT !.kind = "create", !.pc = "lock", !.text = text,
                           !.at = now,
                           !.about = [closure |-> c, today |-> today,
                                      notify |-> WillNotify(c, notify)]]]
    /\ UNCHANGED <<clock, people, tables, push, locks, events, today, calendar>>

BeginCancel(r) ==
    /\ Accepts(r, "cancel")
    /\ \E id \in ClosureIds, notify \in BOOLEAN, text \in Texts :
         req' = [req EXCEPT ![r] =
              [Idle EXCEPT !.kind = "cancel", !.pc = "lock", !.text = text,
                           !.at = now,
                           !.about = [id |-> id, closure |-> NoClosure,
                                      today |-> today, notify |-> notify]]]
    /\ UNCHANGED <<clock, people, tables, push, locks, events, today, calendar>>

\* Creating and cancelling do not exclude each other.
MutCanLockClosures(r) == TRUE

CanLockClosures(r) == Free(r, {"closures"})

LockClosures(r) ==
    /\ req[r].kind \in {"create", "cancel"} /\ req[r].pc = "lock"
    /\ CanLockClosures(r)
    /\ Step(r, [req[r] EXCEPT !.pc = "plan"], {"closures"})
    /\ UNCHANGED <<clock, people, tables, push, begun, events, today, calendar>>

\* With the row changed in the transaction, the broadcast comes next.
Planned(r, about) ==
    Step(r, [req[r] EXCEPT !.pc = IF about.notify THEN "insert" ELSE "commit",
                           !.about = about], {})

Overlap(c) ==
    \E id \in DOMAIN closures :
        closures[id].start <= c.end /\ closures[id].end >= c.start

InsertClosure(r) ==
    /\ req[r].kind = "create" /\ req[r].pc = "plan"
    /\ IF Overlap(req[r].about.closure) THEN Done(r)
       ELSE Planned(r, req[r].about)
    /\ UNCHANGED <<clock, people, tables, push, begun, events, today, calendar>>

\* A closure that was shortened can be cancelled again.
MutOver(c, t) == FALSE

Over(c, t) == c.end < t

\* A running closure is deleted with the days it has already closed.
MutCancelled(c, t) == NoClosure

\* planCancel: from t onward.
Cancelled(c, t) ==
    IF c.start >= t THEN NoClosure ELSE [c EXCEPT !.end = t - 1]

CancelClosure(r) ==
    LET about == req[r].about
        c == closures[about.id]
    IN  /\ req[r].kind = "cancel" /\ req[r].pc = "plan"
        /\ IF c = NoClosure \/ Over(c, about.today) THEN Done(r)
           ELSE Planned(r, [about EXCEPT !.closure =
                              Cancelled(c, about.today)])
        /\ UNCHANGED <<clock, people, tables, push, begun, events, today,
                       calendar>>

\* closureBroadcast: without parents the savepoint is rolled back and the
\* transaction goes on without a broadcast.
ClosureBroadcast(r) ==
    LET to == Recipients(Everybody)
    IN  /\ req[r].kind \in {"create", "cancel"} /\ req[r].pc = "insert"
        /\ Free(r, {"exclusive"})
        /\ IF Reaches(to)
           THEN Step(r, [req[r] EXCEPT !.pc = "keys", !.to = to], {"insert"})
           ELSE Step(r, [req[r] EXCEPT !.pc = "commit"], {})
        /\ UNCHANGED <<clock, people, tables, push, begun, events, today,
                       calendar>>

\* The broadcast's id is kept although its savepoint was rolled back.
MutNotice(rec) == IF rec.about.notify THEN Len(broadcasts) + 1 ELSE 0

\* broadcast_id of a new closure.
Notice(rec) == IF rec.to # {} THEN Len(broadcasts) + 1 ELSE 0

CommitClosure(r) ==
    LET rec == req[r]
    IN  /\ rec.pc = "commit"
        /\ \/ /\ rec.kind = "create"
              /\ lastId' = lastId + 1
              /\ closures' = [closures EXCEPT ![lastId + 1] =
                   [rec.about.closure EXCEPT !.notice = Notice(rec)]]
              /\ UNCHANGED cancels
           \/ /\ rec.kind = "cancel"
              /\ closures' = [closures EXCEPT ![rec.about.id] =
                                rec.about.closure]
              /\ cancels' = Append(cancels, [id |-> rec.about.id,
                                             today |-> rec.about.today])
              /\ UNCHANGED lastId
        /\ IF rec.to # {} THEN Announced(rec) ELSE UNCHANGED <<tables, push>>
        /\ Done(r)
        /\ UNCHANGED <<clock, people, begun, events, today>>

NextDay ==
    /\ "midnight" \in workload /\ today < MaxDate /\ today' = today + 1
    /\ UNCHANGED <<vars, calendar>>

ClosureStep(r) ==
    \/ BeginCreate(r) \/ BeginCancel(r) \/ LockClosures(r) \/ InsertClosure(r)
    \/ CancelClosure(r) \/ ClosureBroadcast(r) \/ CommitClosure(r)

ClosuresNext ==
    \/ \E r \in Requests : ClosureStep(r)
    \/ NextDay
    \/ Next /\ UNCHANGED <<today, calendar>>

ClosuresSpec ==
    /\ ClosuresInit /\ [][ClosuresNext]_allVars
    /\ \A b \in 1..MaxRequests :
         WF_allVars(PushStep(b) /\ UNCHANGED <<today, calendar>>)

-----------------------------------------------------------------------------

\* No date belongs to two closures, however registrations and cancellations
\* overlap: a date has one title, and cancelling its closure opens it.
ClosuresDisjoint ==
    \A i, j \in DOMAIN closures :
        i # j => ~\E d \in Dates :
                     Covers(closures[i], d) /\ Covers(closures[j], d)

\* A date is opened again only by a cancellation, and only from the day that
\* request arrived on: what was closed before stays out of the attendance
\* records, also when the request waited past midnight.
PastStaysClosed ==
    [][\A d \in Dates : Closed(d) /\ ~Closed(d)' =>
         \E r \in Requests : /\ req[r].kind = "cancel" /\ req[r].pc = "commit"
                             /\ req[r].about.today <= d]_allVars

\* A closure listed as notified has a broadcast of its own, sent when it was
\* registered, also when accounts disappear while it is being sent.
NoticesExist ==
    \A i \in DOMAIN closures : LET b == closures[i].notice IN b # 0 =>
        /\ b \in DOMAIN broadcasts /\ broadcasts[b].by = "create"
        /\ \A j \in DOMAIN closures : closures[j].notice = b => i = j

\* Of several cancellations of one closure that arrive on the same day, one
\* is carried out and announced.
CancelledOnce ==
    \A i, j \in DOMAIN cancels : i # j => cancels[i] # cancels[j]
=============================================================================
