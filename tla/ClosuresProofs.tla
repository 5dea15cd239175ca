--------------------------- MODULE ClosuresProofs ---------------------------
(***************************************************************************)
(* What broadcasts and closures can do to each other, for any number of    *)
(* requests, parents, devices and dates.                                   *)
(*                                                                         *)
(* The argument is about the two table locks.  A request that wrote        *)
(* nothing yet has only read; what it read stays true because whoever      *)
(* could change it needs a lock that conflicts with its own: a broadcast   *)
(* is committed under the lock of an INSERT, a closure under that of       *)
(* school_closures.                                                        *)
(***************************************************************************)
EXTENDS Closures, FiniteSetTheorems, TLAPS

\* A closure, with a notice that is any broadcast.
Row == [kind : {"holiday", "pause"}, start : Dates,
        end : Dates \cup {Infinity}, notice : Nat]

CreateAbout == [closure : Row, today : Dates, notify : BOOLEAN]
CancelAbout == [id : ClosureIds, closure : Row \cup {NoClosure},
                today : Dates, notify : BOOLEAN]

ReqRec ==
    [kind : {"none", "broadcast", "create", "cancel"},
     pc : {"idle", "lock", "check", "plan", "insert", "keys", "commit"},
     text : Texts \cup {0}, audience : Audience, at : 0..MaxTime,
     to : SUBSET Parents, about : {{}} \cup CreateAbout \cup CancelAbout]

Writing(rec) == rec.pc \in {"insert", "keys", "commit"}

\* What a request is, by its kind, and the locks it has.
Form(rec, held) ==
    /\ rec.kind = "none" <=> rec.pc = "idle"
    /\ rec.kind # "none" => rec.text \in Texts
    /\ rec.kind = "broadcast" =>
         /\ rec.audience # ToParent(0) /\ rec.pc # "plan"
         /\ rec.pc # "lock" => "exclusive" \in held
         /\ rec.pc = "commit" => rec.to # {}
    /\ rec.pc = "check" => rec.kind = "broadcast"
    /\ rec.kind = "create" => /\ rec.about \in CreateAbout
                              /\ rec.about.closure.start <= rec.about.closure.end
    /\ rec.kind = "cancel" => rec.about \in CancelAbout
    /\ rec.kind \in {"create", "cancel"} /\ rec.pc # "lock" => "closures" \in held
    /\ rec.to # {} => rec.pc \in {"keys", "commit"} /\ "insert" \in held
    /\ rec.pc = "keys" => rec.to # {}

\* What it has read.
Facts(rec) ==
    /\ rec.pc = "commit" => rec.to \subseteq parents
    /\ rec.kind = "broadcast" /\ Writing(rec) => ~RecentDuplicate(rec)
    /\ rec.kind = "create" /\ Writing(rec) => ~Overlap(rec.about.closure)
    /\ rec.kind = "cancel" /\ Writing(rec) =>
         LET c == closures[rec.about.id]
         IN  /\ c # NoClosure /\ ~Over(c, rec.about.today)
             /\ rec.about.closure = Cancelled(c, rec.about.today)

Modes == {"exclusive", "insert", "closures"}

LocksApart ==
    \A r, u \in Requests : r # u =>
        /\ "exclusive" \in locks[r] => locks[u] \cap {"exclusive", "insert"} = {}
        /\ "closures" \in locks[r] => "closures" \notin locks[u]

RequestsInv ==
    /\ req \in [Requests -> ReqRec] /\ locks \in [Requests -> SUBSET Modes]
    /\ \A r \in Requests : Form(req[r], locks[r]) /\ Facts(req[r])
    /\ LocksApart

RowsOf(b) == {n \in notifications : n.broadcast = b}

BroadcastsInv ==
    /\ TypeOK /\ NoRepeat /\ IsFiniteSet(notifications)
    /\ \A b \in DOMAIN broadcasts : Cardinality(RowsOf(b)) <= broadcasts[b].count

\* A cancellation that was carried out on a day has left nothing of the
\* closure from that day on.
CancelsDone ==
    \A i \in DOMAIN cancels :
        /\ cancels[i].id <= lastId
        /\ \/ closures[cancels[i].id] = NoClosure
           \/ Over(closures[cancels[i].id], cancels[i].today)

CalendarInv ==
    /\ today \in Dates /\ lastId \in Nat \ {0}
    /\ closures \in [ClosureIds -> Row \cup {NoClosure}]
    /\ \A id \in ClosureIds :
         closures[id] # NoClosure =>
             id <= lastId /\ closures[id].start <= closures[id].end
    /\ cancels \in Seq([id : ClosureIds, today : Dates])
    /\ CancelsDone /\ CancelledOnce /\ NoticesExist /\ ClosuresDisjoint

ClosuresInv == RequestsInv /\ BroadcastsInv /\ CalendarInv

-----------------------------------------------------------------------------
(* Steps that read, and steps that end *)

rows == <<now, parents, class, owner>>

\* What does not touch the log of broadcasts, or the calendar.
LEMMA LogFrame ==
    ASSUME BroadcastsInv, UNCHANGED <<rows, tables>>, DOMAIN push' = DOMAIN push
    PROVE  BroadcastsInv'
  <1>1. UNCHANGED <<now, parents, class, owner, broadcasts, notifications>>
    BY DEF rows, tables
  <1>2. TypeOK' /\ NoRepeat'
    BY <1>1 DEF BroadcastsInv, TypeOK, NoRepeat
  <1>3. \A b \in DOMAIN broadcasts' : Cardinality(RowsOf(b)') <= broadcasts'[b].count
    BY <1>1 DEF BroadcastsInv, RowsOf
  <1> QED
    BY <1>1, <1>2, <1>3 DEF BroadcastsInv, RowsOf

\* The calendar stays right when broadcasts are only added.
LEMMA CalendarFrame ==
    ASSUME CalendarInv, UNCHANGED calendar, today' \in Dates,
           DOMAIN broadcasts \subseteq DOMAIN broadcasts',
           \A b \in DOMAIN broadcasts : broadcasts'[b].by = broadcasts[b].by
    PROVE  CalendarInv'
  <1>1. UNCHANGED <<closures, lastId, cancels>>
    BY DEF calendar
  <1>2. NoticesExist'
    BY <1>1 DEF CalendarInv, NoticesExist
  <1>3. CancelsDone' /\ CancelledOnce' /\ ClosuresDisjoint'
    BY <1>1 DEF CalendarInv, CancelsDone, CancelledOnce, ClosuresDisjoint, Over,
       Covers
  <1> QED
    BY <1>1, <1>2, <1>3 DEF CalendarInv

\* The locks of a mode that r asks for are nobody else's.
Grants(r, modes) ==
    /\ modes \subseteq Modes
    /\ "exclusive" \in modes => Free(r, {"exclusive", "insert"})
    /\ "insert" \in modes => Free(r, {"exclusive"})
    /\ "closures" \in modes => Free(r, {"closures"})

\* A statement that waits for locks and remembers what it read.
LEMMA StepKeeps ==
    ASSUME ClosuresInv, NEW r \in Requests, NEW new \in ReqRec, NEW modes,
           req' = [req EXCEPT ![r] = new],
           locks' = [locks EXCEPT ![r] = locks[r] \cup modes],
           Form(new, locks[r] \cup modes), Facts(new), Grants(r, modes),
           UNCHANGED <<rows, tables, push, today, calendar>>
    PROVE  ClosuresInv'
  <1>1. UNCHANGED <<parents, broadcasts, closures>>
    BY DEF rows, tables, calendar
  <1>2. /\ req' \in [Requests -> ReqRec] /\ locks' \in [Requests -> SUBSET Modes]
        /\ req'[r] = new /\ locks'[r] = locks[r] \cup modes
        /\ \A u \in Requests \ {r} : req'[u] = req[u] /\ locks'[u] = locks[u]
    BY DEF ClosuresInv, RequestsInv, Grants
  <1>3. ASSUME NEW u \in Requests PROVE Form(req[u], locks[u])' /\ Facts(req[u])'
    <2>1. Form(req'[u], locks'[u]) /\ Facts(req'[u])
      BY <1>2 DEF ClosuresInv, RequestsInv
    <2> QED
      BY <1>1, <2>1 DEF Form, Facts, RecentDuplicate, Overlap, Over, Cancelled,
         Writing
  <1>4. LocksApart'
    BY <1>2 DEF ClosuresInv, RequestsInv, LocksApart, Grants, Free
  <1>5. BroadcastsInv' /\ CalendarInv'
    BY <1>1, LogFrame, CalendarFrame DEF ClosuresInv, CalendarInv
  <1> QED
    BY <1>2, <1>3, <1>4, <1>5 DEF ClosuresInv, RequestsInv

\* A request that does nothing relies on nothing.
LEMMA IdleRec == Idle \in ReqRec /\ Form(Idle, {}) /\ Facts(Idle)
  <1>1. Everybody \in Audience /\ 0 \in 0..MaxTime
    BY BroadcastsAssumption DEF Everybody, Audience
  <1> QED
    BY <1>1 DEF Idle, ReqRec, Form, Facts, Writing

\* A request that ends, if what the others read is still true.
LEMMA DoneKeeps ==
    ASSUME RequestsInv, NEW r \in Requests, Done(r),
           \A u \in Requests \ {r} : Facts(req[u])'
    PROVE  RequestsInv'
  <1>1. /\ req' \in [Requests -> ReqRec] /\ locks' \in [Requests -> SUBSET Modes]
        /\ req'[r] = Idle /\ locks'[r] = {}
        /\ \A u \in Requests \ {r} : req'[u] = req[u] /\ locks'[u] = locks[u]
    BY IdleRec DEF RequestsInv, Done
  <1>2. ASSUME NEW u \in Requests PROVE Form(req[u], locks[u])' /\ Facts(req[u])'
    <2>1. CASE u = r
      BY <1>1, <2>1 DEF Idle, Form, Facts, Writing
    <2>2. CASE u # r
      BY <1>1, <2>2 DEF RequestsInv, Form
    <2> QED
      BY <2>1, <2>2
  <1>3. LocksApart'
    BY <1>1 DEF RequestsInv, LocksApart
  <1> QED
    BY <1>1, <1>2, <1>3 DEF RequestsInv

\* It ends without a trace.
LEMMA GiveUpKeeps ==
    ASSUME ClosuresInv, NEW r \in Requests, Done(r),
           UNCHANGED <<rows, tables, push, today, calendar>>
    PROVE  ClosuresInv'
  <1>1. UNCHANGED <<parents, broadcasts, closures>>
    BY DEF rows, tables, calendar
  <1>2. ASSUME NEW u \in Requests \ {r} PROVE Facts(req[u])'
    <2>1. req'[u] = req[u] /\ Facts(req[u])
      BY DEF ClosuresInv, RequestsInv, Done
    <2> QED
      BY <1>1, <2>1 DEF Facts, RecentDuplicate, Overlap, Over, Cancelled, Writing
  <1>3. BroadcastsInv' /\ CalendarInv'
    BY <1>1, LogFrame, CalendarFrame DEF ClosuresInv, CalendarInv
  <1> QED
    BY <1>2, <1>3, DoneKeeps DEF ClosuresInv

-----------------------------------------------------------------------------
(* One request up to its commit *)

\* A request that arrives has no locks and has read nothing.
LEMMA BeginKeeps ==
    ASSUME ClosuresInv, NEW r \in Requests, NEW new \in ReqRec,
           req[r].pc = "idle", req' = [req EXCEPT ![r] = new],
           Form(new, {}), new.pc = "lock",
           UNCHANGED <<rows, tables, push, locks, today, calendar>>
    PROVE  ClosuresInv'
  <1>1. locks' = [locks EXCEPT ![r] = locks[r] \cup {}]
    BY DEF ClosuresInv, RequestsInv
  <1>2. Form(new, locks[r] \cup {}) /\ Facts(new)
    BY DEF Form, Facts, Writing
  <1>3. Grants(r, {})
    BY DEF Grants, Modes
  <1> QED
    BY <1>1, <1>2, <1>3, StepKeeps

LEMMA BeginBroadcast ==
    ASSUME ClosuresInv, NEW r \in Requests, Begin(r),
           UNCHANGED <<today, calendar>>
    PROVE  ClosuresInv'
  <1>1. PICK text \in Texts, a \in Requestable :
          req' = [req EXCEPT ![r] =
                    [Idle EXCEPT !.kind = "broadcast", !.pc = "lock",
                                 !.text = text, !.audience = a, !.at = now]]
    BY DEF Begin
  <1> DEFINE new == [Idle EXCEPT !.kind = "broadcast", !.pc = "lock",
                                 !.text = text, !.audience = a, !.at = now]
  <1>2. a \in Audience /\ a # ToParent(0) /\ now \in 0..MaxTime
    BY BroadcastsAssumption DEF Requestable, Audience, Everybody, ToParent,
       ClosuresInv, BroadcastsInv, TypeOK
  <1>3. /\ new \in ReqRec /\ new.pc = "lock" /\ new.kind = "broadcast"
        /\ new.text = text /\ new.audience = a /\ new.to = {}
    BY <1>2 DEF Idle, ReqRec
  <1>4. req' = [req EXCEPT ![r] = new]
    BY <1>1
  <1> HIDE DEF new
  <1>5. Form(new, {})
    BY <1>2, <1>3 DEF Form
  <1>6. /\ req[r].pc = "idle"
        /\ UNCHANGED <<rows, tables, push, locks>>
    BY DEF Begin, Accepts, clock, people, rows
  <1> QED
    BY <1>3, <1>4, <1>5, <1>6, BeginKeeps

LEMMA BeginClosure ==
    ASSUME ClosuresInv, NEW r \in Requests, BeginCreate(r) \/ BeginCancel(r)
    PROVE  ClosuresInv'
  <1>0. /\ req[r].pc = "idle"
        /\ UNCHANGED <<rows, tables, push, locks, today, calendar>>
        /\ now \in 0..MaxTime /\ today \in Dates
    BY DEF BeginCreate, BeginCancel, Accepts, clock, people, rows, ClosuresInv,
       CalendarInv, BroadcastsInv, TypeOK
  <1>1. CASE BeginCreate(r)
    <2>1. PICK c \in {x \in Closure : x.notice = 0}, notify \in BOOLEAN,
               text \in Texts :
            /\ Valid(c)
            /\ req' = [req EXCEPT ![r] =
                 [Idle EXCEPT !.kind = "create", !.pc = "lock", !.text = text,
                              !.at = now,
                              !.about = [closure |-> c, today |-> today,
                                         notify |-> WillNotify(c, notify)]]]
      BY <1>1 DEF BeginCreate
    <2> DEFINE about == [closure |-> c, today |-> today,
                         notify |-> WillNotify(c, notify)]
               new == [Idle EXCEPT !.kind = "create", !.pc = "lock",
                                   !.text = text, !.at = now, !.about = about]
    <2>2. c \in Row /\ c.start <= c.end
      BY <2>1, BroadcastsAssumption DEF Closure, Row, Valid
    <2>3. WillNotify(c, notify) \in BOOLEAN
      BY DEF WillNotify
    <2>4. about \in CreateAbout /\ about.closure = c
      BY <1>0, <2>2, <2>3 DEF CreateAbout
    <2> HIDE DEF about
    <2>5. /\ new \in ReqRec /\ new.pc = "lock" /\ new.kind = "create"
          /\ new.text = text /\ new.about = about /\ new.to = {}
      BY <1>0, <2>4, IdleRec DEF Idle, ReqRec
    <2>6. req' = [req EXCEPT ![r] = new]
      BY <2>1 DEF about
    <2> HIDE DEF new
    <2>7. Form(new, {})
      BY <2>2, <2>4, <2>5 DEF Form
    <2> QED
      BY <1>0, <2>5, <2>6, <2>7, BeginKeeps
  <1>2. CASE BeginCancel(r)
    <2>1. PICK id \in ClosureIds, notify \in BOOLEAN, text \in Texts :
            req' = [req EXCEPT ![r] =
                 [Idle EXCEPT !.kind = "cancel", !.pc = "lock", !.text = text,
                              !.at = now,
                              !.about = [id |-> id, closure |-> NoClosure,
                                         today |-> today, notify |-> notify]]]
      BY <1>2 DEF BeginCancel
    <2> DEFINE about == [id |-> id, closure |-> NoClosure, today |-> today,
                         notify |-> notify]
               new == [Idle EXCEPT !.kind = "cancel", !.pc = "lock",
                                   !.text = text, !.at = now, !.about = about]
    <2>2. about \in CancelAbout
      BY <1>0 DEF CancelAbout
    <2> HIDE DEF about
    <2>3. /\ new \in ReqRec /\ new.pc = "lock" /\ new.kind = "cancel"
          /\ new.text = text /\ new.about = about /\ new.to = {}
      BY <1>0, <2>2, IdleRec DEF Idle, ReqRec
    <2>4. req' = [req EXCEPT ![r] = new]
      BY <2>1 DEF about
    <2> HIDE DEF new
    <2>5. Form(new, {})
      BY <2>2, <2>3 DEF Form
    <2> QED
      BY <1>0, <2>3, <2>4, <2>5, BeginKeeps
  <1> QED
    BY <1>1, <1>2

\* createBroadcast and notify.CreateBroadcast up to the commit.
LEMMA CreateKeeps ==
    ASSUME ClosuresInv, NEW r \in Requests,
           LockBroadcasts(r) \/ CheckDuplicate(r) \/ SelectRecipients(r)
               \/ LockRecipients(r),
           UNCHANGED <<today, calendar>>
    PROVE  ClosuresInv'
  <1> DEFINE rec == req[r]
             held == locks[r]
  <1>0. /\ rec \in ReqRec /\ Form(rec, held) /\ Facts(rec)
        /\ UNCHANGED <<rows, tables, push, today, calendar>>
        /\ parents \subseteq Parents /\ class \subseteq parents
    BY DEF ClosuresInv, RequestsInv, BroadcastsInv, TypeOK, LockBroadcasts,
       CheckDuplicate, SelectRecipients, LockRecipients, clock, people, rows
  <1>1. CASE Done(r)
    BY <1>0, <1>1, GiveUpKeeps
  <1>2. CASE LockBroadcasts(r)
    <2> DEFINE new == [rec EXCEPT !.pc = "check"]
               modes == {"exclusive"}
    <2>1. /\ rec.kind = "broadcast" /\ rec.pc = "lock"
          /\ Free(r, {"exclusive", "insert"}) /\ Step(r, new, modes)
      BY <1>2 DEF LockBroadcasts, CanLock
    <2>2. new \in ReqRec /\ Form(new, held \cup modes) /\ Facts(new)
      BY <1>0, <2>1 DEF ReqRec, Form, Facts, Writing
    <2>3. Grants(r, modes)
      BY <2>1 DEF Grants, Modes
    <2> HIDE DEF new, modes
    <2> QED
      BY <1>0, <2>1, <2>2, <2>3, StepKeeps DEF Step
  <1>3. CASE CheckDuplicate(r) /\ ~Done(r)
    <2> DEFINE new == [rec EXCEPT !.pc = "insert"]
    <2>1. rec.pc = "check" /\ ~RecentDuplicate(rec) /\ Step(r, new, {})
      BY <1>3 DEF CheckDuplicate
    <2>2. /\ new \in ReqRec /\ Form(new, held \cup {})
          /\ new.kind = "broadcast" /\ new.pc = "insert"
          /\ new.text = rec.text /\ new.audience = rec.audience /\ new.at = rec.at
      BY <1>0, <2>1 DEF ReqRec, Form
    <2>3. Grants(r, {})
      BY DEF Grants, Modes
    <2> HIDE DEF new
    <2>4. Facts(new)
      BY <2>1, <2>2 DEF Facts, RecentDuplicate
    <2> QED
      BY <1>0, <2>1, <2>2, <2>3, <2>4, StepKeeps DEF Step
  <1>4. CASE SelectRecipients(r) /\ ~Done(r)
    <2> DEFINE to == Recipients(rec.audience)
               new == [rec EXCEPT !.pc = "keys", !.to = to]
               modes == {"insert"}
    <2>1. /\ rec.kind = "broadcast" /\ rec.pc = "insert" /\ to # {}
          /\ Free(r, {"exclusive"}) /\ Step(r, new, modes)
      BY <1>4 DEF SelectRecipients, Reaches
    <2>2. to \subseteq Parents
      BY <1>0 DEF Recipients, ReqRec, Audience
    <2> HIDE DEF to
    <2>3. /\ new \in ReqRec /\ Form(new, held \cup modes)
          /\ new.kind = "broadcast" /\ new.pc = "keys"
          /\ new.text = rec.text /\ new.audience = rec.audience /\ new.at = rec.at
      BY <1>0, <2>1, <2>2 DEF ReqRec, Form
    <2>4. Grants(r, modes)
      BY <2>1 DEF Grants, Modes
    <2>5. Facts(new)
      <3> HIDE DEF new
      <3> QED
        BY <1>0, <2>1, <2>3 DEF Facts, RecentDuplicate, Writing
    <2> HIDE DEF new, modes
    <2> QED
      BY <1>0, <2>1, <2>3, <2>4, <2>5, StepKeeps DEF Step
  <1>5. CASE LockRecipients(r) /\ ~Done(r)
    <2> DEFINE new == [rec EXCEPT !.pc = "commit"]
    <2>1. rec.pc = "keys" /\ rec.to \subseteq parents /\ Step(r, new, {})
      BY <1>5 DEF LockRecipients
    <2>2. /\ new \in ReqRec /\ Form(new, held \cup {})
          /\ new.kind = rec.kind /\ new.pc = "commit" /\ new.to = rec.to
          /\ new.text = rec.text /\ new.audience = rec.audience /\ new.at = rec.at
          /\ new.about = rec.about
      BY <1>0, <2>1 DEF ReqRec, Form
    <2>3. Grants(r, {})
      BY DEF Grants, Modes
    <2> HIDE DEF new
    <2>4. Facts(new)
      BY <1>0, <2>1, <2>2 DEF Facts, RecentDuplicate, Writing
    <2> QED
      BY <1>0, <2>1, <2>2, <2>3, <2>4, StepKeeps DEF Step
  <1> QED
    BY <1>1, <1>2, <1>3, <1>4, <1>5

\* The requests of holidays.go up to the commit.
LEMMA PlanKeeps ==
    ASSUME ClosuresInv, NEW r \in Requests,
           LockClosures(r) \/ InsertClosure(r) \/ CancelClosure(r)
               \/ ClosureBroadcast(r)
    PROVE  ClosuresInv'
  <1> DEFINE rec == req[r]
             held == locks[r]
  <1>0. /\ rec \in ReqRec /\ Form(rec, held) /\ Facts(rec)
        /\ UNCHANGED <<rows, tables, push, today, calendar>>
        /\ parents \subseteq Parents
        /\ closures \in [ClosureIds -> Row \cup {NoClosure}]
    BY DEF ClosuresInv, RequestsInv, BroadcastsInv, CalendarInv, TypeOK,
       LockClosures, InsertClosure, CancelClosure, ClosureBroadcast, clock,
       people, rows
  <1>1. CASE Done(r)
    BY <1>0, <1>1, GiveUpKeeps
  <1>2. CASE LockClosures(r)
    <2> DEFINE new == [rec EXCEPT !.pc = "plan"]
               modes == {"closures"}
    <2>1. /\ rec.kind \in {"create", "cancel"} /\ rec.pc = "lock"
          /\ Free(r, {"closures"}) /\ Step(r, new, modes)
      BY <1>2 DEF LockClosures, CanLockClosures
    <2>2. new \in ReqRec /\ Form(new, held \cup modes) /\ Facts(new)
      BY <1>0, <2>1 DEF ReqRec, Form, Facts, Writing
    <2>3. Grants(r, modes)
      BY <2>1 DEF Grants, Modes
    <2> HIDE DEF new, modes
    <2> QED
      BY <1>0, <2>1, <2>2, <2>3, StepKeeps DEF Step
  <1>3. ASSUME NEW about \in CreateAbout \cup CancelAbout, rec.pc = "plan",
               rec.kind \in {"create", "cancel"}, Planned(r, about),
               rec.kind = "create" => /\ about = rec.about
                                      /\ ~Overlap(about.closure),
               rec.kind = "cancel" =>
                 LET c == closures[about.id]
                 IN  /\ about \in CancelAbout
                     /\ c # NoClosure /\ ~Over(c, about.today)
                     /\ about.closure = Cancelled(c, about.today)
        PROVE  ClosuresInv'
    <2> DEFINE pc == IF about.notify THEN "insert" ELSE "commit"
               new == [rec EXCEPT !.pc = pc, !.about = about]
    <2>1. Step(r, new, {}) /\ pc \in {"insert", "commit"}
      BY <1>3 DEF Planned
    <2> HIDE DEF pc
    <2>2. rec.to = {}
      BY <1>0, <1>3 DEF Form
    <2>3. /\ new \in ReqRec /\ new.kind = rec.kind /\ new.pc = pc
          /\ new.to = rec.to /\ new.about = about /\ new.text = rec.text
      BY <1>0, <1>3, <2>1 DEF ReqRec
    <2> HIDE DEF new
    <2>4. Form(new, held \cup {})
      BY <1>0, <1>3, <2>1, <2>2, <2>3 DEF Form
    <2>5. Facts(new)
      BY <1>3, <2>1, <2>2, <2>3 DEF Facts
    <2>6. Grants(r, {})
      BY DEF Grants, Modes
    <2> QED
      BY <1>0, <2>1, <2>3, <2>4, <2>5, <2>6, StepKeeps DEF Step
  <1>4. CASE InsertClosure(r) /\ ~Done(r)
    <2>1. /\ rec.kind = "create" /\ rec.pc = "plan" /\ ~Overlap(rec.about.closure)
          /\ Planned(r, rec.about)
      BY <1>4 DEF InsertClosure
    <2>2. rec.about \in CreateAbout
      BY <1>0, <2>1 DEF Form
    <2> QED
      BY <1>3, <2>1, <2>2
  <1>5. CASE CancelClosure(r) /\ ~Done(r)
    <2> DEFINE c == closures[rec.about.id]
               t == rec.about.today
               about == [rec.about EXCEPT !.closure = Cancelled(c, t)]
    <2>1. /\ rec.kind = "cancel" /\ rec.pc = "plan" /\ c # NoClosure /\ ~Over(c, t)
          /\ Planned(r, about)
      BY <1>5 DEF CancelClosure
    <2>2. rec.about \in CancelAbout /\ c \in Row /\ t \in Dates
      BY <1>0, <2>1 DEF Form, CancelAbout
    <2>3. Cancelled(c, t) \in Row \cup {NoClosure}
      <3>1. CASE c.start >= t
        BY <3>1 DEF Cancelled
      <3>2. CASE ~(c.start >= t)
        <4>1. t - 1 \in Dates
          BY <2>2, <3>2, ClosuresAssumption DEF Dates, Row
        <4> QED
          BY <2>2, <3>2, <4>1 DEF Cancelled, Row
      <3> QED
        BY <3>1, <3>2
    <2>4. /\ about \in CancelAbout /\ about.id = rec.about.id /\ about.today = t
          /\ about.closure = Cancelled(c, t)
      BY <2>2, <2>3 DEF CancelAbout
    <2> HIDE DEF about
    <2> QED
      BY <1>3, <2>1, <2>4
  <1>6. CASE ClosureBroadcast(r)
    <2>0. rec.kind \in {"create", "cancel"} /\ rec.pc = "insert"
      BY <1>6 DEF ClosureBroadcast
    <2>1. CASE Step(r, [rec EXCEPT !.pc = "commit"], {})
      <3> DEFINE new == [rec EXCEPT !.pc = "commit"]
      <3>1. /\ new \in ReqRec /\ Form(new, held \cup {})
            /\ new.kind = rec.kind /\ new.pc = "commit" /\ new.to = rec.to
            /\ new.about = rec.about
        BY <1>0, <2>0 DEF ReqRec, Form
      <3>2. Step(r, new, {})
        BY <2>1
      <3> HIDE DEF new
      <3>3. Facts(new) /\ Grants(r, {})
        <4>1. new.to = {}
          BY <1>0, <2>0, <3>1 DEF Form
        <4> QED
          BY <4>1, <1>0, <2>0, <3>1 DEF Facts, Writing, Grants, Modes
      <3> QED
        BY <1>0, <3>1, <3>2, <3>3, StepKeeps DEF Step
    <2>2. ASSUME NEW to, to = Recipients(Everybody), to # {},
                 Free(r, {"exclusive"}),
                 Step(r, [rec EXCEPT !.pc = "keys", !.to = to], {"insert"})
          PROVE  ClosuresInv'
      <3> DEFINE new == [rec EXCEPT !.pc = "keys", !.to = to]
                 modes == {"insert"}
      <3>1. to \subseteq Parents
        BY <1>0, <2>2 DEF Recipients, Everybody
      <3>2. /\ new \in ReqRec /\ Form(new, held \cup modes)
            /\ new.kind = rec.kind /\ new.pc = "keys" /\ new.about = rec.about
        BY <1>0, <2>0, <2>2, <3>1 DEF ReqRec, Form
      <3>3. Step(r, new, modes) /\ Grants(r, modes)
        BY <2>2 DEF Grants, Modes
      <3> HIDE DEF new, modes
      <3>4. Facts(new)
        BY <1>0, <2>0, <3>2 DEF Facts, Writing
      <3> QED
        BY <1>0, <3>2, <3>3, <3>4, StepKeeps DEF Step
    <2> QED
      BY <1>6, <2>1, <2>2 DEF ClosureBroadcast, Reaches
  <1> QED
    BY <1>1, <1>2, <1>3, <1>4, <1>5, <1>6

-----------------------------------------------------------------------------
(* Commits *)

Entry == [text : Texts, audience : Audience, at : 0..MaxTime,
          count : 1..Cardinality(Parents), by : {"broadcast", "create", "cancel"}]

\* The broadcast and the notifications a commit adds.
LEMMA AnnouncedKeeps ==
    ASSUME BroadcastsInv, NEW rec \in ReqRec, rec.kind # "none",
           rec.text \in Texts, rec.to # {}, rec.to \subseteq parents,
           rec.kind = "broadcast" => ~RecentDuplicate(rec),
           Announced(rec), UNCHANGED rows
    PROVE  /\ BroadcastsInv'
           /\ DOMAIN broadcasts = 1..Len(broadcasts)
           /\ DOMAIN broadcasts' = 1..(Len(broadcasts) + 1)
           /\ \A b \in DOMAIN broadcasts : broadcasts'[b] = broadcasts[b]
           /\ Len(broadcasts) \in Nat
           /\ broadcasts'[Len(broadcasts) + 1].by = rec.kind
  <1> DEFINE n == Len(broadcasts) + 1
             entry == [text |-> rec.text, audience |-> rec.audience,
                       at |-> rec.at, count |-> Cardinality(rec.to),
                       by |-> rec.kind]
             new == {[parent |-> p, broadcast |-> n] : p \in rec.to}
  <1>0. /\ broadcasts \in Seq(Entry)
        /\ notifications \subseteq [parent : parents, broadcast : DOMAIN broadcasts]
        /\ IsFiniteSet(notifications) /\ DOMAIN push = 1..MaxRequests
        /\ UNCHANGED <<now, parents, class, owner>> /\ NoRepeat
    BY DEF BroadcastsInv, TypeOK, Entry, rows
  <1>1. /\ broadcasts' = Append(broadcasts, entry)
        /\ notifications' = notifications \cup new /\ DOMAIN push' = DOMAIN push
    BY DEF Announced
  <1>2. IsFiniteSet(rec.to) /\ Cardinality(rec.to) \in 1..Cardinality(Parents)
    <2>1. rec.to \subseteq Parents /\ IsFiniteSet(Parents)
      BY BroadcastsAssumption DEF ReqRec
    <2>2. IsFiniteSet(rec.to) /\ Cardinality(rec.to) <= Cardinality(Parents)
      BY <2>1, FS_Subset
    <2>3. Cardinality(rec.to) \in Nat /\ Cardinality(Parents) \in Nat
      BY <2>1, <2>2, FS_CardinalityType
    <2>4. Cardinality(rec.to) # 0
      BY <2>2, FS_EmptySet
    <2> QED
      BY <2>2, <2>3, <2>4
  <1>3. entry \in Entry
    BY <1>2 DEF Entry, ReqRec
  <1>4. /\ entry.text = rec.text /\ entry.audience = rec.audience
        /\ entry.at = rec.at /\ entry.by = rec.kind
        /\ entry.count = Cardinality(rec.to)
    OBVIOUS
  <1>5. IsFiniteSet(new) /\ Cardinality(new) <= Cardinality(rec.to)
    <2> DEFINE f == [p \in rec.to |-> [parent |-> p, broadcast |-> n]]
    <2>1. f \in Surjection(rec.to, new)
      BY DEF Surjection
    <2> HIDE DEF f, new
    <2> QED
      BY <1>2, <2>1, FS_Surjection
  <1>6. \A m \in new : m.broadcast = n /\ m.parent \in rec.to
                       /\ m = [parent |-> m.parent, broadcast |-> m.broadcast]
    OBVIOUS
  <1>7. /\ Len(broadcasts) \in Nat /\ DOMAIN broadcasts = 1..Len(broadcasts)
        /\ \A b \in DOMAIN broadcasts : broadcasts[b] \in Entry
    BY <1>0
  <1> HIDE DEF entry
  <1>8. /\ broadcasts' \in Seq(Entry) /\ DOMAIN broadcasts' = 1..n
        /\ \A b \in DOMAIN broadcasts : broadcasts'[b] = broadcasts[b]
        /\ broadcasts'[n] = entry
    BY <1>0, <1>1, <1>3, <1>7
  <1> HIDE DEF new
  <1>9. notifications' \subseteq [parent : parents', broadcast : DOMAIN broadcasts']
    <2>1. new \subseteq [parent : parents, broadcast : {n}]
      BY <1>6
    <2>2. n \in DOMAIN broadcasts' /\ DOMAIN broadcasts \subseteq DOMAIN broadcasts'
      BY <1>7, <1>8
    <2> HIDE DEF n
    <2> QED
      BY <1>0, <1>1, <2>1, <2>2
  <1>10. TypeOK'
    BY <1>0, <1>1, <1>8, <1>9 DEF BroadcastsInv, TypeOK, Entry
  <1>11. NoRepeat'
    <2> SUFFICES ASSUME NEW b \in DOMAIN broadcasts', NEW c \in DOMAIN broadcasts',
                        b < c, broadcasts'[c].by = "broadcast",
                        broadcasts'[b].text = broadcasts'[c].text,
                        broadcasts'[b].audience = broadcasts'[c].audience,
                        broadcasts'[b].audience # ToParent(0)
                 PROVE  \/ broadcasts'[c].at >= broadcasts'[b].at + DuplicateWait
                        \/ broadcasts'[b].at >= broadcasts'[c].at + DuplicateWait
      BY DEF NoRepeat, ToParent
    <2>1. b \in DOMAIN broadcasts /\ broadcasts'[b] = broadcasts[b]
      BY <1>7, <1>8
    <2>2. CASE c \in DOMAIN broadcasts
      BY <1>0, <1>8, <2>1, <2>2 DEF NoRepeat
    <2>3. CASE c = n
      <3>1. ~(broadcasts[b].at > rec.at - DuplicateWait)
        BY <1>4, <1>8, <2>1, <2>3 DEF RecentDuplicate
      <3>2. broadcasts[b].at \in Nat /\ rec.at \in Nat /\ DuplicateWait \in Nat
        BY <1>7, <2>1, BroadcastsAssumption DEF Entry, ReqRec
      <3> QED
        BY <1>4, <1>8, <2>1, <2>3, <3>1, <3>2
    <2> QED
      BY <1>7, <1>8, <2>2, <2>3
  <1>12. IsFiniteSet(notifications')
    BY <1>0, <1>1, <1>5, FS_Union
  <1>13. ASSUME NEW b \in DOMAIN broadcasts'
         PROVE  Cardinality({m \in notifications' : m.broadcast = b})
                  <= broadcasts'[b].count
    <2>1. CASE b \in DOMAIN broadcasts
      <3>1. {m \in notifications' : m.broadcast = b} = RowsOf(b)
        BY <1>1, <1>6, <1>7, <2>1 DEF RowsOf
      <3> QED
        BY <1>8, <2>1, <3>1 DEF BroadcastsInv
    <2>2. CASE b = n
      <3>1. \A m \in notifications : m.broadcast # n
        BY <1>0, <1>7
      <3>2. {m \in notifications' : m.broadcast = b} = new
        BY <1>1, <1>6, <2>2, <3>1
      <3> QED
        BY <1>4, <1>5, <1>8, <2>2, <3>2
    <2> QED
      BY <1>7, <1>8, <2>1, <2>2
  <1>14. BroadcastsInv'
    BY <1>10, <1>11, <1>12, <1>13 DEF BroadcastsInv, RowsOf
  <1> QED
    BY <1>4, <1>7, <1>8, <1>14

\* While r commits a broadcast nobody else has looked for a duplicate, and
\* while it commits a closure nobody else has looked at the calendar.
LEMMA OthersRead ==
    ASSUME ClosuresInv, NEW r \in Requests, NEW u \in Requests \ {r},
           req'[u] = req[u], UNCHANGED parents,
           "insert" \in locks[r] \/ UNCHANGED broadcasts,
           "closures" \in locks[r] \/ UNCHANGED closures
    PROVE  Facts(req[u])'
  <1> DEFINE rec == req[u]
  <1>0. Form(rec, locks[u]) /\ Facts(rec)
    BY DEF ClosuresInv, RequestsInv
  <1>1. /\ "insert" \in locks[r] => "exclusive" \notin locks[u]
        /\ "closures" \in locks[r] => "closures" \notin locks[u]
    BY DEF ClosuresInv, RequestsInv, LocksApart
  <1>2. /\ rec.kind = "broadcast" /\ Writing(rec) => UNCHANGED broadcasts
        /\ rec.kind \in {"create", "cancel"} /\ Writing(rec) => UNCHANGED closures
    BY <1>0, <1>1 DEF Form, Writing
  <1>3. req'[u] = rec
    OBVIOUS
  <1> HIDE DEF rec
  <1> QED
    BY <1>0, <1>2, <1>3 DEF Facts, RecentDuplicate, Overlap, Over, Cancelled, Writing

\* A broadcast is committed under the lock its check for a duplicate took.
LEMMA CommitKeeps ==
    ASSUME ClosuresInv, NEW r \in Requests, Commit(r), UNCHANGED <<today, calendar>>
    PROVE  ClosuresInv'
  <1> DEFINE rec == req[r]
  <1>0. /\ rec \in ReqRec /\ Form(rec, locks[r]) /\ Facts(rec)
        /\ BroadcastsInv /\ CalendarInv /\ RequestsInv
    BY DEF ClosuresInv, RequestsInv
  <1>1. /\ rec.kind = "broadcast" /\ rec.pc = "commit" /\ Announced(rec) /\ Done(r)
        /\ UNCHANGED rows
    BY DEF Commit, rows, clock, people
  <1>2. /\ rec.to # {} /\ rec.text \in Texts /\ rec.to \subseteq parents
        /\ ~RecentDuplicate(rec) /\ "insert" \in locks[r]
    BY <1>0, <1>1 DEF Form, Facts, Writing
  <1>3. /\ BroadcastsInv' /\ DOMAIN broadcasts \subseteq DOMAIN broadcasts'
        /\ \A b \in DOMAIN broadcasts : broadcasts'[b] = broadcasts[b]
    BY <1>0, <1>1, <1>2, AnnouncedKeeps
  <1>4. CalendarInv'
    BY <1>0, <1>3, CalendarFrame DEF CalendarInv
  <1>5. \A u \in Requests \ {r} : req'[u] = req[u]
    BY <1>0, <1>1 DEF Done, RequestsInv
  <1>6. \A u \in Requests \ {r} : Facts(req[u])'
    BY <1>1, <1>2, <1>5, OthersRead DEF rows, calendar
  <1> QED
    BY <1>0, <1>1, <1>3, <1>4, <1>6, DoneKeeps DEF ClosuresInv

\* NoClosure closes nothing, overlaps nothing and has no notice.
LEMMA NoClosureFacts ==
    /\ NoClosure \notin Row /\ NoClosure.notice = 0 /\ NoClosure.end = 0
    /\ NoClosure.start = MaxDate + 2
    /\ \A d \in Dates : ~Covers(NoClosure, d)
  BY ClosuresAssumption DEF NoClosure, Row, Infinity, Covers, Dates

LEMMA CancelsType ==
    ASSUME CalendarInv
    PROVE  \A i \in DOMAIN cancels :
             cancels[i].id \in ClosureIds /\ cancels[i].today \in Nat
  <1> DEFINE T == [id : ClosureIds, today : Dates]
  <1>1. cancels \in Seq(T)
    BY DEF CalendarInv
  <1> HIDE DEF T
  <1>2. \A i \in DOMAIN cancels : cancels[i] \in T
    BY <1>1
  <1> QED
    BY <1>2, ClosuresAssumption DEF T, Dates

\* A registered closure that overlapped nothing joins the calendar.
LEMMA CreateCalendar ==
    ASSUME CalendarInv, NEW c \in Row, NEW n \in Nat, c.start <= c.end, ~Overlap(c),
           c.notice = n,
           closures' = [closures EXCEPT ![lastId + 1] = c],
           lastId' = lastId + 1, UNCHANGED <<cancels, today>>,
           DOMAIN broadcasts \subseteq DOMAIN broadcasts',
           \A b \in DOMAIN broadcasts : broadcasts'[b].by = broadcasts[b].by,
           n # 0 => /\ n \in DOMAIN broadcasts' /\ n \notin DOMAIN broadcasts
                    /\ broadcasts'[n].by = "create"
    PROVE  CalendarInv'
  <1> DEFINE new == lastId + 1
  <1>0. /\ lastId \in Nat /\ closures \in [ClosureIds -> Row \cup {NoClosure}]
        /\ \A id \in ClosureIds : closures[id] # NoClosure => id <= lastId
        /\ \A id \in ClosureIds : id \in Nat
        /\ DOMAIN closures = ClosureIds
    BY DEF CalendarInv, ClosureIds
  <1>1. /\ closures' \in [ClosureIds -> Row \cup {NoClosure}]
        /\ DOMAIN closures' = ClosureIds
        /\ \A id \in ClosureIds : id # new => closures'[id] = closures[id]
        /\ new \in ClosureIds => closures'[new] = c
    BY <1>0
  <1>2. new \in Nat \ {0} /\ \A id \in ClosureIds : closures[id] # NoClosure => id # new
    BY <1>0
  <1> HIDE DEF new
  <1>3. \A id \in ClosureIds : closures'[id] # NoClosure =>
          id <= lastId' /\ closures'[id].start <= closures'[id].end
    BY <1>0, <1>1 DEF CalendarInv, new
  <1>4. CancelsDone'
    <2> SUFFICES ASSUME NEW i \in DOMAIN cancels
                 PROVE  /\ cancels[i].id <= lastId'
                        /\ \/ closures'[cancels[i].id] = NoClosure
                           \/ closures'[cancels[i].id].end < cancels[i].today
      BY DEF CancelsDone, Over
    <2>1. cancels[i].id \in ClosureIds /\ cancels[i].id <= lastId
      BY CancelsType DEF CalendarInv, CancelsDone
    <2>2. closures'[cancels[i].id] = closures[cancels[i].id]
      BY <1>0, <1>1, <2>1 DEF new
    <2> QED
      BY <1>0, <2>1, <2>2 DEF CalendarInv, CancelsDone, Over
  <1>5. CancelledOnce'
    BY DEF CalendarInv, CancelledOnce
  <1>6. ClosuresDisjoint'
    <2>1. ASSUME NEW i \in ClosureIds, NEW d \in Dates, Covers(closures[i], d)
          PROVE  ~Covers(c, d)
      <3>1. CASE closures[i] = NoClosure
        BY <2>1, <3>1, NoClosureFacts
      <3>2. CASE closures[i] \in Row
        <4>1. ~(closures[i].start <= c.end /\ closures[i].end >= c.start)
          BY <1>0 DEF Overlap
        <4>2. /\ closures[i].start \in Nat /\ closures[i].end \in Nat
              /\ c.start \in Nat /\ c.end \in Nat /\ d \in Nat
          BY <3>2, ClosuresAssumption DEF Row, Dates, Infinity
        <4> QED
          BY <2>1, <4>1, <4>2 DEF Covers
      <3> QED
        BY <1>0, <3>1, <3>2
    <2>2. ASSUME NEW i \in ClosureIds, NEW j \in ClosureIds, i # j, NEW d \in Dates,
                 Covers(closures'[i], d), Covers(closures'[j], d)
          PROVE  FALSE
      <3>1. CASE i # new /\ j # new
        BY <1>0, <1>1, <2>2, <3>1 DEF CalendarInv, ClosuresDisjoint
      <3>2. CASE i = new \/ j = new
        BY <1>1, <2>1, <2>2, <3>2
      <3> QED
        BY <3>1, <3>2
    <2> QED
      BY <1>1, <2>2 DEF ClosuresDisjoint, Covers
  <1>7. NoticesExist'
    <2> SUFFICES ASSUME NEW i \in ClosureIds, closures'[i].notice # 0
                 PROVE  /\ closures'[i].notice \in DOMAIN broadcasts'
                        /\ broadcasts'[closures'[i].notice].by = "create"
                        /\ \A j \in ClosureIds :
                             closures'[j].notice = closures'[i].notice => i = j
      BY <1>1 DEF NoticesExist
    <2>1. \A j \in ClosureIds : closures[j].notice # 0 =>
            /\ closures[j].notice \in DOMAIN broadcasts
            /\ broadcasts[closures[j].notice].by = "create"
            /\ \A k \in ClosureIds : closures[k].notice = closures[j].notice => j = k
      BY <1>0 DEF CalendarInv, NoticesExist
    <2>2. CASE i # new
      BY <1>1, <2>1, <2>2
    <2>3. CASE i = new
      BY <1>1, <2>1, <2>3
    <2> QED
      BY <2>2, <2>3
  <1> QED
    BY <1>1, <1>2, <1>3, <1>4, <1>5, <1>6, <1>7 DEF CalendarInv, new

\* A cancellation leaves at most the days before t of the closure it read.
LEMMA CancelCalendar ==
    ASSUME CalendarInv, NEW id \in ClosureIds, NEW t \in Dates,
           closures[id] # NoClosure, ~Over(closures[id], t),
           closures' = [closures EXCEPT ![id] = Cancelled(closures[id], t)],
           cancels' = Append(cancels, [id |-> id, today |-> t]),
           UNCHANGED <<lastId, today>>,
           DOMAIN broadcasts \subseteq DOMAIN broadcasts',
           \A b \in DOMAIN broadcasts : broadcasts'[b].by = broadcasts[b].by
    PROVE  CalendarInv'
  <1> DEFINE c == closures[id]
             n == Cancelled(c, t)
             x == [id |-> id, today |-> t]
             last == Len(cancels) + 1
  <1>0. /\ c \in Row /\ closures \in [ClosureIds -> Row \cup {NoClosure}]
        /\ id <= lastId /\ DOMAIN closures = ClosureIds
        /\ cancels \in Seq([id : ClosureIds, today : Dates])
    BY DEF CalendarInv
  <1>1. /\ c.start \in Nat /\ c.end \in Nat /\ t \in Nat /\ t <= c.end
        /\ c.end \in Dates \cup {Infinity} /\ c.start \in Dates
    BY <1>0, ClosuresAssumption DEF Row, Dates, Infinity, Over
  <1>2. \/ n = NoClosure
        \/ /\ n \in Row /\ n.start = c.start /\ n.end = t - 1 /\ n.notice = c.notice
           /\ c.start <= t - 1
    <2>1. CASE c.start >= t
      BY <2>1 DEF Cancelled
    <2>2. CASE ~(c.start >= t)
      <3>1. t - 1 \in Dates
        BY <1>1, <2>2, ClosuresAssumption DEF Dates
      <3> QED
        BY <1>0, <1>1, <2>2, <3>1 DEF Cancelled, Row
    <2> QED
      BY <2>1, <2>2
  <1> HIDE DEF n
  <1>3. /\ closures' \in [ClosureIds -> Row \cup {NoClosure}]
        /\ DOMAIN closures' = ClosureIds /\ closures'[id] = n
        /\ \A i \in ClosureIds : i # id => closures'[i] = closures[i]
    BY <1>0, <1>2 DEF n
  <1>4. /\ cancels' \in Seq([id : ClosureIds, today : Dates])
        /\ DOMAIN cancels = 1..Len(cancels) /\ DOMAIN cancels' = 1..last
        /\ Len(cancels) \in Nat
        /\ \A i \in DOMAIN cancels : cancels'[i] = cancels[i]
        /\ cancels'[last] = x /\ x.id = id /\ x.today = t
    BY <1>0
  <1>5. \A i \in DOMAIN cancels : cancels[i].id \in ClosureIds
                                  /\ cancels[i].today \in Nat
    BY CancelsType
  <1>6. \A i \in DOMAIN cancels : cancels[i].id = id => c.end < cancels[i].today
    BY <1>0, <1>5 DEF CalendarInv, CancelsDone, Over
  <1> HIDE DEF x, last
  <1>7. CancelsDone'
    <2> SUFFICES ASSUME NEW i \in DOMAIN cancels'
                 PROVE  /\ cancels'[i].id <= lastId
                        /\ \/ closures'[cancels'[i].id] = NoClosure
                           \/ closures'[cancels'[i].id].end < cancels'[i].today
      BY DEF CancelsDone, Over
    <2>1. CASE i = last
      BY <1>0, <1>1, <1>2, <1>3, <1>4, <2>1
    <2>2. CASE i \in DOMAIN cancels
      <3>1. cancels'[i] = cancels[i] /\ cancels[i].id <= lastId
        BY <1>4, <2>2 DEF CalendarInv, CancelsDone
      <3>2. CASE cancels[i].id = id
        BY <1>1, <1>2, <1>3, <1>5, <1>6, <2>2, <3>1, <3>2
      <3>3. CASE cancels[i].id # id
        BY <1>3, <1>5, <2>2, <3>1, <3>3 DEF CalendarInv, CancelsDone, Over
      <3> QED
        BY <3>2, <3>3
    <2> QED
      BY <1>4, <2>1, <2>2 DEF last
  <1>8. CancelledOnce'
    <2>1. \A i \in DOMAIN cancels : cancels[i] # x
      BY <1>1, <1>4, <1>6
    <2> QED
      BY <1>4, <2>1 DEF CalendarInv, CancelledOnce, last
  <1>9. ClosuresDisjoint'
    <2>1. ASSUME NEW i \in ClosureIds, NEW d \in Dates, Covers(closures'[i], d)
          PROVE  Covers(closures[i], d)
      <3>1. CASE i # id
        BY <1>3, <2>1, <3>1
      <3>2. CASE i = id
        <4>1. d \in Nat
          BY ClosuresAssumption DEF Dates
        <4> QED
          BY <1>1, <1>2, <1>3, <2>1, <3>2, <4>1, NoClosureFacts DEF Covers
      <3> QED
        BY <3>1, <3>2
    <2>2. ASSUME NEW i \in ClosureIds, NEW j \in ClosureIds, i # j, NEW d \in Dates,
                 Covers(closures'[i], d), Covers(closures'[j], d)
          PROVE  FALSE
      BY <1>0, <2>1, <2>2 DEF CalendarInv, ClosuresDisjoint
    <2> QED
      BY <1>3, <2>2 DEF ClosuresDisjoint, Covers
  <1>10. NoticesExist'
    <2>1. \A i \in ClosureIds : closures'[i].notice # 0 =>
            closures'[i].notice = closures[i].notice
      BY <1>2, <1>3, NoClosureFacts
    <2> QED
      BY <1>0, <1>3, <2>1 DEF CalendarInv, NoticesExist
  <1>11. \A i \in ClosureIds : closures'[i] # NoClosure =>
          i <= lastId' /\ closures'[i].start <= closures'[i].end
    BY <1>0, <1>1, <1>2, <1>3 DEF CalendarInv
  <1> QED
    BY <1>3, <1>4, <1>7, <1>8, <1>9, <1>10, <1>11 DEF CalendarInv

\* A closure or cancellation is committed under the lock of school_closures
\* that its check took, with its notice if it has one.
LEMMA CommitClosureKeeps ==
    ASSUME ClosuresInv, NEW r \in Requests, CommitClosure(r)
    PROVE  ClosuresInv'
  <1> DEFINE rec == req[r]
  <1>0. /\ rec \in ReqRec /\ Form(rec, locks[r]) /\ Facts(rec)
        /\ BroadcastsInv /\ CalendarInv /\ RequestsInv
    BY DEF ClosuresInv, RequestsInv
  <1>1. /\ rec.pc = "commit" /\ rec.kind \in {"create", "cancel"} /\ Done(r)
        /\ UNCHANGED <<rows, today>>
        /\ IF rec.to # {} THEN Announced(rec) ELSE UNCHANGED <<tables, push>>
    BY DEF CommitClosure, rows, clock, people
  <1>2. /\ rec.text \in Texts /\ rec.to \subseteq parents /\ "closures" \in locks[r]
        /\ rec.to # {} => "insert" \in locks[r]
    BY <1>0, <1>1 DEF Form, Facts
  <1>3. /\ BroadcastsInv' /\ DOMAIN broadcasts \subseteq DOMAIN broadcasts'
        /\ \A b \in DOMAIN broadcasts : broadcasts'[b].by = broadcasts[b].by
        /\ Notice(rec) \in Nat
        /\ Notice(rec) # 0 => /\ Notice(rec) \in DOMAIN broadcasts'
                              /\ Notice(rec) \notin DOMAIN broadcasts
                              /\ broadcasts'[Notice(rec)].by = rec.kind
    <2>1. CASE rec.to # {}
      <3>1. /\ BroadcastsInv'
            /\ DOMAIN broadcasts = 1..Len(broadcasts)
            /\ DOMAIN broadcasts' = 1..(Len(broadcasts) + 1)
            /\ \A b \in DOMAIN broadcasts : broadcasts'[b] = broadcasts[b]
            /\ Len(broadcasts) \in Nat
            /\ broadcasts'[Len(broadcasts) + 1].by = rec.kind
        BY <1>0, <1>1, <1>2, <2>1, AnnouncedKeeps
      <3> QED
        BY <2>1, <3>1 DEF Notice
    <2>2. CASE rec.to = {}
      BY <1>0, <1>1, <2>2, LogFrame DEF Notice, tables
    <2> QED
      BY <2>1, <2>2
  <1>4. CalendarInv'
    <2>1. CASE rec.kind = "create"
      <3> DEFINE old == rec.about.closure
                 c == [old EXCEPT !.notice = Notice(rec)]
      <3>1. /\ lastId' = lastId + 1 /\ UNCHANGED cancels
            /\ closures' = [closures EXCEPT ![lastId + 1] = c]
        BY <2>1 DEF CommitClosure
      <3>2. old \in Row /\ old.start <= old.end /\ ~Overlap(old)
        BY <1>0, <1>1, <2>1 DEF Form, Facts, Writing, CreateAbout
      <3>3. /\ c \in Row /\ c.start = old.start /\ c.end = old.end
            /\ c.notice = Notice(rec)
        BY <1>3, <3>2 DEF Row
      <3> HIDE DEF c
      <3>4. ~Overlap(c)
        BY <3>2, <3>3 DEF Overlap
      <3> QED
        BY <1>0, <1>1, <1>3, <2>1, <3>1, <3>2, <3>3, <3>4, CreateCalendar
    <2>2. CASE rec.kind = "cancel"
      <3> DEFINE id == rec.about.id
                 t == rec.about.today
      <3>1. /\ UNCHANGED lastId
            /\ closures' = [closures EXCEPT ![id] = rec.about.closure]
            /\ cancels' = Append(cancels, [id |-> id, today |-> t])
        BY <2>2 DEF CommitClosure
      <3>2. /\ id \in ClosureIds /\ t \in Dates /\ closures[id] # NoClosure
            /\ ~Over(closures[id], t)
            /\ rec.about.closure = Cancelled(closures[id], t)
        BY <1>0, <1>1, <2>2 DEF Form, Facts, Writing, CancelAbout
      <3> HIDE DEF id, t
      <3> QED
        BY <1>0, <1>1, <1>3, <3>1, <3>2, CancelCalendar
    <2> QED
      BY <1>1, <2>1, <2>2
  <1>5. \A u \in Requests \ {r} : req'[u] = req[u]
    BY <1>0, <1>1 DEF Done, RequestsInv
  <1>6. \A u \in Requests \ {r} : Facts(req[u])'
    BY <1>1, <1>2, <1>5, OthersRead DEF rows, tables
  <1> QED
    BY <1>0, <1>1, <1>3, <1>4, <1>6, DoneKeeps DEF ClosuresInv

-----------------------------------------------------------------------------
(* The rest of the system *)

\* A step outside the requests and the tables.
LEMMA AsideKeeps ==
    ASSUME ClosuresInv, UNCHANGED <<tables, calendar>>, today' \in Dates,
           (req' = req /\ locks' = locks) \/ Crash,
           parents \subseteq parents', parents' \subseteq Parents,
           class' \subseteq parents', owner' \in [Tokens -> parents' \cup {0}],
           now' \in 0..MaxTime, DOMAIN push' = DOMAIN push
    PROVE  ClosuresInv'
  <1>1. UNCHANGED <<broadcasts, notifications, closures>>
    BY DEF tables, calendar
  <1>2. BroadcastsInv'
    <2>1. TypeOK'
      BY <1>1 DEF ClosuresInv, BroadcastsInv, TypeOK
    <2> QED
      BY <1>1, <2>1 DEF ClosuresInv, BroadcastsInv, NoRepeat, RowsOf
  <1>3. CalendarInv'
    BY <1>1, CalendarFrame DEF ClosuresInv
  <1>4. RequestsInv'
    <2>1. CASE req' = req /\ locks' = locks
      <3>1. ASSUME NEW u \in Requests PROVE Form(req[u], locks[u])' /\ Facts(req[u])'
        <4>1. Form(req[u], locks[u]) /\ Facts(req[u])
          BY DEF ClosuresInv, RequestsInv
        <4> QED
          BY <1>1, <2>1, <4>1 DEF Form, Facts, RecentDuplicate, Overlap, Over,
             Cancelled, Writing
      <3> QED
        BY <2>1, <3>1 DEF ClosuresInv, RequestsInv, LocksApart
    <2>2. CASE Crash
      <3>1. req' = [r \in Requests |-> Idle] /\ locks' = [r \in Requests |-> {}]
        BY <2>2 DEF Crash
      <3>2. \A u \in Requests : Form(req[u], locks[u])' /\ Facts(req[u])'
        BY <3>1 DEF Idle, Form, Facts, Writing
      <3>3. LocksApart'
        BY <3>1 DEF LocksApart
      <3> QED
        BY <3>1, <3>2, <3>3, IdleRec DEF RequestsInv
    <2> QED
      BY <2>1, <2>2
  <1> QED
    BY <1>2, <1>3, <1>4 DEF ClosuresInv

\* What is not a request: pushes, parents, devices, time and crashes.
LEMMA WorldKeeps ==
    ASSUME ClosuresInv,
           \/ /\ UNCHANGED <<today, calendar>>
              /\ \/ \E b \in 1..MaxRequests : PushStep(b)
                 \/ \E p \in Parents : AddParent(p) \/ EditClass(p)
                 \/ \E k \in Tokens, p \in Parents \cup {0} : MoveToken(k, p)
                 \/ Tick \/ Crash
           \/ NextDay \/ UNCHANGED allVars
    PROVE  ClosuresInv'
  <1>0. /\ parents \subseteq Parents /\ class \subseteq parents
        /\ owner \in [Tokens -> parents \cup {0}] /\ now \in 0..MaxTime
        /\ today \in Dates
    BY DEF ClosuresInv, BroadcastsInv, CalendarInv, TypeOK
  <1>1. ASSUME NEW b \in 1..MaxRequests, PushStep(b), UNCHANGED <<today, calendar>>
        PROVE  ClosuresInv'
    <2>1. UNCHANGED <<tables, req, locks, parents, class, now>>
      BY <1>1 DEF PushStep, ListTokens, SendBatch, FinishPush, clock, people
    <2>2. DOMAIN push' = DOMAIN push /\ owner' \in [Tokens -> parents \cup {0}]
      BY <1>0, <1>1 DEF PushStep, ListTokens, SendBatch, FinishPush, people
    <2> QED
      BY <1>0, <1>1, <2>1, <2>2, AsideKeeps
  <1>2. ASSUME NEW p \in Parents, AddParent(p) \/ EditClass(p),
               UNCHANGED <<today, calendar>>
        PROVE  ClosuresInv'
    <2>1. UNCHANGED <<tables, req, locks, owner, now, push>>
      BY <1>2 DEF AddParent, EditClass, clock
    <2>2. /\ parents \subseteq parents' /\ parents' \subseteq Parents
          /\ class' \subseteq parents' /\ owner' \in [Tokens -> parents' \cup {0}]
      BY <1>0, <1>2, <2>1 DEF AddParent, EditClass
    <2> QED
      BY <1>0, <1>2, <2>1, <2>2, AsideKeeps
  <1>3. ASSUME NEW k \in Tokens, NEW p \in Parents \cup {0}, MoveToken(k, p),
               UNCHANGED <<today, calendar>>
        PROVE  ClosuresInv'
    <2>1. UNCHANGED <<tables, req, locks, parents, class, now, push>>
      BY <1>3 DEF MoveToken, clock
    <2>2. owner' \in [Tokens -> parents \cup {0}]
      BY <1>0, <1>3 DEF MoveToken
    <2> QED
      BY <1>0, <1>3, <2>1, <2>2, AsideKeeps
  <1>4. CASE Tick /\ UNCHANGED <<today, calendar>>
    <2>1. UNCHANGED <<tables, req, locks, parents, class, owner, push>>
      BY <1>4 DEF Tick, people
    <2>2. now' \in 0..MaxTime
      BY <1>0, <1>4, BroadcastsAssumption DEF Tick
    <2> QED
      BY <1>0, <1>4, <2>1, <2>2, AsideKeeps
  <1>5. CASE Crash /\ UNCHANGED <<today, calendar>>
    <2>1. UNCHANGED <<tables, parents, class, owner, now>> /\ DOMAIN push' = DOMAIN push
      BY <1>5 DEF Crash, clock, people
    <2> QED
      BY <1>0, <1>5, <2>1, AsideKeeps
  <1>6. CASE NextDay
    <2>1. UNCHANGED <<tables, req, locks, parents, class, owner, now, push, calendar>>
      BY <1>6 DEF NextDay, vars, clock, people
    <2>2. today' \in Dates
      BY <1>0, <1>6, ClosuresAssumption DEF NextDay, Dates
    <2> QED
      BY <1>0, <2>1, <2>2, AsideKeeps
  <1>7. CASE UNCHANGED allVars
    <2>1. UNCHANGED <<tables, req, locks, parents, class, owner, now, push, calendar,
                      today>>
      BY <1>7 DEF allVars, vars, clock, people
    <2> QED
      BY <1>0, <2>1, AsideKeeps
  <1> QED
    BY <1>1, <1>2, <1>3, <1>4, <1>5, <1>6, <1>7

\* The deletion of an account takes rows away and may rename an audience to
\* one that nobody can ask for.
LEMMA DeleteKeeps ==
    ASSUME ClosuresInv, NEW p \in Parents, DeleteParent(p),
           UNCHANGED <<today, calendar>>
    PROVE  ClosuresInv'
  <1>0. /\ parents \subseteq Parents /\ class \subseteq parents
        /\ owner \in [Tokens -> parents \cup {0}] /\ now \in 0..MaxTime
        /\ broadcasts \in Seq(Entry) /\ DOMAIN push = 1..MaxRequests
        /\ notifications \subseteq [parent : parents, broadcast : DOMAIN broadcasts]
        /\ IsFiniteSet(notifications) /\ NoRepeat
        /\ \A b \in DOMAIN broadcasts : Cardinality(RowsOf(b)) <= broadcasts[b].count
    BY DEF ClosuresInv, BroadcastsInv, TypeOK, Entry
  <1> DEFINE T(b) == IF broadcasts[b].audience = ToParent(p)
                     THEN [broadcasts[b] EXCEPT !.audience = ToParent(0)]
                     ELSE broadcasts[b]
  <1>1. /\ parents' = parents \ {p} /\ class' = class \ {p}
        /\ owner' = [k \in Tokens |-> IF owner[k] = p THEN 0 ELSE owner[k]]
        /\ notifications' = {n \in notifications : n.parent # p}
        /\ broadcasts' = [b \in DOMAIN broadcasts |-> T(b)]
        /\ UNCHANGED <<now, push, req, locks>>
        /\ \A r \in Requests : req[r].pc = "commit" => p \notin req[r].to
    BY DEF DeleteParent, Kept, clock
  <1>2. /\ Len(broadcasts) \in Nat /\ DOMAIN broadcasts = 1..Len(broadcasts)
        /\ \A b \in DOMAIN broadcasts : broadcasts[b] \in Entry
    BY <1>0
  <1>3. ASSUME NEW b \in DOMAIN broadcasts
        PROVE  /\ T(b) \in Entry /\ T(b).text = broadcasts[b].text
               /\ T(b).at = broadcasts[b].at /\ T(b).by = broadcasts[b].by
               /\ T(b).count = broadcasts[b].count
               /\ T(b).audience \in {broadcasts[b].audience, ToParent(0)}
    <2>1. broadcasts[b] \in Entry /\ ToParent(0) \in Audience
      BY <1>2 DEF ToParent, Audience
    <2> QED
      BY <2>1 DEF Entry
  <1> HIDE DEF T
  <1>4. broadcasts' \in Seq(Entry) /\ DOMAIN broadcasts' = DOMAIN broadcasts
    <2>1. broadcasts' \in [1..Len(broadcasts) -> Entry]
      BY <1>1, <1>2, <1>3
    <2> QED
      BY <1>2, <2>1
  <1>5. \A b \in DOMAIN broadcasts :
          /\ broadcasts'[b].text = broadcasts[b].text
          /\ broadcasts'[b].at = broadcasts[b].at /\ broadcasts'[b].by = broadcasts[b].by
          /\ broadcasts'[b].count = broadcasts[b].count
          /\ broadcasts'[b].audience \in {broadcasts[b].audience, ToParent(0)}
    BY <1>1, <1>3
  <1>6. TypeOK'
    <2>1. owner' \in [Tokens -> parents' \cup {0}]
      BY <1>0, <1>1
    <2>2. notifications' \subseteq [parent : parents', broadcast : DOMAIN broadcasts']
      BY <1>0, <1>1, <1>4
    <2> QED
      BY <1>0, <1>1, <1>4, <2>1, <2>2 DEF TypeOK, Entry
  <1>7. NoRepeat'
    BY <1>0, <1>4, <1>5 DEF NoRepeat, ToParent
  <1>8. IsFiniteSet(notifications')
    BY <1>0, <1>1, FS_Subset
  <1>9. ASSUME NEW b \in DOMAIN broadcasts'
        PROVE  Cardinality({n \in notifications' : n.broadcast = b})
                 <= broadcasts'[b].count
    <2> DEFINE S == {n \in notifications' : n.broadcast = b}
    <2>1. S \subseteq RowsOf(b) /\ RowsOf(b) \subseteq notifications
      BY <1>1 DEF RowsOf
    <2> HIDE DEF S
    <2>2. IsFiniteSet(RowsOf(b))
      BY <1>0, <2>1, FS_Subset
    <2>3. Cardinality(S) <= Cardinality(RowsOf(b)) /\ IsFiniteSet(S)
      BY <2>1, <2>2, FS_Subset
    <2>4. Cardinality(S) \in Nat /\ Cardinality(RowsOf(b)) \in Nat
      BY <2>2, <2>3, FS_CardinalityType
    <2>5. broadcasts'[b].count = broadcasts[b].count /\ broadcasts[b].count \in Nat
      BY <1>2, <1>4, <1>5, <1>9 DEF Entry
    <2>6. Cardinality(RowsOf(b)) <= broadcasts[b].count
      BY <1>0, <1>4
    <2>7. Cardinality(S) <= broadcasts'[b].count
      BY <2>3, <2>4, <2>5, <2>6
    <2> QED
      BY <2>7 DEF S
  <1>10. BroadcastsInv'
    BY <1>6, <1>7, <1>8, <1>9 DEF BroadcastsInv, RowsOf
  <1>11. CalendarInv'
    BY <1>4, <1>5, CalendarFrame DEF ClosuresInv, CalendarInv
  <1>12. ASSUME NEW r \in Requests PROVE Form(req[r], locks[r])' /\ Facts(req[r])'
    <2> DEFINE rec == req[r]
    <2>1. Form(rec, locks[r]) /\ Facts(rec) /\ rec \in ReqRec
      BY DEF ClosuresInv, RequestsInv
    <2>2. rec.kind = "broadcast" /\ Writing(rec) => ~RecentDuplicate(rec)'
      <3> SUFFICES ASSUME rec.kind = "broadcast", Writing(rec),
                          NEW b \in DOMAIN broadcasts',
                          broadcasts'[b].text = rec.text,
                          broadcasts'[b].audience = rec.audience,
                          broadcasts'[b].at > rec.at - DuplicateWait
                   PROVE  FALSE
        BY <1>1 DEF RecentDuplicate
      <3>1. rec.audience # ToParent(0)
        BY <2>1 DEF Form
      <3> QED
        BY <1>4, <1>5, <2>1, <3>1 DEF Facts, RecentDuplicate
    <2>3. UNCHANGED closures /\ req'[r] = rec /\ locks'[r] = locks[r]
      BY <1>1 DEF calendar
    <2>4. rec.pc = "commit" => rec.to \subseteq parents'
      BY <1>1, <2>1 DEF Facts
    <2>5. Form(req[r], locks[r])'
      BY <1>1, <2>1 DEF Form
    <2>6. Facts(req[r])'
      BY <1>1, <2>1, <2>2, <2>3, <2>4 DEF Facts, Overlap, Over, Cancelled, Writing
    <2> QED
      BY <2>5, <2>6
  <1>13. RequestsInv'
    BY <1>1, <1>12 DEF ClosuresInv, RequestsInv, LocksApart
  <1> QED
    BY <1>10, <1>11, <1>13 DEF ClosuresInv

-----------------------------------------------------------------------------

LEMMA ClosuresInitOK == ClosuresInit => ClosuresInv
  <1> SUFFICES ASSUME ClosuresInit PROVE ClosuresInv
    OBVIOUS
  <1>0. Init
    BY DEF ClosuresInit
  <1>1. RequestsInv
    <2>1. req = [r \in Requests |-> Idle] /\ locks = [r \in Requests |-> {}]
      BY <1>0 DEF Init
    <2> QED
      BY <2>1, IdleRec DEF RequestsInv, LocksApart
  <1>2. BroadcastsInv
    <2>1. /\ parents \subseteq Parents /\ class \subseteq parents
          /\ owner \in [Tokens -> parents \cup {0}] /\ now \in 0..MaxTime
          /\ DOMAIN push = 1..MaxRequests
      <3>1. parents \subseteq Parents /\ class \subseteq parents
        BY <1>0, BroadcastsAssumption DEF Init
      <3>2. owner \in [Tokens -> parents \cup {0}]
        BY <1>0 DEF Init
      <3>3. now \in 0..MaxTime /\ DOMAIN push = 1..MaxRequests
        BY <1>0, BroadcastsAssumption DEF Init
      <3> QED
        BY <3>1, <3>2, <3>3
    <2>2. broadcasts = <<>> /\ notifications = {}
      BY <1>0 DEF Init
    <2>3. TypeOK
      BY <2>1, <2>2 DEF TypeOK
    <2>4. NoRepeat /\ \A b \in DOMAIN broadcasts :
                        Cardinality(RowsOf(b)) <= broadcasts[b].count
      BY <2>2 DEF NoRepeat
    <2> QED
      BY <2>2, <2>3, <2>4, FS_EmptySet DEF BroadcastsInv
  <1>3. CalendarInv
    <2>1. PICK c \in Existing :
            closures = [id \in ClosureIds |-> IF id = 1 THEN c ELSE NoClosure]
      BY DEF ClosuresInit
    <2>2. /\ today = StartDate /\ lastId = 1 /\ cancels = <<>>
      BY DEF ClosuresInit
    <2>3. c \in Row \cup {NoClosure} /\ c.notice = 0 /\ (c # NoClosure => c.start <= c.end)
      <3>1. c \in Closure => c \in Row
        BY BroadcastsAssumption DEF Closure, Row
      <3>2. c \in Closure \cup {NoClosure}
        BY ClosuresAssumption
      <3>3. \A x \in Existing : x.notice = 0 /\ (x # NoClosure => x.start <= x.end)
        BY ClosuresAssumption
      <3> QED
        BY <3>1, <3>2, <3>3
    <2>4. closures \in [ClosureIds -> Row \cup {NoClosure}] /\ today \in Dates
      BY <2>1, <2>2, <2>3, ClosuresAssumption DEF Dates
    <2>5. \A id \in ClosureIds : closures[id] # NoClosure =>
            id <= lastId /\ closures[id].start <= closures[id].end
      BY <2>1, <2>2, <2>3
    <2>6. NoticesExist
      BY <2>1, <2>3, NoClosureFacts DEF NoticesExist
    <2>7. ClosuresDisjoint
      <3>1. \A i \in ClosureIds : i # 1 => closures[i] = NoClosure
        BY <2>1
      <3> QED
        BY <2>4, <3>1, NoClosureFacts DEF ClosuresDisjoint
    <2>8. CancelsDone /\ CancelledOnce
          /\ cancels \in Seq([id : ClosureIds, today : Dates])
      BY <2>2 DEF CancelsDone, CancelledOnce
    <2> QED
      BY <2>2, <2>4, <2>5, <2>6, <2>7, <2>8 DEF CalendarInv
  <1> QED
    BY <1>1, <1>2, <1>3 DEF ClosuresInv

LEMMA ClosuresStep ==
    ASSUME ClosuresInv, [ClosuresNext]_allVars
    PROVE  ClosuresInv'
  <1>1. ASSUME NEW r \in Requests, ClosureStep(r) PROVE ClosuresInv'
    BY <1>1, BeginClosure, PlanKeeps, CommitClosureKeeps DEF ClosureStep
  <1>2. CASE Next /\ UNCHANGED <<today, calendar>>
    <2>1. CASE Answered
      <3>1. UNCHANGED allVars
        BY <1>2, <2>1 DEF Answered, allVars
      <3> QED
        BY <3>1, WorldKeeps
    <2>2. ASSUME NEW r \in Requests, Begin(r) \/ CreateStep(r) \/ Abort(r)
          PROVE  ClosuresInv'
      <3>1. CASE Abort(r)
        <4>1. Done(r) /\ UNCHANGED <<rows, tables, push, today, calendar>>
          BY <1>2, <3>1 DEF Abort, rows, clock, people
        <4> QED
          BY <4>1, GiveUpKeeps
      <3> QED
        BY <1>2, <2>2, <3>1, BeginBroadcast, CreateKeeps, CommitKeeps DEF CreateStep
    <2>3. CASE \E p \in Parents : DeleteParent(p)
      BY <1>2, <2>3, DeleteKeeps
    <2>4. CASE \/ \E b \in 1..MaxRequests : PushStep(b)
               \/ \E p \in Parents : AddParent(p) \/ EditClass(p)
               \/ \E k \in Tokens, p \in Parents \cup {0} : MoveToken(k, p)
               \/ Tick \/ Crash
      BY <1>2, <2>4, WorldKeeps
    <2> QED
      BY <1>2, <2>1, <2>2, <2>3, <2>4 DEF Next, World
  <1>3. CASE NextDay \/ UNCHANGED allVars
    BY <1>3, WorldKeeps
  <1> QED
    BY <1>1, <1>2, <1>3 DEF ClosuresNext

\* The notifications of a broadcast are its own and no more than it counted.
LEMMA HonestLog ==
    ASSUME ClosuresInv
    PROVE  LogIsHonest
  <1> SUFFICES ASSUME NEW b \in DOMAIN broadcasts
               PROVE  /\ broadcasts[b].count > 0
                      /\ Cardinality(RowsOf(b)) <= broadcasts[b].count
                      /\ {n.parent : n \in RowsOf(b)} \subseteq parents
    BY DEF LogIsHonest, RowsOf
  <1>1. broadcasts \in Seq(Entry)
    BY DEF ClosuresInv, BroadcastsInv, TypeOK, Entry
  <1>2. broadcasts[b] \in Entry
    BY <1>1
  <1>3. broadcasts[b].count \in 1..Cardinality(Parents)
    BY <1>2 DEF Entry
  <1>4. \A n \in RowsOf(b) : n.parent \in parents
    BY DEF ClosuresInv, BroadcastsInv, TypeOK, RowsOf
  <1> QED
    BY <1>3, <1>4 DEF ClosuresInv, BroadcastsInv

\* A broadcast an admin sends is apart from those before it of the same text
\* to the same audience that still exists, and the log counts what it sent, however many requests run at once, whatever accounts are
\* deleted meanwhile and wherever the process dies.
THEOREM BroadcastsSafe == ClosuresSpec => [](TypeOK /\ NoRepeat /\ LogIsHonest)
  <1>1. ClosuresInv /\ [ClosuresNext]_allVars => ClosuresInv'
    BY ClosuresStep
  <1>2. ClosuresInv => TypeOK /\ NoRepeat /\ LogIsHonest
    BY HonestLog DEF ClosuresInv, BroadcastsInv
  <1> QED
    BY <1>1, <1>2, ClosuresInitOK, PTL DEF ClosuresSpec

\* However registrations and cancellations overlap, no date is closed twice,
\* a closure is cancelled once on a day, and one that is listed as announced
\* was.
THEOREM CalendarSafe ==
    ClosuresSpec => [](ClosuresDisjoint /\ CancelledOnce /\ NoticesExist)
  <1>1. ClosuresInv /\ [ClosuresNext]_allVars => ClosuresInv'
    BY ClosuresStep
  <1>2. ClosuresInv => ClosuresDisjoint /\ CancelledOnce /\ NoticesExist
    BY DEF ClosuresInv, CalendarInv
  <1> QED
    BY <1>1, <1>2, ClosuresInitOK, PTL DEF ClosuresSpec

\* A step opens a date only by a cancellation that arrived on or before it.
LEMMA OpensOnlyLater ==
    ASSUME ClosuresInv, [ClosuresNext]_allVars, NEW d \in Dates,
           Closed(d), ~Closed(d)'
    PROVE  \E r \in Requests : /\ req[r].kind = "cancel" /\ req[r].pc = "commit"
                               /\ req[r].about.today <= d
  <1>0. /\ closures \in [ClosureIds -> Row \cup {NoClosure}] /\ lastId \in Nat
        /\ \A id \in ClosureIds : closures[id] # NoClosure => id <= lastId
        /\ \A id \in ClosureIds : id \in Nat
    BY DEF ClosuresInv, CalendarInv, ClosureIds
  <1>1. PICK id \in ClosureIds : Covers(closures[id], d)
    BY <1>0 DEF Closed
  <1>2. closures[id] \in Row /\ id <= lastId
    BY <1>0, <1>1, NoClosureFacts
  <1>3. DOMAIN closures' = ClosureIds => ~Covers(closures'[id], d)
    BY DEF Closed, Covers
  <1>4. PICK r \in Requests : CommitClosure(r)
    <2>1. CASE UNCHANGED closures
      BY <1>0, <1>1, <1>3, <2>1
    <2> QED
      BY <2>1 DEF ClosuresNext, ClosureStep, BeginCreate, BeginCancel, LockClosures,
         InsertClosure, CancelClosure, ClosureBroadcast, NextDay, calendar, allVars
  <1>5. CASE req[r].kind = "create"
    <2>1. /\ DOMAIN closures' = ClosureIds
          /\ closures'[id] = closures[id]
      BY <1>0, <1>2, <1>4, <1>5 DEF CommitClosure
    <2> QED
      BY <1>1, <1>3, <2>1
  <1>6. CASE req[r].kind = "cancel"
    <2> DEFINE rec == req[r]
               c == closures[rec.about.id]
               t == rec.about.today
    <2>1. /\ rec.pc = "commit" /\ t \in Dates
          /\ rec.about.closure = Cancelled(c, t)
          /\ closures' = [closures EXCEPT ![rec.about.id] = rec.about.closure]
      BY <1>4, <1>6 DEF CommitClosure, ClosuresInv, RequestsInv, Form, Facts, Writing,
         CancelAbout
    <2>2. rec.about.id = id /\ ~Covers(Cancelled(c, t), d)
      BY <1>0, <1>1, <1>3, <2>1
    <2>3. /\ c.start \in Nat /\ c.end \in Nat /\ d \in Nat /\ t \in Nat
          /\ c.start <= d /\ d <= c.end
      BY <1>1, <1>2, <2>1, <2>2, ClosuresAssumption DEF Row, Dates, Infinity, Covers
    <2>4. t <= d
      <3>1. CASE c.start >= t
        BY <2>3, <3>1
      <3>2. CASE ~(c.start >= t)
        <4>1. Cancelled(c, t).start = c.start /\ Cancelled(c, t).end = t - 1
          BY <1>2, <2>2, <3>2 DEF Cancelled, Row
        <4> QED
          BY <2>2, <2>3, <4>1 DEF Covers
      <3> QED
        BY <3>1, <3>2
    <2> QED
      BY <1>6, <2>1, <2>4
  <1> QED
    BY <1>4, <1>5, <1>6 DEF CommitClosure

\* A date is opened again only by a cancellation, and only from the day that
\* request arrived on: for any calendar and any overlap of requests, also
\* past midnight.
THEOREM PastSafe == ClosuresSpec => PastStaysClosed
  <1>1. ClosuresInv /\ [ClosuresNext]_allVars => ClosuresInv'
    BY ClosuresStep
  <1> DEFINE P == \A d \in Dates : Closed(d) /\ ~Closed(d)' =>
                    \E r \in Requests :
                       /\ req[r].kind = "cancel" /\ req[r].pc = "commit"
                       /\ req[r].about.today <= d
  <1>2. ClosuresInv /\ [ClosuresNext]_allVars => [P]_allVars
    BY OpensOnlyLater
  <1> QED
    BY <1>1, <1>2, ClosuresInitOK, PTL DEF ClosuresSpec, PastStaysClosed
=============================================================================
