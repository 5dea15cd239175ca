----------------------------- MODULE Attendance -----------------------------
(***************************************************************************)
(* Attendance punches: a ZKTeco device that keeps its punches until they   *)
(* are acknowledged, ADMSHandler and its one transaction per batch         *)
(* (handlers/hardware.go), the JSON push endpoint, the admin's manual      *)
(* entries (handlers/manual_attendance.go) and the parents' announcements  *)
(* that follow from them.                                                  *)
(*                                                                         *)
(* A student or teacher is named by the device PIN (rfid_tag).  Times are  *)
(* numbers, SecondsPerMinute of them to a minute and DayMinutes minutes to *)
(* a day.  Lines that do not parse are punches of unknown PINs: both are   *)
(* skipped.  A JSON body that does not parse is a punch of Bad.            *)
(***************************************************************************)
EXTENDS Naturals, FiniteSets

CONSTANTS
    Reqs,          \* device requests served at once
    Admins,        \* manual entries served at once
    StudentPins, TeacherPins,
    GarbledPins,   \* PINs that are not valid text for the database
    Loads,         \* the sets of punches <<pin, time>> devices may hold
    JsonPunches,   \* those on a device that uses the JSON push
    Bad,           \* those whose row the database rejects
    MaxBatch,      \* MaxADMSBodyBytes, in punches
    ManualTimes,   \* the times of manual entries that are tried
    SecondsPerMinute, DayMinutes,
    InMinutes, OutMinutes,  \* the check-in and check-out windows of a day
    SchoolDays,
    Nows,          \* the instants the clock may show
    MaxEvents      \* bound: failures, overlaps, manual entries and switches

ASSUME AttendanceAssumption ==
    /\ MaxBatch \in Nat /\ MaxEvents \in Nat
    /\ SecondsPerMinute \in Nat \ {0} /\ DayMinutes \in Nat \ {0}
    /\ InMinutes \cap OutMinutes = {}
    /\ Nows \subseteq Nat /\ Nows # {} /\ ManualTimes \subseteq Nat
    /\ StudentPins \cap TeacherPins = {}
    /\ \A load \in Loads : \A p \in load : p = <<p[1], p[2]>> /\ p[2] \in Nat

VARIABLES
    punched,    \* the punches of this behaviour
    buffer,     \* what the devices still hold
    log,        \* attendance_logs: rows <<pin, time, source>>
    teacherLog, \* teacher_attendance_logs: rows <<pin, time>>
    active,     \* the devices are registered and devices.is_active
    now,        \* handlers.Clock
    req,        \* each device request
    manual,     \* each manual entry's transaction
    told,       \* how often each device punch was announced
    toldManual, \* the manual punches that were announced
    silent,     \* history: punches stored without an announcement being due
    dropped,    \* history: punches acknowledged unread, as the rules say, or
                \* because a manual entry had their key
    events

requests == <<req, manual>>
history == <<told, toldManual, silent, dropped>>
vars == <<punched, buffer, log, teacherLog, active, now, requests, history,
          events>>

All == UNION Loads
NoReq == [pc |-> "idle", batch |-> {}, inserted |-> {}, teachers |-> {}]
NoManual == [pc |-> "idle", pin |-> 0, time |-> 0, notify |-> FALSE,
             tell |-> FALSE]

TypeOK ==
    /\ punched \in Loads /\ buffer \subseteq punched
    /\ \A row \in log : /\ row[1] \in StudentPins
                        /\ row[3] \in {"device", "manual"}
                        /\ row[3] = "device" => <<row[1], row[2]>> \in All
    /\ \A row \in teacherLog : row[1] \in TeacherPins /\ row \in All
    /\ active \in BOOLEAN /\ now \in Nows
    /\ told \in [All -> Nat]
    /\ events \in 0..MaxEvents

Init ==
    /\ punched \in Loads /\ buffer = punched
    /\ log = {} /\ teacherLog = {}
    /\ active = TRUE /\ now \in Nows
    /\ req = [r \in Reqs |-> NoReq]
    /\ manual = [a \in Admins |-> NoManual]
    /\ told = [p \in All |-> 0] /\ toldManual = {}
    /\ silent = {} /\ dropped = {} /\ events = 0

-----------------------------------------------------------------------------
(* Time and windows *)

Minute(t) == t \div SecondsPerMinute
Day(t) == Minute(t) \div DayMinutes

\* The window of a time: check-in, check-out or a dead zone.
Window(t) ==
    LET m == Minute(t) % DayMinutes
    IN  IF m \in InMinutes THEN "in" ELSE IF m \in OutMinutes THEN "out"
        ELSE "none"

SameWindow(t, u) == Day(t) = Day(u) /\ Window(t) = Window(u)

Keys(rows) == {<<row[1], row[2]>> : row \in rows}
ManualKeys == Keys({row \in log : row[3] = "manual"})

\* The latest punch of the window is announced.
MutFirstOfWindow(p, keys) ==
    /\ Window(p[2]) # "none" /\ Day(p[2]) \in SchoolDays
    /\ \A q \in keys : q[1] = p[1] /\ SameWindow(q[2], p[2]) => q[2] <= p[2]

\* notifyPunchesSQL over get_student_status: the punch is in the minute of
\* its window's earliest punch, no earlier punch is in that minute, and the
\* day is a school day.
FirstOfWindow(p, keys) ==
    LET mine == {q \in keys : q[1] = p[1]}
    IN  /\ Window(p[2]) # "none" /\ Day(p[2]) \in SchoolDays
        /\ \E q \in mine :
             /\ SameWindow(q[2], p[2]) /\ Minute(q[2]) = Minute(p[2])
             /\ \A e \in mine : SameWindow(e[2], p[2]) => q[2] <= e[2]
        /\ ~\E q \in mine : q[2] < p[2] /\ Minute(q[2]) = Minute(p[2])

-----------------------------------------------------------------------------
(* ADMSHandler.  Rows another transaction has inserted and not committed   *)
(* make an INSERT of the same key wait.                                    *)

Pending(r) == req[r].inserted \cup req[r].teachers
ManualKey(a) == <<manual[a].pin, manual[a].time>>

HeldKeys ==
    UNION {Pending(r) :
             r \in {q \in Reqs : req[q].pc \in {"teachers", "commit"}}}
        \cup {ManualKey(a) : a \in {b \in Admins : manual[b].pc = "commit"}}

\* Crashes, lost replies, transient errors, and what admins do, are bounded.
Happens == events < MaxEvents /\ events' = events + 1

\* A request that is being served carries some of these punches.
Posting(punches) == \E r \in Reqs : req[r].batch \cap punches # {}

\* Requests are alike: the next one takes any that is free.
Served(r, pc, batches) ==
    /\ req[r].pc = "idle" /\ r = CHOOSE q \in Reqs : req[q].pc = "idle"
    /\ \E b \in batches :
         req' = [req EXCEPT ![r] = [NoReq EXCEPT !.pc = pc, !.batch = b]]
    /\ UNCHANGED <<punched, buffer, log, teacherLog, active, now, manual,
                   history>>

\* What a device posts: a batch of what it holds, or with JSON one punch.
Post(r) == Served(r, "device", (SUBSET (buffer \ JsonPunches)) \ {{}})
JsonPost(r) == Served(r, "json", {{p} : p \in buffer \cap JsonPunches})

Send(r) == ~Posting(All \ JsonPunches) /\ Post(r) /\ UNCHANGED events
JsonSend(r) == ~Posting(JsonPunches) /\ JsonPost(r) /\ UNCHANGED events

\* It posts while a request it gave up on, or one of another device of its
\* kind, is still being served.
SendOver(r) ==
    /\ \/ Posting(All \ JsonPunches) /\ Post(r)
       \/ Posting(JsonPunches) /\ JsonPost(r)
    /\ Happens

\* Disabled device, oversized body: dropped and acknowledged.
Authorize(r) ==
    LET drop == ~active \/ Cardinality(req[r].batch) > MaxBatch
    IN  /\ req[r].pc = "device"
        /\ req' = [req EXCEPT ![r].pc = IF drop THEN "ok" ELSE "students"]
        /\ dropped' = IF drop THEN dropped \cup req[r].batch ELSE dropped
        /\ UNCHANGED <<punched, buffer, log, teacherLog, active, now, manual,
                       told, toldManual, silent, events>>

\* The lookup of the device fails for a reason that is not transient, like a
\* serial number that is not text: acknowledged as well.
VerifyFails(r) ==
    /\ req[r].pc = "device" /\ Happens
    /\ req' = [req EXCEPT ![r].pc = "ok"]
    /\ dropped' = dropped \cup req[r].batch
    /\ UNCHANGED <<punched, buffer, log, teacherLog, active, now, manual,
                   told, toldManual, silent>>

BatchOf(r, pins) == {p \in req[r].batch : p[1] \in pins}

\* A rejected record is answered like a failed lookup.
MutUnreadable(r) == BatchOf(r, GarbledPins) \cup (req[r].batch \cap Bad) # {}

\* The lookup of the PINs fails on one that is not text: ...
Unreadable(r) == BatchOf(r, GarbledPins) # {}

\* The failed lookup is acknowledged.
MutLookupFails(r) ==
    /\ req[r].pc = "students" /\ Unreadable(r)
    /\ req' = [req EXCEPT ![r].pc = "ok"]
    /\ UNCHANGED <<punched, buffer, log, teacherLog, active, now, manual,
                   history, events>>

\* ... an error like any other here.
LookupFails(r) ==
    /\ req[r].pc = "students" /\ Unreadable(r)
    /\ req' = [req EXCEPT ![r].pc = "retry"]
    /\ UNCHANGED <<punched, buffer, log, teacherLog, active, now, manual,
                   history, events>>

\* insertPunchesBulk or, when the database rejects a record,
\* insertPunchesEach: every record that can be stored is.
Accepted(batch) == batch \ Bad

\* ON CONFLICT DO UPDATE ... RETURNING.
MutFresh(batch) == Accepted(batch)

\* ON CONFLICT DO NOTHING RETURNING.
Fresh(batch) == Accepted(batch) \ Keys(log)

StoreStudents(r) ==
    LET batch == BatchOf(r, StudentPins)
    IN  /\ req[r].pc = "students" /\ ~Unreadable(r)
        /\ batch \cap HeldKeys = {}
        /\ req' = [req EXCEPT ![r].pc = "teachers",
                              ![r].inserted = Fresh(batch)]
        /\ dropped' = dropped \cup (batch \cap ManualKeys)
        /\ UNCHANGED <<punched, buffer, log, teacherLog, active, now, manual,
                       told, toldManual, silent, events>>

\* storeTeacherPunches: a rejected record skips them all.
StoreTeachers(r) ==
    LET batch == BatchOf(r, TeacherPins)
    IN  /\ req[r].pc = "teachers" /\ batch \cap HeldKeys = {}
        /\ req' = [req EXCEPT ![r].pc = "commit", ![r].teachers =
                     IF batch \cap Bad = {} THEN batch \ teacherLog ELSE {}]
        /\ UNCHANGED <<punched, buffer, log, teacherLog, active, now, manual,
                       history, events>>

Stored(r) ==
    /\ log' = log \cup {<<p[1], p[2], "device">> : p \in req[r].inserted}
    /\ teacherLog' = teacherLog \cup req[r].teachers

Commit(r) ==
    /\ req[r].pc = "commit" /\ Stored(r)
    /\ req' = [req EXCEPT ![r].pc = "notify"]
    /\ UNCHANGED <<punched, buffer, active, now, manual, history, events>>

\* The commit took place but its answer was lost: an error to the handler.
CommitUnseen(r) ==
    /\ req[r].pc = "commit" /\ Stored(r) /\ Happens
    /\ req' = [req EXCEPT ![r].pc = "retry"]
    /\ silent' = silent \cup req[r].inserted
    /\ UNCHANGED <<punched, buffer, active, now, manual, told, toldManual,
                   dropped>>

\* splitPunchesByDay
DatedToday(ps) == {p \in ps : Day(p[2]) = Day(now)}

\* notifyPunches announces the batch's own rows of today, after the commit.
Notify(r) ==
    LET mine == req[r].inserted
    IN  /\ req[r].pc = "notify"
        /\ told' = [p \in All |->
             IF p \in DatedToday(mine) /\ FirstOfWindow(p, Keys(log))
             THEN told[p] + 1 ELSE told[p]]
        /\ silent' = silent \cup (mine \ DatedToday(mine))
        /\ req' = [req EXCEPT ![r].pc = "ok"]
        /\ UNCHANGED <<punched, buffer, log, teacherLog, active, now, manual,
                       toldManual, dropped, events>>

\* Its query fails: no announcement, and still OK.
NotifyFails(r) ==
    /\ req[r].pc = "notify" /\ Happens
    /\ silent' = silent \cup req[r].inserted
    /\ req' = [req EXCEPT ![r].pc = "ok"]
    /\ UNCHANGED <<punched, buffer, log, teacherLog, active, now, manual,
                   told, toldManual, dropped>>

\* Any statement before the commit meets a transient error, the transaction
\* its 20 seconds, or the body breaks off: rollback and 503.  So does a JSON
\* push, whose other errors of the lookup of the device are a 500.
Transient(r) ==
    /\ req[r].pc \in {"device", "students", "teachers", "commit", "json",
                      "insert"}
    /\ Happens
    /\ req' = [req EXCEPT ![r].pc = "retry", ![r].inserted = {},
                          ![r].teachers = {}]
    /\ UNCHANGED <<punched, buffer, log, teacherLog, active, now, manual,
                   history>>

\* OK clears the batch from the device, any other answer does not.
Reply(r) ==
    /\ req[r].pc \in {"ok", "retry"}
    /\ buffer' = IF req[r].pc = "ok" THEN buffer \ req[r].batch ELSE buffer
    /\ req' = [req EXCEPT ![r] = NoReq]
    /\ UNCHANGED <<punched, log, teacherLog, active, now, manual, history,
                   events>>

ReplyLost(r) ==
    /\ req[r].pc \in {"ok", "retry"} /\ Happens
    /\ req' = [req EXCEPT ![r] = NoReq]
    /\ UNCHANGED <<punched, buffer, log, teacherLog, active, now, manual,
                   history>>

-----------------------------------------------------------------------------
(* HardwareAttendancePushHandler behind DeviceAuthMiddleware: one punch,   *)
(* one statement, students only, and never an announcement.                *)

\* A device that is disabled (403) or not registered (401) is refused.
JsonAuthorize(r) ==
    /\ req[r].pc = "json"
    /\ req' = [req EXCEPT ![r].pc = IF active THEN "insert" ELSE "retry"]
    /\ UNCHANGED <<punched, buffer, log, teacherLog, active, now, manual,
                   history, events>>

\* A row or a PIN the database rejects is a 500; a body that does not parse a
\* 400, or names another device a 403.
JsonRejects(p) == p \in Bad \/ p[1] \in GarbledPins

JsonRejected(r) ==
    /\ req[r].pc = "insert" /\ \E p \in req[r].batch : JsonRejects(p)
    /\ req' = [req EXCEPT ![r].pc = "retry"]
    /\ UNCHANGED <<punched, buffer, log, teacherLog, active, now, manual,
                   history, events>>

\* INSERT ... SELECT ... ON CONFLICT DO NOTHING, committed by itself; a
\* punch nobody has, or that is there, is a success too.
JsonStored(r) ==
    LET batch == BatchOf(r, StudentPins)
    IN  /\ req[r].pc = "insert"
        /\ \A p \in req[r].batch : ~JsonRejects(p)
        /\ batch \cap HeldKeys = {}
        /\ log' = log \cup {<<p[1], p[2], "device">> : p \in Fresh(batch)}
        /\ silent' = silent \cup Fresh(batch)
        /\ dropped' = dropped \cup (batch \cap ManualKeys)
        /\ UNCHANGED <<punched, buffer, teacherLog, active, now, manual, told,
                       toldManual>>

JsonStore(r) ==
    /\ JsonStored(r) /\ req' = [req EXCEPT ![r].pc = "ok"]
    /\ UNCHANGED events

\* The row is stored, but the answer of the database is lost: 503.
JsonUnseen(r) ==
    JsonStored(r) /\ req' = [req EXCEPT ![r].pc = "retry"] /\ Happens

-----------------------------------------------------------------------------
(* AdminManualAttendanceHandler *)

\* A manual entry's time is in a window of a school day, today or yesterday,
\* and not after now.
Admissible(t) ==
    /\ Window(t) # "none" /\ Day(t) \in SchoolDays
    /\ Day(t) = Day(now) \/ Day(t) + 1 = Day(now)
    /\ t <= now

BeginManual(a) ==
    /\ manual[a].pc = "idle" /\ a = CHOOSE b \in Admins : manual[b].pc = "idle"
    /\ Happens
    /\ \E pin \in StudentPins, t \in ManualTimes, notify \in BOOLEAN :
         /\ Admissible(t)
         /\ manual' = [manual EXCEPT ![a] = [pc |-> "lock", pin |-> pin,
                         time |-> t, notify |-> notify, tell |-> FALSE]]
    /\ UNCHANGED <<punched, buffer, log, teacherLog, active, now, req,
                   history>>

\* The student's row is not locked.
MutStudentFree(a) == TRUE

\* FOR NO KEY UPDATE OF s: manual entries of one student take turns.
StudentFree(a) ==
    \A b \in Admins \ {a} :
        manual[b].pin = manual[a].pin =>
            manual[b].pc \notin {"insert", "commit"}

\* sameKindPunch
SameKind(a) ==
    \E k \in Keys(log) :
        k[1] = manual[a].pin /\ SameWindow(k[2], manual[a].time)

CheckManual(a) ==
    /\ manual[a].pc = "lock" /\ StudentFree(a)
    /\ manual' = [manual EXCEPT ![a] =
                    IF SameKind(a) THEN NoManual
                    ELSE [@ EXCEPT !.pc = "insert"]]
    /\ UNCHANGED <<punched, buffer, log, teacherLog, active, now, req,
                   history, events>>

\* The INSERT waits for an uncommitted row of its key and fails on a
\* committed one; manualNotification sees the transaction's own row.
InsertManual(a) ==
    LET key == ManualKey(a)
        tell == manual[a].notify /\ FirstOfWindow(key, Keys(log) \cup {key})
    IN  /\ manual[a].pc = "insert" /\ key \notin HeldKeys
        /\ manual' = [manual EXCEPT ![a] =
             IF key \in Keys(log) THEN NoManual
             ELSE [@ EXCEPT !.pc = "commit", !.tell = tell]]
        /\ UNCHANGED <<punched, buffer, log, teacherLog, active, now, req,
                       history, events>>

CommitManual(a) ==
    LET key == ManualKey(a)
    IN  /\ manual[a].pc = "commit"
        /\ log' = log \cup {<<key[1], key[2], "manual">>}
        /\ toldManual' = IF manual[a].tell THEN toldManual \cup {key}
                         ELSE toldManual
        /\ silent' = IF manual[a].notify THEN silent ELSE silent \cup {key}
        /\ manual' = [manual EXCEPT ![a] = NoManual]
        /\ UNCHANGED <<punched, buffer, teacherLog, active, now, req, told,
                       dropped, events>>

AbortManual(a) ==
    /\ manual[a].pc # "idle" /\ Happens
    /\ manual' = [manual EXCEPT ![a] = NoManual]
    /\ UNCHANGED <<punched, buffer, log, teacherLog, active, now, req,
                   history>>

\* deleteManualAttendance: manual entries of today and yesterday only.
Deletable(row) ==
    /\ row[3] = "manual"
    /\ Day(row[2]) = Day(now) \/ Day(row[2]) + 1 = Day(now)

DeleteManual ==
    /\ \E row \in log : Deletable(row) /\ log' = log \ {row}
    /\ UNCHANGED <<punched, buffer, teacherLog, active, now, requests,
                   history, events>>

-----------------------------------------------------------------------------

\* The admin enables or disables the device.
SwitchDevice ==
    /\ active' = ~active /\ Happens
    /\ UNCHANGED <<punched, buffer, log, teacherLog, now, requests, history>>

Tick ==
    /\ \E t \in Nows : t > now /\ now' = t
    /\ UNCHANGED <<punched, buffer, log, teacherLog, active, requests,
                   history, events>>

\* The process dies: open transactions are rolled back, replies are lost,
\* and what was committed but not yet announced never will be.
Crash ==
    /\ Happens
    /\ \E r \in Reqs : req[r].pc # "idle"
    /\ silent' = silent \cup UNION {req[r].inserted : r \in
                                     {q \in Reqs : req[q].pc = "notify"}}
    /\ req' = [r \in Reqs |-> NoReq]
    /\ manual' = [a \in Admins |-> NoManual]
    /\ UNCHANGED <<punched, buffer, log, teacherLog, active, now, told,
                   toldManual, dropped>>

Idle == \A r \in Reqs : req[r].pc = "idle"

Quiet ==
    /\ Idle
    /\ \A a \in Admins : manual[a].pc = "idle"

\* Within the bound on events everything has been answered.
Answered == Quiet /\ buffer = {} /\ UNCHANGED vars

Serve(r) ==
    \/ Authorize(r) \/ LookupFails(r) \/ StoreStudents(r) \/ StoreTeachers(r)
    \/ Commit(r) \/ Notify(r) \/ Reply(r)
    \/ JsonAuthorize(r) \/ JsonRejected(r) \/ JsonStore(r)

Fault(r) ==
    \/ SendOver(r) \/ VerifyFails(r) \/ CommitUnseen(r) \/ NotifyFails(r)
    \/ Transient(r) \/ ReplyLost(r) \/ JsonUnseen(r)

Enter(a) == CheckManual(a) \/ InsertManual(a) \/ CommitManual(a)

Next ==
    \/ Answered
    \/ \E r \in Reqs : Send(r) \/ JsonSend(r) \/ Serve(r) \/ Fault(r)
    \/ \E a \in Admins : BeginManual(a) \/ Enter(a) \/ AbortManual(a)
    \/ DeleteManual \/ SwitchDevice \/ Tick \/ Crash

Spec == Init /\ [][Next]_vars

\* Devices resend what they hold, and handlers run to their end.
FairSpec ==
    /\ Spec
    /\ WF_vars(\E r \in Reqs : Send(r)) /\ WF_vars(\E r \in Reqs : JsonSend(r))
    /\ \A r \in Reqs : WF_vars(Serve(r))
    /\ \A a \in Admins : WF_vars(Enter(a))

-----------------------------------------------------------------------------

\* A student's punch that has left the device is stored, whatever crashed,
\* timed out or was sent twice on the way; only a disabled device or one
\* that cannot be looked up, an oversized batch and a row the database
\* rejects are given up, and a punch of the very second of a manual entry,
\* which stands for it until an admin deletes it.
NoPunchLost ==
    \A p \in punched \ buffer :
        p[1] \in StudentPins => p \in Keys(log) \cup Bad \cup dropped

\* A device punch is announced at most once, however often and however
\* concurrently its batch is sent.
AnnouncedOnce == \A p \in All : told[p] <= 1

\* No window stays silent without a cause: when nothing is under way, a
\* stored device punch of a school day's window is announced, or an earlier
\* or equal punch of that window was, or one of them was stored by a request
\* that could not or was not to announce it.
WindowAnnounced ==
    Quiet =>
        \A row \in log :
            row[3] = "device" /\ Window(row[2]) # "none"
                /\ Day(row[2]) \in SchoolDays =>
            \E k \in silent \cup toldManual \cup {p \in All : told[p] > 0} :
                k[1] = row[1] /\ SameWindow(k[2], row[2]) /\ k[2] <= row[2]

\* A student never has two manual entries in one window, even when two
\* admins enter them at once.
OneManualPerWindow ==
    \A x, y \in log :
        x[3] = "manual" /\ y[3] = "manual" /\ x[1] = y[1]
            /\ SameWindow(x[2], y[2]) => x = y

\* Every punch an ADMS device holds is acknowledged in the end: no batch
\* makes it resend for ever, whatever records it carries.
AllAcknowledged == <>[](buffer \subseteq JsonPunches)

\* It is so for an ADMS device that holds no PIN that is not text: rejected
\* records, teachers, unknown PINs, oversized batches, being disabled,
\* crashes and lost replies delay the acknowledgement and never prevent it.
\* A JSON device gets it too, if it is enabled in the end and holds no punch
\* that is answered 400 or 500.
ReadableAcknowledged ==
    /\ (\A p \in buffer \ JsonPunches : p[1] \notin GarbledPins) =>
         AllAcknowledged
    /\ (\A p \in buffer \cap JsonPunches : ~JsonRejects(p)) =>
         (<>[]active => <>[](buffer \cap JsonPunches = {}))
=============================================================================
