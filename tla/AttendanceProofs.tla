-------------------------- MODULE AttendanceProofs --------------------------
(***************************************************************************)
(* What devices, admins and crashes can do to punches, for any number of   *)
(* requests and manual entries served at once, any punches and any school  *)
(* hours.                                                                  *)
(*                                                                         *)
(* A device row, once committed, stays.  So what a request has read of     *)
(* its batch stays settled, a row is inserted by one request only, and     *)
(* that request alone may announce it.                                     *)
(***************************************************************************)
EXTENDS Attendance, WellFoundedInduction, TLAPS

\* The punches that are stored as a device's.
DeviceKeys == {p \in All : <<p[1], p[2], "device">> \in log}

\* A punch that no later step can lose.
Settled(p) == p \in DeviceKeys \cup Bad \cup dropped

ReqPcs == {"idle", "device", "students", "teachers", "commit", "notify", "ok",
           "retry", "json", "insert"}
ReqRec == [pc : ReqPcs, batch : SUBSET All, inserted : SUBSET All,
           teachers : SUBSET All]

\* The request's inserted rows are its own, committed or not.
Owns(rec) == rec.pc \in {"teachers", "commit", "notify"}

\* What a request relies on.
ReqOK(rec) ==
    /\ \A p \in rec.inserted : p[1] \in StudentPins
    /\ \A p \in rec.teachers : p[1] \in TeacherPins
    /\ rec.pc \in {"teachers", "commit"} =>
         /\ rec.inserted \cap DeviceKeys = {}
         /\ \A p \in rec.batch : p[1] \in StudentPins =>
                                   p \in rec.inserted \/ Settled(p)
    /\ rec.pc = "notify" =>
         \A p \in rec.inserted : p \in DeviceKeys /\ told[p] = 0
    /\ rec.pc \in {"notify", "ok"} =>
         \A p \in rec.batch : p[1] \in StudentPins => Settled(p)

\* No punch is two requests'.
OwnedOnce ==
    \A r, q \in Reqs :
        r # q /\ Owns(req[r]) /\ Owns(req[q]) =>
            req[r].inserted \cap req[q].inserted = {}

\* Only stored punches are announced, and once.
ToldStored ==
    /\ told \in [All -> {0, 1}]
    /\ \A p \in All : told[p] = 1 => p \in DeviceKeys

GoneSettled ==
    \A p \in punched \ buffer : p[1] \in StudentPins => Settled(p)

LogRows == log \subseteq StudentPins \X Nat \X {"device", "manual"}

PunchInv ==
    /\ TypeOK /\ LogRows
    /\ req \in [Reqs -> ReqRec]
    /\ \A r \in Reqs : ReqOK(req[r])
    /\ OwnedOnce /\ ToldStored /\ GoneSettled

-----------------------------------------------------------------------------

ManualRec ==
    [pc : {"idle", "lock", "insert", "commit"}, pin : StudentPins \cup {0},
     time : Nat, notify : BOOLEAN, tell : BOOLEAN]

\* The entry's transaction has locked the student's row.
Locks(rec) == rec.pc \in {"insert", "commit"}

InSchool(t) == Window(t) # "none" /\ Day(t) \in SchoolDays

\* While it holds the lock, the student has no manual entry in the window.
Clear(rec) ==
    \A row \in log :
        row[3] = "manual" /\ row[1] = rec.pin => ~SameWindow(row[2], rec.time)

ManualOK(rec) ==
    /\ rec.pc # "idle" => rec.pin \in StudentPins /\ InSchool(rec.time)
    /\ Locks(rec) => Clear(rec)

LockedOnce ==
    \A a, b \in Admins :
        a # b /\ Locks(manual[a]) /\ Locks(manual[b]) =>
            manual[a].pin # manual[b].pin

ManualInv ==
    /\ LogRows
    /\ manual \in [Admins -> ManualRec]
    /\ \A a \in Admins : ManualOK(manual[a])
    /\ LockedOnce
    /\ OneManualPerWindow

-----------------------------------------------------------------------------

\* k is of the same student and window as the punch of `pin' at t, and not
\* after it.
Before(k, pin, t) == k[1] = pin /\ SameWindow(k[2], t) /\ k[2] <= t

\* The punches that were announced, will not be, or are about to be.
Causes ==
    silent \cup toldManual \cup {p \in All : told[p] > 0}
      \cup UNION {req[r].inserted : r \in {q \in Reqs : req[q].pc = "notify"}}

Covered(pin, t) == \E k \in Causes : Before(k, pin, t)

\* A manual entry that asked for an announcement and gets none follows a
\* device's punch.
AfterDevice(rec) ==
    rec.pc = "commit" /\ rec.notify /\ ~rec.tell =>
        \E k \in DeviceKeys : Before(k, rec.pin, rec.time)

CauseInv ==
    /\ \A k \in silent \cup toldManual : k[2] \in Nat
    /\ \A a \in Admins : AfterDevice(manual[a])
    /\ \A row \in log : InSchool(row[2]) => Covered(row[1], row[2])

-----------------------------------------------------------------------------

\* The steps of one request of a device.
Request(r) == Send(r) \/ JsonSend(r) \/ Serve(r) \/ Fault(r)

-----------------------------------------------------------------------------
(* Rows, keys and times *)

\* A punch is a pair of a PIN and a time.
LEMMA Pairs == \A p \in All : p = <<p[1], p[2]>> /\ p[2] \in Nat
  BY AttendanceAssumption DEF All

\* A key of attendance_logs is a device's or an admin's.
LEMMA KeysSplit ==
    ASSUME LogRows, NEW p \in All
    PROVE  p \in Keys(log) <=> p \in DeviceKeys \/ p \in ManualKeys
  <1>1. p = <<p[1], p[2]>>
    BY Pairs
  <1>2. ASSUME p \in Keys(log) PROVE p \in DeviceKeys \/ p \in ManualKeys
    <2>1. PICK row \in log : p = <<row[1], row[2]>>
      BY <1>2 DEF Keys
    <2>2. row = <<row[1], row[2], row[3]>> /\ row[3] \in {"device", "manual"}
      BY DEF LogRows
    <2>3. p[1] = row[1] /\ p[2] = row[2]
      BY <2>1
    <2> QED
      BY <2>1, <2>2, <2>3 DEF DeviceKeys, ManualKeys, Keys
  <1>3. ASSUME p \in DeviceKeys PROVE p \in Keys(log)
    <2> DEFINE row == <<p[1], p[2], "device">>
    <2>1. row \in log /\ row[1] = p[1] /\ row[2] = p[2]
      BY <1>3 DEF DeviceKeys
    <2> HIDE DEF row
    <2> QED
      BY <1>1, <2>1 DEF Keys
  <1>4. ASSUME p \in ManualKeys PROVE p \in Keys(log)
    BY <1>4 DEF ManualKeys, Keys
  <1> QED
    BY <1>2, <1>3, <1>4

\* The rows of an open request are held.
LEMMA HeldPending ==
    ASSUME NEW q \in Reqs, req[q].pc \in {"teachers", "commit"}
    PROVE  req[q].inserted \subseteq HeldKeys
  <1> DEFINE open == {r \in Reqs : req[r].pc \in {"teachers", "commit"}}
  <1>1. Pending(q) \in {Pending(r) : r \in open}
    OBVIOUS
  <1>2. Pending(q) \subseteq HeldKeys
    BY <1>1 DEF HeldKeys
  <1> QED
    BY <1>2 DEF Pending

\* A set of numbers has a least one.
LEMMA LeastNat ==
    ASSUME NEW S, S \subseteq Nat, S # {}
    PROVE  \E n \in S : \A m \in S : n <= m
  <1> DEFINE less == {ss \in Nat \X Nat : ss[1] < ss[2]}
  <1>1. IsWellFoundedOn(less, Nat)
    BY NatLessThanWellFounded DEF OpToRel
  <1>2. less = {ss \in Nat \X Nat : ss[1] < ss[2]}
    OBVIOUS
  <1> HIDE DEF less
  <1>3. PICK n \in S : \A m \in S : <<m, n>> \notin less
    BY <1>1, WFMin
  <1>4. \A m \in S : ~(m < n)
    BY <1>2, <1>3
  <1> QED
    BY <1>4

-----------------------------------------------------------------------------
(* No punch is lost and none is announced twice *)

\* A step of one request leaves alone what the others rely on: rows and
\* announcements of the punches they own do not change.
LEMMA RequestKeeps ==
    ASSUME PunchInv, NEW r \in Reqs,
           req' \in [Reqs -> ReqRec],
           \A q \in Reqs \ {r} : req'[q] = req[q],
           ReqOK(req[r])',
           DeviceKeys \subseteq DeviceKeys', dropped \subseteq dropped',
           \A q \in Reqs \ {r} : Owns(req[q]) =>
             \A p \in req[q].inserted :
               (p \in DeviceKeys' => p \in DeviceKeys) /\ told'[p] = told[p],
           Owns(req[r])' =>
             \A q \in Reqs \ {r} : Owns(req[q]) =>
               req'[r].inserted \cap req[q].inserted = {}
    PROVE  (\A q \in Reqs : ReqOK(req[q])') /\ OwnedOnce'
  <1>1. \A p : Settled(p) => Settled(p)'
    BY DEF Settled
  <1>2. ASSUME NEW q \in Reqs \ {r} PROVE ReqOK(req[q])'
    <2>1. req'[q] = req[q] /\ ReqOK(req[q]) /\ req[q] \in ReqRec
      BY DEF PunchInv
    <2>2. Owns(req[q]) => \A p \in req[q].inserted :
            (p \in DeviceKeys' <=> p \in DeviceKeys) /\ told'[p] = told[p]
      OBVIOUS
    <2> HIDE DEF Settled, DeviceKeys
    <2> QED
      BY <1>1, <2>1, <2>2 DEF ReqOK, Owns, ReqRec
  <1>3. OwnedOnce'
    <2> SUFFICES ASSUME NEW t \in Reqs, NEW q \in Reqs, t # q,
                        Owns(req[t])', Owns(req[q])'
                 PROVE  req'[t].inserted \cap req'[q].inserted = {}
      BY DEF OwnedOnce
    <2>1. CASE t # r /\ q # r
      BY <2>1 DEF PunchInv, OwnedOnce, Owns
    <2>2. CASE t = r
      BY <2>2 DEF Owns
    <2>3. CASE q = r
      BY <2>3 DEF Owns
    <2> QED
      BY <2>1, <2>2, <2>3
  <1> QED
    BY <1>2, <1>3

\* A step of a request that touches neither the log nor the announcements.
LEMMA BookKeeps ==
    ASSUME PunchInv, NEW r \in Reqs, TypeOK',
           req' \in [Reqs -> ReqRec],
           \A q \in Reqs \ {r} : req'[q] = req[q],
           ReqOK(req[r])',
           UNCHANGED <<punched, log, told>>, dropped \subseteq dropped',
           \A p \in buffer \ buffer' : p[1] \in StudentPins => Settled(p),
           Owns(req[r])' =>
             \A q \in Reqs \ {r} : Owns(req[q]) =>
               req'[r].inserted \cap req[q].inserted = {}
    PROVE  PunchInv'
  <1>1. DeviceKeys' = DeviceKeys
    BY DEF DeviceKeys
  <1>2. (\A q \in Reqs : ReqOK(req[q])') /\ OwnedOnce'
    BY <1>1, RequestKeeps
  <1>3. LogRows' /\ ToldStored'
    BY <1>1 DEF PunchInv, LogRows, ToldStored
  <1>4. GoneSettled'
    BY <1>1 DEF PunchInv, GoneSettled, Settled, TypeOK
  <1> QED
    BY <1>2, <1>3, <1>4 DEF PunchInv

LEMMA PunchInit == Init => PunchInv
  <1> SUFFICES ASSUME Init PROVE PunchInv
    OBVIOUS
  <1>1. told \in [All -> Nat] /\ told \in [All -> {0, 1}]
    BY DEF Init
  <1>2. active \in BOOLEAN
    BY Zenon DEF Init
  <1>3. TypeOK
    BY <1>1, <1>2, AttendanceAssumption DEF Init, TypeOK
  <1>4. NoReq \in ReqRec /\ ReqOK(NoReq) /\ ~Owns(NoReq)
    BY DEF NoReq, ReqRec, ReqPcs, ReqOK, Owns
  <1> QED
    BY <1>1, <1>3, <1>4 DEF Init, PunchInv, LogRows, OwnedOnce, ToldStored,
       GoneSettled

\* What is left of the type invariant by a step that touches no table.
LEMMA TypeKeeps ==
    ASSUME TypeOK, UNCHANGED <<punched, log, teacherLog, active, now, told>>,
           buffer' \subseteq buffer, UNCHANGED events \/ Happens
    PROVE  TypeOK'
  <1>1. events' \in 0..MaxEvents
    BY AttendanceAssumption DEF TypeOK, Happens
  <1> QED
    BY <1>1 DEF TypeOK

\* The steps of a request that only choose how it goes on.
LEMMA TurnKeeps ==
    ASSUME PunchInv, NEW r \in Reqs,
           \/ Send(r) \/ JsonSend(r) \/ SendOver(r) \/ Authorize(r)
           \/ VerifyFails(r) \/ LookupFails(r) \/ Transient(r)
           \/ JsonAuthorize(r) \/ JsonRejected(r) \/ Reply(r) \/ ReplyLost(r)
    PROVE  PunchInv'
  <1> DEFINE rec == req[r]
  <1>0. rec \in ReqRec /\ ReqOK(rec) /\ req \in [Reqs -> ReqRec] /\ TypeOK
    BY DEF PunchInv
  <1>1. CASE Send(r) \/ JsonSend(r) \/ SendOver(r)
    <2>0. /\ Post(r) \/ JsonPost(r)
          /\ UNCHANGED <<punched, buffer, log, teacherLog, active, now, manual,
                         history>>
          /\ UNCHANGED events \/ Happens
      BY <1>1 DEF Send, JsonSend, SendOver, Post, JsonPost, Served
    <2>1. PICK b \in SUBSET buffer, pc \in {"device", "json"} :
            req' = [req EXCEPT ![r] = [NoReq EXCEPT !.pc = pc, !.batch = b]]
      <3>1. CASE Post(r)
        BY <3>1 DEF Post, Served
      <3>2. CASE JsonPost(r)
        BY <3>2 DEF JsonPost, Served
      <3> QED
        BY <2>0, <3>1, <3>2
    <2>2. b \subseteq All
      BY <1>0 DEF TypeOK, All
    <2> DEFINE new == [NoReq EXCEPT !.pc = pc, !.batch = b]
    <2>3. new \in ReqRec /\ ~Owns(new) /\ new.inserted = {} /\ new.teachers = {}
          /\ new.pc \in {"device", "json"}
      BY <2>2 DEF NoReq, ReqRec, ReqPcs, Owns
    <2>4. req' = [req EXCEPT ![r] = new]
      BY <2>1
    <2> HIDE DEF new
    <2>5. /\ req' \in [Reqs -> ReqRec] /\ req'[r] = new
          /\ \A q \in Reqs \ {r} : req'[q] = req[q]
      BY <1>0, <2>3, <2>4
    <2>6. ReqOK(req[r])' /\ ~Owns(req[r])'
      BY <2>3, <2>5 DEF ReqOK, Owns
    <2>7. TypeOK'
      BY <1>0, <2>0, TypeKeeps DEF history
    <2> QED
      BY <2>0, <2>5, <2>6, <2>7, BookKeeps DEF history
  <1>2. CASE Authorize(r) \/ VerifyFails(r) \/ JsonAuthorize(r)
    <2>0. /\ UNCHANGED <<punched, buffer, log, teacherLog, active, now, manual,
                         told, toldManual, silent>>
          /\ UNCHANGED events \/ Happens
          /\ dropped \subseteq dropped' /\ rec.pc \in {"device", "json"}
      BY <1>2 DEF Authorize, VerifyFails, JsonAuthorize, history
    <2>1. PICK pc \in {"ok", "students", "insert", "retry"} :
            /\ req' = [req EXCEPT ![r].pc = pc]
            /\ pc = "ok" => rec.batch \subseteq dropped'
      BY <1>2 DEF Authorize, VerifyFails, JsonAuthorize
    <2>2. /\ req' \in [Reqs -> ReqRec] /\ req'[r] = [rec EXCEPT !.pc = pc]
          /\ \A q \in Reqs \ {r} : req'[q] = req[q]
      BY <1>0, <2>1 DEF ReqRec, ReqPcs
    <2>3. ReqOK(req[r])' /\ ~Owns(req[r])'
      BY <1>0, <2>1, <2>2 DEF ReqOK, Owns, ReqRec, Settled
    <2>4. TypeOK'
      BY <1>0, <2>0, TypeKeeps
    <2> QED
      BY <2>0, <2>2, <2>3, <2>4, BookKeeps
  <1>3. CASE LookupFails(r) \/ JsonRejected(r) \/ Transient(r)
    <2>0. UNCHANGED <<punched, buffer, log, teacherLog, active, now, manual,
                      history>> /\ (UNCHANGED events \/ Happens)
      BY <1>3 DEF LookupFails, JsonRejected, Transient
    <2>1. PICK ins \in {{}, rec.inserted}, tea \in {{}, rec.teachers} :
            req' = [req EXCEPT ![r] = [rec EXCEPT !.pc = "retry", !.inserted = ins,
                                                  !.teachers = tea]]
      BY <1>0, <1>3 DEF LookupFails, JsonRejected, Transient, ReqRec
    <2>2. /\ req' \in [Reqs -> ReqRec]
          /\ req'[r] = [rec EXCEPT !.pc = "retry", !.inserted = ins, !.teachers = tea]
          /\ \A q \in Reqs \ {r} : req'[q] = req[q]
      BY <1>0, <2>1 DEF ReqRec, ReqPcs
    <2>3. ReqOK(req[r])' /\ ~Owns(req[r])'
      BY <1>0, <2>1, <2>2 DEF ReqOK, Owns, ReqRec
    <2>4. TypeOK'
      BY <1>0, <2>0, TypeKeeps DEF history
    <2> QED
      BY <2>0, <2>2, <2>3, <2>4, BookKeeps DEF history
  <1>4. CASE Reply(r) \/ ReplyLost(r)
    <2>0. /\ UNCHANGED <<punched, log, teacherLog, active, now, manual, history>>
          /\ UNCHANGED events \/ Happens
          /\ req' = [req EXCEPT ![r] = NoReq]
          /\ buffer' \subseteq buffer
          /\ \A p \in buffer \ buffer' : rec.pc = "ok" /\ p \in rec.batch
      BY <1>4 DEF Reply, ReplyLost
    <2>1. /\ NoReq \in ReqRec /\ ~Owns(NoReq) /\ NoReq.inserted = {}
          /\ NoReq.teachers = {} /\ NoReq.pc = "idle"
      BY DEF NoReq, ReqRec, ReqPcs, Owns
    <2>2. /\ req' \in [Reqs -> ReqRec] /\ req'[r] = NoReq
          /\ \A q \in Reqs \ {r} : req'[q] = req[q]
      BY <1>0, <2>0, <2>1
    <2>3. ReqOK(req[r])' /\ ~Owns(req[r])'
      BY <2>1, <2>2 DEF ReqOK, Owns
    <2>4. TypeOK'
      BY <1>0, <2>0, TypeKeeps DEF history
    <2>5. \A p \in buffer \ buffer' : p[1] \in StudentPins => Settled(p)
      BY <1>0, <2>0 DEF ReqOK
    <2> QED
      BY <2>0, <2>2, <2>3, <2>4, <2>5, BookKeeps DEF history
  <1> QED
    BY <1>1, <1>2, <1>3, <1>4

\* The INSERTs: they wait for rows that others have not committed, and take
\* only those that nobody has.
LEMMA StoreKeeps ==
    ASSUME PunchInv, NEW r \in Reqs, StoreStudents(r) \/ StoreTeachers(r)
    PROVE  PunchInv'
  <1> DEFINE rec == req[r]
  <1>0. /\ rec \in ReqRec /\ ReqOK(rec) /\ req \in [Reqs -> ReqRec] /\ TypeOK
        /\ LogRows
    BY DEF PunchInv
  <1>1. CASE StoreStudents(r)
    <2> DEFINE mine == BatchOf(r, StudentPins)
               new == [rec EXCEPT !.pc = "teachers", !.inserted = Fresh(mine)]
    <2>0. /\ UNCHANGED <<punched, buffer, log, teacherLog, active, now, manual,
                         told, toldManual, silent, events>>
          /\ dropped' = dropped \cup (mine \cap ManualKeys)
          /\ rec.pc = "students" /\ mine \cap HeldKeys = {}
          /\ req' = [req EXCEPT ![r].pc = "teachers", ![r].inserted = Fresh(mine)]
      BY <1>1 DEF StoreStudents
    <2>1. /\ mine \subseteq All /\ mine \subseteq rec.batch
          /\ \A p \in mine : p[1] \in StudentPins
          /\ \A p \in rec.batch : p[1] \in StudentPins => p \in mine
          /\ Fresh(mine) = (mine \ Bad) \ Keys(log)
      BY <1>0 DEF BatchOf, ReqRec, Fresh, Accepted
    <2> HIDE DEF mine
    <2>2. /\ req' \in [Reqs -> ReqRec] /\ req'[r] = new
          /\ \A q \in Reqs \ {r} : req'[q] = req[q]
      BY <1>0, <2>0, <2>1 DEF ReqRec, ReqPcs
    <2>3. DeviceKeys' = DeviceKeys
      BY <2>0 DEF DeviceKeys
    <2>4. Fresh(mine) \cap DeviceKeys = {}
      BY <1>0, <2>1, KeysSplit
    <2>5. \A p \in mine : p \in Fresh(mine) \/ Settled(p)'
      BY <1>0, <2>0, <2>1, <2>3, KeysSplit DEF Settled
    <2>6. ReqOK(req[r])'
      BY <1>0, <2>1, <2>2, <2>3, <2>4, <2>5 DEF ReqOK, ReqRec
    <2>7. ASSUME NEW q \in Reqs \ {r}, Owns(req[q])
          PROVE  Fresh(mine) \cap req[q].inserted = {}
      <3>1. CASE req[q].pc = "notify"
        BY <3>1, <2>4 DEF PunchInv, ReqOK
      <3>2. CASE req[q].pc \in {"teachers", "commit"}
        <4>1. req[q].inserted \subseteq HeldKeys
          BY <3>2, HeldPending
        <4> QED
          BY <4>1, <2>0, <2>1
      <3> QED
        BY <2>7, <3>1, <3>2 DEF Owns
    <2>8. TypeOK'
      BY <1>0, <2>0, TypeKeeps
    <2>9. req'[r].inserted = Fresh(mine)
      BY <1>0, <2>2 DEF ReqRec
    <2> QED
      BY <2>0, <2>2, <2>6, <2>7, <2>8, <2>9, BookKeeps
  <1>2. CASE StoreTeachers(r)
    <2>0. /\ UNCHANGED <<punched, buffer, log, teacherLog, active, now, manual,
                         history, events>>
          /\ rec.pc = "teachers"
      BY <1>2 DEF StoreTeachers
    <2>1. PICK tea \in SUBSET BatchOf(r, TeacherPins) :
            req' = [req EXCEPT ![r].pc = "commit", ![r].teachers = tea]
      BY <1>2 DEF StoreTeachers
    <2>2. tea \subseteq All /\ \A p \in tea : p[1] \in TeacherPins
      BY <1>0, <2>1 DEF BatchOf, ReqRec
    <2>3. /\ req' \in [Reqs -> ReqRec]
          /\ req'[r] = [rec EXCEPT !.pc = "commit", !.teachers = tea]
          /\ \A q \in Reqs \ {r} : req'[q] = req[q]
      BY <1>0, <2>1, <2>2 DEF ReqRec, ReqPcs
    <2>4. DeviceKeys' = DeviceKeys
      BY <2>0 DEF DeviceKeys
    <2>5. ReqOK(req[r])'
      BY <1>0, <2>0, <2>2, <2>3, <2>4 DEF ReqOK, ReqRec, Settled, history
    <2>6. req'[r].inserted = rec.inserted /\ Owns(rec)
      BY <1>0, <2>0, <2>3 DEF ReqRec, Owns
    <2>7. \A q \in Reqs \ {r} : Owns(req[q]) =>
            req'[r].inserted \cap req[q].inserted = {}
      BY <2>6 DEF PunchInv, OwnedOnce
    <2>8. TypeOK'
      BY <1>0, <2>0, TypeKeeps DEF history
    <2> QED
      BY <2>0, <2>3, <2>5, <2>7, <2>8, BookKeeps DEF history
  <1> QED
    BY <1>1, <1>2

\* The rows of a request become visible.
LEMMA StoredRows ==
    ASSUME TypeOK, LogRows, NEW new \in SUBSET All, NEW tea \in SUBSET All,
           \A p \in new : p[1] \in StudentPins,
           \A p \in tea : p[1] \in TeacherPins,
           log' = log \cup {<<p[1], p[2], "device">> : p \in new},
           teacherLog' = teacherLog \cup tea,
           UNCHANGED <<punched, buffer, active, now, told>>,
           UNCHANGED events \/ Happens
    PROVE  TypeOK' /\ LogRows' /\ DeviceKeys' = DeviceKeys \cup new
  <1> DEFINE rows == {<<p[1], p[2], "device">> : p \in new}
  <1>1. log' = log \cup rows
    OBVIOUS
  <1>2. \A p \in new : p[1] \in StudentPins /\ p[2] \in Nat
    BY Pairs
  <1>3. \A row \in rows : /\ row \in StudentPins \X Nat \X {"device", "manual"}
                          /\ row[1] \in StudentPins /\ row[3] = "device"
                          /\ <<row[1], row[2]>> \in All
    BY <1>2, Pairs
  <1>4. LogRows'
    BY <1>1, <1>3 DEF LogRows
  <1>5. DeviceKeys' = DeviceKeys \cup new
    <2>1. ASSUME NEW p \in All
          PROVE  <<p[1], p[2], "device">> \in rows <=> p \in new
      <3>1. ASSUME NEW q \in new,
                   <<p[1], p[2], "device">> = <<q[1], q[2], "device">>
            PROVE  p = q
        BY <3>1, Pairs
      <3> QED
        BY <3>1
    <2> HIDE DEF rows
    <2> QED
      BY <1>1, <2>1 DEF DeviceKeys
  <1>6. events' \in 0..MaxEvents
    BY AttendanceAssumption DEF TypeOK, Happens
  <1>7. TypeOK'
    <2> HIDE DEF rows
    <2> QED
      BY <1>1, <1>3, <1>6 DEF TypeOK
  <1> QED
    BY <1>4, <1>5, <1>7

\* A commit stores rows nobody else has: the unique key made them wait.
LEMMA CommitKeeps ==
    ASSUME PunchInv, NEW r \in Reqs, Commit(r) \/ CommitUnseen(r)
    PROVE  PunchInv'
  <1> DEFINE rec == req[r]
  <1>0. rec \in ReqRec /\ ReqOK(rec) /\ req \in [Reqs -> ReqRec]
    BY DEF PunchInv
  <1>1. /\ rec.pc = "commit" /\ Stored(r)
        /\ UNCHANGED <<punched, buffer, active, now, told, dropped>>
        /\ UNCHANGED events \/ Happens
    BY DEF Commit, CommitUnseen, history
  <1>2. PICK pc \in {"notify", "retry"} : req' = [req EXCEPT ![r].pc = pc]
    BY DEF Commit, CommitUnseen
  <1>3. TypeOK' /\ LogRows' /\ DeviceKeys' = DeviceKeys \cup rec.inserted
    <2>1. /\ rec.inserted \in SUBSET All /\ rec.teachers \in SUBSET All
          /\ \A p \in rec.inserted : p[1] \in StudentPins
          /\ \A p \in rec.teachers : p[1] \in TeacherPins
      BY <1>0 DEF ReqRec, ReqOK
    <2>2. /\ log' = log \cup {<<p[1], p[2], "device">> : p \in rec.inserted}
          /\ teacherLog' = teacherLog \cup rec.teachers
      BY <1>1 DEF Stored
    <2>3. TypeOK /\ LogRows
      BY DEF PunchInv
    <2> HIDE DEF rec
    <2> QED
      BY <1>1, <2>1, <2>2, <2>3, StoredRows
  <1>4. /\ req' \in [Reqs -> ReqRec] /\ req'[r] = [rec EXCEPT !.pc = pc]
        /\ \A q \in Reqs \ {r} : req'[q] = req[q]
    BY <1>0, <1>2 DEF ReqRec, ReqPcs
  <1>5. \A p : Settled(p) \/ p \in rec.inserted => Settled(p)'
    BY <1>1, <1>3 DEF Settled
  <1>6. \A p \in rec.inserted : told[p] = 0
    BY <1>0, <1>1 DEF PunchInv, ToldStored, ReqOK, ReqRec
  <1>7. ReqOK(req[r])'
    BY <1>0, <1>1, <1>2, <1>3, <1>4, <1>5, <1>6 DEF ReqOK, ReqRec
  <1>8. \A q \in Reqs \ {r} : Owns(req[q]) =>
          rec.inserted \cap req[q].inserted = {}
    BY <1>1 DEF PunchInv, OwnedOnce, Owns
  <1>9. req'[r].inserted = rec.inserted
    BY <1>0, <1>4 DEF ReqRec
  <1>10. (\A q \in Reqs : ReqOK(req[q])') /\ OwnedOnce'
    BY <1>1, <1>3, <1>4, <1>7, <1>8, <1>9, RequestKeeps
  <1>11. ToldStored' /\ GoneSettled'
    BY <1>1, <1>3, <1>5 DEF PunchInv, ToldStored, GoneSettled
  <1> QED
    BY <1>3, <1>4, <1>10, <1>11 DEF PunchInv

\* Only the request that owns a punch announces it, and then owns nothing.
LEMMA NotifyKeeps ==
    ASSUME PunchInv, NEW r \in Reqs, Notify(r) \/ NotifyFails(r)
    PROVE  PunchInv'
  <1> DEFINE rec == req[r]
  <1>0. /\ rec \in ReqRec /\ ReqOK(rec) /\ req \in [Reqs -> ReqRec] /\ TypeOK
        /\ ToldStored
    BY DEF PunchInv
  <1>1. /\ rec.pc = "notify" /\ req' = [req EXCEPT ![r].pc = "ok"]
        /\ UNCHANGED <<punched, buffer, log, teacherLog, active, now, dropped>>
        /\ UNCHANGED events \/ Happens
    BY DEF Notify, NotifyFails
  <1>2. /\ told' \in [All -> {0, 1}]
        /\ \A p \in All : told'[p] = told[p] \/ p \in rec.inserted
    <2>1. CASE Notify(r)
      <3>1. told' = [p \in All |->
               IF p \in DatedToday(rec.inserted) /\ FirstOfWindow(p, Keys(log))
               THEN told[p] + 1 ELSE told[p]]
        BY <2>1 DEF Notify
      <3>2. DatedToday(rec.inserted) \subseteq rec.inserted
        BY DEF DatedToday
      <3>3. \A p \in rec.inserted : told[p] = 0
        BY <1>0, <1>1 DEF ReqOK
      <3> QED
        BY <1>0, <3>1, <3>2, <3>3 DEF ToldStored
    <2>2. CASE NotifyFails(r)
      BY <1>0, <2>2 DEF NotifyFails, ToldStored
    <2> QED
      BY <2>1, <2>2
  <1>3. DeviceKeys' = DeviceKeys
    BY <1>1 DEF DeviceKeys
  <1>4. /\ req' \in [Reqs -> ReqRec] /\ req'[r] = [rec EXCEPT !.pc = "ok"]
        /\ \A q \in Reqs \ {r} : req'[q] = req[q]
    BY <1>0, <1>1 DEF ReqRec, ReqPcs
  <1>5. \A p : Settled(p)' <=> Settled(p)
    BY <1>1, <1>3 DEF Settled
  <1>6. ReqOK(req[r])' /\ ~Owns(req[r])'
    BY <1>0, <1>1, <1>4, <1>5 DEF ReqOK, ReqRec, Owns
  <1>7. ASSUME NEW q \in Reqs \ {r}, Owns(req[q]), NEW p \in req[q].inserted
        PROVE  told'[p] = told[p]
    <2>1. p \notin rec.inserted
      BY <1>1, <1>7 DEF PunchInv, OwnedOnce, Owns
    <2>2. p \in All
      BY <1>0, <1>7 DEF ReqRec
    <2> QED
      BY <1>2, <2>1, <2>2
  <1>8. (\A q \in Reqs : ReqOK(req[q])') /\ OwnedOnce'
    BY <1>1, <1>3, <1>4, <1>6, <1>7, RequestKeeps
  <1>9. ToldStored'
    BY <1>0, <1>1, <1>2, <1>3 DEF ToldStored, ReqOK
  <1>10. TypeOK'
    <2>1. events' \in 0..MaxEvents
      BY <1>0, <1>1, AttendanceAssumption DEF TypeOK, Happens
    <2>2. told' \in [All -> Nat]
      BY <1>2
    <2> QED
      BY <1>0, <1>1, <2>1, <2>2 DEF TypeOK
  <1>11. LogRows' /\ GoneSettled'
    BY <1>1, <1>5 DEF PunchInv, LogRows, GoneSettled
  <1> QED
    BY <1>4, <1>8, <1>9, <1>10, <1>11 DEF PunchInv

\* What the JSON push inserts nobody has, and no other request either.
LEMMA JsonRows ==
    ASSUME PunchInv, NEW r \in Reqs, JsonStored(r)
    PROVE  LET new == Fresh(BatchOf(r, StudentPins))
           IN  /\ new \subseteq All /\ new \cap DeviceKeys = {}
               /\ \A p \in new : p[1] \in StudentPins
               /\ \A q \in Reqs : Owns(req[q]) => new \cap req[q].inserted = {}
               /\ \A p \in req[r].batch : p[1] \in StudentPins =>
                     \/ p \in new \/ p \in DeviceKeys
                     \/ p \in dropped'
  <1> DEFINE mine == BatchOf(r, StudentPins)
             new == Fresh(mine)
  <1>0. req[r] \in ReqRec /\ LogRows
    BY DEF PunchInv
  <1>1. /\ mine \subseteq All /\ \A p \in mine : p[1] \in StudentPins
        /\ \A p \in req[r].batch : p[1] \in StudentPins => p \in mine
        /\ new = (mine \ Bad) \ Keys(log)
    BY <1>0 DEF BatchOf, ReqRec, Fresh, Accepted
  <1>2. /\ mine \cap HeldKeys = {} /\ \A p \in mine : p \notin Bad
        /\ dropped' = dropped \cup (mine \cap ManualKeys)
    BY DEF JsonStored, JsonRejects, BatchOf
  <1> HIDE DEF mine, new
  <1>3. new \cap DeviceKeys = {} /\ new \subseteq mine
    BY <1>0, <1>1, KeysSplit
  <1>4. ASSUME NEW q \in Reqs, Owns(req[q])
        PROVE  new \cap req[q].inserted = {}
    <2>1. CASE req[q].pc = "notify"
      BY <1>3, <2>1 DEF PunchInv, ReqOK
    <2>2. CASE req[q].pc \in {"teachers", "commit"}
      BY <1>2, <1>3, <2>2, HeldPending
    <2> QED
      BY <1>4, <2>1, <2>2 DEF Owns
  <1>5. \A p \in mine : p \in new \/ p \in DeviceKeys \/ p \in dropped'
    BY <1>0, <1>1, <1>2, KeysSplit
  <1>6. new = Fresh(BatchOf(r, StudentPins))
    BY DEF new, mine
  <1> QED
    BY <1>1, <1>3, <1>4, <1>5, <1>6

\* A JSON push stores its one row, which is never announced, in one step.
LEMMA JsonKeeps ==
    ASSUME PunchInv, NEW r \in Reqs, JsonStore(r) \/ JsonUnseen(r)
    PROVE  PunchInv'
  <1> DEFINE rec == req[r]
             new == Fresh(BatchOf(r, StudentPins))
  <1>0. /\ rec \in ReqRec /\ ReqOK(rec) /\ req \in [Reqs -> ReqRec]
        /\ TypeOK /\ LogRows /\ JsonStored(r)
    BY DEF PunchInv, JsonStore, JsonUnseen
  <1>1. /\ rec.pc = "insert" /\ dropped \subseteq dropped'
        /\ log' = log \cup {<<p[1], p[2], "device">> : p \in new}
        /\ UNCHANGED <<punched, buffer, teacherLog, active, now, told>>
        /\ UNCHANGED events \/ Happens
    BY DEF JsonStored, JsonStore, JsonUnseen
  <1>2. PICK pc \in {"ok", "retry"} : req' = [req EXCEPT ![r].pc = pc]
    BY DEF JsonStore, JsonUnseen
  <1>3. /\ new \in SUBSET All /\ new \cap DeviceKeys = {}
        /\ \A p \in new : p[1] \in StudentPins
        /\ \A q \in Reqs : Owns(req[q]) => new \cap req[q].inserted = {}
        /\ \A p \in rec.batch : p[1] \in StudentPins =>
              p \in new \/ p \in DeviceKeys \/ p \in dropped'
    BY <1>0, JsonRows
  <1> HIDE DEF new
  <1>4. TypeOK' /\ LogRows' /\ DeviceKeys' = DeviceKeys \cup new
    <2>1. teacherLog' = teacherLog \cup {} /\ {} \in SUBSET All
      BY <1>1
    <2> QED
      BY <1>0, <1>1, <1>3, <2>1, StoredRows
  <1>5. /\ req' \in [Reqs -> ReqRec] /\ req'[r] = [rec EXCEPT !.pc = pc]
        /\ \A q \in Reqs \ {r} : req'[q] = req[q]
    BY <1>0, <1>2 DEF ReqRec, ReqPcs
  <1>6. /\ \A p : Settled(p) => Settled(p)'
        /\ \A p \in rec.batch : p[1] \in StudentPins => Settled(p)'
    BY <1>1, <1>3, <1>4 DEF Settled
  <1>7. ReqOK(req[r])' /\ ~Owns(req[r])'
    BY <1>0, <1>2, <1>5, <1>6 DEF ReqOK, ReqRec, Owns
  <1>8. (\A q \in Reqs : ReqOK(req[q])') /\ OwnedOnce'
    BY <1>1, <1>3, <1>4, <1>5, <1>7, RequestKeeps
  <1>9. ToldStored' /\ GoneSettled'
    BY <1>1, <1>4, <1>6 DEF PunchInv, ToldStored, GoneSettled
  <1> QED
    BY <1>4, <1>5, <1>8, <1>9 DEF PunchInv

\* A step outside the requests that stores no device row and removes none.
LEMMA AsideKeeps ==
    ASSUME PunchInv, TypeOK', LogRows',
           UNCHANGED <<punched, req, told>>,
           DeviceKeys' = DeviceKeys, UNCHANGED <<buffer, dropped>>
    PROVE  PunchInv'
  <1>1. \A p : Settled(p) => Settled(p)'
    BY DEF Settled
  <1>2. ASSUME NEW q \in Reqs PROVE ReqOK(req[q])'
    <2>1. ReqOK(req[q]) /\ req'[q] = req[q]
      BY DEF PunchInv
    <2> HIDE DEF Settled, DeviceKeys
    <2> QED
      BY <1>1, <2>1 DEF ReqOK
  <1>3. OwnedOnce'
    BY DEF PunchInv, OwnedOnce, Owns
  <1>4. ToldStored'
    BY DEF PunchInv, ToldStored
  <1>5. GoneSettled'
    BY <1>1 DEF PunchInv, GoneSettled, TypeOK
  <1> QED
    BY <1>2, <1>3, <1>4, <1>5 DEF PunchInv

\* An admin's row is not a device's, whether it comes or goes.
LEMMA AdminKeeps ==
    ASSUME PunchInv, manual \in [Admins -> ManualRec],
           \A a \in Admins : ManualOK(manual[a]),
           \/ \E a \in Admins : CommitManual(a)
           \/ DeleteManual
    PROVE  PunchInv'
  <1>0. TypeOK /\ LogRows
    BY DEF PunchInv
  <1>1. ASSUME NEW a \in Admins, CommitManual(a) PROVE PunchInv'
    <2> DEFINE row == <<manual[a].pin, manual[a].time, "manual">>
    <2>1. /\ log' = log \cup {row}
          /\ UNCHANGED <<punched, buffer, teacherLog, active, now, req, told,
                         dropped, events>>
          /\ manual[a].pc = "commit"
      BY <1>1 DEF CommitManual, ManualKey
    <2>2. /\ row[1] \in StudentPins /\ row[3] = "manual"
          /\ row \in StudentPins \X Nat \X {"device", "manual"}
      BY <2>1 DEF ManualOK, ManualRec
    <2>3. DeviceKeys' = DeviceKeys
      <3>1. \A p : <<p[1], p[2], "device">> # row
        OBVIOUS
      <3> HIDE DEF row
      <3> QED
        BY <2>1, <3>1 DEF DeviceKeys
    <2> HIDE DEF row
    <2>4. LogRows' /\ TypeOK'
      BY <1>0, <2>1, <2>2 DEF LogRows, TypeOK
    <2> QED
      BY <2>1, <2>3, <2>4, AsideKeeps
  <1>2. CASE DeleteManual
    <2>1. UNCHANGED <<punched, buffer, teacherLog, active, now, req, told,
                      dropped, events>>
      BY <1>2 DEF DeleteManual, requests, history
    <2>2. PICK row \in log : row[3] = "manual" /\ log' = log \ {row}
      BY <1>2 DEF DeleteManual, Deletable
    <2>3. DeviceKeys' = DeviceKeys
      <3>1. \A p : <<p[1], p[2], "device">> # row
        BY <2>2
      <3> QED
        BY <2>2, <3>1 DEF DeviceKeys
    <2>4. LogRows' /\ TypeOK'
      BY <1>0, <2>1, <2>2 DEF LogRows, TypeOK
    <2> QED
      BY <2>1, <2>3, <2>4, AsideKeeps
  <1> QED
    BY <1>1, <1>2

\* A crash forgets the requests; the punches are in the buffer or stored.
LEMMA CrashKeeps ==
    ASSUME PunchInv, Crash
    PROVE  PunchInv'
  <1>1. /\ req' = [r \in Reqs |-> NoReq] /\ Happens
        /\ UNCHANGED <<punched, buffer, log, teacherLog, active, now, told, dropped>>
    BY DEF Crash
  <1>2. /\ NoReq \in ReqRec /\ ~Owns(NoReq) /\ NoReq.inserted = {}
        /\ NoReq.teachers = {} /\ NoReq.pc = "idle"
    BY DEF NoReq, ReqRec, ReqPcs, Owns
  <1>3. req' \in [Reqs -> ReqRec] /\ \A r \in Reqs : req'[r] = NoReq
    BY <1>1, <1>2
  <1>4. DeviceKeys' = DeviceKeys
    BY <1>1 DEF DeviceKeys
  <1>5. (\A r \in Reqs : ReqOK(req[r])') /\ OwnedOnce'
    BY <1>2, <1>3 DEF ReqOK, OwnedOnce, Owns
  <1>6. LogRows' /\ ToldStored' /\ GoneSettled'
    BY <1>1, <1>4 DEF PunchInv, LogRows, ToldStored, GoneSettled, Settled
  <1>7. TypeOK'
    BY <1>1, TypeKeeps DEF PunchInv
  <1> QED
    BY <1>3, <1>5, <1>6, <1>7 DEF PunchInv

\* The steps that touch neither a request nor a row.
LEMMA RestKeeps ==
    ASSUME PunchInv,
           \/ UNCHANGED vars \/ SwitchDevice \/ Tick
           \/ \E a \in Admins : \/ BeginManual(a) \/ CheckManual(a)
                                \/ InsertManual(a) \/ AbortManual(a)
    PROVE  PunchInv'
  <1>1. /\ UNCHANGED <<punched, buffer, log, teacherLog, req, told, dropped>>
        /\ UNCHANGED events \/ Happens
        /\ active' \in BOOLEAN /\ now' \in Nows
    <2>1. CASE SwitchDevice \/ Tick
      BY <2>1 DEF PunchInv, TypeOK, SwitchDevice, Tick, requests, history
    <2>2. CASE UNCHANGED vars
      BY <2>2 DEF PunchInv, TypeOK, vars, requests, history
    <2>3. ASSUME NEW a \in Admins, \/ BeginManual(a) \/ CheckManual(a)
                                   \/ InsertManual(a) \/ AbortManual(a)
          PROVE  /\ UNCHANGED <<punched, buffer, log, teacherLog, req, told, dropped>>
                 /\ UNCHANGED events \/ Happens
                 /\ active' \in BOOLEAN /\ now' \in Nows
      BY <2>3 DEF PunchInv, TypeOK, BeginManual, CheckManual, InsertManual,
         AbortManual, history
    <2> QED
      BY <2>1, <2>2, <2>3
  <1>2. events' \in 0..MaxEvents
    BY <1>1, AttendanceAssumption DEF PunchInv, TypeOK, Happens
  <1>3. DeviceKeys' = DeviceKeys /\ LogRows'
    BY <1>1 DEF DeviceKeys, PunchInv, LogRows
  <1>4. TypeOK'
    BY <1>1, <1>2 DEF PunchInv, TypeOK
  <1> QED
    BY <1>1, <1>3, <1>4, AsideKeeps

-----------------------------------------------------------------------------
(* Manual entries of one student take turns *)

\* A step that leaves the manual entries alone and adds no manual row.
LEMMA DeviceRowsKeep ==
    ASSUME ManualInv, LogRows', UNCHANGED manual,
           \A row \in log' : row[3] = "manual" => row \in log
    PROVE  ManualInv'
  <1>1. \A a \in Admins : ManualOK(manual[a])'
    BY DEF ManualInv, ManualOK, Clear, Locks, InSchool
  <1>2. LockedOnce' /\ OneManualPerWindow'
    BY DEF ManualInv, LockedOnce, OneManualPerWindow, Locks
  <1> QED
    BY <1>1, <1>2 DEF ManualInv

\* A step of one manual entry that writes no row.
LEMMA EntryKeeps ==
    ASSUME ManualInv, NEW a \in Admins, NEW new \in ManualRec,
           manual' = [manual EXCEPT ![a] = new], UNCHANGED log,
           ManualOK(new),
           Locks(new) => \/ Locks(manual[a]) /\ new.pin = manual[a].pin
                         \/ \A b \in Admins \ {a} :
                              Locks(manual[b]) => manual[b].pin # new.pin
    PROVE  ManualInv'
  <1>1. /\ manual' \in [Admins -> ManualRec] /\ manual'[a] = new
        /\ \A b \in Admins \ {a} : manual'[b] = manual[b]
    BY DEF ManualInv
  <1>2. \A b \in Admins : ManualOK(manual[b])'
    BY <1>1 DEF ManualInv, ManualOK, Clear, Locks, InSchool
  <1>3. LockedOnce'
    BY <1>1 DEF ManualInv, LockedOnce, Locks
  <1>4. LogRows' /\ OneManualPerWindow'
    BY DEF ManualInv, LogRows, OneManualPerWindow
  <1> QED
    BY <1>1, <1>2, <1>3, <1>4 DEF ManualInv

\* An idle entry relies on nothing.
LEMMA IdleEntry == NoManual \in ManualRec /\ ManualOK(NoManual) /\ ~Locks(NoManual)
  BY DEF NoManual, ManualRec, ManualOK, Locks

LEMMA BeginEntry ==
    ASSUME ManualInv, NEW a \in Admins, BeginManual(a)
    PROVE  ManualInv'
  <1>1. PICK pin \in StudentPins, t \in ManualTimes, notify \in BOOLEAN :
          /\ Admissible(t)
          /\ manual' = [manual EXCEPT ![a] = [pc |-> "lock", pin |-> pin,
                          time |-> t, notify |-> notify, tell |-> FALSE]]
    BY DEF BeginManual
  <1> DEFINE new == [pc |-> "lock", pin |-> pin, time |-> t, notify |-> notify,
                     tell |-> FALSE]
  <1>2. new \in ManualRec
    BY AttendanceAssumption DEF ManualRec
  <1>3. ManualOK(new) /\ ~Locks(new)
    BY <1>1 DEF ManualOK, Locks, Admissible, InSchool
  <1>4. manual' = [manual EXCEPT ![a] = new]
    BY <1>1
  <1> HIDE DEF new
  <1> QED
    BY <1>2, <1>3, <1>4, EntryKeeps DEF BeginManual

\* The check under the student's lock finds the window clear, and nobody else
\* can be past that lock.
LEMMA CheckEntry ==
    ASSUME ManualInv, NEW a \in Admins, CheckManual(a)
    PROVE  ManualInv'
  <1> DEFINE rec == manual[a]
  <1>0. rec \in ManualRec /\ ManualOK(rec)
    BY DEF ManualInv
  <1>1. CASE SameKind(a)
    <2>1. manual' = [manual EXCEPT ![a] = NoManual] /\ UNCHANGED log
      BY <1>1 DEF CheckManual
    <2> QED
      BY <2>1, IdleEntry, EntryKeeps
  <1>2. CASE ~SameKind(a)
    <2> DEFINE new == [rec EXCEPT !.pc = "insert"]
    <2>1. manual' = [manual EXCEPT ![a] = new] /\ UNCHANGED log
      BY <1>2 DEF CheckManual
    <2>2. /\ new \in ManualRec /\ new.pin = rec.pin /\ new.time = rec.time
          /\ new.pc = "insert" /\ rec.pc = "lock"
      BY <1>0 DEF ManualRec, CheckManual
    <2> HIDE DEF new
    <2>3. Clear(new)
      <3> SUFFICES ASSUME NEW row \in log, row[1] = rec.pin
                   PROVE  ~SameWindow(row[2], rec.time)
        BY <2>2 DEF Clear
      <3> DEFINE k == <<row[1], row[2]>>
      <3>1. k \in Keys(log) /\ k[1] = rec.pin /\ k[2] = row[2]
        BY DEF Keys
      <3> HIDE DEF k
      <3> QED
        BY <1>2, <3>1 DEF SameKind
    <2>4. ManualOK(new)
      BY <1>0, <2>2, <2>3 DEF ManualOK
    <2>5. \A b \in Admins \ {a} : Locks(manual[b]) => manual[b].pin # new.pin
      BY <2>2 DEF CheckManual, StudentFree, Locks
    <2> QED
      BY <2>1, <2>2, <2>4, <2>5, EntryKeeps
  <1> QED
    BY <1>1, <1>2

LEMMA InsertEntry ==
    ASSUME ManualInv, NEW a \in Admins, InsertManual(a) \/ AbortManual(a)
    PROVE  ManualInv'
  <1> DEFINE rec == manual[a]
  <1>0. rec \in ManualRec /\ ManualOK(rec)
    BY DEF ManualInv
  <1>1. CASE manual' = [manual EXCEPT ![a] = NoManual] /\ UNCHANGED log
    BY <1>1, IdleEntry, EntryKeeps
  <1>2. ASSUME NEW tell \in BOOLEAN, rec.pc = "insert", UNCHANGED log,
               manual' = [manual EXCEPT ![a] =
                            [rec EXCEPT !.pc = "commit", !.tell = tell]]
        PROVE  ManualInv'
    <2> DEFINE new == [rec EXCEPT !.pc = "commit", !.tell = tell]
    <2>1. manual' = [manual EXCEPT ![a] = new]
      BY <1>2
    <2>2. /\ new \in ManualRec /\ new.pin = rec.pin /\ new.time = rec.time
          /\ new.pc = "commit"
      BY <1>0 DEF ManualRec
    <2> HIDE DEF new
    <2>3. ManualOK(new) /\ Locks(rec)
      BY <1>0, <1>2, <2>2 DEF ManualOK, Clear, Locks
    <2> QED
      BY <1>2, <2>1, <2>2, <2>3, EntryKeeps
  <1>3. CASE InsertManual(a)
    <2> DEFINE tell == rec.notify /\
                 FirstOfWindow(ManualKey(a), Keys(log) \cup {ManualKey(a)})
    <2>1. tell \in BOOLEAN
      BY <1>0 DEF ManualRec
    <2>2. /\ rec.pc = "insert" /\ UNCHANGED log
          /\ manual' = [manual EXCEPT ![a] =
                          IF ManualKey(a) \in Keys(log) THEN NoManual
                          ELSE [rec EXCEPT !.pc = "commit", !.tell = tell]]
      BY <1>3 DEF InsertManual
    <2> HIDE DEF tell
    <2> QED
      BY <1>1, <1>2, <2>1, <2>2
  <1>4. CASE AbortManual(a)
    BY <1>1, <1>4 DEF AbortManual
  <1> QED
    BY <1>3, <1>4

\* The window is still clear when the entry is stored.
LEMMA CommitEntry ==
    ASSUME ManualInv, NEW a \in Admins, CommitManual(a)
    PROVE  ManualInv'
  <1> DEFINE rec == manual[a]
             row == <<rec.pin, rec.time, "manual">>
  <1>0. rec \in ManualRec /\ ManualOK(rec) /\ rec.pc = "commit"
    BY DEF ManualInv, CommitManual
  <1>1. log' = log \cup {row} /\ manual' = [manual EXCEPT ![a] = NoManual]
    BY DEF CommitManual, ManualKey
  <1>2. /\ row \in StudentPins \X Nat \X {"device", "manual"}
        /\ row[1] = rec.pin /\ row[2] = rec.time
    BY <1>0 DEF ManualOK, ManualRec
  <1>3. \A x \in log : x[3] = "manual" /\ x[1] = row[1] =>
          ~SameWindow(x[2], row[2]) /\ ~SameWindow(row[2], x[2])
    BY <1>0, <1>2 DEF ManualOK, Clear, Locks, SameWindow
  <1> HIDE DEF row
  <1>4. LogRows'
    BY <1>1, <1>2 DEF ManualInv, LogRows
  <1>5. OneManualPerWindow'
    BY <1>1, <1>3 DEF ManualInv, OneManualPerWindow
  <1>6. /\ manual' \in [Admins -> ManualRec] /\ manual'[a] = NoManual
        /\ \A b \in Admins \ {a} : manual'[b] = manual[b]
    BY <1>1, IdleEntry DEF ManualInv
  <1>7. ASSUME NEW b \in Admins PROVE ManualOK(manual[b])'
    <2>1. CASE b = a
      BY <1>6, <2>1 DEF NoManual, ManualOK, Locks
    <2>2. CASE b # a
      <3>1. manual'[b] = manual[b] /\ ManualOK(manual[b])
        BY <1>6, <2>2 DEF ManualInv
      <3>2. Locks(manual[b]) => manual[b].pin # row[1]
        BY <1>0, <1>2, <2>2 DEF ManualInv, LockedOnce, Locks
      <3>3. Locks(manual[b]) => Clear(manual[b])'
        BY <1>1, <3>1, <3>2 DEF ManualOK, Clear
      <3> QED
        BY <3>1, <3>3 DEF ManualOK, InSchool, Locks
    <2> QED
      BY <2>1, <2>2
  <1>8. LockedOnce'
    BY <1>6, IdleEntry DEF ManualInv, LockedOnce, Locks
  <1> QED
    BY <1>4, <1>5, <1>6, <1>7, <1>8 DEF ManualInv

LEMMA ManualInit == Init => ManualInv
  BY IdleEntry DEF Init, ManualInv, LogRows, LockedOnce, OneManualPerWindow

\* Devices store rows of their own kind, which leave manual entries alone.
LEMMA ManualStep ==
    ASSUME PunchInv, ManualInv, [Next]_vars, PunchInv'
    PROVE  ManualInv'
  <1>0. LogRows'
    BY DEF PunchInv
  <1>1. ASSUME NEW r \in Reqs, Request(r) PROVE ManualInv'
    <2>1. UNCHANGED manual /\ (UNCHANGED log \/ Stored(r) \/ JsonStored(r))
      BY <1>1 DEF Request, Send, JsonSend, Serve, Fault, SendOver,
         Post, JsonPost, Served, Authorize, VerifyFails, LookupFails,
         StoreStudents, StoreTeachers, Commit, CommitUnseen, Notify, NotifyFails,
         Transient, Reply, ReplyLost, JsonAuthorize, JsonRejected, JsonStore,
         JsonUnseen, JsonStored
    <2>2. \A row \in log' : row[3] = "manual" => row \in log
      BY <2>1 DEF Stored, JsonStored
    <2> QED
      BY <1>0, <2>1, <2>2, DeviceRowsKeep
  <1>2. ASSUME NEW a \in Admins, BeginManual(a) \/ Enter(a) \/ AbortManual(a)
        PROVE  ManualInv'
    BY <1>2, BeginEntry, CheckEntry, InsertEntry, CommitEntry DEF Enter
  <1>3. CASE DeleteManual \/ SwitchDevice \/ Tick \/ UNCHANGED vars
    <2>1. UNCHANGED manual /\ log' \subseteq log
      BY <1>3 DEF DeleteManual, SwitchDevice, Tick, requests, vars
    <2> QED
      BY <1>0, <2>1, DeviceRowsKeep
  <1>4. CASE Crash
    <2>1. UNCHANGED log /\ manual' = [a \in Admins |-> NoManual]
      BY <1>4 DEF Crash
    <2>2. LockedOnce' /\ manual' \in [Admins -> ManualRec]
      BY <2>1, IdleEntry DEF LockedOnce
    <2>3. \A a \in Admins : ManualOK(manual[a])'
      BY <2>1 DEF NoManual, ManualOK, Locks
    <2> QED
      BY <1>0, <2>1, <2>2, <2>3 DEF ManualInv, OneManualPerWindow
  <1> QED
    BY <1>1, <1>2, <1>3, <1>4 DEF Next, Answered, Request

-----------------------------------------------------------------------------
(* No window stays silent without a cause *)

\* The punches of one student in one window are ordered by their times, and
\* two of a minute are of one window.
LEMMA BeforeOrder ==
    /\ \A k, p, pin, t : Before(k, p[1], p[2]) /\ Before(p, pin, t)
          /\ k[2] \in Nat /\ p[2] \in Nat /\ t \in Nat => Before(k, pin, t)
    /\ \A t, u : Minute(t) = Minute(u) => SameWindow(t, u)
    /\ \A t, u : SameWindow(t, u) => SameWindow(u, t) /\ (InSchool(t) => InSchool(u))
  BY DEF Before, SameWindow, Window, Day, InSchool

\* A step that takes no cause away and no device row, and leaves every manual
\* entry either alone or harmless.
LEMMA CausesKeep ==
    ASSUME CauseInv, Causes \subseteq Causes',
           \A k \in (silent \cup toldManual)' : k[2] \in Nat,
           \A a \in Admins : AfterDevice(manual[a])',
           \A row \in log' \ log : InSchool(row[2]) =>
             \E k \in Causes' : Before(k, row[1], row[2])
    PROVE  CauseInv'
  <1>1. \A row \in log' : InSchool(row[2]) =>
          \E k \in Causes' : Before(k, row[1], row[2])
    <2> SUFFICES ASSUME NEW row \in log', InSchool(row[2])
                 PROVE  \E k \in Causes' : Before(k, row[1], row[2])
      OBVIOUS
    <2>1. CASE row \in log
      <3>1. \E k \in Causes : Before(k, row[1], row[2])
        BY <2>1 DEF CauseInv, Covered
      <3> HIDE DEF Before, Causes
      <3> QED
        BY <3>1
    <2>2. CASE row \notin log
      BY <2>2
    <2> QED
      BY <2>1, <2>2
  <1> QED
    BY <1>1 DEF CauseInv, Covered, InSchool, Before, SameWindow, Window, Day, Minute

\* The entries that did not move still follow a device's punch.
LEMMA AfterDeviceKeeps ==
    ASSUME CauseInv, DeviceKeys \subseteq DeviceKeys', NEW a \in Admins,
           manual'[a] = manual[a] \/ manual'[a].pc # "commit"
    PROVE  AfterDevice(manual[a])'
  <1>1. AfterDevice(manual[a])
    BY DEF CauseInv
  <1>2. CASE manual'[a].pc # "commit"
    BY <1>2 DEF AfterDevice
  <1>3. CASE manual'[a] = manual[a]
    <2> HIDE DEF DeviceKeys
    <2> QED
      BY <1>1, <1>3 DEF AfterDevice, Before, SameWindow, Window, Day, Minute
  <1> QED
    BY <1>2, <1>3

\* Device rows stay.
LEMMA DeviceRowsStay ==
    ASSUME PunchInv, [Next]_vars
    PROVE  DeviceKeys \subseteq DeviceKeys'
  <1>1. \A row \in log : row[3] = "device" => row \in log'
    <2>1. ASSUME NEW r \in Reqs, Request(r) PROVE log \subseteq log'
      BY <2>1 DEF Request, Send, JsonSend, Serve, Fault, SendOver,
         Post, JsonPost, Served, Authorize, VerifyFails, LookupFails,
         StoreStudents, StoreTeachers, Commit, CommitUnseen, Notify, NotifyFails,
         Transient, Reply, ReplyLost, JsonAuthorize, JsonRejected, JsonStore,
         JsonUnseen, history, Stored, JsonStored
    <2>2. ASSUME NEW a \in Admins, BeginManual(a) \/ Enter(a) \/ AbortManual(a)
          PROVE  log \subseteq log'
      BY <2>2 DEF BeginManual, Enter, CheckManual, InsertManual, CommitManual,
         AbortManual
    <2>3. CASE SwitchDevice \/ Tick \/ Crash \/ UNCHANGED vars
      BY <2>3 DEF SwitchDevice, Tick, Crash, vars
    <2>4. CASE DeleteManual
      BY <2>4 DEF DeleteManual, Deletable
    <2> QED
      BY <2>1, <2>2, <2>3, <2>4 DEF Next, Answered, Request
  <1>2. \A p : <<p[1], p[2], "device">>[3] = "device"
    OBVIOUS
  <1> QED
    BY <1>1, <1>2 DEF DeviceKeys

\* The causes of the requests that are about to announce.
LEMMA PendingCause ==
    ASSUME NEW r \in Reqs, req[r].pc = "notify"
    PROVE  req[r].inserted \subseteq Causes
  <1>1. req[r].inserted \in {req[q].inserted : q \in {u \in Reqs : req[u].pc = "notify"}}
    OBVIOUS
  <1> QED
    BY <1>1 DEF Causes

\* A cause is an old one or another request's.
LEMMA CauseCases ==
    ASSUME NEW k \in Causes
    PROVE  \/ k \in silent \cup toldManual
           \/ k \in All /\ told[k] > 0
           \/ \E r \in Reqs : req[r].pc = "notify" /\ k \in req[r].inserted
  BY DEF Causes

\* Times of causes are times.
LEMMA CauseNat ==
    ASSUME PunchInv, CauseInv, NEW k \in Causes
    PROVE  k[2] \in Nat
  <1>1. ASSUME NEW r \in Reqs, k \in req[r].inserted PROVE k \in All
    BY <1>1 DEF PunchInv, ReqRec
  <1> QED
    BY <1>1, CauseCases, Pairs DEF CauseInv

LEMMA KeyNat ==
    ASSUME LogRows, NEW k \in Keys(log)
    PROVE  k[2] \in Nat /\ \E row \in log : k[1] = row[1] /\ k[2] = row[2]
  BY DEF LogRows, Keys

\* What is announced stays announced, and a request that no longer is about
\* to announce has told why it will not.
LEMMA CausesGrow ==
    ASSUME silent \subseteq silent', toldManual \subseteq toldManual',
           \A p \in All : told[p] > 0 => told'[p] > 0,
           \A r \in Reqs : req[r].pc = "notify" =>
             \/ req[r].inserted \subseteq silent'
             \/ req'[r].pc = "notify" /\ req'[r].inserted = req[r].inserted
    PROVE  Causes \subseteq Causes'
  <1> SUFFICES ASSUME NEW k \in Causes PROVE k \in Causes'
    OBVIOUS
  <1>1. CASE k \in silent \cup toldManual \/ (k \in All /\ told[k] > 0)
    BY <1>1 DEF Causes
  <1>2. ASSUME NEW r \in Reqs, req[r].pc = "notify", k \in req[r].inserted
        PROVE  k \in Causes'
    <2>1. CASE req[r].inserted \subseteq silent'
      BY <1>2, <2>1 DEF Causes
    <2>2. CASE req'[r].pc = "notify" /\ req'[r].inserted = req[r].inserted
      <3>1. req'[r].inserted \in
              {req'[q].inserted : q \in {u \in Reqs : req'[u].pc = "notify"}}
        BY <2>2
      <3> QED
        BY <1>2, <2>2, <3>1 DEF Causes
    <2> QED
      BY <1>2, <2>1, <2>2
  <1> QED
    BY <1>1, <1>2, CauseCases

\* The earliest punch of a window is announced.
LEMMA EarliestIsFirst ==
    ASSUME NEW keys, NEW p \in keys, InSchool(p[2]),
           \A q \in keys : q[2] \in Nat,
           \A q \in keys : q[1] = p[1] /\ SameWindow(q[2], p[2]) => p[2] <= q[2]
    PROVE  FirstOfWindow(p, keys)
  <1>1. SameWindow(p[2], p[2])
    BY DEF SameWindow
  <1>2. \A q \in keys : Minute(q[2]) = Minute(p[2]) => SameWindow(q[2], p[2])
    BY BeforeOrder
  <1>3. \A q \in keys : q[1] = p[1] /\ q[2] < p[2] => Minute(q[2]) # Minute(p[2])
    BY <1>2
  <1> QED
    BY <1>1, <1>3 DEF FirstOfWindow, InSchool

\* So a window whose announcement is not this punch's has an earlier one.
LEMMA EarlierPunch ==
    ASSUME NEW keys, NEW p \in keys, InSchool(p[2]),
           \A q \in keys : q[2] \in Nat, ~FirstOfWindow(p, keys)
    PROVE  \E q \in keys : q[1] = p[1] /\ SameWindow(q[2], p[2]) /\ q[2] < p[2]
  BY EarliestIsFirst

\* Each window with a punch has a cause that is no pending one, or a pending
\* one that is its earliest punch.
LEMMA EarliestCause ==
    ASSUME PunchInv, CauseInv, NEW row \in log, InSchool(row[2])
    PROVE  \E k \in Causes :
             /\ Before(k, row[1], row[2]) /\ InSchool(k[2])
             /\ k \in Keys(log) =>
                  \A q \in Keys(log) :
                     q[1] = k[1] /\ SameWindow(q[2], k[2]) => k[2] <= q[2]
  <1> DEFINE S == {e[2] : e \in {f \in Keys(log) :
                             f[1] = row[1] /\ SameWindow(f[2], row[2])}}
  <1>0. LogRows
    BY DEF PunchInv
  <1>1. row[2] \in S /\ row[2] \in Nat
    <2> DEFINE key == <<row[1], row[2]>>
    <2>1. key \in Keys(log) /\ key[1] = row[1] /\ key[2] = row[2]
      BY DEF Keys
    <2>2. SameWindow(key[2], row[2])
      BY <2>1 DEF SameWindow
    <2> HIDE DEF key
    <2> QED
      BY <1>0, <2>1, <2>2, KeyNat
  <1>2. S \subseteq Nat
    BY <1>0, KeyNat
  <1>3. PICK n \in S : \A m \in S : n <= m
    <2> HIDE DEF S
    <2> QED
      BY <1>1, <1>2, LeastNat
  <1>4. PICK e \in Keys(log) : /\ e[1] = row[1] /\ SameWindow(e[2], row[2])
                               /\ e[2] = n
    OBVIOUS
  <1>5. PICK first \in log : e[1] = first[1] /\ e[2] = first[2]
    BY <1>0, KeyNat
  <1>6. InSchool(e[2]) /\ e[2] \in Nat
    BY <1>0, <1>4, BeforeOrder, KeyNat
  <1>7. PICK k \in Causes : Before(k, e[1], e[2])
    BY <1>5, <1>6 DEF CauseInv, Covered
  <1>8. k[2] \in Nat
    BY CauseNat
  <1>9. Before(e, row[1], row[2])
    BY <1>1, <1>3, <1>4 DEF Before
  <1>10. Before(k, row[1], row[2])
    BY <1>1, <1>6, <1>7, <1>8, <1>9, BeforeOrder
  <1>11. InSchool(k[2]) /\ SameWindow(k[2], e[2]) /\ k[2] <= e[2] /\ k[1] = e[1]
    BY <1>6, <1>7, BeforeOrder DEF Before
  <1>12. ASSUME NEW q \in Keys(log), q[1] = k[1], SameWindow(q[2], k[2])
         PROVE  k[2] <= q[2]
    <2>1. SameWindow(q[2], row[2]) /\ q[1] = row[1]
      BY <1>4, <1>11, <1>12 DEF SameWindow
    <2>2. q[2] \in S
      BY <2>1
    <2>3. n <= q[2] /\ q[2] \in Nat /\ n \in Nat
      BY <1>2, <1>3, <2>2
    <2> QED
      BY <1>4, <1>8, <1>11, <2>3
  <1> QED
    BY <1>10, <1>11, <1>12

\* Notify announces its punch of the window's first minute, and so gives the
\* window what it was a pending cause of.
LEMMA NotifyCauses ==
    ASSUME PunchInv, CauseInv, NEW r \in Reqs, Notify(r), PunchInv',
           DeviceKeys \subseteq DeviceKeys'
    PROVE  CauseInv'
  <1> DEFINE rec == req[r]
  <1>0. /\ rec \in ReqRec /\ ReqOK(rec) /\ rec.pc = "notify" /\ LogRows
        /\ ToldStored
    BY DEF PunchInv, Notify
  <1>1. /\ told' = [p \in All |->
             IF p \in DatedToday(rec.inserted) /\ FirstOfWindow(p, Keys(log))
             THEN told[p] + 1 ELSE told[p]]
        /\ silent' = silent \cup (rec.inserted \ DatedToday(rec.inserted))
        /\ UNCHANGED <<log, manual, toldManual>>
        /\ \A q \in Reqs \ {r} : req'[q] = req[q]
    BY DEF Notify, PunchInv
  <1>2. ASSUME NEW row \in log, InSchool(row[2])
        PROVE  \E k \in Causes' : Before(k, row[1], row[2])
    <2>1. PICK k \in Causes :
             /\ Before(k, row[1], row[2]) /\ InSchool(k[2])
             /\ k \in Keys(log) =>
                  \A q \in Keys(log) :
                     q[1] = k[1] /\ SameWindow(q[2], k[2]) => k[2] <= q[2]
      BY <1>2, EarliestCause
    <2>2. k \in Causes'
      <3>1. CASE k \in silent \cup toldManual
        BY <1>1, <3>1 DEF Causes
      <3>2. CASE k \in All /\ told[k] > 0
        <4>1. told'[k] > 0
          BY <1>0, <1>1, <3>2 DEF ToldStored
        <4> QED
          BY <3>2, <4>1 DEF Causes
      <3>3. ASSUME NEW q \in Reqs \ {r}, req[q].pc = "notify", k \in req[q].inserted
            PROVE  k \in Causes'
        <4>1. req'[q].inserted \in
                {req'[u].inserted : u \in {t \in Reqs : req'[t].pc = "notify"}}
          BY <1>1, <3>3
        <4> QED
          BY <1>1, <3>3, <4>1 DEF Causes
      <3>4. CASE k \in rec.inserted
        <4>1. k \in DeviceKeys /\ k \in All
          BY <1>0, <3>4 DEF ReqOK, ReqRec
        <4>2. k \in Keys(log)
          BY <1>0, <4>1, KeysSplit
        <4>3. FirstOfWindow(k, Keys(log))
          BY <1>0, <2>1, <4>2, EarliestIsFirst, KeyNat
        <4>4. CASE k \in DatedToday(rec.inserted)
          <5>1. told'[k] > 0
            BY <1>0, <1>1, <4>1, <4>3, <4>4 DEF ToldStored
          <5> QED
            BY <4>1, <5>1 DEF Causes
        <4>5. CASE k \notin DatedToday(rec.inserted)
          BY <1>1, <3>4, <4>5 DEF Causes
        <4> QED
          BY <4>4, <4>5
      <3> QED
        BY <3>1, <3>2, <3>3, <3>4, CauseCases
    <2> QED
      BY <2>1, <2>2
  <1>3. \A a \in Admins : AfterDevice(manual[a])'
    BY <1>1, AfterDeviceKeeps
  <1>4. \A k \in (silent \cup toldManual)' : k[2] \in Nat
    BY <1>0, <1>1, Pairs DEF CauseInv, ReqRec
  <1>5. \A row \in log' : InSchool(row[2]) =>
          \E k \in Causes' : Before(k, row[1], row[2])
    BY <1>1, <1>2
  <1> QED
    BY <1>3, <1>4, <1>5
       DEF CauseInv, Covered, InSchool, Before, SameWindow, Window, Day, Minute

\* The other steps of a request: rows it commits are causes of their own, and
\* punches it will not announce are told apart.
LEMMA RequestCauses ==
    ASSUME PunchInv, CauseInv, NEW r \in Reqs, Request(r), ~Notify(r),
           ~JsonStore(r), ~JsonUnseen(r), DeviceKeys \subseteq DeviceKeys'
    PROVE  CauseInv'
  <1> DEFINE rec == req[r]
  <1>0. rec \in ReqRec /\ req \in [Reqs -> ReqRec] /\ rec.inserted \subseteq All
    BY DEF PunchInv, ReqRec
  <1>1. UNCHANGED <<manual, told, toldManual>>
    BY DEF Request, Send, JsonSend, Serve, Fault, SendOver,
       Post, JsonPost, Served, Authorize, VerifyFails, LookupFails,
       StoreStudents, StoreTeachers, Commit, CommitUnseen, Notify, NotifyFails,
       Transient, Reply, ReplyLost, JsonAuthorize, JsonRejected, JsonStore,
       JsonUnseen, history
  <1>2. /\ silent' = silent \/ silent' = silent \cup rec.inserted
        /\ rec.pc = "notify" => silent' = silent \cup rec.inserted
        /\ \A q \in Reqs \ {r} : req'[q] = req[q]
    BY <1>0 DEF Request, Send, JsonSend, Serve, Fault, SendOver,
       Post, JsonPost, Served, Authorize, VerifyFails, LookupFails,
       StoreStudents, StoreTeachers, Commit, CommitUnseen, Notify, NotifyFails,
       Transient, Reply, ReplyLost, JsonAuthorize, JsonRejected, JsonStore,
       JsonUnseen, history
  <1>3. \/ UNCHANGED log
        \/ /\ log' = log \cup {<<p[1], p[2], "device">> : p \in rec.inserted}
           /\ \/ req' = [req EXCEPT ![r].pc = "notify"]
              \/ silent' = silent \cup rec.inserted
    BY DEF Request, Send, JsonSend, Serve, Fault, SendOver,
       Post, JsonPost, Served, Authorize, VerifyFails, LookupFails,
       StoreStudents, StoreTeachers, Commit, CommitUnseen, Notify, NotifyFails,
       Transient, Reply, ReplyLost, JsonAuthorize, JsonRejected, JsonStore,
       JsonUnseen, history, Stored
  <1>4. Causes \subseteq Causes'
    BY <1>1, <1>2, CausesGrow
  <1>5. \A k \in (silent \cup toldManual)' : k[2] \in Nat
    BY <1>0, <1>1, <1>2, Pairs DEF CauseInv
  <1>6. \A a \in Admins : AfterDevice(manual[a])'
    BY <1>1, AfterDeviceKeeps
  <1>7. ASSUME NEW row \in log' \ log
        PROVE  \E k \in Causes' : Before(k, row[1], row[2])
    <2>1. PICK p \in rec.inserted : row = <<p[1], p[2], "device">>
      BY <1>3, <1>7
    <2>2. Before(p, row[1], row[2])
      BY <1>0, <2>1, Pairs DEF Before, SameWindow
    <2>3. CASE silent' = silent \cup rec.inserted
      BY <2>2, <2>3 DEF Causes
    <2>4. CASE req' = [req EXCEPT ![r].pc = "notify"]
      <3>1. req'[r].pc = "notify" /\ req'[r].inserted = rec.inserted
        BY <1>0, <2>4 DEF ReqRec
      <3>2. req'[r].inserted \in
              {req'[q].inserted : q \in {u \in Reqs : req'[u].pc = "notify"}}
        BY <3>1
      <3>3. p \in Causes'
        BY <3>1, <3>2 DEF Causes
      <3> QED
        BY <2>2, <3>3
    <2> QED
      BY <1>3, <1>7, <2>3, <2>4
  <1> QED
    BY <1>4, <1>5, <1>6, <1>7, CausesKeep

\* A JSON push tells that it will not announce its row.
LEMMA JsonCauses ==
    ASSUME PunchInv, CauseInv, NEW r \in Reqs, JsonStore(r) \/ JsonUnseen(r),
           DeviceKeys \subseteq DeviceKeys'
    PROVE  CauseInv'
  <1> DEFINE new == Fresh(BatchOf(r, StudentPins))
  <1>0. new \subseteq All
    BY JsonRows DEF JsonStore, JsonUnseen
  <1>1. /\ UNCHANGED <<manual, told, toldManual>> /\ req[r].pc = "insert"
        /\ silent' = silent \cup new
        /\ log' = log \cup {<<p[1], p[2], "device">> : p \in new}
    BY DEF JsonStore, JsonUnseen, JsonStored
  <1>2. \A q \in Reqs \ {r} : req'[q] = req[q]
    BY DEF JsonStore, JsonUnseen, PunchInv
  <1> HIDE DEF new
  <1>3. Causes \subseteq Causes'
    BY <1>1, <1>2, CausesGrow
  <1>4. \A k \in (silent \cup toldManual)' : k[2] \in Nat
    BY <1>0, <1>1, Pairs DEF CauseInv
  <1>5. \A a \in Admins : AfterDevice(manual[a])'
    BY <1>1, AfterDeviceKeeps
  <1>6. ASSUME NEW row \in log' \ log
        PROVE  \E k \in Causes' : Before(k, row[1], row[2])
    <2>1. PICK p \in new : row = <<p[1], p[2], "device">>
      BY <1>1, <1>6
    <2>2. Before(p, row[1], row[2])
      BY <1>0, <2>1, Pairs DEF Before, SameWindow
    <2> QED
      BY <1>1, <2>2 DEF Causes
  <1> QED
    BY <1>3, <1>4, <1>5, <1>6, CausesKeep

\* A manual entry that is inserted unannounced comes after a device's punch,
\* since no other admin's can have got in.
LEMMA InsertCauses ==
    ASSUME PunchInv, ManualInv, CauseInv, NEW a \in Admins, InsertManual(a)
    PROVE  AfterDevice(manual[a])'
  <1> DEFINE rec == manual[a]
             key == ManualKey(a)
             tell == rec.notify /\ FirstOfWindow(key, Keys(log) \cup {key})
  <1>0. /\ rec \in ManualRec /\ ManualOK(rec) /\ rec.pc = "insert" /\ LogRows
        /\ TypeOK
    BY DEF ManualInv, InsertManual, PunchInv
  <1>1. /\ manual' = [manual EXCEPT ![a] =
                        IF key \in Keys(log) THEN NoManual
                        ELSE [rec EXCEPT !.pc = "commit", !.tell = tell]]
        /\ UNCHANGED log
    BY DEF InsertManual
  <1>2. DeviceKeys' = DeviceKeys
    BY <1>1 DEF DeviceKeys
  <1>3. key[1] = rec.pin /\ key[2] = rec.time /\ rec.time \in Nat
    BY <1>0 DEF ManualKey, ManualRec
  <1>4. InSchool(rec.time) /\ Clear(rec)
    BY <1>0 DEF ManualOK, Locks
  <1> HIDE DEF key
  <1>5. CASE key \in Keys(log)
    <2>1. manual'[a] = NoManual
      BY <1>1, <1>5 DEF ManualInv
    <2> QED
      BY <2>1 DEF AfterDevice, NoManual
  <1>6. CASE key \notin Keys(log)
    <2>1. /\ manual'[a] = [rec EXCEPT !.pc = "commit", !.tell = tell]
          /\ manual'[a].pin = rec.pin /\ manual'[a].time = rec.time
          /\ manual'[a].notify = rec.notify /\ manual'[a].tell = tell
      <3> HIDE DEF tell
      <3> QED
        BY <1>0, <1>1, <1>6 DEF ManualInv, ManualRec
    <2>2. ASSUME rec.notify, ~tell
          PROVE  \E k \in DeviceKeys : Before(k, rec.pin, rec.time)
      <3> DEFINE keys == Keys(log) \cup {key}
      <3>1. \A q \in keys : q[2] \in Nat
        BY <1>0, <1>3, KeyNat
      <3>2. ~FirstOfWindow(key, keys) /\ key \in keys /\ InSchool(key[2])
        BY <2>2, <1>3, <1>4
      <3>3. PICK q \in keys : /\ q[1] = key[1] /\ SameWindow(q[2], key[2])
                              /\ q[2] < key[2]
        <4> HIDE DEF keys
        <4> QED
          BY <3>1, <3>2, EarlierPunch
      <3>4. q \in Keys(log) /\ q[2] \in Nat
        BY <1>3, <3>1, <3>3
      <3>5. PICK row \in log : q = <<row[1], row[2]>>
        BY <3>4 DEF Keys
      <3>6. /\ row[1] = rec.pin /\ SameWindow(row[2], rec.time)
            /\ q[1] = row[1] /\ q[2] = row[2]
        BY <1>3, <3>3, <3>5
      <3>7. row[3] = "device" /\ row = <<row[1], row[2], row[3]>>
        BY <1>0, <1>4, <3>6 DEF Clear, LogRows
      <3>8. q \in DeviceKeys
        BY <1>0, <3>5, <3>6, <3>7 DEF TypeOK, DeviceKeys
      <3>9. Before(q, rec.pin, rec.time)
        BY <1>3, <3>3, <3>4 DEF Before
      <3> QED
        BY <3>8, <3>9
    <2> HIDE DEF tell, rec
    <2> QED
      BY <1>2, <2>1, <2>2 DEF AfterDevice, Before, SameWindow, Window, Day, Minute
  <1> QED
    BY <1>5, <1>6

\* A manual entry is announced, or silent, or follows a device's punch that
\* has its own cause.
LEMMA CommitCauses ==
    ASSUME PunchInv, ManualInv, CauseInv, NEW a \in Admins, CommitManual(a),
           DeviceKeys \subseteq DeviceKeys'
    PROVE  CauseInv'
  <1> DEFINE rec == manual[a]
             key == ManualKey(a)
             row == <<key[1], key[2], "manual">>
  <1>0. rec \in ManualRec /\ ManualOK(rec) /\ rec.pc = "commit" /\ AfterDevice(rec)
    BY DEF ManualInv, CommitManual, CauseInv
  <1>1. /\ log' = log \cup {row}
        /\ toldManual' = IF rec.tell THEN toldManual \cup {key} ELSE toldManual
        /\ silent' = IF rec.notify THEN silent ELSE silent \cup {key}
        /\ manual' = [manual EXCEPT ![a] = NoManual]
        /\ UNCHANGED <<req, told>>
    BY DEF CommitManual
  <1>2. /\ key[1] = rec.pin /\ key[2] = rec.time /\ rec.time \in Nat
        /\ row[1] = rec.pin /\ row[2] = rec.time
    BY <1>0 DEF ManualKey, ManualRec
  <1> HIDE DEF key, row
  <1>3. Causes \subseteq Causes'
    BY <1>1, CausesGrow
  <1>4. \A b \in Admins : AfterDevice(manual[b])'
    BY <1>1, AfterDeviceKeeps DEF ManualInv, NoManual
  <1>5. \A k \in (silent \cup toldManual)' : k[2] \in Nat
    BY <1>1, <1>2 DEF CauseInv
  <1>6. \E k \in Causes' : Before(k, row[1], row[2])
    <2>1. Before(key, row[1], row[2])
      BY <1>2 DEF Before, SameWindow
    <2>2. CASE rec.tell \/ ~rec.notify
      <3>1. key \in Causes'
        BY <1>1, <2>2 DEF Causes
      <3> QED
        BY <2>1, <3>1
    <2>3. CASE rec.notify /\ ~rec.tell
      <3>1. PICK k \in DeviceKeys : Before(k, rec.pin, rec.time)
        BY <1>0, <2>3 DEF AfterDevice
      <3> DEFINE drow == <<k[1], k[2], "device">>
      <3>2. drow \in log /\ drow[1] = k[1] /\ drow[2] = k[2] /\ k[2] \in Nat
        BY Pairs DEF DeviceKeys
      <3> HIDE DEF drow
      <3>3. InSchool(k[2])
        BY <1>0, <3>1, BeforeOrder DEF ManualOK, Before
      <3>4. PICK c \in Causes : Before(c, k[1], k[2])
        BY <3>2, <3>3 DEF CauseInv, Covered
      <3>5. c[2] \in Nat
        BY CauseNat
      <3>6. Before(c, row[1], row[2])
        BY <1>2, <3>1, <3>2, <3>4, <3>5, BeforeOrder
      <3> QED
        BY <1>3, <3>6
    <2> QED
      BY <2>2, <2>3
  <1> QED
    BY <1>1, <1>3, <1>4, <1>5, <1>6, CausesKeep

\* The steps of a manual entry before its commit.
LEMMA EntryCauses ==
    ASSUME PunchInv, ManualInv, CauseInv, NEW a \in Admins,
           \/ BeginManual(a) \/ CheckManual(a) \/ InsertManual(a)
           \/ AbortManual(a),
           DeviceKeys \subseteq DeviceKeys'
    PROVE  CauseInv'
  <1>1. UNCHANGED <<log, req, told, toldManual, silent>>
    BY DEF BeginManual, CheckManual, InsertManual, AbortManual, history
  <1>2. \A b \in Admins \ {a} : manual'[b] = manual[b]
    BY DEF BeginManual, CheckManual, InsertManual, AbortManual, ManualInv
  <1>3. AfterDevice(manual[a])'
    <2>1. CASE InsertManual(a)
      BY <2>1, InsertCauses
    <2>2. CASE BeginManual(a) \/ CheckManual(a) \/ AbortManual(a)
      <3>1. manual'[a].pc # "commit"
        BY <2>2 DEF BeginManual, CheckManual, AbortManual, ManualInv, ManualRec,
           NoManual
      <3> QED
        BY <3>1, AfterDeviceKeeps
    <2> QED
      BY <2>1, <2>2
  <1>4. \A b \in Admins : AfterDevice(manual[b])'
    BY <1>2, <1>3, AfterDeviceKeeps
  <1>5. Causes \subseteq Causes'
    BY <1>1, CausesGrow
  <1> QED
    BY <1>1, <1>4, <1>5, CausesKeep DEF CauseInv

LEMMA OtherCauses ==
    ASSUME PunchInv, CauseInv, DeviceKeys \subseteq DeviceKeys',
           DeleteManual \/ SwitchDevice \/ Tick \/ Crash \/ UNCHANGED vars
    PROVE  CauseInv'
  <1>1. CASE DeleteManual \/ SwitchDevice \/ Tick \/ UNCHANGED vars
    <2>1. log' \subseteq log /\ UNCHANGED <<req, manual, told, toldManual, silent>>
      BY <1>1 DEF DeleteManual, SwitchDevice, Tick, requests, history, vars
    <2>2. Causes \subseteq Causes'
      BY <2>1, CausesGrow
    <2>3. \A a \in Admins : AfterDevice(manual[a])'
      BY <2>1, AfterDeviceKeeps
    <2> QED
      BY <2>1, <2>2, <2>3, CausesKeep DEF CauseInv
  <1>2. CASE Crash
    <2> DEFINE pending == UNION {req[r].inserted : r \in
                                   {q \in Reqs : req[q].pc = "notify"}}
    <2>1. /\ UNCHANGED <<log, told, toldManual>>
          /\ silent' = silent \cup pending
          /\ manual' = [a \in Admins |-> NoManual]
      BY <1>2 DEF Crash
    <2>2. ASSUME NEW r \in Reqs, req[r].pc = "notify"
          PROVE  req[r].inserted \subseteq pending
      <3>1. req[r].inserted \in {req[u].inserted : u \in
                                   {q \in Reqs : req[q].pc = "notify"}}
        BY <2>2
      <3> QED
        BY <3>1
    <2>3. pending \subseteq All
      BY DEF PunchInv, ReqRec
    <2> HIDE DEF pending
    <2>4. Causes \subseteq Causes'
      BY <2>1, <2>2, CausesGrow
    <2>5. \A a \in Admins : AfterDevice(manual[a])'
      BY <2>1 DEF AfterDevice, NoManual
    <2>6. \A k \in (silent \cup toldManual)' : k[2] \in Nat
      BY <2>1, <2>3, Pairs DEF CauseInv
    <2> QED
      BY <2>1, <2>4, <2>5, <2>6, CausesKeep
  <1> QED
    BY <1>1, <1>2

-----------------------------------------------------------------------------

AttendanceInv == PunchInv /\ ManualInv /\ CauseInv

LEMMA AttendanceInit == Init => AttendanceInv
  <1>1. Init => CauseInv
    BY DEF Init, CauseInv, AfterDevice, NoManual
  <1> QED
    BY <1>1, PunchInit, ManualInit DEF AttendanceInv

\* The three parts are kept together; each needs only those before it.
LEMMA AttendanceStep ==
    ASSUME AttendanceInv, [Next]_vars
    PROVE  AttendanceInv'
  <1>0. PunchInv /\ ManualInv /\ CauseInv
    BY DEF AttendanceInv
  <1>1. PunchInv'
    <2>1. ASSUME NEW r \in Reqs, Request(r) PROVE PunchInv'
      BY <1>0, <2>1, TurnKeeps, StoreKeeps, CommitKeeps, NotifyKeeps, JsonKeeps
         DEF Request, Serve, Fault
    <2>2. ASSUME NEW a \in Admins, CommitManual(a) PROVE PunchInv'
      BY <1>0, <2>2, AdminKeeps DEF ManualInv
    <2>3. CASE DeleteManual
      BY <1>0, <2>3, AdminKeeps DEF ManualInv
    <2>4. CASE Crash
      BY <1>0, <2>4, CrashKeeps
    <2>5. CASE \/ UNCHANGED vars \/ SwitchDevice \/ Tick
               \/ \E a \in Admins : \/ BeginManual(a) \/ CheckManual(a)
                                    \/ InsertManual(a) \/ AbortManual(a)
      BY <1>0, <2>5, RestKeeps
    <2> QED
      BY <2>1, <2>2, <2>3, <2>4, <2>5 DEF Next, Answered, Enter,
         Request
  <1>2. ManualInv'
    BY <1>0, <1>1, ManualStep
  <1>3. DeviceKeys \subseteq DeviceKeys'
    BY <1>0, DeviceRowsStay
  <1>4. CauseInv'
    <2>1. ASSUME NEW r \in Reqs, Request(r) PROVE CauseInv'
      <3>1. CASE Notify(r)
        BY <1>0, <1>1, <1>3, <3>1, NotifyCauses
      <3>2. CASE JsonStore(r) \/ JsonUnseen(r)
        BY <1>0, <1>3, <3>2, JsonCauses
      <3>3. CASE ~Notify(r) /\ ~JsonStore(r) /\ ~JsonUnseen(r)
        BY <1>0, <1>3, <2>1, <3>3, RequestCauses
      <3> QED
        BY <3>1, <3>2, <3>3
    <2>2. ASSUME NEW a \in Admins, BeginManual(a) \/ Enter(a) \/ AbortManual(a)
          PROVE  CauseInv'
      BY <1>0, <1>3, <2>2, EntryCauses, CommitCauses DEF Enter
    <2>3. CASE \/ DeleteManual \/ SwitchDevice \/ Tick \/ Crash
               \/ UNCHANGED vars
      BY <1>0, <1>3, <2>3, OtherCauses
    <2> QED
      BY <2>1, <2>2, <2>3 DEF Next, Answered, Request
  <1> QED
    BY <1>1, <1>2, <1>4 DEF AttendanceInv

\* Without a request under way, a covered window has a cause of the past.
LEMMA AttendanceImplies ==
    ASSUME AttendanceInv
    PROVE  /\ TypeOK /\ NoPunchLost /\ AnnouncedOnce
           /\ OneManualPerWindow /\ WindowAnnounced
  <1>0. PunchInv /\ ManualInv /\ CauseInv
    BY DEF AttendanceInv
  <1>1. NoPunchLost
    <2> SUFFICES ASSUME NEW p \in punched \ buffer, p[1] \in StudentPins
                 PROVE  p \in Keys(log) \cup Bad \cup dropped
      BY DEF NoPunchLost
    <2>1. Settled(p) /\ p \in All /\ LogRows
      BY <1>0 DEF PunchInv, GoneSettled, TypeOK, All
    <2> QED
      BY <2>1, KeysSplit DEF Settled
  <1>2. AnnouncedOnce
    BY <1>0 DEF PunchInv, ToldStored, AnnouncedOnce
  <1>3. WindowAnnounced
    <2> SUFFICES ASSUME Quiet, NEW row \in log, InSchool(row[2])
                 PROVE  \E k \in silent \cup toldManual
                                  \cup {p \in All : told[p] > 0} :
                          k[1] = row[1] /\ SameWindow(k[2], row[2]) /\ k[2] <= row[2]
      BY DEF WindowAnnounced, InSchool
    <2>1. PICK k \in Causes : Before(k, row[1], row[2])
      BY <1>0 DEF CauseInv, Covered
    <2>2. \A r \in Reqs : req[r].pc # "notify"
      BY DEF Quiet, Idle
    <2>3. k \in silent \cup toldManual \/ (k \in All /\ told[k] > 0)
      BY <2>2, CauseCases
    <2> QED
      BY <2>1, <2>3 DEF Before
  <1> QED
    BY <1>0, <1>1, <1>2, <1>3 DEF ManualInv, PunchInv

\* A student's punch that has left its device is in attendance_logs, or was
\* given up by a rule: for any number of concurrent requests, resent and
\* overlapping batches, crashes, lost commits and lost replies.
THEOREM PunchesSafe == Spec => [](TypeOK /\ NoPunchLost)
  <1>1. AttendanceInv /\ [Next]_vars => AttendanceInv'
    BY AttendanceStep
  <1> QED
    BY <1>1, AttendanceInit, AttendanceImplies, PTL DEF Spec

\* No punch is announced to the parents twice, and no window of a school day
\* with a device's punch stays silent without a cause once everything under
\* way has ended.
THEOREM AnnouncementsSafe == Spec => [](AnnouncedOnce /\ WindowAnnounced)
  <1>1. AttendanceInv /\ [Next]_vars => AttendanceInv'
    BY AttendanceStep
  <1> QED
    BY <1>1, AttendanceInit, AttendanceImplies, PTL DEF Spec

\* The lock on the student's row gives each student at most one manual entry
\* in a window, for any number of admins at once.
THEOREM ManualSafe == Spec => []OneManualPerWindow
  <1>1. AttendanceInv /\ [Next]_vars => AttendanceInv'
    BY AttendanceStep
  <1> QED
    BY <1>1, AttendanceInit, AttendanceImplies, PTL DEF Spec
=============================================================================
