------------------------------ MODULE DeviceTags ------------------------------
(***************************************************************************)
(* User ids on the attendance device (rfid_tag): students in               *)
(* internal/handlers/admin.go, teachers in internal/handlers/teachers.go.  *)
(* A punch carries the id only, so one id must never mean a student and a  *)
(* teacher.  Each table has a unique index; between the tables there is    *)
(* only the range rule (teachers 1 to StaffMax, new student ids above) and *)
(* writeTeacher's look at the students, because older students keep small  *)
(* ids.                                                                    *)
(***************************************************************************)
EXTENDS Integers, FiniteSetsExt

CONSTANTS
    Txs,       \* requests served at once
    Students, Teachers,
    StaffMax,  \* 99
    MaxTag,    \* 99999999999999
    OldTags    \* the students that exist at the start, with their tags

Tags == 1..MaxTag

ASSUME DeviceTagsAssumption ==
    /\ StaffMax \in Nat /\ MaxTag \in Nat /\ StaffMax < MaxTag
    /\ OldTags \in [Students -> Tags \cup {0}]
    /\ \A s, u \in Students :
         s # u /\ OldTags[s] # 0 => OldTags[s] # OldTags[u]

VARIABLES
    student,  \* students.rfid_tag, 0 when there is no such student
    teacher,  \* teachers.rfid_tag, 0 when NULL or no such teacher
    tx        \* each request: the row it writes and the tag it asks for

vars == <<student, teacher, tx>>

Idle == [pc |-> "idle", kind |-> "none", row |-> 0, tag |-> 0]

TypeOK ==
    /\ student \in [Students -> Tags \cup {0}]
    /\ teacher \in [Teachers -> 0..StaffMax]
    /\ \A t \in Txs : tx[t].tag \in Tags \cup {0}

Init ==
    /\ student = OldTags
    /\ teacher = [t \in Teachers |-> 0]
    /\ tx = [t \in Txs |-> Idle]

At(rec, pc, tag) ==
    [pc |-> pc, kind |-> rec.kind, row |-> rec.row, tag |-> tag]

Go(t, rec) == tx' = [tx EXCEPT ![t] = rec]
Done(t) == Go(t, Idle)

-----------------------------------------------------------------------------
(* AdminStudentsHandler                                                    *)

\* Any number will do.
MutStudentTagProblem(tag) == FALSE

\* Tags have the form the device takes, so only the range is left to check.
StudentTagProblem(tag) == tag <= StaffMax

BeginCreate(t, s, tag) ==
    /\ tx[t].pc = "idle" /\ student[s] = 0 /\ \A u \in Txs : tx[u].row # s
    /\ ~StudentTagProblem(tag)
    /\ Go(t, [pc |-> "write", kind |-> "student", row |-> s, tag |-> tag])
    /\ UNCHANGED <<student, teacher>>

\* The tag that was read is written back.
MutUpdateTag(s, tag) == tag

\* An update may resend a stored tag that breaks the rules: it then asks for
\* no change (0) instead of writing the value it read.
UpdateTag(s, tag) == IF tag # 0 /\ StudentTagProblem(tag) THEN 0 ELSE tag

BeginUpdate(t, s, tag) ==
    /\ tx[t].pc = "idle" /\ student[s] # 0
    /\ tag # 0 /\ StudentTagProblem(tag) => student[s] = tag
    /\ Go(t, [pc |-> "write", kind |-> "student", row |-> s,
              tag |-> UpdateTag(s, tag)])
    /\ UNCHANGED <<student, teacher>>

-----------------------------------------------------------------------------
(* writeTeacher                                                            *)

\* teacherTagRE, or no tag at all.
TeacherTagOK(tag) == tag <= StaffMax

\* POST, or a PUT that replaces the tag.
BeginTeacher(t, p, tag) ==
    /\ tx[t].pc = "idle" /\ TeacherTagOK(tag)
    /\ Go(t, [pc |-> IF tag = 0 THEN "write" ELSE "look", kind |-> "teacher",
              row |-> p, tag |-> tag])
    /\ UNCHANGED <<student, teacher>>

Held(tag) == \E s \in Students : student[s] = tag

LookAtStudents(t) ==
    /\ tx[t].pc = "look"
    /\ IF Held(tx[t].tag) THEN Done(t)
       ELSE Go(t, At(tx[t], "write", tx[t].tag))
    /\ UNCHANGED <<student, teacher>>

-----------------------------------------------------------------------------
(* The write, and the unique index of its table                            *)

Stored(rec) == IF rec.kind = "student" THEN student ELSE teacher

\* COALESCE(NULLIF(tag, ''), rfid_tag) for a student; a teacher's is replaced.
Written(rec) ==
    IF rec.kind = "student" /\ rec.tag = 0 THEN student[rec.row] ELSE rec.tag

\* The statement waits for an uncommitted write of its row or its tag, which
\* may be the one a row is about to give up.
Waits(t) ==
    \E u \in Txs \ {t} :
        /\ tx[u].pc = "commit" /\ tx[u].kind = tx[t].kind
        /\ \/ tx[u].row = tx[t].row
           \/ Written(tx[t]) # 0
              /\ Written(tx[t]) \in {Written(tx[u]), Stored(tx[u])[tx[u].row]}

\* Another row of the table has it.
Taken(rec) ==
    \E x \in DOMAIN Stored(rec) \ {rec.row} :
        Written(rec) # 0 /\ Stored(rec)[x] = Written(rec)

Write(t) ==
    /\ tx[t].pc = "write" /\ ~Waits(t)
    /\ IF Taken(tx[t]) THEN Done(t)
       ELSE Go(t, At(tx[t], "commit", Written(tx[t])))
    /\ UNCHANGED <<student, teacher>>

CommitStudent(t) ==
    /\ tx[t].pc = "commit" /\ tx[t].kind = "student"
    /\ student' = [student EXCEPT ![tx[t].row] = tx[t].tag]
    /\ Done(t)
    /\ UNCHANGED teacher

CommitTeacher(t) ==
    /\ tx[t].pc = "commit" /\ tx[t].kind = "teacher"
    /\ teacher' = [teacher EXCEPT ![tx[t].row] = tx[t].tag]
    /\ Done(t)
    /\ UNCHANGED student

Abort(t) == tx[t].pc # "idle" /\ Done(t) /\ UNCHANGED <<student, teacher>>

Next ==
    \E t \in Txs :
        \/ \E s \in Students, tag \in Tags : BeginCreate(t, s, tag)
        \/ \E s \in Students, tag \in Tags \cup {0} : BeginUpdate(t, s, tag)
        \/ \E p \in Teachers, tag \in Tags \cup {0} : BeginTeacher(t, p, tag)
        \/ LookAtStudents(t) \/ Write(t) \/ CommitStudent(t)
        \/ CommitTeacher(t) \/ Abort(t)

Spec == Init /\ [][Next]_vars

-----------------------------------------------------------------------------

\* A tag on the device means one person: no student shares a tag with a
\* teacher, however updates of older students, moves to the new range and
\* teachers taking a freed tag overlap.
OnePersonPerTag ==
    \A s \in Students, p \in Teachers :
        student[s] # 0 => student[s] # teacher[p]

\* A student's tag leaves the staff range for good, so that a teacher may
\* have it: no update brings an old tag back.
StaffRangeOnlyEmpties ==
    [][\A s \in Students :
         student'[s] # student[s] => student'[s] > StaffMax]_vars

-----------------------------------------------------------------------------
(* nextFreeRFIDTagSQL, the hint that comes with a taken tag                *)

Candidates(tag) ==
    {tag + 1} \cup {student[s] + 1 : s \in {u \in Students : student[u] > tag}}

\* 0 is NULL.
NextFree(tag) ==
    LET free == {c \in Candidates(tag) : c <= MaxTag /\ ~Held(c)}
    IN  IF free = {} THEN 0 ELSE Min(free)

\* The hint is the least tag above the taken one that no student holds, and
\* absent only when there is none: what the few candidates miss is never free.
HintIsLeastFree ==
    \A tag \in Tags :
        LET free == {c \in Tags : c > tag /\ ~Held(c)}
        IN  NextFree(tag) = IF free = {} THEN 0 ELSE Min(free)
=============================================================================
