--------------------------- MODULE DeviceTagsProofs ---------------------------
(***************************************************************************)
(* For every set of students, teachers and requests: a tag means one       *)
(* person, and students only ever leave the staff range.                   *)
(***************************************************************************)
EXTENDS DeviceTags, WellFoundedInduction, TLAPS

Pcs == {"idle", "look", "write", "commit"}

\* The shape of a request.
TxOK ==
    \A t \in Txs :
        /\ tx[t].pc \in Pcs
        /\ tx[t].tag \in Tags \cup {0}
        /\ tx[t].kind = "student" => tx[t].row \in Students
        /\ tx[t].kind = "teacher" => tx[t].row \in Teachers
        /\ tx[t].pc = "look" => tx[t].kind = "teacher"

\* A teacher's tag that was looked up is in the staff range and stays free of
\* students until the commit.
TeacherTagFree ==
    \A t \in Txs :
        tx[t].kind = "teacher" /\ tx[t].tag # 0 =>
            /\ tx[t].tag <= StaffMax
            /\ tx[t].pc \in {"write", "commit"} =>
                 \A s \in Students : student[s] # tx[t].tag

\* A student write asks for a tag above the staff range or for none; once
\* written it may hold a small tag only where the row already has it.
StudentTagKept ==
    \A t \in Txs : tx[t].kind = "student" =>
        /\ tx[t].pc = "write" => tx[t].tag = 0 \/ tx[t].tag > StaffMax
        /\ tx[t].pc = "commit" =>
             tx[t].tag > StaffMax \/ tx[t].tag = student[tx[t].row]

\* A row has one uncommitted writer.
OneWriter ==
    \A t, u \in Txs :
        t # u /\ tx[t].pc = "commit" /\ tx[u].pc = "commit"
              /\ tx[t].kind = tx[u].kind => tx[t].row # tx[u].row

Rows ==
    /\ student \in [Students -> Tags \cup {0}]
    /\ teacher \in [Teachers -> 0..StaffMax]
    /\ DOMAIN tx = Txs

IInv == Rows /\ TxOK /\ OnePersonPerTag /\ TeacherTagFree /\ StudentTagKept
        /\ OneWriter

\* What a step does to the students' tags.
StaffOut ==
    \A s \in Students : student'[s] # student[s] => student'[s] > StaffMax

USE DeviceTagsAssumption DEF Tags

LEMMA InitInv == Init => IInv
BY DEF Init, IInv, Rows, TxOK, OnePersonPerTag, TeacherTagFree,
       StudentTagKept, OneWriter, Idle, Pcs

\* What happens to the parts about requests when one of them goes on to rec
\* and no row changes.
LEMMA GoStep ==
    ASSUME IInv, NEW t \in Txs, NEW rec, tx' = [tx EXCEPT ![t] = rec],
           UNCHANGED <<student, teacher>>,
           rec.pc \in Pcs, rec.tag \in Tags \cup {0},
           rec.kind = "student" => rec.row \in Students,
           rec.kind = "teacher" => rec.row \in Teachers,
           rec.pc = "look" => rec.kind = "teacher",
           rec.kind = "teacher" /\ rec.tag # 0 =>
               /\ rec.tag <= StaffMax
               /\ rec.pc \in {"write", "commit"} =>
                    \A s \in Students : student[s] # rec.tag,
           rec.kind = "student" =>
               /\ rec.pc = "write" => rec.tag = 0 \/ rec.tag > StaffMax
               /\ rec.pc = "commit" =>
                    rec.tag > StaffMax \/ rec.tag = student[rec.row],
           rec.pc = "commit" =>
               \A u \in Txs \ {t} :
                   tx[u].pc = "commit" /\ tx[u].kind = rec.kind =>
                       tx[u].row # rec.row
    PROVE  IInv'
<1>1. /\ DOMAIN tx' = Txs /\ tx'[t] = rec
      /\ \A u \in Txs \ {t} : tx'[u] = tx[u]
  BY DEF IInv, Rows
<1>2. Rows' /\ OnePersonPerTag'
  BY <1>1 DEF IInv, Rows, OnePersonPerTag
<1>3. TxOK'
  BY <1>1 DEF IInv, TxOK
<1>4. TeacherTagFree'
  BY <1>1 DEF IInv, TeacherTagFree
<1>5. StudentTagKept'
  BY <1>1 DEF IInv, StudentTagKept
<1>6. OneWriter'
  BY <1>1 DEF IInv, OneWriter
<1> QED
  BY <1>2, <1>3, <1>4, <1>5, <1>6 DEF IInv

LEMMA DoneStep ==
    ASSUME IInv, NEW t \in Txs, Done(t), UNCHANGED <<student, teacher>>
    PROVE  IInv'
<1>1. tx' = [tx EXCEPT ![t] = Idle]
  BY DEF Done, Go
<1> QED
  BY <1>1, GoStep DEF Idle, Pcs

\* The unique index makes the second writer of a tag wait for the first.
LEMMA WriteStep ==
    ASSUME IInv, NEW t \in Txs, Write(t)
    PROVE  IInv'
<1>1. CASE Taken(tx[t])
  BY <1>1, DoneStep DEF Write
<1>2. CASE ~Taken(tx[t])
  <2> DEFINE new == Written(tx[t])
             rec == At(tx[t], "commit", new)
  <2>1. /\ tx[t].pc = "write" /\ ~Waits(t)
        /\ tx' = [tx EXCEPT ![t] = rec] /\ UNCHANGED <<student, teacher>>
    BY <1>2 DEF Write, Go
  <2>2. /\ rec.pc = "commit" /\ rec.tag = new
        /\ rec.kind = tx[t].kind /\ rec.row = tx[t].row
    BY DEF At
  <2>3. tx[t].kind = "student" =>
          /\ tx[t].row \in Students /\ new \in Tags \cup {0}
          /\ new > StaffMax \/ new = student[tx[t].row]
    BY <2>1 DEF IInv, Rows, TxOK, StudentTagKept, Written
  <2>4. tx[t].kind # "student" => new = tx[t].tag /\ new \in Tags \cup {0}
    BY DEF IInv, TxOK, Written
  <2>5. tx[t].kind = "teacher" =>
          /\ tx[t].row \in Teachers
          /\ new # 0 => /\ new <= StaffMax
                        /\ \A s \in Students : student[s] # new
    BY <2>1, <2>4 DEF IInv, TxOK, TeacherTagFree
  <2>6. \A u \in Txs \ {t} :
          tx[u].pc = "commit" /\ tx[u].kind = tx[t].kind =>
              tx[u].row # tx[t].row
    BY <2>1 DEF Waits
  <2>7. new \in Tags \cup {0}
    BY <2>3, <2>4
  <2> HIDE DEF new, rec
  <2> QED
    BY <2>1, <2>2, <2>3, <2>5, <2>6, <2>7, GoStep DEF Pcs
<1> QED
  BY <1>1, <1>2

\* A student's new tag is above the staff range or the one it had.
LEMMA CommitStudentStep ==
    ASSUME IInv, NEW t \in Txs, CommitStudent(t)
    PROVE  IInv' /\ StaffOut
<1> DEFINE s == tx[t].row
           new == tx[t].tag
<1>1. /\ tx[t].pc = "commit" /\ tx[t].kind = "student" /\ teacher' = teacher
      /\ student' = [student EXCEPT ![s] = new]
      /\ tx' = [tx EXCEPT ![t] = Idle]
  BY DEF CommitStudent, Done, Go
<1>2. s \in Students /\ new \in Tags \cup {0}
  BY <1>1 DEF IInv, TxOK
<1>3. new > StaffMax \/ new = student[s]
  BY <1>1 DEF IInv, StudentTagKept
<1>4. /\ student'[s] = new
      /\ \A u \in Students \ {s} : student'[u] = student[u]
  BY <1>1, <1>2 DEF IInv, Rows
<1>5. /\ DOMAIN tx' = Txs /\ tx'[t] = Idle
      /\ \A u \in Txs \ {t} : tx'[u] = tx[u]
  BY <1>1 DEF IInv, Rows
<1>6. \A u \in Students : student'[u] > StaffMax \/ student'[u] = student[u]
  BY <1>3, <1>4
<1> HIDE DEF s, new
<1>7. Rows'
  BY <1>1, <1>2, <1>5 DEF IInv, Rows
<1>8. TxOK'
  BY <1>5 DEF IInv, TxOK, Idle, Pcs
<1>9. OnePersonPerTag'
  <2> SUFFICES ASSUME NEW u \in Students, NEW p \in Teachers, student'[u] # 0
               PROVE  student'[u] # teacher[p]
    BY <1>1 DEF OnePersonPerTag
  <2>1. teacher[p] \in 0..StaffMax
    BY DEF IInv, Rows
  <2> QED
    BY <1>6, <2>1 DEF IInv, OnePersonPerTag
<1>10. TeacherTagFree'
  <2> SUFFICES ASSUME NEW u \in Txs, tx'[u].kind = "teacher", tx'[u].tag # 0
               PROVE  /\ tx'[u].tag <= StaffMax
                      /\ tx'[u].pc \in {"write", "commit"} =>
                           \A x \in Students : student'[x] # tx'[u].tag
    BY DEF TeacherTagFree
  <2>1. u # t /\ tx'[u] = tx[u]
    BY <1>5 DEF Idle
  <2>2. tx[u].tag \in Nat
    BY DEF IInv, TxOK
  <2> QED
    BY <1>6, <2>1, <2>2 DEF IInv, TeacherTagFree
<1>11. StudentTagKept'
  <2> SUFFICES ASSUME NEW u \in Txs, tx'[u].kind = "student"
               PROVE  /\ tx'[u].pc = "write" =>
                            tx'[u].tag = 0 \/ tx'[u].tag > StaffMax
                      /\ tx'[u].pc = "commit" => tx'[u].tag > StaffMax
                            \/ tx'[u].tag = student'[tx'[u].row]
    BY DEF StudentTagKept
  <2>1. u # t /\ tx'[u] = tx[u]
    BY <1>5 DEF Idle
  <2>2. tx[u].pc = "commit" => tx[u].row \in Students \ {s}
    BY <1>1, <2>1 DEF IInv, OneWriter, TxOK, s
  <2> QED
    BY <1>4, <2>1, <2>2 DEF IInv, StudentTagKept
<1>12. OneWriter'
  BY <1>5 DEF IInv, OneWriter, Idle
<1> QED
  BY <1>6, <1>7, <1>8, <1>9, <1>10, <1>11, <1>12 DEF IInv, StaffOut

\* A teacher's tag was free of students when looked at and still is.
LEMMA CommitTeacherStep ==
    ASSUME IInv, NEW t \in Txs, CommitTeacher(t)
    PROVE  IInv'
<1> DEFINE p == tx[t].row
           new == tx[t].tag
<1>1. /\ tx[t].pc = "commit" /\ tx[t].kind = "teacher" /\ student' = student
      /\ teacher' = [teacher EXCEPT ![p] = new]
      /\ tx' = [tx EXCEPT ![t] = Idle]
  BY DEF CommitTeacher, Done, Go
<1>2. p \in Teachers /\ new \in 0..StaffMax
  BY <1>1 DEF IInv, TxOK, TeacherTagFree
<1>3. new # 0 => \A s \in Students : student[s] # new
  BY <1>1 DEF IInv, TeacherTagFree
<1>4. /\ teacher'[p] = new
      /\ \A q \in Teachers \ {p} : teacher'[q] = teacher[q]
  BY <1>1, <1>2 DEF IInv, Rows
<1>5. /\ DOMAIN tx' = Txs /\ tx'[t] = Idle
      /\ \A u \in Txs \ {t} : tx'[u] = tx[u]
  BY <1>1 DEF IInv, Rows
<1> HIDE DEF p, new
<1>6. Rows'
  BY <1>1, <1>2, <1>5 DEF IInv, Rows
<1>7. OnePersonPerTag'
  BY <1>1, <1>3, <1>4 DEF IInv, OnePersonPerTag
<1>8. TxOK'
  BY <1>5 DEF IInv, TxOK, Idle, Pcs
<1>9. TeacherTagFree'
  BY <1>1, <1>5 DEF IInv, TeacherTagFree, Idle
<1>10. StudentTagKept'
  BY <1>1, <1>5 DEF IInv, StudentTagKept, Idle
<1>11. OneWriter'
  BY <1>5 DEF IInv, OneWriter, Idle
<1> QED
  BY <1>6, <1>7, <1>8, <1>9, <1>10, <1>11 DEF IInv

LEMMA NextStep ==
    ASSUME IInv, [Next]_vars
    PROVE  IInv' /\ StaffOut
<1>1. CASE UNCHANGED vars
  BY <1>1 DEF vars, IInv, Rows, TxOK, OnePersonPerTag, TeacherTagFree,
              StudentTagKept, OneWriter, StaffOut
<1>2. ASSUME NEW t \in Txs, NEW s \in Students, NEW tag \in Tags,
             BeginCreate(t, s, tag)
      PROVE  IInv' /\ StaffOut
  <2> DEFINE rec == [pc |-> "write", kind |-> "student", row |-> s,
                     tag |-> tag]
  <2>1. tx' = [tx EXCEPT ![t] = rec] /\ UNCHANGED <<student, teacher>>
        /\ tag > StaffMax
    BY <1>2 DEF BeginCreate, StudentTagProblem, Go
  <2>2. IInv'
    BY <2>1, GoStep DEF Pcs
  <2> QED
    BY <2>1, <2>2 DEF StaffOut
<1>3. ASSUME NEW t \in Txs, NEW s \in Students, NEW tag \in Tags \cup {0},
             BeginUpdate(t, s, tag)
      PROVE  IInv' /\ StaffOut
  <2> DEFINE new == UpdateTag(s, tag)
             rec == [pc |-> "write", kind |-> "student", row |-> s,
                     tag |-> new]
  <2>1. tx' = [tx EXCEPT ![t] = rec] /\ UNCHANGED <<student, teacher>>
    BY <1>3 DEF BeginUpdate, Go
  <2>2. new \in Tags \cup {0} /\ (new = 0 \/ new > StaffMax)
    BY DEF UpdateTag, StudentTagProblem
  <2> HIDE DEF new
  <2>3. IInv'
    BY <2>1, <2>2, GoStep DEF Pcs
  <2> QED
    BY <2>1, <2>3 DEF StaffOut
<1>4. ASSUME NEW t \in Txs, NEW p \in Teachers, NEW tag \in Tags \cup {0},
             BeginTeacher(t, p, tag)
      PROVE  IInv' /\ StaffOut
  <2> DEFINE rec(pc) == [pc |-> pc, kind |-> "teacher", row |-> p, tag |-> tag]
  <2>1. UNCHANGED <<student, teacher>> /\ tag <= StaffMax
    BY <1>4 DEF BeginTeacher, TeacherTagOK
  <2>2. CASE tag = 0
    <3>1. tx' = [tx EXCEPT ![t] = rec("write")]
      BY <1>4, <2>2 DEF BeginTeacher, Go
    <3>2. IInv'
      BY <2>1, <2>2, <3>1, GoStep DEF Pcs
    <3> QED
      BY <2>1, <3>2 DEF StaffOut
  <2>3. CASE tag # 0
    <3>1. tx' = [tx EXCEPT ![t] = rec("look")]
      BY <1>4, <2>3 DEF BeginTeacher, Go
    <3>2. IInv'
      BY <2>1, <3>1, GoStep DEF Pcs
    <3> QED
      BY <2>1, <3>2 DEF StaffOut
  <2> QED
    BY <2>2, <2>3
<1>5. ASSUME NEW t \in Txs, LookAtStudents(t)
      PROVE  IInv' /\ StaffOut
  <2>1. CASE Held(tx[t].tag)
    BY <1>5, <2>1, DoneStep DEF LookAtStudents, StaffOut
  <2>2. CASE ~Held(tx[t].tag)
    <3> DEFINE rec == At(tx[t], "write", tx[t].tag)
    <3>1. /\ tx[t].pc = "look" /\ tx' = [tx EXCEPT ![t] = rec]
          /\ UNCHANGED <<student, teacher>>
      BY <1>5, <2>2 DEF LookAtStudents, Go
    <3>2. /\ rec.pc = "write" /\ rec.tag = tx[t].tag
          /\ rec.kind = tx[t].kind /\ rec.row = tx[t].row
      BY DEF At
    <3>3. /\ tx[t].kind = "teacher" /\ tx[t].row \in Teachers
          /\ tx[t].tag \in Tags \cup {0}
          /\ tx[t].tag # 0 => tx[t].tag <= StaffMax
      BY <3>1 DEF IInv, TxOK, TeacherTagFree
    <3>4. \A s \in Students : student[s] # tx[t].tag
      BY <2>2 DEF Held
    <3> HIDE DEF rec
    <3>5. IInv'
      BY <3>1, <3>2, <3>3, <3>4, GoStep DEF Pcs
    <3> QED
      BY <3>1, <3>5 DEF StaffOut
  <2> QED
    BY <2>1, <2>2
<1>6. ASSUME NEW t \in Txs, Write(t)
      PROVE  IInv' /\ StaffOut
  BY <1>6, WriteStep DEF Write, StaffOut
<1>7. ASSUME NEW t \in Txs, CommitTeacher(t)
      PROVE  IInv' /\ StaffOut
  BY <1>7, CommitTeacherStep DEF CommitTeacher, StaffOut
<1>8. ASSUME NEW t \in Txs, Abort(t)
      PROVE  IInv' /\ StaffOut
  BY <1>8, DoneStep DEF Abort, StaffOut
<1> QED
  BY <1>1, <1>2, <1>3, <1>4, <1>5, <1>6, <1>7, <1>8, CommitStudentStep
     DEF Next

\* For any students, teachers, requests and ranges, no tag ever means a
\* student and a teacher: the students' handler never writes back a small
\* tag it read, and writeTeacher's look stays valid until its commit.
THEOREM TagsSafe == Spec => []OnePersonPerTag
<1>1. IInv /\ [Next]_vars => IInv'
  BY NextStep
<1>2. IInv => OnePersonPerTag
  BY DEF IInv
<1> QED
  BY InitInv, <1>1, <1>2, PTL DEF Spec

\* Students only ever leave the staff range, whatever the requests read
\* before they started their transactions.
THEOREM TagsLeaveStaffRange == Spec => StaffRangeOnlyEmpties
<1>1. IInv /\ [Next]_vars => IInv' /\ [StaffOut]_vars
  BY NextStep
<1> QED
  BY InitInv, <1>1, PTL DEF Spec, StaffRangeOnlyEmpties, StaffOut

-----------------------------------------------------------------------------
(* The hint                                                                *)

\* A non-empty set of natural numbers has the minimum that Min names.
LEMMA MinFacts ==
  ASSUME NEW S, S \subseteq Nat, S # {}
  PROVE  Min(S) \in S /\ \A y \in S : Min(S) <= y
<1>1. \E x \in S : \A y \in S : x <= y
  <2>1. PICK x \in S : \A y \in S : ~(<<y, x>> \in OpToRel(<, Nat))
    BY NatLessThanWellFounded, WFMin
  <2>2. \A y \in S : ~(y < x)
    BY <2>1 DEF OpToRel
  <2> QED
    BY <2>2
<1> QED
  BY <1>1 DEF Min

\* The least free number above a tag follows it or a student's tag.
LEMMA LeastFreeIsCandidate ==
  ASSUME Rows, NEW tag \in Tags, NEW c \in Tags, c > tag, ~Held(c),
         \A d \in Tags : d > tag /\ ~Held(d) => c <= d
  PROVE  c \in Candidates(tag)
<1>1. CASE c = tag + 1
  BY <1>1 DEF Candidates
<1>2. CASE c # tag + 1
  <2>1. c - 1 \in Tags /\ c - 1 > tag /\ ~(c <= c - 1)
    BY <1>2
  <2>2. PICK s \in Students : student[s] = c - 1
    BY <2>1 DEF Held
  <2>3. student[s] > tag /\ c = student[s] + 1
    BY <2>1, <2>2
  <2> QED
    BY <2>3 DEF Candidates
<1> QED
  BY <1>1, <1>2

\* For any tags the students hold, the few candidates that the query tries
\* give the least free tag above the one that was asked for.
THEOREM HintSound == Spec => []HintIsLeastFree
<1>1. IInv /\ [Next]_vars => IInv'
  BY NextStep
<1>2. IInv => HintIsLeastFree
  <2> SUFFICES ASSUME IInv, NEW tag \in Tags
               PROVE  LET free == {c \in Tags : c > tag /\ ~Held(c)}
                      IN  NextFree(tag) = IF free = {} THEN 0 ELSE Min(free)
    BY DEF HintIsLeastFree
  <2> DEFINE free == {c \in Tags : c > tag /\ ~Held(c)}
             found == {c \in Candidates(tag) : c <= MaxTag /\ ~Held(c)}
  <2>1. found \subseteq free
    BY DEF Candidates, IInv, Rows
  <2>2. NextFree(tag) = IF found = {} THEN 0 ELSE Min(found)
    BY DEF NextFree
  <2>3. CASE free = {}
    BY <2>1, <2>2, <2>3
  <2>4. CASE free # {}
    <3>1. free \subseteq Nat /\ found \subseteq Nat
      BY <2>1
    <3>2. Min(free) \in free /\ \A y \in free : Min(free) <= y
      BY <2>4, <3>1, MinFacts
    <3>3. Min(free) \in found
      BY <3>2, LeastFreeIsCandidate DEF IInv
    <3>4. Min(found) \in found /\ \A y \in found : Min(found) <= y
      BY <3>1, <3>3, MinFacts
    <3>5. Min(found) = Min(free)
      <4>1. Min(found) \in Nat /\ Min(free) \in Nat
        BY <3>1, <3>2, <3>4
      <4>2. Min(free) <= Min(found) /\ Min(found) <= Min(free)
        BY <2>1, <3>2, <3>3, <3>4
      <4> QED
        BY <4>1, <4>2
    <3> QED
      BY <2>2, <2>4, <3>3, <3>5
  <2> QED
    BY <2>3, <2>4
<1> QED
  BY InitInv, <1>1, <1>2, PTL DEF Spec
=============================================================================
