---------------------------- MODULE BannersProofs ----------------------------
(***************************************************************************)
(* Saves of schedules and banners, for any number of requests, classes and *)
(* banners.  The inductive invariant says of every request in the middle   *)
(* of a transaction that what it has prepared is still right, because the  *)
(* lock on weekly_schedules and the lock on a banner's row keep the others *)
(* from what it was prepared from.  A second one says that only whole      *)
(* weeks are saved, which is why exports can be imported again.            *)
(***************************************************************************)
EXTENDS Banners, FiniteSetTheorems, WellFoundedInduction, TLAPS

\* A request's record.
Shape(rec) ==
    rec = [kind |-> rec.kind, pc |-> rec.pc, input |-> rec.input,
           work |-> rec.work]

\* A save of schedules.
SaveShape(rec) ==
    /\ rec.pc \in {"lock", "replace", "commit"}
    /\ rec.input = [todo |-> rec.input.todo, rows |-> rec.input.rows,
                    dry |-> rec.input.dry]
    /\ rec.work = [todo |-> rec.work.todo, doomed |-> rec.work.doomed,
                   added |-> rec.work.added]
    /\ rec.work.todo \subseteq rec.input.todo
    /\ rec.input.todo \subseteq Classes

\* An upload of a banner; a link it sends is one.
UploadShape(rec) ==
    /\ rec.pc \in {"write", "image", "commit"}
    /\ rec.input = [parts |-> rec.input.parts, id |-> rec.input.id]
    /\ rec.work = [banner |-> rec.work.banner, image |-> rec.work.image]
    /\ PartValue(rec.input.parts, "action_link", "") # "gone"

Form(rec) ==
    /\ Shape(rec)
    /\ \/ rec.kind = "none" /\ rec.pc = "idle"
       \/ rec.kind = "schedule" /\ SaveShape(rec)
       \/ /\ rec.kind = "create" /\ UploadShape(rec)
          /\ Sent(rec.input.parts, "image")
          /\ rec.pc # "write" => rec.input.id \in Nat
       \/ /\ rec.kind = "update" /\ UploadShape(rec)
          /\ rec.input.id \in BannerIds

Holds(rec, kind) == rec.kind = kind /\ rec.pc \notin {"idle", "lock", "write"}

-----------------------------------------------------------------------------
(* Schedules                                                               *)

\* The classes a save has replaced so far.
Replaced(rec) == rec.input.todo \ rec.work.todo

\* What a save is to delete and to add is what its classes have and get.
SaveFacts(rec) ==
    rec.kind = "schedule" =>
        /\ rec.pc = "lock" => rec.work.todo = rec.input.todo
        /\ rec.pc = "commit" => rec.work.todo = {}
        /\ rec.work.doomed = {row \in schedule : row.class \in Replaced(rec)}
        /\ rec.work.added = {row \in rec.input.rows : row.class \in Replaced(rec)}

SchedulesInv ==
    /\ SavesAreWhole
    /\ \A r \in Requests : SaveFacts(req[r])
    /\ \A r, u \in Requests :
         Holds(req[r], "schedule") /\ Holds(req[u], "schedule") => r = u

-----------------------------------------------------------------------------
(* Banners                                                                 *)

\* A picture and its checksum belong together.
Image(image) == image = [checksum |-> image.data, data |-> image.data]

Banner(banner) == DOMAIN banner = Fields

\* The tables, and what clients keep.
ShownInv ==
    /\ DOMAIN banners = BannerIds /\ DOMAIN images = BannerIds
    /\ DOMAIN lastSent = BannerIds /\ lastBanner \in Nat
    /\ \A id \in BannerIds :
         /\ Banner(banners[id]) /\ Image(images[id])
         /\ banners[id] # NoBanner => banners[id].action_link # "gone"
         /\ id > lastBanner => banners[id] = NoBanner
    /\ DOMAIN copies = Clients /\ DOMAIN wanted = Clients
    /\ \A client \in Clients :
         /\ DOMAIN copies[client] = BannerIds /\ DOMAIN wanted[client] = BannerIds
         /\ \A id \in BannerIds : Image(copies[client][id])

\* What an upload is to store; `last' is the last id handed out.
UploadFacts(rec, last) ==
    /\ Holds(rec, "create") =>
         /\ rec.input.id <= last
         /\ rec.input.id \in BannerIds => banners[rec.input.id] = NoBanner
         /\ rec.work.banner = Apply(NewBanner, rec.input.parts)
    /\ Holds(rec, "update") =>
         /\ banners[rec.input.id] # NoBanner
         /\ rec.work.banner = Apply(banners[rec.input.id], rec.input.parts)
    /\ rec.kind \in {"create", "update"} /\ rec.pc = "commit" =>
         /\ Image(rec.work.image)
         /\ rec.input.id \in BannerIds =>
              rec.work.image.data = PartValue(rec.input.parts, "image",
                                              images[rec.input.id].data)

\* No two requests that hold a row, or have made one, hold the same.
RowsInv ==
    \A r, u \in Requests, kind \in {"create", "update"} :
        Holds(req[r], kind) /\ Holds(req[u], kind)
        /\ req[r].input.id = req[u].input.id => r = u

UploadsInv ==
    /\ ShownInv /\ BannerPartsKept /\ AskedIsCurrent /\ RowsInv
    /\ \A r \in Requests : UploadFacts(req[r], lastBanner)

BannersInv ==
    /\ DOMAIN req = Requests
    /\ \A r \in Requests : Form(req[r])
    /\ SchedulesInv /\ UploadsInv

-----------------------------------------------------------------------------
(* A request goes on                                                       *)

\* A request that does nothing relies on nothing.
LEMMA IdleOK ==
    /\ Form(Idle) /\ SaveFacts(Idle) /\ \A n : UploadFacts(Idle, n)
    /\ \A kind : ~Holds(Idle, kind)
<1>1. Idle.kind = "none" /\ Idle.pc = "idle" /\ Shape(Idle)
  BY DEF Idle, Shape
<1> QED
  BY <1>1 DEF Form, SaveFacts, UploadFacts, Holds

\* What a request comes to hold nobody else holds.
MayHold(r, rec) ==
    /\ Holds(rec, "schedule") =>
         Holds(req[r], "schedule") \/ \A u \in Requests \ {r} : ~Holds(req[u], "schedule")
    /\ \A kind \in {"create", "update"} : Holds(rec, kind) =>
         \/ Holds(req[r], kind) /\ req[r].input.id = rec.input.id
         \/ \A u \in Requests \ {r} :
              Holds(req[u], kind) => req[u].input.id # rec.input.id

\* The facts of a request are about the tables.
LEMMA FactsRead ==
    ASSUME NEW rec, NEW last \in Nat, lastBanner \in Nat, lastBanner <= last,
           Form(rec), SaveFacts(rec), UploadFacts(rec, lastBanner),
           UNCHANGED <<schedule, banners, images>>
    PROVE  SaveFacts(rec)' /\ UploadFacts(rec, last)'
<1>1. SaveFacts(rec)'
  BY DEF SaveFacts, Replaced
<1>2. Holds(rec, "create") => rec.input.id \in Nat
  BY DEF Form, Holds
<1>3. UploadFacts(rec, last)
  BY <1>2 DEF UploadFacts
<1>4. UploadFacts(rec, last)'
  BY <1>3 DEF UploadFacts, Holds
<1> QED
  BY <1>1, <1>4

\* The request of one handler goes on, perhaps with a new id, and the tables
\* stay as they are.
LEMMA Going ==
    ASSUME BannersInv, NEW r \in Requests, NEW rec, NEW last \in Nat,
           lastBanner <= last, lastBanner' = last,
           Goes(r, rec), Form(rec), SaveFacts(rec), UploadFacts(rec, last),
           MayHold(r, rec),
           UNCHANGED <<schedule, latest, banners, images, lastSent, copies, wanted>>
    PROVE  BannersInv'
<1>0. /\ DOMAIN req = Requests /\ req' = [req EXCEPT ![r] = rec] /\ lastBanner \in Nat
  BY DEF BannersInv, UploadsInv, ShownInv, Goes
<1>1. /\ DOMAIN req' = Requests /\ req'[r] = rec
      /\ \A u \in Requests \ {r} : req'[u] = req[u]
  BY <1>0
<1>2. \A u \in Requests : Form(req'[u])
  BY <1>1 DEF BannersInv
<1>3. ASSUME NEW u \in Requests PROVE SaveFacts(req[u])' /\ UploadFacts(req[u], last)'
  <2>1. \A a : Form(a) /\ SaveFacts(a) /\ UploadFacts(a, lastBanner) =>
               SaveFacts(a)' /\ UploadFacts(a, last)'
    BY <1>0, FactsRead
  <2>2. CASE u # r
    <3>1. Form(req[u]) /\ SaveFacts(req[u]) /\ UploadFacts(req[u], lastBanner)
      BY DEF BannersInv, SchedulesInv, UploadsInv
    <3>2. req'[u] = req[u]
      BY <1>1, <2>2
    <3> QED
      BY <2>1, <3>1, <3>2
  <2>3. CASE u = r
    <3>1. SaveFacts(rec)' /\ UploadFacts(rec, last)'
      BY DEF SaveFacts, Replaced, UploadFacts, Holds
    <3> QED
      BY <1>1, <2>3, <3>1
  <2> QED
    BY <2>2, <2>3
<1>4. SavesAreWhole'
  BY DEF BannersInv, SchedulesInv, SavesAreWhole, StoredFor
<1>5. \A a, b \in Requests :
        Holds(req'[a], "schedule") /\ Holds(req'[b], "schedule") => a = b
  BY <1>1 DEF BannersInv, SchedulesInv, MayHold
<1>6. SchedulesInv'
  BY <1>3, <1>4, <1>5 DEF SchedulesInv, Holds
<1>7. ShownInv'
  <2>1. \A id \in BannerIds : id > last => id > lastBanner
    BY <1>0, BannersAssumption DEF BannerIds
  <2> QED
    BY <2>1 DEF BannersInv, UploadsInv, ShownInv
<1>8. BannerPartsKept' /\ AskedIsCurrent'
  BY DEF BannersInv, UploadsInv, BannerPartsKept, AskedIsCurrent
<1>9. \A a, b \in Requests, kind \in {"create", "update"} :
        Holds(req'[a], kind) /\ Holds(req'[b], kind)
        /\ req'[a].input.id = req'[b].input.id => a = b
  BY <1>1 DEF BannersInv, UploadsInv, RowsInv, MayHold
<1>10. RowsInv'
  BY <1>9 DEF RowsInv, Holds
<1> QED
  BY <1>1, <1>2, <1>3, <1>6, <1>7, <1>8, <1>10 DEF BannersInv, UploadsInv

-----------------------------------------------------------------------------
(* Schedules                                                               *)

\* A set of numbers that is not empty has a least element.
LEMMA LeastOf ==
    ASSUME NEW S, S \subseteq Nat, S # {}
    PROVE  \E n \in S : \A m \in S : n <= m
<1> DEFINE less == {ss \in Nat \X Nat : ss[1] < ss[2]}
<1>1. IsWellFoundedOn(less, Nat)
  BY NatLessThanWellFounded DEF OpToRel
<1>2. less = {ss \in Nat \X Nat : ss[1] < ss[2]}
  OBVIOUS
<1> HIDE DEF less
<1>3. PICK n \in S : \A m \in S : <<m, n>> \notin less
  BY <1>1, WFMin
<1>4. \A m \in S : ~(m < n)
  BY <1>2, <1>3
<1> QED
  BY <1>4

\* The class that is replaced next is one of those still to do.
LEMMA FirstOfIn ==
    ASSUME NEW classes, classes \subseteq Classes, classes # {}
    PROVE  FirstOf(classes) \in classes
<1>0. \A c \in classes : c \in Nat \X Nat /\ c[1] \in Nat /\ c[2] \in Nat
                         /\ c = <<c[1], c[2]>>
  BY SchedulesAssumption
<1> DEFINE grades == {c[1] : c \in classes}
<1>1. PICK g \in grades : \A m \in grades : g <= m
  <2>1. grades \subseteq Nat /\ grades # {}
    BY <1>0
  <2> QED
    BY <2>1, LeastOf
<1>2. \A c \in classes : c[1] \in grades
  OBVIOUS
<1>3. PICK d \in classes : d[1] = g
  OBVIOUS
<1> HIDE DEF grades
<1> DEFINE sections == {c[2] : c \in {x \in classes : x[1] = g}}
<1>4. PICK s \in sections : \A m \in sections : s <= m
  <2>1. sections \subseteq Nat /\ sections # {}
    BY <1>0, <1>3
  <2> QED
    BY <2>1, LeastOf
<1>5. PICK c \in classes : c[1] = g /\ c[2] = s
  OBVIOUS
<1>6. \A e \in classes : e[1] = g => s <= e[2]
  BY <1>4
<1> HIDE DEF sections
<1>7. ASSUME NEW e \in classes \ {c} PROVE Before(c, e)
  <2>1. g <= e[1] /\ (e[1] = g => s <= e[2]) /\ g \in Nat /\ s \in Nat
    BY <1>0, <1>1, <1>2, <1>5, <1>6
  <2>2. e[1] \in Nat /\ e[2] \in Nat /\ (e[1] # c[1] \/ e[2] # c[2])
    BY <1>0
  <2> QED
    BY <1>5, <2>1, <2>2 DEF Before
<1> QED
  BY <1>5, <1>7 DEF FirstOf

\* A save that was just read from its form has prepared nothing yet.
LEMMA WritesOK ==
    ASSUME NEW todo, NEW rows, NEW dry, todo \subseteq Classes, NEW rec,
           rec = Writes(todo, rows, dry)
    PROVE  /\ Form(rec) /\ SaveFacts(rec) /\ \A n : UploadFacts(rec, n)
           /\ \A kind : ~Holds(rec, kind)
<1>1. /\ rec.kind = "schedule" /\ rec.pc = "lock"
      /\ rec.input = [todo |-> todo, rows |-> rows, dry |-> dry]
      /\ rec.work = [todo |-> todo, doomed |-> {}, added |-> {}]
      /\ Shape(rec)
  BY DEF Writes, Shape
<1>2. /\ rec.input.todo = todo /\ rec.input.rows = rows /\ rec.input.dry = dry
      /\ rec.work.todo = todo /\ rec.work.doomed = {} /\ rec.work.added = {}
  BY <1>1
<1>3. Form(rec)
  BY <1>1, <1>2 DEF Form, SaveShape
<1>4. SaveFacts(rec)
  BY <1>1, <1>2 DEF SaveFacts, Replaced
<1> QED
  BY <1>1, <1>3, <1>4 DEF UploadFacts, Holds

\* A request ends without having changed anything.
LEMMA GivesUp ==
    ASSUME BannersInv, NEW r \in Requests, Done(r),
           UNCHANGED <<schedule, latest, shown, caches>>
    PROVE  BannersInv'
<1>1. MayHold(r, Idle)
  BY IdleOK DEF MayHold
<1>2. lastBanner \in Nat /\ lastBanner <= lastBanner
  BY DEF BannersInv, UploadsInv, ShownInv
<1>3. Goes(r, Idle) /\ lastBanner' = lastBanner
      /\ UNCHANGED <<schedule, latest, banners, images, lastSent, copies, wanted>>
  BY DEF Done, shown, caches
<1> QED
  BY <1>1, <1>2, <1>3, IdleOK, Going

\* A request goes on with the tables as they are.
LEMMA GoesOn ==
    ASSUME BannersInv, NEW r \in Requests, NEW rec, Goes(r, rec), Form(rec),
           SaveFacts(rec), UploadFacts(rec, lastBanner), MayHold(r, rec),
           UNCHANGED <<schedule, latest, shown, caches>>
    PROVE  BannersInv'
<1>1. lastBanner \in Nat /\ lastBanner <= lastBanner
  BY DEF BannersInv, UploadsInv, ShownInv
<1>2. lastBanner' = lastBanner
      /\ UNCHANGED <<schedule, latest, banners, images, lastSent, copies, wanted>>
  BY DEF shown, caches
<1> QED
  BY <1>1, <1>2, Going

\* The form and the import.
LEMMA BeginSaveKeeps ==
    ASSUME BannersInv, NEW r \in Requests, BeginSchedule(r) \/ BeginImport(r),
           UNCHANGED <<shown, caches>>
    PROVE  BannersInv'
<1>1. UNCHANGED <<schedule, latest, shown, caches>>
  BY DEF BeginSchedule, BeginImport, timetable
<1>2. \/ Done(r)
      \/ \E todo, rows, dry : todo \subseteq Classes /\ Goes(r, Writes(todo, rows, dry))
  <2>1. CASE BeginSchedule(r)
    <3>1. PICK class \in Classes, periods \in Lists :
            IF ValidateScheduleRequest(periods)
            THEN Goes(r, Writes({class}, StoredRows(class, periods), FALSE))
            ELSE Done(r)
      BY <2>1 DEF BeginSchedule
    <3>2. {class} \subseteq Classes
      OBVIOUS
    <3> QED
      BY <3>1, <3>2, Zenon
  <2>2. CASE BeginImport(r)
    <3>1. PICK parts \in Uploads :
            LET book == PartValue(parts, "file", <<>>)
                dry == PartValue(parts, "dry_run", "false")
            IN  IF /\ ReadFormParts(parts, PartLimits)
                   /\ dry \in {"true", "false"}
                   /\ ClassGuard(parts)
                   /\ WorkbookOK(book, Only(parts))
                THEN Goes(r, Writes(ClassesOf(DataRows(book)), Imported(book),
                                    dry = "true"))
                ELSE Done(r)
      BY <2>2, Zenon DEF BeginImport
    <3> DEFINE book == PartValue(parts, "file", <<>>)
               dry == PartValue(parts, "dry_run", "false")
    <3>2. CASE Done(r)
      BY <3>2
    <3>3. CASE ~Done(r)
      <4>1. /\ WorkbookOK(book, Only(parts))
            /\ Goes(r, Writes(ClassesOf(DataRows(book)), Imported(book), dry = "true"))
        BY <3>1, <3>3, Zenon
      <4> HIDE DEF book, dry
      <4>2. \A i \in DOMAIN DataRows(book) : DataRows(book)[i].class \in Classes
        BY <4>1, Zenon DEF WorkbookOK
      <4>3. ClassesOf(DataRows(book)) \subseteq Classes
        BY <4>2 DEF ClassesOf
      <4> QED
        BY <4>1, <4>3, Zenon
    <3> QED
      BY <3>2, <3>3
  <2> QED
    BY <2>1, <2>2
<1>3. CASE Done(r)
  BY <1>1, <1>3, GivesUp
<1>4. CASE \E todo, rows, dry :
             todo \subseteq Classes /\ Goes(r, Writes(todo, rows, dry))
  <2>1. PICK todo, rows, dry :
          todo \subseteq Classes /\ Goes(r, Writes(todo, rows, dry))
    BY <1>4
  <2> DEFINE rec == Writes(todo, rows, dry)
  <2>2. rec = Writes(todo, rows, dry) /\ Goes(r, rec)
    BY <2>1
  <2> HIDE DEF rec
  <2>3. /\ Form(rec) /\ SaveFacts(rec) /\ UploadFacts(rec, lastBanner)
        /\ \A kind : ~Holds(rec, kind)
    BY <2>1, <2>2, WritesOK
  <2>4. MayHold(r, rec)
    BY <2>3 DEF MayHold
  <2> QED
    BY <1>1, <2>2, <2>3, <2>4, GoesOn
<1> QED
  BY <1>2, <1>3, <1>4

\* Only the place in the code changes.
LEMMA OnlyPc ==
    ASSUME NEW a, Shape(a), NEW p, NEW rec, rec = [a EXCEPT !.pc = p]
    PROVE  /\ Shape(rec) /\ rec.pc = p /\ rec.kind = a.kind
           /\ rec.input = a.input /\ rec.work = a.work
  BY DEF Shape

\* Whoever takes the table lock begins with what is committed.
LEMMA LockSchedulesKeeps ==
    ASSUME BannersInv, NEW r \in Requests, LockSchedules(r),
           UNCHANGED <<shown, caches>>
    PROVE  BannersInv'
<1> DEFINE a == req[r]
           rec == [a EXCEPT !.pc = "replace"]
<1>1. /\ a.kind = "schedule" /\ a.pc = "lock" /\ CanLockSchedules(r) /\ Goes(r, rec)
      /\ UNCHANGED <<schedule, latest, shown, caches>>
      /\ Form(a) /\ SaveFacts(a) /\ rec = [a EXCEPT !.pc = "replace"]
  BY DEF LockSchedules, timetable, BannersInv, SchedulesInv
<1>2. Shape(a) /\ SaveShape(a)
  BY <1>1 DEF Form
<1> HIDE DEF a, rec
<1>3. /\ Shape(rec) /\ rec.pc = "replace" /\ rec.kind = "schedule"
      /\ rec.input = a.input /\ rec.work = a.work
  BY <1>1, <1>2, OnlyPc
<1>4. Form(rec)
  BY <1>2, <1>3 DEF Form, SaveShape
<1>5. SaveFacts(rec)
  BY <1>1, <1>3 DEF SaveFacts, Replaced
<1>6. UploadFacts(rec, lastBanner)
  BY <1>3 DEF UploadFacts, Holds
<1>7. MayHold(r, rec)
  <2>1. \A u \in Requests \ {r} : ~Holds(req[u], "schedule")
    BY <1>1 DEF CanLockSchedules, Holds
  <2> QED
    BY <1>3, <2>1 DEF MayHold, Holds
<1> QED
  BY <1>1, <1>4, <1>5, <1>6, <1>7, GoesOn

\* A class is done: its rows are doomed and its new ones added.
LEMMA ReplaceKeeps ==
    ASSUME BannersInv, NEW r \in Requests, ReplaceClassSchedule(r),
           UNCHANGED <<shown, caches>>
    PROVE  BannersInv'
<1> DEFINE a == req[r]
           class == FirstOf(a.work.todo)
           todo == a.work.todo \ {class}
           doomed == a.work.doomed \cup StoredFor(class)
           added == a.work.added \cup {row \in a.input.rows : row.class = class}
           w1 == [a.work EXCEPT !.todo = todo]
           w2 == [w1 EXCEPT !.doomed = doomed]
           w3 == [w2 EXCEPT !.added = added]
           rec == [a EXCEPT !.work = w3]
<1>1. /\ a.kind = "schedule" /\ a.pc = "replace" /\ a.work.todo # {}
      /\ UNCHANGED <<schedule, latest, shown, caches>>
      /\ Form(a) /\ SaveFacts(a)
  BY DEF ReplaceClassSchedule, timetable, BannersInv, SchedulesInv
<1>2. Shape(a) /\ SaveShape(a)
  BY <1>1 DEF Form
<1>3. class \in a.work.todo
  BY <1>1, <1>2, FirstOfIn DEF SaveShape
<1>4. Goes(r, rec)
  <2>1. Goes(r, [a EXCEPT
             !.work.todo = @ \ {class},
             !.work.doomed = @ \cup StoredFor(class),
             !.work.added = @ \cup {row \in a.input.rows : row.class = class}])
    BY DEF ReplaceClassSchedule
  <2>2. [a EXCEPT
             !.work.todo = @ \ {class},
             !.work.doomed = @ \cup StoredFor(class),
             !.work.added = @ \cup {row \in a.input.rows : row.class = class}]
        = rec
    <3> HIDE DEF class
    <3>1. Shape(a) /\ a.work = [todo |-> a.work.todo, doomed |-> a.work.doomed,
                                added |-> a.work.added]
      BY <1>2 DEF SaveShape
    <3>2. \A x, new : x = a => [x EXCEPT !.work = new].work = new
      BY <3>1 DEF Shape
    <3> QED
      BY <3>1, <3>2 DEF Shape
  <2> QED
    BY <2>1, <2>2
<1>5. /\ rec = [a EXCEPT !.work = w3] /\ w3 = [w2 EXCEPT !.added = added]
      /\ w2 = [w1 EXCEPT !.doomed = doomed] /\ w1 = [a.work EXCEPT !.todo = todo]
      /\ todo = a.work.todo \ {class}
      /\ doomed = a.work.doomed \cup {row \in schedule : row.class = class}
      /\ added = a.work.added \cup {row \in a.input.rows : row.class = class}
  BY DEF StoredFor
<1> HIDE DEF a, class, todo, doomed, added, w1, w2, w3, rec
<1>6. w3 = [todo |-> todo, doomed |-> doomed, added |-> added]
  <2>1. a.work = [todo |-> a.work.todo, doomed |-> a.work.doomed,
                  added |-> a.work.added]
    BY <1>2 DEF SaveShape
  <2> QED
    BY <1>5, <2>1
<1>7. /\ Shape(rec) /\ rec.kind = "schedule" /\ rec.pc = "replace"
      /\ rec.input = a.input /\ rec.work = w3
  BY <1>1, <1>2, <1>5 DEF Shape
<1>8. rec.work.todo = todo /\ rec.work.doomed = doomed /\ rec.work.added = added
  BY <1>6, <1>7
<1>9. Form(rec)
  <2>1. SaveShape(rec)
    BY <1>2, <1>5, <1>6, <1>7, <1>8 DEF SaveShape
  <2> QED
    BY <1>7, <2>1 DEF Form
<1>10. Replaced(rec) = Replaced(a) \cup {class}
  BY <1>2, <1>3, <1>5, <1>7, <1>8 DEF Replaced, SaveShape
<1>11. SaveFacts(rec)
  <2>1. /\ a.work.doomed = {row \in schedule : row.class \in Replaced(a)}
        /\ a.work.added = {row \in a.input.rows : row.class \in Replaced(a)}
    BY <1>1 DEF SaveFacts
  <2>2. doomed = {row \in schedule : row.class \in Replaced(rec)}
    BY <1>5, <1>10, <2>1
  <2>3. added = {row \in rec.input.rows : row.class \in Replaced(rec)}
    BY <1>5, <1>7, <1>10, <2>1
  <2> QED
    BY <1>7, <1>8, <2>2, <2>3 DEF SaveFacts
<1>12. UploadFacts(rec, lastBanner)
  BY <1>7 DEF UploadFacts, Holds
<1>13. MayHold(r, rec)
  BY <1>1, <1>7 DEF MayHold, Holds, a
<1> QED
  BY <1>1, <1>4, <1>9, <1>11, <1>12, <1>13, GoesOn

\* A dry run ends here; a save goes on with every class prepared.
LEMMA EndReplaceKeeps ==
    ASSUME BannersInv, NEW r \in Requests, EndReplace(r), UNCHANGED <<shown, caches>>
    PROVE  BannersInv'
<1> DEFINE a == req[r]
           rec == [a EXCEPT !.pc = "commit"]
<1>1. /\ a.kind = "schedule" /\ a.pc = "replace" /\ a.work.todo = {}
      /\ Goes(r, rec) \/ Done(r)
      /\ UNCHANGED <<schedule, latest, shown, caches>>
      /\ Form(a) /\ SaveFacts(a) /\ rec = [a EXCEPT !.pc = "commit"]
  BY Zenon DEF EndReplace, timetable, BannersInv, SchedulesInv
<1>2. Shape(a) /\ SaveShape(a)
  BY <1>1 DEF Form
<1> HIDE DEF a, rec
<1>3. /\ Shape(rec) /\ rec.pc = "commit" /\ rec.kind = "schedule"
      /\ rec.input = a.input /\ rec.work = a.work
  BY <1>1, <1>2, OnlyPc
<1>4. Form(rec)
  BY <1>2, <1>3 DEF Form, SaveShape
<1>5. SaveFacts(rec)
  BY <1>1, <1>3 DEF SaveFacts, Replaced
<1>6. UploadFacts(rec, lastBanner)
  BY <1>3 DEF UploadFacts, Holds
<1>7. MayHold(r, rec)
  BY <1>1, <1>3 DEF MayHold, Holds, a
<1> QED
  BY <1>1, <1>4, <1>5, <1>6, <1>7, GoesOn, GivesUp

\* The save takes effect: its classes have what it brought, the others what
\* they had, and no other save is in the middle of its own.
LEMMA CommitScheduleKeeps ==
    ASSUME BannersInv, NEW r \in Requests, CommitSchedule(r), UNCHANGED <<shown, caches>>
    PROVE  BannersInv'
<1> DEFINE a == req[r]
<1>1. /\ a.kind = "schedule" /\ a.pc = "commit"
      /\ schedule' = (schedule \ a.work.doomed) \cup a.work.added
      /\ latest' = [class \in Classes |->
           IF class \in a.input.todo
           THEN {row \in a.input.rows : row.class = class}
           ELSE latest[class]]
      /\ req' = [req EXCEPT ![r] = Idle] /\ DOMAIN req = Requests
      /\ Form(a) /\ SaveFacts(a)
      /\ UNCHANGED <<banners, images, lastBanner, lastSent, copies, wanted>>
  BY DEF CommitSchedule, Done, Goes, BannersInv, SchedulesInv, shown, caches
<1>2. /\ a.work.doomed = {row \in schedule : row.class \in a.input.todo}
      /\ a.work.added = {row \in a.input.rows : row.class \in a.input.todo}
  <2>1. Replaced(a) = a.input.todo
    BY <1>1 DEF SaveFacts, Replaced
  <2> QED
    BY <1>1, <2>1 DEF SaveFacts
<1> HIDE DEF a
<1>3. SavesAreWhole'
  <2> SUFFICES ASSUME NEW class \in Classes
               PROVE  {row \in schedule' : row.class = class} = latest'[class]
    BY DEF SavesAreWhole, StoredFor
  <2>1. CASE class \in a.input.todo
    <3>1. latest'[class] = {row \in a.input.rows : row.class = class}
      BY <1>1, <2>1
    <3> QED
      BY <1>1, <1>2, <2>1, <3>1
  <2>2. CASE class \notin a.input.todo
    <3>1. latest'[class] = {row \in schedule : row.class = class}
      BY <1>1, <2>2 DEF BannersInv, SchedulesInv, SavesAreWhole, StoredFor
    <3> QED
      BY <1>1, <1>2, <2>2, <3>1
  <2> QED
    BY <2>1, <2>2
<1>4. /\ DOMAIN req' = Requests /\ req'[r] = Idle
      /\ \A u \in Requests \ {r} : req'[u] = req[u]
  BY <1>1
<1>5. ASSUME NEW u \in Requests
      PROVE  Form(req'[u]) /\ SaveFacts(req[u])' /\ UploadFacts(req[u], lastBanner)'
  <2>1. CASE u = r
    <3>1. SaveFacts(Idle)' /\ UploadFacts(Idle, lastBanner)'
      BY <1>1, IdleOK DEF SaveFacts, UploadFacts, Idle, Holds
    <3> QED
      BY <1>4, <2>1, <3>1, IdleOK
  <2>2. CASE u # r
    <3>1. /\ Form(req[u]) /\ SaveFacts(req[u]) /\ UploadFacts(req[u], lastBanner)
          /\ req'[u] = req[u]
      BY <1>4, <2>2 DEF BannersInv, SchedulesInv, UploadsInv
    <3>2. ~Holds(req[u], "schedule")
      <4>1. Holds(req[r], "schedule")
        BY <1>1 DEF Holds, a
      <4> QED
        BY <2>2, <4>1 DEF BannersInv, SchedulesInv
    <3>3. \A b : /\ Form(b) /\ SaveFacts(b) /\ UploadFacts(b, lastBanner)
                 /\ ~Holds(b, "schedule")
                 => SaveFacts(b)' /\ UploadFacts(b, lastBanner)'
      <4> SUFFICES ASSUME NEW b, Form(b), SaveFacts(b), UploadFacts(b, lastBanner),
                          ~Holds(b, "schedule")
                   PROVE  SaveFacts(b)' /\ UploadFacts(b, lastBanner)'
        OBVIOUS
      <4>1. b.kind = "schedule" => b.pc = "lock"
        BY DEF Form, SaveShape, Holds
      <4>2. b.kind = "schedule" =>
              Replaced(b) = {} /\ b.work.doomed = {} /\ b.work.added = {}
        BY <4>1 DEF SaveFacts, Replaced
      <4>3. SaveFacts(b)'
        BY <4>1, <4>2 DEF SaveFacts, Replaced
      <4>4. UploadFacts(b, lastBanner)'
        BY <1>1 DEF UploadFacts, Holds
      <4> QED
        BY <4>3, <4>4
    <3> QED
      BY <3>1, <3>2, <3>3
  <2> QED
    BY <2>1, <2>2
<1>6. SchedulesInv'
  <2>1. \A u, v \in Requests :
          Holds(req'[u], "schedule") /\ Holds(req'[v], "schedule") => u = v
    BY <1>4, IdleOK DEF BannersInv, SchedulesInv
  <2> QED
    BY <1>3, <1>5, <2>1 DEF SchedulesInv, Holds
<1>7. ShownInv' /\ BannerPartsKept' /\ AskedIsCurrent'
  BY <1>1 DEF BannersInv, UploadsInv, ShownInv, BannerPartsKept, AskedIsCurrent
<1>8. RowsInv'
  <2>1. \A u, v \in Requests, kind \in {"create", "update"} :
          Holds(req'[u], kind) /\ Holds(req'[v], kind)
          /\ req'[u].input.id = req'[v].input.id => u = v
    BY <1>4, IdleOK DEF BannersInv, UploadsInv, RowsInv
  <2> QED
    BY <2>1 DEF RowsInv, Holds
<1> QED
  BY <1>4, <1>5, <1>6, <1>7, <1>8 DEF BannersInv, UploadsInv

-----------------------------------------------------------------------------
(* Banners                                                                 *)

\* The link is what tells a banner from none.
LEMMA NoBannerFacts ==
    /\ Banner(NoBanner) /\ NoBanner.action_link = "gone"
    /\ "title" \in Fields /\ "action_link" \in Fields /\ "is_active" \in Fields
  BY DEF NoBanner, Banner, Fields

\* A part that was sent has one value; one that was not keeps the old one.
LEMMA PartFacts ==
    ASSUME NEW parts, NEW name, NEW x, NEW y
    PROVE  /\ Sent(parts, name) => PartValue(parts, name, x) = PartValue(parts, name, y)
           /\ ~Sent(parts, name) => PartValue(parts, name, x) = x
<1> DEFINE found == parts[CHOOSE i \in DOMAIN parts : parts[i].name = name].value
<1>1. \A z : PartValue(parts, name, z) = IF Sent(parts, name) THEN found ELSE z
  BY DEF PartValue
<1> HIDE DEF found
<1> QED
  BY <1>1

\* What a request makes of a banner.
LEMMA ApplyFacts ==
    ASSUME NEW b, NEW parts, b.action_link # "gone",
           PartValue(parts, "action_link", "") # "gone"
    PROVE  Banner(Apply(b, parts)) /\ Apply(b, parts).action_link # "gone"
<1> DEFINE t == PartValue(parts, "title", b.title)
           l == PartValue(parts, "action_link", b.action_link)
           s == IF Sent(parts, "is_active")
                THEN PartValue(parts, "is_active", "") = "true" ELSE b.is_active
           w == Apply(b, parts)
<1>1. w = [title |-> t, action_link |-> l, is_active |-> s]
  BY Zenon DEF Apply
<1>2. l # "gone"
  BY PartFacts
<1> HIDE DEF t, l, s, w
<1>3. w.action_link = l /\ DOMAIN w = {"title", "action_link", "is_active"}
  BY <1>1
<1> QED
  BY <1>2, <1>3 DEF Banner, Fields, w

\* It depends on the banner's parts only.
LEMMA ApplySame ==
    ASSUME NEW b, NEW c, NEW parts, \A f \in Fields : b[f] = c[f]
    PROVE  Apply(b, parts) = Apply(c, parts)
<1>1. b.title = c.title /\ b.action_link = c.action_link /\ b.is_active = c.is_active
  BY NoBannerFacts
<1> QED
  BY <1>1, Zenon DEF Apply

LEMMA WithImageFacts ==
    ASSUME NEW b, NEW image
    PROVE  /\ \A f \in Fields : WithImage(b, image)[f] = b[f]
           /\ WithImage(b, image).image = image
<1> DEFINE t == b.title
           l == b.action_link
           s == b.is_active
           w == WithImage(b, image)
<1>1. w = [title |-> t, action_link |-> l, is_active |-> s, image |-> image]
  BY Zenon DEF WithImage
<1> HIDE DEF t, l, s, w
<1>2. w.title = t /\ w.action_link = l /\ w.is_active = s /\ w.image = image
  BY <1>1
<1> QED
  BY <1>2 DEF Fields, t, l, s, w

LEMMA UploadOK ==
    ASSUME NEW kind \in {"create", "update"}, NEW parts, NEW id,
           ReadBannerForm(parts), kind = "create" => Sent(parts, "image"),
           kind = "update" => id \in BannerIds, NEW rec,
           rec = Upload(kind, parts, id)
    PROVE  /\ Form(rec) /\ SaveFacts(rec) /\ \A n : UploadFacts(rec, n)
           /\ \A k : ~Holds(rec, k)
<1> DEFINE none == NoBanner
<1>1. rec = [kind |-> kind, pc |-> "write", input |-> [parts |-> parts, id |-> id],
             work |-> [banner |-> none, image |-> NoImage]]
  BY Zenon DEF Upload
<1> HIDE DEF none
<1>2. /\ Shape(rec) /\ rec.kind = kind /\ rec.pc = "write"
      /\ rec.input = [parts |-> parts, id |-> id]
      /\ rec.work = [banner |-> none, image |-> NoImage]
  BY <1>1 DEF Shape
<1>3. PartValue(parts, "action_link", "") # "gone"
  <2>1. PartValue(parts, "action_link", "") \in Links \cup {""}
    BY DEF ReadBannerForm, ParseBannerParts
  <2> QED
    BY <2>1, BannersAssumption
<1>4. UploadShape(rec) /\ rec.input.parts = parts /\ rec.input.id = id
  <2>1. /\ rec.input.parts = parts /\ rec.input.id = id
        /\ rec.work.banner = none /\ rec.work.image = NoImage
    BY <1>2
  <2>2. /\ rec.input = [parts |-> rec.input.parts, id |-> rec.input.id]
        /\ rec.work = [banner |-> rec.work.banner, image |-> rec.work.image]
    BY <1>2, <2>1
  <2> QED
    BY <1>2, <1>3, <2>1, <2>2, Zenon DEF UploadShape
<1>5. Form(rec)
  BY <1>2, <1>4 DEF Form
<1> QED
  BY <1>2, <1>5 DEF SaveFacts, UploadFacts, Holds

LEMMA BeginUploadKeeps ==
    ASSUME BannersInv, NEW r \in Requests, BeginCreate(r) \/ BeginUpdate(r)
    PROVE  BannersInv'
<1>1. UNCHANGED <<schedule, latest, shown, caches>>
  BY DEF BeginCreate, BeginUpdate, timetable
<1>2. \/ Done(r)
      \/ \E kind \in {"create", "update"} : \E parts, id :
           /\ ReadBannerForm(parts) /\ (kind = "create" => Sent(parts, "image"))
           /\ kind = "update" => id \in BannerIds
           /\ Goes(r, Upload(kind, parts, id))
  <2>1. CASE BeginCreate(r)
    <3>1. PICK parts \in BannerBodies :
            IF ReadBannerForm(parts) /\ Sent(parts, "image")
            THEN Goes(r, Upload("create", parts, 0)) ELSE Done(r)
      BY <2>1, Zenon DEF BeginCreate
    <3>2. "create" \in {"create", "update"} /\ "create" # "update"
      OBVIOUS
    <3> QED
      BY <3>1, <3>2, Zenon
  <2>2. CASE BeginUpdate(r)
    <3>1. PICK parts \in BannerBodies, id \in BannerIds :
            IF ReadBannerForm(parts) /\ Known(parts, BannerLimits) # {}
            THEN Goes(r, Upload("update", parts, id)) ELSE Done(r)
      BY <2>2, Zenon DEF BeginUpdate
    <3>2. "update" \in {"create", "update"} /\ "create" # "update"
      OBVIOUS
    <3> QED
      BY <3>1, <3>2, Zenon
  <2> QED
    BY <2>1, <2>2
<1>3. CASE Done(r)
  BY <1>1, <1>3, GivesUp
<1>4. ASSUME NEW kind \in {"create", "update"}, NEW parts, NEW id,
             ReadBannerForm(parts), kind = "create" => Sent(parts, "image"),
             kind = "update" => id \in BannerIds,
             Goes(r, Upload(kind, parts, id))
      PROVE  BannersInv'
  <2> DEFINE rec == Upload(kind, parts, id)
  <2>1. rec = Upload(kind, parts, id) /\ Goes(r, rec)
    BY <1>4
  <2> HIDE DEF rec
  <2>2. /\ Form(rec) /\ SaveFacts(rec) /\ \A n : UploadFacts(rec, n)
        /\ \A k : ~Holds(rec, k)
    BY <1>4, <2>1, UploadOK
  <2>3. MayHold(r, rec)
    BY <2>2 DEF MayHold
  <2> QED
    BY <1>1, <2>1, <2>2, <2>3, GoesOn
<1> QED
  BY <1>2, <1>3, <1>4

LEMMA InsertBannerKeeps ==
    ASSUME BannersInv, NEW r \in Requests, InsertBanner(r)
    PROVE  BannersInv'
<1> DEFINE a == req[r]
           last == lastBanner + 1
           b == Apply(NewBanner, a.input.parts)
           a1 == [a EXCEPT !.pc = "image"]
           a2 == [a1 EXCEPT !.input.id = last]
           rec == [a2 EXCEPT !.work.banner = b]
<1>1. /\ a.kind = "create" /\ a.pc = "write" /\ lastBanner' = last
      /\ UNCHANGED <<schedule, latest, banners, images, lastSent, copies, wanted>>
      /\ Form(a) /\ lastBanner \in Nat
  BY DEF InsertBanner, timetable, caches, BannersInv, UploadsInv, ShownInv
<1>2. Goes(r, rec)
  BY Zenon DEF InsertBanner
<1>3. Shape(a) /\ UploadShape(a) /\ Sent(a.input.parts, "image")
  BY <1>1 DEF Form
<1>4. /\ a1 = [a EXCEPT !.pc = "image"] /\ a2 = [a1 EXCEPT !.input.id = last]
      /\ rec = [a2 EXCEPT !.work.banner = b] /\ b = Apply(NewBanner, a.input.parts)
      /\ last = lastBanner + 1
  OBVIOUS
<1>5. last \in Nat /\ lastBanner <= last /\ last > lastBanner
  BY <1>1
<1> HIDE DEF a, last, b, a1, a2, rec
<1>6. /\ Shape(a1) /\ a1.kind = "create" /\ a1.pc = "image"
      /\ a1.input = a.input /\ a1.work = a.work
  BY <1>1, <1>3, <1>4 DEF Shape
<1>7. /\ Shape(a2) /\ a2.kind = "create" /\ a2.pc = "image"
      /\ a2.input = [parts |-> a.input.parts, id |-> last] /\ a2.work = a.work
  <2>1. a1.input = [parts |-> a.input.parts, id |-> a.input.id]
    BY <1>3, <1>6 DEF UploadShape
  <2> QED
    BY <1>4, <1>6, <2>1 DEF Shape
<1>8. /\ Shape(rec) /\ rec.kind = "create" /\ rec.pc = "image"
      /\ rec.input = [parts |-> a.input.parts, id |-> last]
      /\ rec.work = [banner |-> b, image |-> a.work.image]
  <2>1. a2.work = [banner |-> a.work.banner, image |-> a.work.image]
    BY <1>3, <1>7 DEF UploadShape
  <2> QED
    BY <1>4, <1>7, <2>1 DEF Shape
<1>9. /\ rec.input.parts = a.input.parts /\ rec.input.id = last
      /\ rec.work.banner = b
  BY <1>8
<1>10. Form(rec)
  <2>1. UploadShape(rec)
    BY <1>3, <1>8, <1>9 DEF UploadShape
  <2> QED
    BY <1>3, <1>5, <1>8, <1>9, <2>1 DEF Form
<1>11. UploadFacts(rec, last)
  <2>1. last \in BannerIds => banners[last] = NoBanner
    BY <1>5 DEF BannersInv, UploadsInv, ShownInv
  <2> QED
    BY <1>4, <1>5, <1>8, <1>9, <2>1 DEF UploadFacts, Holds
<1>12. MayHold(r, rec)
  <2>1. ASSUME NEW u \in Requests \ {r}, Holds(req[u], "create")
        PROVE  req[u].input.id # last
    <3>1. req[u].input.id <= lastBanner
      BY <2>1 DEF BannersInv, UploadsInv, UploadFacts
    <3>2. req[u].input.id \in Nat
      <4>1. Form(req[u])
        BY DEF BannersInv
      <4> QED
        BY <2>1, <4>1 DEF Form, Holds
    <3> QED
      BY <1>5, <3>1, <3>2, <1>1
  <2> QED
    BY <1>8, <1>9, <2>1 DEF MayHold, Holds
<1>13. SaveFacts(rec)
  BY <1>8 DEF SaveFacts
<1> QED
  BY <1>1, <1>2, <1>5, <1>10, <1>11, <1>12, <1>13, Going

\* The UPDATE prepares its parts from the row it has just locked.
LEMMA UpdateBannerKeeps ==
    ASSUME BannersInv, NEW r \in Requests, UpdateBanner(r)
    PROVE  BannersInv'
<1> DEFINE a == req[r]
           b == Apply(banners[a.input.id], a.input.parts)
           a1 == [a EXCEPT !.pc = "image"]
           rec == [a1 EXCEPT !.work.banner = b]
<1>1. /\ a.kind = "update" /\ a.pc = "write" /\ RowFree(a.input.id)
      /\ UNCHANGED <<schedule, latest, shown, caches>>
      /\ Form(a)
      /\ Done(r) \/ (banners[a.input.id] # NoBanner /\ Goes(r, rec))
  BY Zenon DEF UpdateBanner, timetable, BannersInv
<1>2. Shape(a) /\ UploadShape(a) /\ a.input.id \in BannerIds
  BY <1>1 DEF Form
<1>3. /\ a1 = [a EXCEPT !.pc = "image"] /\ rec = [a1 EXCEPT !.work.banner = b]
      /\ b = Apply(banners[a.input.id], a.input.parts)
  OBVIOUS
<1> HIDE DEF a, b, a1, rec
<1>4. /\ Shape(a1) /\ a1.kind = "update" /\ a1.pc = "image"
      /\ a1.input = a.input /\ a1.work = a.work
  BY <1>1, <1>2, <1>3 DEF Shape
<1>5. /\ Shape(rec) /\ rec.kind = "update" /\ rec.pc = "image"
      /\ rec.input = a.input /\ rec.work = [banner |-> b, image |-> a.work.image]
  <2>1. a1.work = [banner |-> a.work.banner, image |-> a.work.image]
    BY <1>2, <1>4 DEF UploadShape
  <2> QED
    BY <1>3, <1>4, <2>1 DEF Shape
<1>6. rec.work.banner = b
  BY <1>5
<1>7. Form(rec)
  <2>1. UploadShape(rec)
    BY <1>2, <1>5, <1>6 DEF UploadShape
  <2> QED
    BY <1>2, <1>5, <2>1 DEF Form
<1>8. CASE banners[a.input.id] # NoBanner /\ Goes(r, rec)
  <2>1. UploadFacts(rec, lastBanner)
    BY <1>3, <1>5, <1>6, <1>8 DEF UploadFacts, Holds
  <2>2. MayHold(r, rec)
    <3>1. \A u \in Requests \ {r} : Holds(req[u], "update") =>
            req[u].input.id # rec.input.id
      BY <1>1, <1>5 DEF RowFree, Holds
    <3> QED
      BY <1>5, <3>1 DEF MayHold, Holds
  <2>3. SaveFacts(rec)
    BY <1>5 DEF SaveFacts
  <2> QED
    BY <1>1, <1>7, <1>8, <2>1, <2>2, <2>3, GoesOn
<1> QED
  BY <1>1, <1>8, GivesUp

\* The picture that is saved has its checksum, or is the one there was.
LEMMA SaveImageKeeps ==
    ASSUME BannersInv, NEW r \in Requests, SaveBannerImage(r)
    PROVE  BannersInv'
<1> DEFINE a == req[r]
           old == images[a.input.id]
           i == IF Sent(a.input.parts, "image")
                THEN Saved(old, PartValue(a.input.parts, "image", "")) ELSE old
           a1 == [a EXCEPT !.pc = "commit"]
           rec == [a1 EXCEPT !.work.image = i]
<1>1. /\ a.kind \in {"create", "update"} /\ a.pc = "image"
      /\ UNCHANGED <<schedule, latest, shown, caches>>
      /\ Form(a) /\ UploadFacts(a, lastBanner)
  BY DEF SaveBannerImage, timetable, BannersInv, UploadsInv
<1>2. Goes(r, rec)
  BY Zenon DEF SaveBannerImage
<1>3. /\ Shape(a) /\ UploadShape(a)
      /\ a.kind = "update" => a.input.id \in BannerIds
      /\ a.kind = "create" => Sent(a.input.parts, "image") /\ a.input.id \in Nat
  BY <1>1 DEF Form
<1>4. Image(i) /\ (a.input.id \in BannerIds =>
        i.data = PartValue(a.input.parts, "image", images[a.input.id].data))
  <2>1. CASE Sent(a.input.parts, "image")
    <3>1. i = [checksum |-> PartValue(a.input.parts, "image", ""),
               data |-> PartValue(a.input.parts, "image", "")]
      BY <2>1 DEF Saved
    <3>2. i.data = PartValue(a.input.parts, "image", "") /\ Image(i)
      <4> DEFINE p == PartValue(a.input.parts, "image", "")
      <4>1. i = [checksum |-> p, data |-> p]
        BY <3>1
      <4> HIDE DEF p, i
      <4>2. i.data = p
        BY <4>1
      <4> QED
        BY <4>1, <4>2 DEF Image, p
    <3>3. PartValue(a.input.parts, "image", "")
            = PartValue(a.input.parts, "image", images[a.input.id].data)
      BY <2>1, PartFacts
    <3> HIDE DEF i
    <3> QED
      BY <3>2, <3>3
  <2>2. CASE ~Sent(a.input.parts, "image")
    <3>1. a.input.id \in BannerIds /\ i = images[a.input.id]
      BY <1>1, <1>3, <2>2
    <3>2. Image(i)
      BY <3>1 DEF BannersInv, UploadsInv, ShownInv
    <3>3. PartValue(a.input.parts, "image", images[a.input.id].data)
            = images[a.input.id].data
      BY <2>2, PartFacts
    <3> QED
      BY <3>1, <3>2, <3>3
  <2> QED
    BY <2>1, <2>2
<1>5. a1 = [a EXCEPT !.pc = "commit"] /\ rec = [a1 EXCEPT !.work.image = i]
  OBVIOUS
<1> HIDE DEF a, i, a1, rec
<1>6. /\ Shape(a1) /\ a1.kind = a.kind /\ a1.pc = "commit"
      /\ a1.input = a.input /\ a1.work = a.work
  BY <1>1, <1>3, <1>5 DEF Shape
<1>7. /\ Shape(rec) /\ rec.kind = a.kind /\ rec.pc = "commit"
      /\ rec.input = a.input /\ rec.work = [banner |-> a.work.banner, image |-> i]
  <2>1. a1.work = [banner |-> a.work.banner, image |-> a.work.image]
    BY <1>3, <1>6 DEF UploadShape
  <2> QED
    BY <1>5, <1>6, <2>1 DEF Shape
<1>8. rec.work.banner = a.work.banner /\ rec.work.image = i
  BY <1>7
<1>9. Form(rec)
  <2>1. UploadShape(rec)
    BY <1>3, <1>7, <1>8 DEF UploadShape
  <2> QED
    BY <1>1, <1>3, <1>7, <2>1 DEF Form
<1>10. UploadFacts(rec, lastBanner)
  <2>1. \A k : Holds(rec, k) <=> Holds(a, k)
    BY <1>1, <1>7 DEF Holds
  <2> QED
    BY <1>1, <1>4, <1>7, <1>8, <2>1 DEF UploadFacts
<1>11. MayHold(r, rec)
  <2>1. \A k : Holds(rec, k) => Holds(a, k) /\ a.input.id = rec.input.id
    BY <1>1, <1>7 DEF Holds
  <2> QED
    BY <2>1 DEF MayHold, a
<1>12. SaveFacts(rec)
  BY <1>1, <1>7 DEF SaveFacts
<1> QED
  BY <1>1, <1>2, <1>9, <1>10, <1>11, <1>12, GoesOn

\* A request's facts outlive a change of other banners than its own.
LEMMA FactsElsewhere ==
    ASSUME NEW a, Form(a), SaveFacts(a), UploadFacts(a, lastBanner),
           UNCHANGED <<schedule, lastBanner>>,
           Holds(a, "update") => /\ banners'[a.input.id] = banners[a.input.id]
                                 /\ images'[a.input.id] = images[a.input.id],
           Holds(a, "create") /\ a.input.id \in BannerIds =>
               banners'[a.input.id] = NoBanner
    PROVE  SaveFacts(a)' /\ UploadFacts(a, lastBanner)'
<1>1. SaveFacts(a)'
  BY DEF SaveFacts, Replaced
<1>2. CASE a.kind = "create"
  <2>1. Sent(a.input.parts, "image")
    BY <1>2 DEF Form
  <2>2. PartValue(a.input.parts, "image", images'[a.input.id].data)
          = PartValue(a.input.parts, "image", images[a.input.id].data)
    BY <2>1, PartFacts
  <2> QED
    BY <1>1, <1>2, <2>2 DEF UploadFacts, Holds
<1>3. CASE a.kind = "update"
  BY <1>1, <1>3 DEF UploadFacts, Holds
<1>4. CASE a.kind \notin {"create", "update"}
  BY <1>1, <1>4 DEF UploadFacts, Holds
<1> QED
  BY <1>2, <1>3, <1>4

\* Nobody else holds the row a request is about to write.
LEMMA OwnRow ==
    ASSUME BannersInv, NEW r \in Requests, NEW u \in Requests \ {r},
           NEW k \in {"create", "update"}, NEW m \in {"create", "update"},
           Holds(req[r], k), Holds(req[u], m), req[u].input.id \in BannerIds
    PROVE  req[u].input.id # req[r].input.id
<1>1. CASE k = m
  BY <1>1 DEF BannersInv, UploadsInv, RowsInv
<1>2. CASE k # m
  <2>1. UploadFacts(req[r], lastBanner) /\ UploadFacts(req[u], lastBanner)
    BY DEF BannersInv, UploadsInv
  <2> QED
    BY <1>2, <2>1 DEF UploadFacts
<1> QED
  BY <1>1, <1>2

\* The commit shows what was sent and keeps the rest: nobody changed the row
\* since it was locked.
LEMMA CommitBannerKeeps ==
    ASSUME BannersInv, NEW r \in Requests, CommitBanner(r)
    PROVE  BannersInv'
<1> DEFINE a == req[r]
           id == a.input.id
           parts == a.input.parts
           base == IF a.kind = "create" THEN NewBanner ELSE lastSent[id]
           sent == WithImage(Apply(base, parts),
                             PartValue(parts, "image", lastSent[id].image))
<1>1. /\ a.kind \in {"create", "update"} /\ a.pc = "commit"
      /\ banners' = [banners EXCEPT ![id] = a.work.banner]
      /\ images' = [images EXCEPT ![id] = a.work.image]
      /\ lastSent' = [lastSent EXCEPT ![id] = sent]
      /\ req' = [req EXCEPT ![r] = Idle]
      /\ UNCHANGED <<schedule, latest, lastBanner, copies, wanted>>
  BY Zenon DEF CommitBanner, Done, Goes, timetable, caches
<1>2. /\ DOMAIN req = Requests /\ Form(a) /\ UploadFacts(a, lastBanner)
      /\ ShownInv /\ BannerPartsKept
  BY DEF BannersInv, UploadsInv
<1>3. /\ UploadShape(a)
      /\ a.kind = "update" => id \in BannerIds
      /\ a.kind = "create" => Sent(parts, "image") /\ id \in Nat
  BY <1>1, <1>2 DEF Form
<1>4. /\ a.kind = "create" =>
           /\ id <= lastBanner /\ (id \in BannerIds => banners[id] = NoBanner)
           /\ a.work.banner = Apply(NewBanner, parts)
      /\ a.kind = "update" =>
           banners[id] # NoBanner /\ a.work.banner = Apply(banners[id], parts)
      /\ Image(a.work.image)
      /\ id \in BannerIds =>
           a.work.image.data = PartValue(parts, "image", images[id].data)
  BY <1>1, <1>2 DEF UploadFacts, Holds
<1>5. Banner(a.work.banner) /\ a.work.banner.action_link # "gone"
  <2>1. PartValue(parts, "action_link", "") # "gone"
    BY <1>3 DEF UploadShape
  <2>2. CASE a.kind = "create"
    <3>1. NewBanner.action_link # "gone"
      BY DEF NewBanner
    <3> QED
      BY <1>4, <2>1, <2>2, <3>1, ApplyFacts
  <2>3. CASE a.kind = "update"
    <3>1. banners[id].action_link # "gone"
      BY <1>2, <1>3, <1>4, <2>3 DEF ShownInv
    <3> QED
      BY <1>4, <2>1, <2>3, <3>1, ApplyFacts
  <2> QED
    BY <1>1, <2>2, <2>3
<1>6. id \in BannerIds => /\ \A f \in Fields : a.work.banner[f] = sent[f]
                          /\ a.work.image.data = sent.image
  <2> SUFFICES ASSUME id \in BannerIds
               PROVE  /\ \A f \in Fields : a.work.banner[f] = sent[f]
                      /\ a.work.image.data = sent.image
    OBVIOUS
  <2>1. /\ \A f \in Fields : sent[f] = Apply(base, parts)[f]
        /\ sent.image = PartValue(parts, "image", lastSent[id].image)
    BY WithImageFacts
  <2>2. CASE a.kind = "create"
    <3>1. base = NewBanner
      BY <2>2
    <3>2. PartValue(parts, "image", lastSent[id].image)
            = PartValue(parts, "image", images[id].data)
      BY <1>3, <2>2, PartFacts
    <3> HIDE DEF base, sent
    <3> QED
      BY <1>4, <2>1, <2>2, <3>1, <3>2
  <2>3. CASE a.kind = "update"
    <3>1. /\ base = lastSent[id] /\ images[id].data = lastSent[id].image
          /\ \A f \in Fields : banners[id][f] = lastSent[id][f]
      BY <1>2, <1>4, <2>3 DEF BannerPartsKept
    <3>2. Apply(banners[id], parts) = Apply(lastSent[id], parts)
      BY <3>1, ApplySame
    <3> HIDE DEF base, sent
    <3> QED
      BY <1>4, <2>1, <2>3, <3>1, <3>2
  <2> QED
    BY <1>1, <2>2, <2>3
<1> HIDE DEF a, id, parts, base, sent
<1>7. /\ DOMAIN banners' = BannerIds /\ DOMAIN images' = BannerIds
      /\ DOMAIN lastSent' = BannerIds
      /\ \A j \in BannerIds : j # id => /\ banners'[j] = banners[j]
                                        /\ images'[j] = images[j]
                                        /\ lastSent'[j] = lastSent[j]
      /\ id \in BannerIds => /\ banners'[id] = a.work.banner
                             /\ images'[id] = a.work.image /\ lastSent'[id] = sent
  BY <1>1, <1>2 DEF ShownInv
<1>8. ShownInv'
  <2>1. ASSUME NEW j \in BannerIds
        PROVE  /\ Banner(banners'[j]) /\ Image(images'[j])
               /\ banners'[j] # NoBanner => banners'[j].action_link # "gone"
               /\ j > lastBanner' => banners'[j] = NoBanner
    <3>1. CASE j = id
      <4>1. id <= lastBanner
        <5>1. CASE a.kind = "update"
          BY <1>2, <1>3, <1>4, <5>1, BannersAssumption DEF ShownInv, BannerIds
        <5> QED
          BY <1>1, <1>4, <5>1
      <4>2. ~(id > lastBanner) /\ UNCHANGED lastBanner
        BY <1>1, <1>2, <2>1, <3>1, <4>1, BannersAssumption DEF ShownInv, BannerIds
      <4> QED
        BY <1>4, <1>5, <1>7, <2>1, <3>1, <4>2
    <3>2. CASE j # id
      BY <1>1, <1>2, <1>7, <3>2 DEF ShownInv
    <3> QED
      BY <3>1, <3>2
  <2> QED
    BY <1>1, <1>2, <1>7, <2>1 DEF ShownInv, Banner, Image
<1>9. BannerPartsKept'
  <2> SUFFICES ASSUME NEW j \in BannerIds
               PROVE  IF banners'[j] = NoBanner THEN images'[j] = NoImage
                      ELSE /\ \A f \in Fields : banners'[j][f] = lastSent'[j][f]
                           /\ images'[j].data = lastSent'[j].image
    BY DEF BannerPartsKept
  <2>1. CASE j = id
    <3>1. a.work.banner # NoBanner
      BY <1>5, NoBannerFacts
    <3> QED
      BY <1>6, <1>7, <2>1, <3>1
  <2>2. CASE j # id
    <3>1. /\ banners'[j] = banners[j] /\ images'[j] = images[j]
          /\ lastSent'[j] = lastSent[j]
      BY <1>7, <2>2
    <3>2. IF banners[j] = NoBanner THEN images[j] = NoImage
          ELSE /\ \A f \in Fields : banners[j][f] = lastSent[j][f]
               /\ images[j].data = lastSent[j].image
      BY <1>2, Zenon DEF BannerPartsKept
    <3> QED
      BY <3>1, <3>2
  <2> QED
    BY <2>1, <2>2
<1>10. AskedIsCurrent'
  BY <1>1 DEF BannersInv, UploadsInv, AskedIsCurrent
<1>11. /\ DOMAIN req' = Requests /\ req'[r] = Idle
       /\ \A u \in Requests \ {r} : req'[u] = req[u]
  BY <1>1, <1>2
<1>12. ASSUME NEW u \in Requests
       PROVE  Form(req'[u]) /\ SaveFacts(req[u])' /\ UploadFacts(req[u], lastBanner)'
  <2>1. CASE u = r
    <3>1. SaveFacts(Idle)' /\ UploadFacts(Idle, lastBanner)'
      BY <1>1, IdleOK DEF SaveFacts, UploadFacts, Idle, Holds
    <3> QED
      BY <1>11, <2>1, <3>1, IdleOK
  <2>2. CASE u # r
    <3>1. /\ Form(req[u]) /\ SaveFacts(req[u]) /\ UploadFacts(req[u], lastBanner)
          /\ req'[u] = req[u]
      BY <1>11, <2>2 DEF BannersInv, SchedulesInv, UploadsInv
    <3>2. Holds(req[r], a.kind)
      BY <1>1 DEF Holds, a
    <3>3. \A m \in {"create", "update"} :
            Holds(req[u], m) /\ req[u].input.id \in BannerIds => req[u].input.id # id
      BY <1>1, <2>2, <3>2, OwnRow DEF a, id
    <3>4. Holds(req[u], "update") => req[u].input.id \in BannerIds
      BY <3>1 DEF Form, Holds
    <3>5. Holds(req[u], "update") =>
            /\ banners'[req[u].input.id] = banners[req[u].input.id]
            /\ images'[req[u].input.id] = images[req[u].input.id]
      BY <1>7, <3>3, <3>4
    <3>6. Holds(req[u], "create") /\ req[u].input.id \in BannerIds =>
            banners'[req[u].input.id] = NoBanner
      BY <1>7, <3>1, <3>3 DEF UploadFacts
    <3>7. \A b : /\ Form(b) /\ SaveFacts(b) /\ UploadFacts(b, lastBanner)
                 /\ Holds(b, "update") =>
                      /\ banners'[b.input.id] = banners[b.input.id]
                      /\ images'[b.input.id] = images[b.input.id]
                 /\ Holds(b, "create") /\ b.input.id \in BannerIds =>
                      banners'[b.input.id] = NoBanner
                 => SaveFacts(b)' /\ UploadFacts(b, lastBanner)'
      BY <1>1, FactsElsewhere
    <3> QED
      BY <3>1, <3>5, <3>6, <3>7
  <2> QED
    BY <2>1, <2>2
<1>13. SchedulesInv'
  <2>1. \A u, v \in Requests :
          Holds(req'[u], "schedule") /\ Holds(req'[v], "schedule") => u = v
    BY <1>11, IdleOK DEF BannersInv, SchedulesInv
  <2>2. SavesAreWhole'
    BY <1>1 DEF BannersInv, SchedulesInv, SavesAreWhole, StoredFor
  <2> QED
    BY <1>12, <2>1, <2>2 DEF SchedulesInv, Holds
<1>14. RowsInv'
  <2>1. \A u, v \in Requests, kind \in {"create", "update"} :
          Holds(req'[u], kind) /\ Holds(req'[v], kind)
          /\ req'[u].input.id = req'[v].input.id => u = v
    BY <1>11, IdleOK DEF BannersInv, UploadsInv, RowsInv
  <2> QED
    BY <2>1 DEF RowsInv, Holds
<1> QED
  BY <1>8, <1>9, <1>10, <1>11, <1>12, <1>13, <1>14 DEF BannersInv, UploadsInv

\* The row goes only when no request holds it, and the picture with it.
LEMMA DeleteBannerKeeps ==
    ASSUME BannersInv, NEW r \in Requests, NEW id \in BannerIds,
           DeleteBanner(r, id)
    PROVE  BannersInv'
<1>1. /\ banners' = [banners EXCEPT ![id] = NoBanner]
      /\ images' = [images EXCEPT ![id] = NoImage] /\ RowFree(id)
      /\ UNCHANGED <<schedule, latest, req, lastBanner, lastSent, copies, wanted>>
  BY DEF DeleteBanner, timetable, caches
<1>2. ShownInv /\ BannerPartsKept
  BY DEF BannersInv, UploadsInv
<1>3. /\ DOMAIN banners' = BannerIds /\ DOMAIN images' = BannerIds
      /\ \A j \in BannerIds : j # id => /\ banners'[j] = banners[j]
                                        /\ images'[j] = images[j]
      /\ banners'[id] = NoBanner /\ images'[id] = NoImage
  BY <1>1, <1>2 DEF ShownInv
<1>4. Banner(NoBanner) /\ Image(NoImage)
  BY DEF Banner, Image, NoBanner, NoImage
<1>5. ShownInv'
  <2>1. ASSUME NEW j \in BannerIds
        PROVE  /\ Banner(banners'[j]) /\ Image(images'[j])
               /\ banners'[j] # NoBanner => banners'[j].action_link # "gone"
               /\ j > lastBanner' => banners'[j] = NoBanner
    <3>1. CASE j = id
      BY <1>3, <1>4, <3>1
    <3>2. CASE j # id
      BY <1>1, <1>2, <1>3, <3>2 DEF ShownInv
    <3> QED
      BY <3>1, <3>2
  <2> QED
    BY <1>1, <1>2, <1>3, <2>1 DEF ShownInv, Banner, Image
<1>6. BannerPartsKept'
  <2> SUFFICES ASSUME NEW j \in BannerIds
               PROVE  IF banners'[j] = NoBanner THEN images'[j] = NoImage
                      ELSE /\ \A f \in Fields : banners'[j][f] = lastSent[j][f]
                           /\ images'[j].data = lastSent[j].image
    BY <1>1 DEF BannerPartsKept
  <2>1. CASE j = id
    BY <1>3, <2>1
  <2>2. CASE j # id
    <3>1. IF banners[j] = NoBanner THEN images[j] = NoImage
          ELSE /\ \A f \in Fields : banners[j][f] = lastSent[j][f]
               /\ images[j].data = lastSent[j].image
      BY <1>2, Zenon DEF BannerPartsKept
    <3>2. banners'[j] = banners[j] /\ images'[j] = images[j]
      BY <1>3, <2>2
    <3> QED
      BY <3>1, <3>2
  <2> QED
    BY <2>1, <2>2
<1>7. AskedIsCurrent'
  BY <1>1 DEF BannersInv, UploadsInv, AskedIsCurrent
<1>8. ASSUME NEW u \in Requests
      PROVE  SaveFacts(req[u])' /\ UploadFacts(req[u], lastBanner)'
  <2>1. /\ Form(req[u]) /\ SaveFacts(req[u]) /\ UploadFacts(req[u], lastBanner)
        /\ req'[u] = req[u]
    BY <1>1 DEF BannersInv, SchedulesInv, UploadsInv
  <2>2. Holds(req[u], "update") =>
          req[u].input.id \in BannerIds /\ req[u].input.id # id
    BY <1>1, <2>1 DEF Form, Holds, RowFree
  <2>3. Holds(req[u], "update") =>
          /\ banners'[req[u].input.id] = banners[req[u].input.id]
          /\ images'[req[u].input.id] = images[req[u].input.id]
    BY <1>3, <2>2
  <2>4. Holds(req[u], "create") /\ req[u].input.id \in BannerIds =>
          banners'[req[u].input.id] = NoBanner
    BY <1>3, <2>1 DEF UploadFacts
  <2>5. \A b : /\ Form(b) /\ SaveFacts(b) /\ UploadFacts(b, lastBanner)
               /\ Holds(b, "update") =>
                    /\ banners'[b.input.id] = banners[b.input.id]
                    /\ images'[b.input.id] = images[b.input.id]
               /\ Holds(b, "create") /\ b.input.id \in BannerIds =>
                    banners'[b.input.id] = NoBanner
               => SaveFacts(b)' /\ UploadFacts(b, lastBanner)'
    BY <1>1, FactsElsewhere
  <2> QED
    BY <2>1, <2>3, <2>4, <2>5
<1>9. SchedulesInv'
  <2>1. SavesAreWhole'
    BY <1>1 DEF BannersInv, SchedulesInv, SavesAreWhole, StoredFor
  <2> QED
    BY <1>1, <1>8, <2>1 DEF BannersInv, SchedulesInv, Holds
<1>10. RowsInv'
  BY <1>1 DEF BannersInv, UploadsInv, RowsInv, Holds
<1>11. DOMAIN req' = Requests /\ \A u \in Requests : Form(req'[u])
  BY <1>1 DEF BannersInv
<1> QED
  BY <1>5, <1>6, <1>7, <1>8, <1>9, <1>10, <1>11 DEF BannersInv, UploadsInv

-----------------------------------------------------------------------------
(* What clients see                                                        *)

\* Nothing is stored, and no request goes on.
LEMMA OnlyClients ==
    ASSUME BannersInv, UNCHANGED <<req, schedule, latest, shown>>,
           ShownInv', AskedIsCurrent'
    PROVE  BannersInv'
<1>1. UNCHANGED <<banners, images, lastSent, lastBanner>>
  BY DEF shown
<1>2. SavesAreWhole' /\ RowsInv' /\ BannerPartsKept'
  BY <1>1 DEF BannersInv, SchedulesInv, UploadsInv, SavesAreWhole, StoredFor,
             RowsInv, Holds, BannerPartsKept
<1>3. ASSUME NEW u \in Requests
      PROVE  SaveFacts(req[u])' /\ UploadFacts(req[u], lastBanner)'
  <2>1. SaveFacts(req[u])'
    BY DEF BannersInv, SchedulesInv, SaveFacts, Replaced
  <2>2. UploadFacts(req[u], lastBanner)'
    BY <1>1 DEF BannersInv, UploadsInv, UploadFacts, Holds
  <2> QED
    BY <2>1, <2>2
<1>4. SchedulesInv'
  BY <1>2, <1>3 DEF BannersInv, SchedulesInv, Holds
<1>5. DOMAIN req' = Requests /\ \A u \in Requests : Form(req'[u])
  BY DEF BannersInv
<1> QED
  BY <1>2, <1>3, <1>4, <1>5 DEF BannersInv, UploadsInv

\* Neither do clients see anything new.
LEMMA NothingSeen ==
    ASSUME BannersInv, UNCHANGED <<req, schedule, latest, shown, copies, wanted>>
    PROVE  BannersInv'
<1>1. ShownInv' /\ AskedIsCurrent'
  BY DEF BannersInv, UploadsInv, ShownInv, AskedIsCurrent, shown
<1> QED
  BY <1>1, OnlyClients

\* A checksum that is the same stands for the same picture.
LEMMA LoadPictureKeeps ==
    ASSUME BannersInv, NEW client \in Clients, NEW id \in BannerIds,
           LoadPicture(client, id)
    PROVE  BannersInv'
<1> DEFINE copy == copies[client][id]
<1>1. UNCHANGED <<req, schedule, latest, shown>>
  <2>1. UNCHANGED <<vars, shown>>
    BY Zenon DEF LoadPicture
  <2>2. UNCHANGED <<req, schedule, latest>>
    BY <2>1 DEF vars, timetable
  <2> QED
    BY <2>1, <2>2
<1>2. ShownInv /\ AskedIsCurrent
  BY DEF BannersInv, UploadsInv
<1>3. PICK i, d :
        /\ copies' = [copies EXCEPT ![client][id] = i]
        /\ wanted' = [wanted EXCEPT ![client][id] = d]
        /\ \/ ~Served(client, id) /\ i = NoImage
           \/ Served(client, id) /\ i = copy /\ copy.checksum = images[id].checksum
           \/ Served(client, id) /\ i = images[id]
        /\ (client = "dashboard" \/ banners[id].is_active) => d = images[id].data
        /\ ~(client = "dashboard" \/ banners[id].is_active) => d = ""
  <2> DEFINE hit == copy # NoImage /\ copy.checksum = images[id].checksum
             i == IF ~Served(client, id) THEN NoImage
                  ELSE IF hit THEN copy ELSE images[id]
             d == IF client = "dashboard" \/ banners[id].is_active
                  THEN images[id].data ELSE ""
  <2>1. /\ copies' = [copies EXCEPT ![client][id] = i]
        /\ wanted' = [wanted EXCEPT ![client][id] = d]
    BY Zenon DEF LoadPicture
  <2>2. \/ ~Served(client, id) /\ i = NoImage
        \/ Served(client, id) /\ i = copy /\ copy.checksum = images[id].checksum
        \/ Served(client, id) /\ i = images[id]
    BY Zenon
  <2>3. /\ (client = "dashboard" \/ banners[id].is_active) => d = images[id].data
        /\ ~(client = "dashboard" \/ banners[id].is_active) => d = ""
    BY Zenon
  <2> HIDE DEF i, d
  <2> QED
    BY <2>1, <2>2, <2>3, Zenon
<1>4. Image(copy) /\ Image(images[id]) /\ Image(NoImage) /\ NoImage.data = ""
  BY <1>2 DEF ShownInv, Image, NoImage
<1>5. Image(i) /\ i.data = d
  <2>1. \A p : Image(p) => p.checksum = p.data
    BY DEF Image
  <2>2. CASE ~Served(client, id) /\ i = NoImage
    <3>1. CASE images[id] = NoImage
      BY <1>3, <1>4, <2>2, <3>1
    <3>2. CASE client = "phone" /\ ~banners[id].is_active
      <4>1. d = ""
        BY <1>3, <3>2, Zenon
      <4> QED
        BY <1>4, <2>2, <4>1
    <3> QED
      BY <2>2, <3>1, <3>2, Zenon DEF Served
  <2>3. CASE Served(client, id)
    <3>1. client = "dashboard" \/ banners[id].is_active
      BY <2>3 DEF Served, Clients
    <3>2. d = images[id].data
      BY <1>3, <3>1, Zenon
    <3> QED
      BY <1>3, <1>4, <2>1, <2>3, <3>2
  <2> QED
    BY <1>3, <2>2, <2>3, Zenon
<1> HIDE DEF copy
<1>6. /\ DOMAIN copies' = Clients /\ DOMAIN wanted' = Clients
      /\ \A c \in Clients :
           /\ DOMAIN copies'[c] = BannerIds /\ DOMAIN wanted'[c] = BannerIds
           /\ \A j \in BannerIds :
                IF c = client /\ j = id
                THEN copies'[c][j] = i /\ wanted'[c][j] = d
                ELSE copies'[c][j] = copies[c][j] /\ wanted'[c][j] = wanted[c][j]
  BY <1>2, <1>3 DEF ShownInv
<1>7. AskedIsCurrent'
  BY <1>2, <1>5, <1>6 DEF AskedIsCurrent
<1>8. \A c \in Clients, j \in BannerIds : Image(copies'[c][j])
  BY <1>2, <1>5, <1>6 DEF ShownInv
<1>9. UNCHANGED <<banners, images, lastSent, lastBanner>>
  BY <1>1 DEF shown
<1>10. ShownInv'
  BY <1>2, <1>6, <1>8, <1>9 DEF ShownInv, Image
<1> QED
  BY <1>1, <1>7, <1>10, OnlyClients

-----------------------------------------------------------------------------
(* The theorems                                                            *)

LEMMA InitKeeps == BannersInit => BannersInv
<1> SUFFICES ASSUME BannersInit PROVE BannersInv
  OBVIOUS
<1>0. /\ latest = [class \in Classes |-> StoredFor(class)]
      /\ req = [r \in Requests |-> Idle]
      /\ banners = [id \in BannerIds |-> IF id = 1 THEN OldBanner ELSE NoBanner]
      /\ images = [id \in BannerIds |-> NoImage] /\ lastBanner = 1
      /\ copies = [client \in Clients |-> [id \in BannerIds |-> NoImage]]
      /\ wanted = [client \in Clients |-> [id \in BannerIds |-> ""]]
  BY Zenon DEF BannersInit, ScheduleInit
<1>9. /\ DOMAIN lastSent = BannerIds
      /\ \A id \in BannerIds : lastSent[id] = WithImage(banners[id], "")
  <2>1. lastSent = [id \in BannerIds |->
          WithImage(IF id = 1 THEN OldBanner ELSE NoBanner, "")]
    BY Zenon DEF BannersInit
  <2> QED
    BY <1>0, <2>1, Zenon
<1>1. DOMAIN req = Requests /\ \A r \in Requests : req[r] = Idle
  BY <1>0
<1>2. SavesAreWhole
  BY <1>0 DEF SavesAreWhole
<1>3. SchedulesInv
  BY <1>1, <1>2, IdleOK DEF SchedulesInv
<1>4. Banner(NoBanner) /\ Banner(OldBanner) /\ Image(NoImage) /\ NoImage.data = ""
  BY BannersAssumption DEF Banner, Image, NoBanner, NoImage
<1>5. \A id \in BannerIds : id > 1 => id # 1
  BY BannersAssumption DEF BannerIds
<1>6. ShownInv
  <2>1. \A id \in BannerIds : /\ Banner(banners[id]) /\ Image(images[id])
                              /\ banners[id] # NoBanner => banners[id].action_link # "gone"
                              /\ id > lastBanner => banners[id] = NoBanner
    BY <1>0, <1>4, <1>5, BannersAssumption
  <2> QED
    BY <1>0, <1>9, <1>4, <2>1 DEF ShownInv
<1>7. BannerPartsKept
  <2> SUFFICES ASSUME NEW id \in BannerIds
               PROVE  IF banners[id] = NoBanner THEN images[id] = NoImage
                      ELSE /\ \A f \in Fields : banners[id][f] = lastSent[id][f]
                           /\ images[id].data = lastSent[id].image
    BY DEF BannerPartsKept
  <2>1. /\ lastSent[id] = WithImage(banners[id], "")
        /\ images[id] = NoImage
    BY <1>0, <1>9
  <2>2. /\ \A f \in Fields : WithImage(banners[id], "")[f] = banners[id][f]
        /\ WithImage(banners[id], "").image = ""
    BY WithImageFacts
  <2> QED
    BY <1>4, <2>1, <2>2
<1>8. AskedIsCurrent
  BY <1>0, <1>4 DEF AskedIsCurrent
<1> QED
  BY <1>1, <1>3, <1>6, <1>7, <1>8, IdleOK DEF BannersInv, UploadsInv, RowsInv

\* One case per action.
LEMMA StepKeeps == BannersInv /\ [BannersNext]_allVars => BannersInv'
<1> SUFFICES ASSUME BannersInv, [BannersNext]_allVars PROVE BannersInv'
  OBVIOUS
<1>1. ASSUME NEW r \in Requests, BannerStep(r) PROVE BannersInv'
  BY <1>1, BeginUploadKeeps, InsertBannerKeeps, UpdateBannerKeeps,
     SaveImageKeeps, CommitBannerKeeps, DeleteBannerKeeps DEF BannerStep
<1>2. CASE ListBanners
  <2>1. UNCHANGED <<vars, shown, copies, wanted>>
    BY <1>2 DEF ListBanners
  <2>2. UNCHANGED <<req, schedule, latest>>
    BY <2>1 DEF vars, timetable
  <2> QED
    BY <2>1, <2>2, NothingSeen
<1>3. ASSUME NEW client \in Clients, NEW id \in BannerIds, LoadPicture(client, id)
      PROVE  BannersInv'
  BY <1>3, LoadPictureKeeps
<1>4. ASSUME NEW r \in Requests, ScheduleStep(r), UNCHANGED <<shown, caches>>
      PROVE  BannersInv'
  <2>1. CASE Abort(r)
    BY <1>4, <2>1, GivesUp DEF Abort, timetable
  <2> QED
    BY <1>4, <2>1, BeginSaveKeeps, LockSchedulesKeeps, ReplaceKeeps,
       EndReplaceKeeps, CommitScheduleKeeps DEF ScheduleStep
<1>5. ASSUME NEW class \in Classes, EditTaught(class), UNCHANGED <<shown, caches>>
      PROVE  BannersInv'
  BY <1>5, NothingSeen DEF EditTaught, timetable, caches
<1>6. CASE UNCHANGED allVars \/ (Answered /\ UNCHANGED <<shown, caches>>)
  <2>1. UNCHANGED <<req, schedule, latest, shown, copies, wanted>>
    BY <1>6 DEF Answered, allVars, vars, timetable, caches
  <2> QED
    BY <2>1, NothingSeen
<1> QED
  BY <1>1, <1>2, <1>3, <1>4, <1>5, <1>6 DEF BannersNext, ScheduleNext

\* Every step of every request, and of every client, keeps the invariant.
LEMMA BannersInvariant == BannersSpec => []BannersInv
<1>1. BannersInv /\ [BannersNext]_allVars => BannersInv'
  BY StepKeeps
<1> QED
  BY <1>1, InitKeeps, PTL DEF BannersSpec

\* Whatever forms and imports overlap, fail or are dry runs, each class has
\* the rows of the last save that committed, all of them and no others: the
\* lock that LockSchedules takes is enough for any number of requests.
THEOREM SavesSafe == BannersSpec => []SavesAreWhole
<1>1. BannersInv => SavesAreWhole
  BY DEF BannersInv, SchedulesInv
<1> QED
  BY <1>1, BannersInvariant, PTL

\* Two updates of a banner, or an update and its deletion, never lose a part
\* that one of them sent, and a deleted banner leaves no picture: the row
\* lock of the UPDATE is held until the picture is saved and committed.
THEOREM PartsSafe == BannersSpec => []BannerPartsKept
<1>1. BannersInv => BannerPartsKept
  BY DEF BannersInv, UploadsInv
<1> QED
  BY <1>1, BannersInvariant, PTL

\* serveBannerImage answers 304 only when the picture the client has is the
\* one that is stored, however often it was replaced in between.
THEOREM AskedSafe == BannersSpec => []AskedIsCurrent
<1>1. BannersInv => AskedIsCurrent
  BY DEF BannersInv, UploadsInv
<1> QED
  BY <1>1, BannersInvariant, PTL

-----------------------------------------------------------------------------
(* The weeks that are accepted, and their way through a workbook           *)

\* Who teaches when, of rows as they are stored: every day by its one name,
\* no period twice and no gap in a day.
Week(rows, class) ==
    /\ \A x \in rows :
         /\ x = [class |-> class, day |-> x.day, period |-> x.period,
                 subject |-> x.subject, teacher |-> x.teacher]
         /\ Rank[x.day] \in Days /\ x.day = WeekNames[Rank[x.day]]
         /\ x.period \in 1..MaxPeriodNumber /\ x.subject # 0
    /\ \A x, y \in rows : Twice(x, y) => x = y
    /\ \A d \in Days :
         LET numbers == {x.period : x \in {y \in rows : Rank[y.day] = d}}
         IN  numbers # {} => ~DayPeriodsProblem(numbers)

\* The names of the school days are stored as they are.
LEMMA NamesOfDays ==
    /\ Days = 1..Len(WeekNames) /\ Len(WeekNames) \in Nat /\ 0 \notin Days
    /\ \A d \in Days : WeekNames[d] \in DOMAIN Rank /\ Rank[WeekNames[d]] = d
<1>1. WeekNames \in Seq(DOMAIN Rank) /\ \A d \in Days : Rank[WeekNames[d]] = d
  BY SchedulesAssumption
<1> QED
  BY <1>1 DEF Days

\* What a period becomes when it is stored.
LEMMA StoredFacts ==
    ASSUME NEW p, PeriodOK(p), NEW class, NEW x, x = Stored(class, p)
    PROVE  /\ x = [class |-> class, day |-> x.day, period |-> x.period,
                   subject |-> x.subject, teacher |-> x.teacher]
           /\ x.period = p.period /\ x.subject = p.subject /\ x.teacher = p.teacher
           /\ Rank[x.day] = Rank[p.day] /\ Rank[x.day] \in Days
           /\ x.day = WeekNames[Rank[x.day]]
<1>1. Rank[p.day] \in Days
  BY SchedulesAssumption DEF PeriodOK
<1>2. x = [class |-> class, day |-> WeekNames[Rank[p.day]], period |-> p.period,
           subject |-> p.subject, teacher |-> p.teacher]
  BY DEF Stored, Canonical
<1>3. Rank[WeekNames[Rank[p.day]]] = Rank[p.day]
  BY <1>1, NamesOfDays
<1> QED
  BY <1>1, <1>2, <1>3

\* The form and the import accept the same weeks.
LEMMA SameRules ==
    ASSUME NEW rows
    PROVE  ImportWeekOK(rows) <=> WeekOK(rows)
<1> DEFINE on(d) == {i \in DOMAIN rows : Rank[rows[i].day] = d}
           numbers(d) == {rows[i].period : i \in on(d)}
<1>1. ASSUME NEW p PROVE ValidScheduleRow(p) <=> PeriodOK(p)
  BY DEF ValidScheduleRow, PeriodOK
<1>2. ASSUME NEW p, PeriodOK(p) PROVE Rank[p.day] \in Days
  BY <1>2, SchedulesAssumption DEF PeriodOK
<1>3. ImportWeekOK(rows) <=>
        /\ \A i \in DOMAIN rows : ValidScheduleRow(rows[i])
        /\ \A d \in Days :
             /\ \A i, j \in on(d) : rows[i].period = rows[j].period => i = j
             /\ on(d) # {} => ~DayPeriodsProblem(numbers(d))
  BY Zenon DEF ImportWeekOK
<1>4. WeekOK(rows) <=>
        /\ \A i \in DOMAIN rows : PeriodOK(rows[i])
        /\ \A i, j \in DOMAIN rows : i # j => ~Twice(rows[i], rows[j])
        /\ \A d \in Days : numbers(d) # {} => ~DayPeriodsProblem(numbers(d))
  BY Zenon DEF WeekOK
<1>5. \A d : on(d) # {} <=> numbers(d) # {}
  OBVIOUS
<1>6. ASSUME \A i \in DOMAIN rows : PeriodOK(rows[i])
      PROVE  (\A d \in Days : \A i, j \in on(d) :
                rows[i].period = rows[j].period => i = j)
             <=> \A i, j \in DOMAIN rows : i # j => ~Twice(rows[i], rows[j])
  <2>1. \A i \in DOMAIN rows : Rank[rows[i].day] \in Days
    BY <1>2, <1>6
  <2> QED
    BY <2>1 DEF Twice
<1> HIDE DEF on, numbers
<1> QED
  BY <1>1, <1>3, <1>4, <1>5, <1>6

\* A week that the form or a workbook gets accepted is stored as a week.
LEMMA WeekStored ==
    ASSUME NEW rows, WeekOK(rows), NEW class
    PROVE  Week(StoredRows(class, rows), class)
<1> DEFINE S == StoredRows(class, rows)
           s(i) == Stored(class, rows[i])
<1>1. S = {s(i) : i \in DOMAIN rows}
  BY DEF StoredRows
<1>2. \A i \in DOMAIN rows : PeriodOK(rows[i])
  BY Zenon DEF WeekOK
<1>3. \A i \in DOMAIN rows :
        /\ s(i) = [class |-> class, day |-> s(i).day, period |-> s(i).period,
                   subject |-> s(i).subject, teacher |-> s(i).teacher]
        /\ s(i).period = rows[i].period /\ s(i).subject = rows[i].subject
        /\ Rank[s(i).day] = Rank[rows[i].day] /\ Rank[s(i).day] \in Days
        /\ s(i).day = WeekNames[Rank[s(i).day]]
  BY <1>2, StoredFacts
<1> HIDE DEF S, s
<1>4. ASSUME NEW x \in S
      PROVE  /\ x = [class |-> class, day |-> x.day, period |-> x.period,
                     subject |-> x.subject, teacher |-> x.teacher]
             /\ Rank[x.day] \in Days /\ x.day = WeekNames[Rank[x.day]]
             /\ x.period \in 1..MaxPeriodNumber /\ x.subject # 0
  <2>1. PICK i \in DOMAIN rows : x = s(i)
    BY <1>1
  <2>2. rows[i].period \in 1..MaxPeriodNumber /\ rows[i].subject # 0
    BY <1>2 DEF PeriodOK
  <2> QED
    BY <1>3, <2>1, <2>2
<1>5. ASSUME NEW x \in S, NEW y \in S, Twice(x, y) PROVE x = y
  <2>1. PICK i \in DOMAIN rows, j \in DOMAIN rows : x = s(i) /\ y = s(j)
    BY <1>1
  <2>2. Twice(rows[i], rows[j])
    BY <1>3, <1>5, <2>1 DEF Twice
  <2>3. i = j
    BY <2>2, Zenon DEF WeekOK
  <2> QED
    BY <2>1, <2>3
<1>6. ASSUME NEW d \in Days, {x.period : x \in {y \in S : Rank[y.day] = d}} # {}
      PROVE  ~DayPeriodsProblem({x.period : x \in {y \in S : Rank[y.day] = d}})
  <2> DEFINE N == {x.period : x \in {y \in S : Rank[y.day] = d}}
             M == {rows[i].period : i \in {j \in DOMAIN rows : Rank[rows[j].day] = d}}
  <2>1. N = M
    <3>1. ASSUME NEW n \in N PROVE n \in M
      <4>1. PICK x \in S : Rank[x.day] = d /\ n = x.period
        OBVIOUS
      <4>2. PICK i \in DOMAIN rows : x = s(i)
        BY <1>1
      <4> QED
        BY <1>3, <4>1, <4>2
    <3>2. ASSUME NEW n \in M PROVE n \in N
      <4>1. PICK i \in DOMAIN rows : Rank[rows[i].day] = d /\ n = rows[i].period
        OBVIOUS
      <4>2. s(i) \in S /\ Rank[s(i).day] = d /\ s(i).period = n
        BY <1>1, <1>3, <4>1
      <4> QED
        BY <4>2
    <3> QED
      BY <3>1, <3>2
  <2>2. M # {} => ~DayPeriodsProblem(M)
    BY Zenon DEF WeekOK
  <2> QED
    BY <1>6, <2>1, <2>2
<1>7. Week(S, class)
  BY <1>4, <1>5, <1>6, Zenon DEF Week
<1> QED
  BY <1>7 DEF S

\* The row of the export for a day and a period: what is stored, or nothing.
LEMMA GridFacts ==
    ASSUME NEW class, Week(StoredFor(class), class),
           NEW d \in Days, NEW n \in 1..MaxPeriodNumber
    PROVE  LET g == Grid(class, d, n)
               here(x) == Rank[x.day] = d /\ x.period = n
           IN  /\ g.class = class /\ g.day = WeekNames[d] /\ g.period = n
               /\ ~g.formula
               /\ Skipped(g) <=> ~\E x \in StoredFor(class) : here(x)
               /\ \A x \in StoredFor(class) : here(x) =>
                    /\ g.subject = x.subject /\ g.teacher = x.teacher
                    /\ x = Stored(class, g)
<1> DEFINE S == StoredFor(class)
           there == {row \in S : Rank[row.day] = d /\ row.period = n}
           row == CHOOSE row \in there : TRUE
           g == Grid(class, d, n)
<1>1. g = [class |-> class, day |-> WeekNames[d], period |-> n,
           subject |-> IF there = {} THEN 0 ELSE row.subject,
           teacher |-> IF there = {} THEN 0 ELSE row.teacher,
           formula |-> FALSE]
  BY DEF Grid
<1>2. there # {} => row \in there
  OBVIOUS
<1>3. \A x, y \in S : Twice(x, y) => x = y
  BY Zenon DEF Week
<1>4. \A x \in S : /\ x = [class |-> class, day |-> x.day, period |-> x.period,
                          subject |-> x.subject, teacher |-> x.teacher]
                   /\ x.day = WeekNames[Rank[x.day]] /\ x.subject # 0
  BY Zenon DEF Week
<1>5. \A x : x \in there <=> x \in S /\ Rank[x.day] = d /\ x.period = n
  OBVIOUS
<1> HIDE DEF S, there, row, g
<1>6. /\ g.class = class /\ g.day = WeekNames[d] /\ g.period = n /\ g.formula = FALSE
      /\ there = {} => g.subject = 0 /\ g.teacher = 0
      /\ there # {} => g.subject = row.subject /\ g.teacher = row.teacher
  BY <1>1
<1>7. Skipped(g) <=> there = {}
  BY <1>2, <1>4, <1>5, <1>6 DEF Skipped
<1>8. ASSUME NEW x \in S, Rank[x.day] = d, x.period = n
      PROVE  g.subject = x.subject /\ g.teacher = x.teacher /\ x = Stored(class, g)
  <2>1. x \in there /\ row \in there
    BY <1>2, <1>5, <1>8
  <2>2. x = row
    BY <1>3, <1>5, <2>1 DEF Twice
  <2>3. g.subject = x.subject /\ g.teacher = x.teacher
    BY <1>6, <2>1, <2>2
  <2>4. Canonical(g.day) = x.day
    BY <1>4, <1>6, <1>8, NamesOfDays DEF Canonical
  <2>5. Stored(class, g) = [class |-> class, day |-> x.day, period |-> x.period,
                            subject |-> x.subject, teacher |-> x.teacher]
    BY <1>6, <1>8, <2>3, <2>4 DEF Stored
  <2> QED
    BY <1>4, <2>3, <2>5
<1> QED
  BY <1>5, <1>6, <1>7, <1>8 DEF g, S

\* The places of a class's periods in its export.
Filled(class) ==
    {p \in Days \X (1..MaxPeriodNumber) :
       \E x \in StoredFor(class) : Rank[x.day] = p[1] /\ x.period = p[2]}

\* What an import reads of an export.
LEMMA ExportedRows ==
    ASSUME NEW class, Week(StoredFor(class), class)
    PROVE  /\ DOMAIN Export(class) = {1} /\ HeaderFound(Export(class)[1])
           /\ HeaderComplete(Export(class)[1])
           /\ \A j \in DOMAIN Export(class)[1].rows : ~Export(class)[1].rows[j].formula
           /\ DataRows(Export(class)) =
                [q \in {1} \X Filled(class) |-> Grid(class, q[2][1], q[2][2])]
<1> DEFINE book == Export(class)
           grid == [p \in Days \X (1..MaxPeriodNumber) |-> Grid(class, p[1], p[2])]
           sheet == [at |-> ReportHeaderRow, found |-> Columns, twice |-> {}, rows |-> grid]
<1>1. book = <<sheet>>
  BY DEF Export
<1>2. sheet.at = ReportHeaderRow /\ sheet.found = Columns /\ sheet.twice = {} /\ sheet.rows = grid
  OBVIOUS
<1> HIDE DEF sheet, book
<1>3. DOMAIN book = {1} /\ book[1] = sheet
  BY <1>1
<1>4. HeaderFound(sheet) /\ HeaderComplete(sheet)
  BY <1>2, SchedulesAssumption DEF HeaderFound, HeaderComplete
<1>5. \A p \in Days \X (1..MaxPeriodNumber) :
        p[1] \in Days /\ p[2] \in 1..MaxPeriodNumber
  OBVIOUS
<1>6. /\ DOMAIN grid = Days \X (1..MaxPeriodNumber)
      /\ \A p \in Days \X (1..MaxPeriodNumber) : grid[p] = Grid(class, p[1], p[2])
  OBVIOUS
<1> HIDE DEF grid
<1>7. \A p \in Days \X (1..MaxPeriodNumber) :
        /\ ~grid[p].formula
        /\ Skipped(grid[p]) <=>
             ~\E x \in StoredFor(class) : Rank[x.day] = p[1] /\ x.period = p[2]
  BY <1>5, <1>6, GridFacts
<1>8. {j \in DOMAIN grid : ~Skipped(grid[j])} = Filled(class)
  BY <1>6, <1>7 DEF Filled
<1>9. DataRows(book) = [q \in {1} \X Filled(class) |-> Grid(class, q[2][1], q[2][2])]
  <2> DEFINE read(i) == {j \in DOMAIN book[i].rows : ~Skipped(book[i].rows[j])}
             places == UNION {{i} \X read(i) :
                                i \in {i \in DOMAIN book : HeaderFound(book[i])}}
  <2>1. DataRows(book) = [p \in places |-> book[p[1]].rows[p[2]]]
    BY DEF DataRows
  <2>2. read(1) = Filled(class)
    BY <1>2, <1>3, <1>8
  <2>3. {i \in DOMAIN book : HeaderFound(book[i])} = {1}
    BY <1>3, <1>4
  <2> HIDE DEF read
  <2>4. {{i} \X read(i) : i \in {1}} = {{1} \X read(1)}
    OBVIOUS
  <2>5. places = {1} \X Filled(class)
    BY <2>2, <2>3, <2>4
  <2> HIDE DEF places
  <2>6. \A p \in places : book[p[1]].rows[p[2]] = Grid(class, p[2][1], p[2][2])
    <3> SUFFICES ASSUME NEW p \in places
                 PROVE  book[p[1]].rows[p[2]] = Grid(class, p[2][1], p[2][2])
      OBVIOUS
    <3>1. p[1] = 1 /\ p[2] \in Filled(class)
      BY <2>5
    <3>2. p[2] \in Days \X (1..MaxPeriodNumber)
      BY <3>1 DEF Filled
    <3>3. grid[p[2]] = Grid(class, p[2][1], p[2][2])
      BY <1>6, <3>2
    <3> QED
      BY <1>2, <1>3, <3>1, <3>3
  <2> QED
    BY <2>1, <2>5, <2>6
<1>10. \A j \in DOMAIN book[1].rows : ~book[1].rows[j].formula
  BY <1>2, <1>3, <1>6, <1>7
<1> QED
  BY <1>3, <1>4, <1>9, <1>10 DEF book

LEMMA UpTo ==
    ASSUME NEW k \in Nat
    PROVE  IsFiniteSet(1..k) /\ Cardinality(1..k) = k
<1>1. IsFiniteSet(1..k) /\ Cardinality(1..k) = IF 1 > k THEN 0 ELSE k - 1 + 1
  BY FS_Interval
<1> QED
  BY <1>1

\* An export has at most a row for each period of the school week.
LEMMA FilledSize ==
    ASSUME NEW class
    PROVE  /\ IsFiniteSet({1} \X Filled(class))
           /\ Cardinality({1} \X Filled(class)) <= MaxImportRows
<1> DEFINE n == Len(WeekNames)
           m == MaxPeriodNumber
           W == Days \X (1..m)
<1>0. n \in Nat /\ m \in Nat /\ Days = 1..n /\ n * m <= MaxImportRows
      /\ MaxImportRows \in Nat
  BY NamesOfDays, SchedulesAssumption
<1> HIDE DEF n, m
<1>1. IsFiniteSet(Days) /\ Cardinality(Days) = n
  BY <1>0, UpTo
<1>2. IsFiniteSet(1..m) /\ Cardinality(1..m) = m
  BY <1>0, UpTo
<1>3. IsFiniteSet(W) /\ Cardinality(W) = n * m
  BY <1>1, <1>2, FS_Product
<1>4. Filled(class) \in SUBSET W
  BY DEF Filled, m
<1> HIDE DEF W
<1>5. IsFiniteSet(Filled(class)) /\ Cardinality(Filled(class)) <= n * m
  BY <1>3, <1>4, FS_Subset
<1>6. IsFiniteSet({1}) /\ Cardinality({1}) = 1
  BY FS_Singleton
<1>7. /\ IsFiniteSet({1} \X Filled(class))
      /\ Cardinality({1} \X Filled(class)) = 1 * Cardinality(Filled(class))
  BY <1>5, <1>6, FS_Product
<1>8. Cardinality(Filled(class)) \in Nat
  BY <1>5, FS_CardinalityType
<1> QED
  BY <1>0, <1>5, <1>7, <1>8

\* A week that is stored passes through its export unchanged.
LEMMA WeekExported ==
    ASSUME NEW class \in Classes, Week(StoredFor(class), class),
           StoredFor(class) # {}
    PROVE  /\ WorkbookOK(Export(class), class)
           /\ Imported(Export(class)) = StoredFor(class)
<1> DEFINE book == Export(class)
           rows == DataRows(book)
           D == {1} \X Filled(class)
           S == StoredFor(class)
<1>0. /\ DOMAIN book = {1} /\ HeaderFound(book[1]) /\ HeaderComplete(book[1])
      /\ \A j \in DOMAIN book[1].rows : ~book[1].rows[j].formula
      /\ rows = [q \in D |-> Grid(class, q[2][1], q[2][2])]
  BY ExportedRows
<1>1. \A q \in D : /\ q = <<1, q[2]>> /\ q[2] = <<q[2][1], q[2][2]>>
                   /\ q[2][1] \in Days /\ q[2][2] \in 1..MaxPeriodNumber
                   /\ \E x \in S : Rank[x.day] = q[2][1] /\ x.period = q[2][2]
  BY DEF Filled
<1>2. ASSUME NEW x \in S
      PROVE  \E q \in D : Rank[x.day] = q[2][1] /\ x.period = q[2][2]
  <2>1. Rank[x.day] \in Days /\ x.period \in 1..MaxPeriodNumber
    BY DEF Week
  <2>2. <<Rank[x.day], x.period>> \in Filled(class)
    BY <2>1 DEF Filled
  <2>3. <<1, <<Rank[x.day], x.period>>>> \in D
    BY <2>2
  <2> QED
    BY <2>3
<1> HIDE DEF book, rows, S
<1>3. DOMAIN rows = D /\ \A q \in D : rows[q] = Grid(class, q[2][1], q[2][2])
  BY <1>0
<1>4. \A q \in D :
        /\ rows[q].class = class /\ rows[q].day = WeekNames[q[2][1]]
        /\ rows[q].period = q[2][2]
        /\ \A x \in S : Rank[x.day] = q[2][1] /\ x.period = q[2][2] =>
             rows[q].subject = x.subject /\ x = Stored(class, rows[q])
  BY <1>1, <1>3, GridFacts DEF S
<1>5. \A q \in D : Rank[rows[q].day] = q[2][1] /\ rows[q].day \in DOMAIN Rank
  BY <1>1, <1>4, NamesOfDays
<1> HIDE DEF D
<1>6. D # {}
  BY <1>2 DEF S
<1>7. ClassesOf(rows) = {class}
  BY <1>3, <1>4, <1>6 DEF ClassesOf
<1>8. OfClass(rows, class) = rows
  <2>1. {p \in DOMAIN rows : rows[p].class = class} = DOMAIN rows
    BY <1>3, <1>4
  <2>2. OfClass(rows, class) = [p \in D |-> rows[p]]
    BY <1>3, <2>1 DEF OfClass, Restrict
  <2>3. rows = [p \in D |-> rows[p]]
    BY <1>0, <1>3
  <2> QED
    BY <2>2, <2>3
<1>9. \A x \in S : x.subject # 0
  BY DEF Week, S
<1>10. \A q \in D : PeriodOK(rows[q])
  <2> SUFFICES ASSUME NEW q \in D PROVE PeriodOK(rows[q])
    OBVIOUS
  <2>1. PICK x \in S : Rank[x.day] = q[2][1] /\ x.period = q[2][2]
    BY <1>1
  <2>2. rows[q].subject = x.subject /\ rows[q].period \in 1..MaxPeriodNumber
    BY <1>1, <1>4, <2>1
  <2>3. Rank[rows[q].day] # 0
    BY <1>1, <1>5, NamesOfDays
  <2> QED
    BY <1>5, <1>9, <2>2, <2>3 DEF PeriodOK
<1>11. ASSUME NEW p \in D, NEW q \in D, p # q PROVE ~Twice(rows[p], rows[q])
  <2>1. CASE Twice(rows[p], rows[q])
    <3>1. p[2][1] = q[2][1] /\ p[2][2] = q[2][2]
      BY <1>4, <1>5, <2>1 DEF Twice
    <3>2. p[2] = q[2]
      BY <1>1, <3>1
    <3>3. p = q
      BY <1>1, <3>2
    <3> QED
      BY <1>11, <3>3
  <2> QED
    BY <2>1
<1>12. ASSUME NEW d \in Days,
              {rows[i].period : i \in {j \in DOMAIN rows : Rank[rows[j].day] = d}} # {}
       PROVE  ~DayPeriodsProblem({rows[i].period :
                 i \in {j \in DOMAIN rows : Rank[rows[j].day] = d}})
  <2> DEFINE M == {rows[i].period : i \in {j \in DOMAIN rows : Rank[rows[j].day] = d}}
             N == {x.period : x \in {y \in S : Rank[y.day] = d}}
  <2>1. ASSUME NEW n \in M PROVE n \in N
    <3>1. PICK q \in D : Rank[rows[q].day] = d /\ n = rows[q].period
      BY <1>3
    <3>2. PICK x \in S : Rank[x.day] = q[2][1] /\ x.period = q[2][2]
      BY <1>1
    <3>3. x.period = n /\ Rank[x.day] = d
      BY <1>4, <1>5, <3>1, <3>2
    <3> QED
      BY <3>3
  <2>2. ASSUME NEW n \in N PROVE n \in M
    <3>1. PICK x \in S : Rank[x.day] = d /\ n = x.period
      OBVIOUS
    <3>2. PICK q \in D : Rank[x.day] = q[2][1] /\ x.period = q[2][2]
      BY <1>2
    <3>3. rows[q].period = n /\ Rank[rows[q].day] = d
      BY <1>4, <1>5, <3>1, <3>2
    <3> QED
      BY <1>3, <3>3
  <2>3. M = N
    BY <2>1, <2>2
  <2>4. N # {} => ~DayPeriodsProblem(N)
    BY Zenon DEF Week, S
  <2> QED
    BY <1>12, <2>3, <2>4
<1>13. WeekOK(rows)
  BY <1>3, <1>10, <1>11, <1>12, Zenon DEF WeekOK
<1>14. StoredRows(class, rows) = S
  <2>1. StoredRows(class, rows) = {Stored(class, rows[q]) : q \in D}
    BY <1>3 DEF StoredRows
  <2>2. ASSUME NEW q \in D PROVE Stored(class, rows[q]) \in S
    BY <1>1, <1>4
  <2>3. ASSUME NEW x \in S PROVE \E q \in D : x = Stored(class, rows[q])
    BY <1>2, <1>4
  <2> QED
    BY <2>1, <2>2, <2>3
<1>15. Imported(book) = S
  <2>1. Imported(book) = UNION {StoredRows(c, OfClass(rows, c)) : c \in ClassesOf(rows)}
    BY DEF Imported, rows
  <2>2. {StoredRows(c, OfClass(rows, c)) : c \in {class}} = {S}
    BY <1>8, <1>14
  <2> QED
    BY <1>7, <2>1, <2>2
<1>16. WorkbookOK(book, class)
  <2>1. Cardinality(DOMAIN rows) <= MaxImportRows
    BY <1>3, FilledSize DEF D
  <2>2. Cardinality(ClassesOf(rows)) <= MaxImportClasses
    <3>1. Cardinality({class}) = 1
      BY FS_Singleton
    <3>2. MaxImportClasses \in Nat /\ MaxImportClasses > 0
      BY SchedulesAssumption
    <3> QED
      BY <1>7, <3>1, <3>2
  <2>3. \A i \in DOMAIN rows : rows[i].class \in Classes
    BY <1>3, <1>4
  <2>4. \A c \in ClassesOf(rows) : ImportWeekOK(OfClass(rows, c))
    BY <1>7, <1>8, <1>13, SameRules
  <2> DEFINE sheets == {i \in DOMAIN book : HeaderFound(book[i])}
  <2>5. sheets = {1}
    BY <1>0
  <2>6. /\ sheets # {}
        /\ \A i \in sheets : /\ HeaderComplete(book[i])
                             /\ \A j \in DOMAIN book[i].rows : ~book[i].rows[j].formula
    BY <1>0, <2>5
  <2> HIDE DEF sheets
  <2> QED
    BY <1>7, <2>1, <2>2, <2>3, <2>4, <2>6, Zenon DEF WorkbookOK, sheets, rows
<1> QED
  BY <1>15, <1>16 DEF book, S

-----------------------------------------------------------------------------
(* Only weeks are saved                                                    *)

\* A save brings a week for each of its classes.
Brings(rec) ==
    rec.kind = "schedule" => \A class \in rec.input.todo :
        Week({row \in rec.input.rows : row.class = class}, class)

\* What has been saved since the start, or is about to be, are weeks.
WeeksInv ==
    /\ replaced \subseteq Classes
    /\ \A class \in replaced : Week(latest[class], class)
    /\ \A r \in Requests : Brings(req[r])

\* A request goes on, and saves nothing yet.
LEMMA WeeksGo ==
    ASSUME BannersInv, WeeksInv, NEW r \in Requests, NEW rec, Goes(r, rec),
           Brings(rec), UNCHANGED <<latest, replaced>>
    PROVE  WeeksInv'
<1>1. \A u \in Requests : req'[u] = IF u = r THEN rec ELSE req[u]
  BY DEF Goes, BannersInv
<1>2. \A u \in Requests : Brings(req'[u])
  BY <1>1 DEF WeeksInv
<1>3. /\ replaced' \subseteq Classes
      /\ \A class \in replaced' : Week(latest'[class], class)
  BY DEF WeeksInv
<1> QED
  BY <1>2, <1>3 DEF WeeksInv, Brings

LEMMA IdleBrings == Brings(Idle)
  BY DEF Brings, Idle

\* A request that keeps what it was asked for brings what it brought.
LEMMA SameBrings ==
    ASSUME WeeksInv, NEW r \in Requests, NEW rec, rec.kind = req[r].kind,
           rec.kind = "schedule" => rec.input = req[r].input
    PROVE  Brings(rec)
<1>1. Brings(req[r])
  BY DEF WeeksInv
<1> QED
  BY <1>1 DEF Brings

LEMMA StoredClass ==
    ASSUME NEW rows, NEW class
    PROVE  \A x \in StoredRows(class, rows) : x.class = class
  BY DEF StoredRows, Stored

LEMMA WritesBrings ==
    ASSUME NEW todo, NEW rows, NEW dry,
           \A class \in todo : Week({row \in rows : row.class = class}, class)
    PROVE  Brings(Writes(todo, rows, dry))
<1> DEFINE rec == Writes(todo, rows, dry)
<1>1. rec.input.todo = todo /\ rec.input.rows = rows
  BY DEF Writes
<1> HIDE DEF rec
<1>2. Brings(rec)
  BY <1>1 DEF Brings
<1> QED
  BY <1>2 DEF rec

\* The form brings the week it was checked for.
LEMMA FormBrings ==
    ASSUME BannersInv, WeeksInv, NEW r \in Requests, BeginSchedule(r)
    PROVE  WeeksInv'
<1>1. PICK class \in Classes, periods \in Lists :
        IF ValidateScheduleRequest(periods)
        THEN Goes(r, Writes({class}, StoredRows(class, periods), FALSE))
        ELSE Done(r)
  BY DEF BeginSchedule
<1>2. UNCHANGED <<latest, replaced>>
  BY DEF BeginSchedule, timetable
<1>3. CASE ~ValidateScheduleRequest(periods)
  BY <1>1, <1>2, <1>3, IdleBrings, WeeksGo DEF Done
<1>4. CASE ValidateScheduleRequest(periods)
  <2> DEFINE S == StoredRows(class, periods)
  <2>1. Week(S, class)
    BY <1>4, WeekStored DEF ValidateScheduleRequest
  <2>2. \A x \in S : x.class = class
    BY StoredClass
  <2>3. Goes(r, Writes({class}, S, FALSE))
    BY <1>1, <1>4
  <2> HIDE DEF S
  <2>4. {row \in S : row.class = class} = S
    BY <2>2
  <2>5. \A c \in {class} : Week({row \in S : row.class = c}, c)
    BY <2>1, <2>4
  <2>6. Brings(Writes({class}, S, FALSE))
    BY <2>5, WritesBrings
  <2> QED
    BY <1>2, <2>3, <2>6, WeeksGo
<1> QED
  BY <1>3, <1>4

\* A workbook brings one for each of its classes.
LEMMA ImportBrings ==
    ASSUME BannersInv, WeeksInv, NEW r \in Requests, BeginImport(r)
    PROVE  WeeksInv'
<1>1. PICK parts \in Uploads :
        LET book == PartValue(parts, "file", <<>>)
            dry == PartValue(parts, "dry_run", "false")
        IN  IF /\ ReadFormParts(parts, PartLimits)
               /\ dry \in {"true", "false"}
               /\ ClassGuard(parts)
               /\ WorkbookOK(book, Only(parts))
            THEN Goes(r, Writes(ClassesOf(DataRows(book)), Imported(book),
                                dry = "true"))
            ELSE Done(r)
  BY Zenon DEF BeginImport
<1>2. UNCHANGED <<latest, replaced>>
  BY DEF BeginImport, timetable
<1> DEFINE book == PartValue(parts, "file", <<>>)
           dry == PartValue(parts, "dry_run", "false")
           rows == DataRows(book)
           S(class) == StoredRows(class, OfClass(rows, class))
<1>3. CASE Done(r)
  BY <1>2, <1>3, IdleBrings, WeeksGo DEF Done
<1>4. CASE ~Done(r)
  <2>1. /\ WorkbookOK(book, Only(parts))
        /\ Goes(r, Writes(ClassesOf(rows), Imported(book), dry = "true"))
    BY <1>1, <1>4, Zenon
  <2> HIDE DEF dry
  <2>2. \A class \in ClassesOf(rows) : ImportWeekOK(OfClass(rows, class))
    BY <2>1, Zenon DEF WorkbookOK
  <2>3. Imported(book) = UNION {S(class) : class \in ClassesOf(rows)}
    BY DEF Imported
  <2> HIDE DEF book, rows
  <2>4. ASSUME NEW class \in ClassesOf(rows) PROVE Week(S(class), class)
    BY <2>2, SameRules, WeekStored
  <2>5. ASSUME NEW class, NEW x \in S(class) PROVE x.class = class
    BY StoredClass
  <2> HIDE DEF S
  <2>6. ASSUME NEW class \in ClassesOf(rows)
        PROVE  {row \in Imported(book) : row.class = class} = S(class)
    BY <2>3, <2>5
  <2>7. \A class \in ClassesOf(rows) :
          Week({row \in Imported(book) : row.class = class}, class)
    BY <2>4, <2>6
  <2>8. Brings(Writes(ClassesOf(rows), Imported(book), dry = "true"))
    BY <2>7, WritesBrings
  <2> QED
    BY <1>2, <2>1, <2>8, WeeksGo
<1> QED
  BY <1>3, <1>4

\* The commit makes what was brought the last save of its classes.
LEMMA CommitBrings ==
    ASSUME BannersInv, WeeksInv, NEW r \in Requests, CommitSchedule(r)
    PROVE  WeeksInv'
<1> DEFINE a == req[r]
<1>1. /\ a.kind = "schedule" /\ Form(a) /\ Brings(a)
      /\ latest' = [class \in Classes |->
           IF class \in a.input.todo
           THEN {row \in a.input.rows : row.class = class}
           ELSE latest[class]]
      /\ replaced' = replaced \cup a.input.todo
      /\ Goes(r, Idle)
  BY DEF CommitSchedule, Done, BannersInv, WeeksInv
<1>2. a.input.todo \subseteq Classes
  BY <1>1 DEF Form, SaveShape
<1>3. \A u \in Requests : req'[u] = IF u = r THEN Idle ELSE req[u]
  BY <1>1 DEF Goes, BannersInv
<1>4. \A u \in Requests : Brings(req'[u])
  BY <1>3, IdleBrings DEF WeeksInv
<1> HIDE DEF a
<1>5. ASSUME NEW class \in replaced' PROVE class \in Classes /\ Week(latest'[class], class)
  <2>1. class \in Classes
    BY <1>1, <1>2 DEF WeeksInv
  <2>2. CASE class \in a.input.todo
    BY <1>1, <2>1, <2>2 DEF Brings
  <2>3. CASE class \notin a.input.todo
    <3>1. class \in replaced /\ latest'[class] = latest[class]
      BY <1>1, <2>1, <2>3
    <3> QED
      BY <2>1, <3>1 DEF WeeksInv
  <2> QED
    BY <2>1, <2>2, <2>3
<1> QED
  BY <1>4, <1>5 DEF WeeksInv, Brings

\* The steps of a save between its start and its commit.
LEMMA SaveBrings ==
    ASSUME BannersInv, WeeksInv, NEW r \in Requests,
           LockSchedules(r) \/ ReplaceClassSchedule(r) \/ EndReplace(r) \/ Abort(r)
    PROVE  WeeksInv'
<1>1. UNCHANGED <<latest, replaced>>
  BY DEF LockSchedules, ReplaceClassSchedule, EndReplace, Abort, timetable
<1>2. Form(req[r])
  BY DEF BannersInv
<1>3. CASE Done(r)
  BY <1>1, <1>3, IdleBrings, WeeksGo DEF Done
<1>4. CASE \E p : Goes(r, [req[r] EXCEPT !.pc = p])
  <2>1. PICK p : Goes(r, [req[r] EXCEPT !.pc = p])
    BY <1>4
  <2> DEFINE rec == [req[r] EXCEPT !.pc = p]
  <2>2. rec.kind = req[r].kind /\ rec.input = req[r].input
    BY <1>2, OnlyPc DEF Form
  <2>3. Goes(r, rec)
    BY <2>1
  <2> HIDE DEF rec
  <2> QED
    BY <1>1, <2>2, <2>3, SameBrings, WeeksGo
<1>5. CASE ReplaceClassSchedule(r)
  <2> DEFINE a == req[r]
             class == FirstOf(a.work.todo)
             rec == [a EXCEPT
               !.work.todo = @ \ {class},
               !.work.doomed = @ \cup StoredFor(class),
               !.work.added = @ \cup {row \in a.input.rows : row.class = class}]
  <2>1. Goes(r, rec)
    BY <1>5 DEF ReplaceClassSchedule
  <2>2. Shape(a)
    BY <1>2 DEF Form
  <2>3. rec.kind = a.kind /\ rec.input = a.input
    <3> HIDE DEF class, a
    <3> QED
      BY <2>2 DEF Shape
  <2> HIDE DEF rec
  <2> QED
    BY <1>1, <2>1, <2>3, SameBrings, WeeksGo
<1> QED
  BY <1>3, <1>4, <1>5, Zenon DEF LockSchedules, EndReplace, Abort

\* The steps of banners bring no schedule.
LEMMA BannerBrings ==
    ASSUME BannersInv, WeeksInv, NEW r \in Requests, BannerStep(r)
    PROVE  WeeksInv'
<1> DEFINE a == req[r]
<1>0. Form(a) /\ Shape(a)
  BY DEF BannersInv, Form
<1>1. UNCHANGED <<latest, replaced>>
  BY DEF BannerStep, BeginCreate, BeginUpdate, InsertBanner, UpdateBanner,
         SaveBannerImage, CommitBanner, DeleteBanner, timetable
<1>2. ASSUME NEW rec, Goes(r, rec), rec.kind # "schedule" PROVE WeeksInv'
  BY <1>1, <1>2, WeeksGo DEF Brings
<1>3. CASE Done(r)
  BY <1>1, <1>3, IdleBrings, WeeksGo DEF Done
<1>4. CASE BeginCreate(r) \/ BeginUpdate(r)
  <2>1. \A kind \in {"create", "update"} : \A parts, id :
          Upload(kind, parts, id).kind # "schedule"
    BY DEF Upload
  <2>2. CASE BeginCreate(r)
    <3>1. PICK parts : Goes(r, Upload("create", parts, 0)) \/ Done(r)
      BY <2>2, Zenon DEF BeginCreate
    <3> QED
      BY <1>2, <1>3, <2>1, <3>1
  <2>3. CASE BeginUpdate(r)
    <3>1. PICK parts, id : Goes(r, Upload("update", parts, id)) \/ Done(r)
      BY <2>3, Zenon DEF BeginUpdate
    <3> QED
      BY <1>2, <1>3, <2>1, <3>1
  <2> QED
    BY <1>4, <2>2, <2>3
<1>5. CASE InsertBanner(r)
  <2> DEFINE rec == [a EXCEPT !.pc = "image", !.input.id = lastBanner + 1,
                              !.work.banner = Apply(NewBanner, a.input.parts)]
  <2>1. Goes(r, rec) /\ a.kind = "create"
    BY <1>5 DEF InsertBanner
  <2>2. rec.kind = a.kind
    <3> HIDE DEF a
    <3> QED
      BY <1>0 DEF Shape
  <2> HIDE DEF rec
  <2> QED
    BY <1>2, <2>1, <2>2
<1>6. CASE UpdateBanner(r)
  <2> DEFINE b == Apply(banners[a.input.id], a.input.parts)
             rec == [a EXCEPT !.pc = "image", !.work.banner = b]
  <2>1. (Goes(r, rec) \/ Done(r)) /\ a.kind = "update"
    BY <1>6, Zenon DEF UpdateBanner
  <2>2. rec.kind = a.kind
    <3> HIDE DEF a, b
    <3> QED
      BY <1>0 DEF Shape
  <2> HIDE DEF rec
  <2> QED
    BY <1>2, <1>3, <2>1, <2>2
<1>7. CASE SaveBannerImage(r)
  <2> DEFINE old == images[a.input.id]
             i == IF Sent(a.input.parts, "image")
                  THEN Saved(old, PartValue(a.input.parts, "image", "")) ELSE old
             rec == [a EXCEPT !.pc = "commit", !.work.image = i]
  <2>1. Goes(r, rec) /\ a.kind \in {"create", "update"}
    BY <1>7 DEF SaveBannerImage
  <2>2. rec.kind = a.kind
    <3> HIDE DEF a, i
    <3> QED
      BY <1>0 DEF Shape
  <2> HIDE DEF rec
  <2> QED
    BY <1>2, <2>1, <2>2
<1>8. CASE CommitBanner(r)
  BY <1>3, <1>8 DEF CommitBanner
<1>9. CASE \E id \in BannerIds : DeleteBanner(r, id)
  <2>1. UNCHANGED req
    BY <1>9 DEF DeleteBanner
  <2> QED
    BY <1>1, <2>1 DEF WeeksInv, Brings
<1> QED
  BY <1>4, <1>5, <1>6, <1>7, <1>8, <1>9 DEF BannerStep

LEMMA WeeksStep ==
    BannersInv /\ WeeksInv /\ [BannersNext]_allVars => WeeksInv'
<1> SUFFICES ASSUME BannersInv, WeeksInv, [BannersNext]_allVars PROVE WeeksInv'
  OBVIOUS
<1>1. ASSUME UNCHANGED <<req, latest, replaced>> PROVE WeeksInv'
  BY <1>1 DEF WeeksInv, Brings
<1>2. CASE ListBanners \/ UNCHANGED allVars
  BY <1>1, <1>2 DEF ListBanners, allVars, vars, timetable
<1>3. ASSUME NEW client \in Clients, NEW id \in BannerIds, LoadPicture(client, id)
      PROVE  WeeksInv'
  BY <1>1, <1>3 DEF LoadPicture, vars, timetable
<1>4. ASSUME NEW r \in Requests, ScheduleStep(r) PROVE WeeksInv'
  BY <1>4, FormBrings, ImportBrings, SaveBrings, CommitBrings DEF ScheduleStep
<1>5. ASSUME NEW class \in Classes, EditTaught(class) PROVE WeeksInv'
  BY <1>1, <1>5 DEF EditTaught, timetable
<1>6. CASE Answered
  BY <1>1, <1>6 DEF Answered, vars, timetable
<1> QED
  BY <1>2, <1>3, <1>4, <1>5, <1>6, BannerBrings DEF BannersNext, ScheduleNext

LEMMA WeeksInit == BannersInit => WeeksInv
<1> SUFFICES ASSUME BannersInit PROVE WeeksInv
  OBVIOUS
<1>1. replaced = {} /\ \A r \in Requests : req[r] = Idle
  BY DEF BannersInit, ScheduleInit
<1> QED
  BY <1>1, IdleBrings DEF WeeksInv

\* Whatever week the form or an import has let in, for any school week, limits
\* and classes: the workbook AdminScheduleExportHandler writes of it is one
\* that readScheduleWorkbook accepts, and importing it stores the same rows.
THEOREM ExportSafe == BannersSpec => []ExportRoundTrip
<1>1. BannersInv /\ WeeksInv /\ [BannersNext]_allVars => BannersInv' /\ WeeksInv'
  BY StepKeeps, WeeksStep
<1>2. BannersInv /\ WeeksInv => ExportRoundTrip
  <2> SUFFICES ASSUME BannersInv, WeeksInv, NEW class \in replaced,
                      StoredFor(class) # {}
               PROVE  /\ WorkbookOK(Export(class), class)
                      /\ Imported(Export(class)) = StoredFor(class)
    BY Zenon DEF ExportRoundTrip
  <2>1. class \in Classes /\ Week(latest[class], class)
    BY DEF WeeksInv
  <2>2. StoredFor(class) = latest[class]
    BY <2>1 DEF BannersInv, SchedulesInv, SavesAreWhole
  <2>3. Week(StoredFor(class), class)
    BY <2>1, <2>2
  <2> QED
    BY <2>1, <2>3, WeekExported
<1> QED
  BY <1>1, <1>2, InitKeeps, WeeksInit, PTL DEF BannersSpec
=============================================================================
