---------------------------- MODULE ParentAccount ----------------------------
(***************************************************************************)
(* Parents, their phones and their children: registration of device tokens *)
(* (handlers/mobile.go), the push switch and the deletion of the account   *)
(* (handlers/parent_account.go), and the admin's student writes, which     *)
(* create parents and replace PINs (handlers/admin.go).                    *)
(*                                                                         *)
(* All of them are READ COMMITTED transactions, or single statements, that *)
(* meet only in row locks.  A transaction is split into its statements; a  *)
(* statement that waits for a row is a step whose guard is that the row is *)
(* free, and the writes are applied by the commit.  The foreign keys are   *)
(* left out: the code is shown never to lean on their errors.              *)
(***************************************************************************)
EXTENDS Integers, FiniteSets

CONSTANTS
    Txs,         \* requests served at once
    Parents, Tokens, Students,
    NoParent,
    FirstParents,  \* the parents that exist at the start
    Cap,         \* MaxDeviceTokensPerParent
    MaxStarts,   \* bound: registrations ever begun
    MaxVersion   \* bound: PIN changes of one parent

ASSUME ParentAssumption ==
    /\ Cap \in Nat \ {0} /\ MaxStarts \in Nat /\ MaxVersion \in Nat
    /\ FirstParents \subseteq Parents
    /\ NoParent \notin Parents

VARIABLES
    state,    \* [Parents -> "new", "live" or "gone"]: the row's life
    push,     \* parents.push_enabled
    version,  \* parents.session_version
    devices,  \* the rows of device_tokens: [id, token, parent, seen]
    link,     \* students.parent_id
    active,   \* students.is_active
    clock,    \* the transaction clock registrations are stamped with
    tx,       \* each request's transaction
    locks     \* the row locks each holds

rowVars == <<state, push, version, devices, link, active>>
vars == <<rowVars, clock, tx, locks>>

Idle == [kind |-> "none", pc |-> "idle", parent |-> NoParent, token |-> 0,
         on |-> FALSE, student |-> 0, start |-> 0, doomed |-> {}, listed |-> {}]

TypeOK ==
    /\ state \in [Parents -> {"new", "live", "gone"}]
    /\ push \in [Parents -> BOOLEAN]
    /\ version \in [Parents -> 0..MaxVersion]
    /\ devices \subseteq [id : 1..MaxStarts, token : Tokens, parent : Parents,
                          seen : 1..MaxStarts]
    /\ link \in [Students -> Parents \cup {NoParent}]
    /\ active \in [Students -> BOOLEAN]
    /\ clock \in 0..MaxStarts

Init ==
    /\ state = [p \in Parents |-> IF p \in FirstParents THEN "live" ELSE "new"]
    /\ push = [p \in Parents |-> TRUE]
    /\ version = [p \in Parents |-> 0]
    /\ devices = {}
    /\ link \in [Students -> FirstParents \cup {NoParent}]
    /\ active = [s \in Students |-> TRUE]
    /\ clock = 0
    /\ tx = [t \in Txs |-> Idle]
    /\ locks = [t \in Txs |-> {}]

-----------------------------------------------------------------------------

\* FOR SHARE, and what UPDATE, DELETE and FOR UPDATE take.
Share(p) == <<"parent", p, "share">>
Update(p) == <<"parent", p, "update">>
TokenRow(k) == <<"token", k>>
StudentRow(s) == <<"student", s>>

Free(t, row) == \A u \in Txs \ {t} : row \notin locks[u]
Unheld(row) == \A u \in Txs : row \notin locks[u]

\* registerDeviceToken without FOR SHARE.
MutCanShare(t, p) == TRUE

CanShare(t, p) == Free(t, Update(p))
CanUpdate(t, p) == Free(t, Share(p)) /\ Free(t, Update(p))

Devices(p) == {d \in devices : d.parent = p}
DevicesFree(t, p) == \A d \in Devices(p) : Free(t, TokenRow(d.token))
DeviceLocks(p) == {TokenRow(d.token) : d \in Devices(p)}
Ids(rows) == {d.id : d \in rows}

Step(t, rec, rows) ==
    /\ tx' = [tx EXCEPT ![t] = rec]
    /\ locks' = [locks EXCEPT ![t] = @ \cup rows]
    /\ UNCHANGED <<rowVars, clock>>

Over(t) ==
    /\ tx' = [tx EXCEPT ![t] = Idle]
    /\ locks' = [locks EXCEPT ![t] = {}]

\* The handler answers without writing (the parent is gone, a failed
\* statement, a lost client, a deadlock victim).
GiveUp(t) == Over(t) /\ UNCHANGED <<rowVars, clock>>

-----------------------------------------------------------------------------
(* A request has passed AuthMiddleware (or login's PIN check): its parent  *)
(* existed then, with the session's version.  Nothing is locked yet.       *)

Begin(t) ==
    /\ tx[t].pc = "idle"
    /\ \E p \in Parents :
         /\ state[p] = "live"
         /\ \/ \E k \in Tokens :
                 Step(t, [Idle EXCEPT !.kind = "register", !.pc = "begin",
                            !.parent = p, !.token = k], {})
            \/ \E on \in BOOLEAN :
                 Step(t, [Idle EXCEPT !.kind = "settings", !.pc = "parent",
                            !.parent = p, !.on = on], {})
            \/ Step(t, [Idle EXCEPT !.kind = "delete", !.pc = "parent",
                          !.parent = p], {})

\* An admin saves a student, with or without a PIN for the parent.
BeginStudent(t) ==
    /\ tx[t].pc = "idle"
    /\ \E s \in Students, pin \in BOOLEAN :
         Step(t, [Idle EXCEPT !.kind = "student", !.pc = "resolve",
                    !.student = s, !.on = pin], {})

-----------------------------------------------------------------------------
(* registerDeviceToken *)

\* CURRENT_TIMESTAMP is the start of the transaction.
BeginTx(t) ==
    /\ tx[t].pc = "begin" /\ clock < MaxStarts
    /\ clock' = clock + 1
    /\ tx' = [tx EXCEPT ![t].pc = "share", ![t].start = clock + 1]
    /\ UNCHANGED <<rowVars, locks>>

ShareParent(t) ==
    LET rec == tx[t]
    IN  /\ rec.pc = "share" /\ CanShare(t, rec.parent)
        /\ IF state[rec.parent] = "live"
           THEN Step(t, [rec EXCEPT !.pc = "token", !.on = push[rec.parent]],
                     {Share(rec.parent)})
           ELSE GiveUp(t)

\* The upsert, or with push off the DELETE, of the token: the unique index
\* makes both wait for another transaction's row of the token.
TakeToken(t) ==
    LET rec == tx[t]
    IN  /\ rec.pc = "token" /\ Free(t, TokenRow(rec.token))
        /\ Step(t, IF rec.on THEN [rec EXCEPT !.pc = "evict"]
                   ELSE [rec EXCEPT !.pc = "commit",
                           !.doomed = Ids({d \in devices : d.token = rec.token})],
                {TokenRow(rec.token)})

\* The row the upsert leaves: a known token keeps its id.
Upserted(rec) ==
    LET old == {d \in devices : d.token = rec.token}
    IN  [id |-> IF old = {} THEN rec.start ELSE CHOOSE i \in Ids(old) : TRUE,
         token |-> rec.token, parent |-> rec.parent, seen |-> rec.start]

\* device_tokens as the registering transaction sees it.
Own(rec) == {d \in devices : d.token # rec.token} \cup {Upserted(rec)}

\* The parent's rows beyond the Cap most recently seen.
Beyond(rec) ==
    LET mine == {d \in Own(rec) : d.parent = rec.parent}
    IN  {d \in mine : Cardinality({e \in mine : e.seen > d.seen}) >= Cap}

\* The eviction's subquery fixes the ids; ...
Evict(t) ==
    /\ tx[t].pc = "evict"
    /\ Step(t, [tx[t] EXCEPT !.pc = "wait", !.doomed = Ids(Beyond(tx[t]))], {})

Victims(rec) == {d \in devices : d.id \in rec.doomed}

\* ... a row that another transaction holds is awaited and, if it is still
\* there, deleted, whoever it belongs to by then.
LockVictims(t) ==
    LET rows == {TokenRow(d.token) : d \in Victims(tx[t])}
    IN  /\ tx[t].pc = "wait" /\ \A row \in rows : Free(t, row)
        /\ Step(t, [tx[t] EXCEPT !.pc = "commit"], rows)

Kept(rows, rec) == {d \in rows : d.id \notin rec.doomed}

CommitRegister(t) ==
    LET rec == tx[t]
    IN  /\ rec.pc = "commit" /\ rec.kind = "register"
        /\ devices' = Kept(IF rec.on THEN Own(rec) ELSE devices, rec)
        /\ Over(t)
        /\ UNCHANGED <<state, push, version, link, active, clock>>

-----------------------------------------------------------------------------
(* NotificationSettingsHandler and AccountDeleteHandler *)

\* The UPDATE of push_enabled, or the SELECT ... FOR UPDATE; a wrong PIN is
\* GiveUp's.
LockParent(t) ==
    LET rec == tx[t]
    IN  /\ rec.pc = "parent" /\ CanUpdate(t, rec.parent)
        /\ IF state[rec.parent] # "live" THEN GiveUp(t)
           ELSE Step(t, [rec EXCEPT !.pc =
                           CASE rec.kind = "delete" -> "unlink"
                             [] rec.kind = "settings" /\ rec.on -> "commit"
                             [] OTHER -> "tokens"],
                     {Update(rec.parent)})

\* Only the active students are unlinked.
MutLinked(p) == {s \in Students : link[s] = p /\ active[s]}

Linked(p) == {s \in Students : link[s] = p}

\* unlinkStudents
Unlink(t) ==
    LET rec == tx[t]
    IN  /\ rec.pc = "unlink"
        /\ \A s \in Linked(rec.parent) : Free(t, StudentRow(s))
        /\ Step(t, [rec EXCEPT !.pc = "tokens", !.listed = Linked(rec.parent)],
                {StudentRow(s) : s \in Linked(rec.parent)})

\* DELETE FROM device_tokens WHERE parent_id, or the cascade of the parent's
\* deletion.  Nobody can add a row while the parent is locked, so the rows
\* are the ones left once the held ones are free.
DropTokens(t) ==
    LET rec == tx[t]
    IN  /\ rec.pc = "tokens" /\ DevicesFree(t, rec.parent)
        /\ Step(t, [rec EXCEPT !.doomed = Ids(Devices(rec.parent)), !.pc =
                      IF rec.kind = "student" THEN "student" ELSE "commit"],
                DeviceLocks(rec.parent))

CommitSettings(t) ==
    /\ tx[t].pc = "commit" /\ tx[t].kind = "settings"
    /\ push' = [push EXCEPT ![tx[t].parent] = tx[t].on]
    /\ devices' = Kept(devices, tx[t])
    /\ Over(t)
    /\ UNCHANGED <<state, version, link, active, clock>>

CommitDelete(t) ==
    LET rec == tx[t]
    IN  /\ rec.pc = "commit" /\ rec.kind = "delete"
        /\ state' = [state EXCEPT ![rec.parent] = "gone"]
        /\ link' = [s \in Students |-> IF s \in rec.listed THEN NoParent
                                       ELSE link[s]]
        /\ devices' = Kept(devices, rec)
        /\ Over(t)
        /\ UNCHANGED <<push, version, active, clock>>

-----------------------------------------------------------------------------
(* AdminStudentsHandler: POST and PUT with resolveParent, DELETE *)

\* The phone number is looked up under the row's lock: the UPDATE without a
\* PIN wants a parent, the upsert with one makes a parent or replaces its PIN.
ResolveParent(t) ==
    LET rec == tx[t]
    IN  /\ rec.pc = "resolve"
        /\ \/ ~rec.on /\ GiveUp(t)    \* errNewParentNeedsPIN
           \/ \E p \in Parents :
                /\ CanUpdate(t, p)
                /\ \/ state[p] = "live"
                   \/ state[p] = "new" /\ rec.on
                /\ rec.on => version[p] < MaxVersion
                /\ Step(t, [rec EXCEPT !.parent = p, !.pc =
                              IF rec.on THEN "tokens" ELSE "student"],
                        {Update(p)})

\* UPDATE students; its foreign key asks for no more than the parent's lock.
WriteStudent(t) ==
    LET rec == tx[t]
    IN  /\ rec.pc = "student" /\ Free(t, StudentRow(rec.student))
        /\ Step(t, [rec EXCEPT !.pc = "commit"], {StudentRow(rec.student)})

CommitStudent(t) ==
    LET rec == tx[t]
    IN  /\ rec.pc = "commit" /\ rec.kind = "student"
        /\ state' = [state EXCEPT ![rec.parent] = "live"]
        /\ version' = [version EXCEPT ![rec.parent] =
             IF rec.on /\ state[rec.parent] = "live" THEN @ + 1 ELSE @]
        /\ link' = [link EXCEPT ![rec.student] = rec.parent]
        /\ devices' = Kept(devices, rec)
        /\ Over(t)
        /\ UNCHANGED <<push, active, clock>>

DeleteStudent(s) ==
    /\ active[s] /\ Unheld(StudentRow(s))
    /\ active' = [active EXCEPT ![s] = FALSE]
    /\ UNCHANGED <<state, push, version, devices, link, clock, tx, locks>>

-----------------------------------------------------------------------------
(* Single statements *)

\* clearDeadToken, and RemoveDeviceTokenHandler for the row's own parent.
DeleteToken(k) ==
    /\ Unheld(TokenRow(k)) /\ \E d \in devices : d.token = k
    /\ devices' = {d \in devices : d.token # k}
    /\ UNCHANGED <<state, push, version, link, active, clock, tx, locks>>

\* A failed statement, a wrong PIN, a lost client, a deadlock victim.
Abort(t) == tx[t].pc # "idle" /\ GiveUp(t)

TxStep(t) ==
    \/ Begin(t) \/ BeginStudent(t)
    \/ BeginTx(t) \/ ShareParent(t) \/ TakeToken(t) \/ Evict(t)
    \/ LockVictims(t) \/ CommitRegister(t)
    \/ LockParent(t) \/ Unlink(t) \/ DropTokens(t)
    \/ CommitSettings(t) \/ CommitDelete(t)
    \/ ResolveParent(t) \/ WriteStudent(t) \/ CommitStudent(t)
    \/ Abort(t)

Next ==
    \/ \E t \in Txs : TxStep(t)
    \/ \E s \in Students : DeleteStudent(s)
    \/ \E k \in Tokens : DeleteToken(k)

Spec == Init /\ [][Next]_vars

-----------------------------------------------------------------------------

\* No device is registered to a parent who has push notifications off, for
\* no send path checks the setting, nor to a deleted account, and no student
\* (active or not) points to one: whatever registrations, switches, saves and
\* deletions overlapped.
NothingLeftBehind ==
    \A p \in Parents :
        /\ state[p] = "gone" \/ (state[p] = "live" /\ ~push[p]) =>
             Devices(p) = {}
        /\ state[p] = "gone" => \A s \in Students : link[s] # p

\* Replacing the PIN signs every phone out in the same step: no token of the
\* parent is left, not even one whose registration was under way.
SignOutClearsTokens ==
    [][\A p \in Parents : version'[p] # version[p] =>
         \A d \in devices' : d.parent # p]_vars
=============================================================================
