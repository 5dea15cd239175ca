------------------------ MODULE ParentAccountProofs ------------------------
(***************************************************************************)
(* What registrations, switches, deletions and PIN changes leave behind,   *)
(* for any number of requests, parents, phones and students.               *)
(*                                                                         *)
(* The argument is about the parent's row lock.  What a transaction has    *)
(* read or listed under it stays true until its commit: a registration's   *)
(* FOR SHARE keeps the parent live and its switch on, and under FOR UPDATE *)
(* no device and no student can be added to the parent.                    *)
(***************************************************************************)
EXTENDS ParentAccount, TLAPS

\* Which statements of which request follow each other.
PcOK(rec) ==
    \/ rec.kind = "none" /\ rec.pc = "idle"
    \/ /\ rec.kind = "register"
       /\ rec.pc \in {"begin", "share", "token", "evict", "wait", "commit"}
    \/ /\ rec.kind = "settings"
       /\ \/ rec.pc \in {"parent", "commit"}
          \/ rec.pc = "tokens" /\ ~rec.on
    \/ rec.kind = "delete" /\ rec.pc \in {"parent", "unlink", "tokens", "commit"}
    \/ /\ rec.kind = "student"
       /\ \/ rec.pc \in {"resolve", "student", "commit"}
          \/ rec.pc = "tokens" /\ rec.on

\* The parameters of a request.
ArgsOK(rec) ==
    /\ rec.kind \notin {"none", "student"} => rec.parent \in Parents
    /\ rec.kind = "student" => rec.student \in Students
    /\ rec.kind = "student" /\ rec.pc # "resolve" => rec.parent \in Parents
    /\ rec.kind = "register" => rec.token \in Tokens
    /\ rec.kind = "register" /\ rec.pc # "begin" => rec.start \in 1..MaxStarts

\* The transaction has locked the parent's row FOR SHARE, or for an update.
Shares(rec) ==
    rec.kind = "register" /\ rec.pc \in {"token", "evict", "wait", "commit"}
Updates(rec) ==
    \/ rec.pc \in {"unlink", "tokens", "student"}
    \/ rec.pc = "commit" /\ rec.kind # "register"

\* It has listed all devices of its parent for deletion.
Drops(rec) ==
    \/ rec.pc = "student" /\ rec.on
    \/ /\ rec.pc = "commit"
       /\ \/ rec.kind = "delete"
          \/ rec.kind = "settings" /\ ~rec.on
          \/ rec.kind = "student" /\ rec.on

Unlinks(rec) == rec.kind = "delete" /\ rec.pc \in {"tokens", "commit"}

\* What a transaction with the locks `held' relies on.
TxOK(rec, held) ==
    /\ PcOK(rec)
    /\ ArgsOK(rec)
    /\ Shares(rec) => /\ Share(rec.parent) \in held
                      /\ state[rec.parent] = "live"
                      /\ rec.on => push[rec.parent]
    /\ Updates(rec) => /\ Update(rec.parent) \in held
                       /\ \/ state[rec.parent] = "live"
                          \/ /\ state[rec.parent] = "new"
                             /\ rec.kind = "student" /\ rec.on
                       /\ rec.kind = "student" /\ rec.on =>
                            version[rec.parent] < MaxVersion
    /\ Drops(rec) => \A d \in devices : d.parent = rec.parent =>
                                          d.id \in rec.doomed
    /\ Unlinks(rec) => \A s \in Students : link[s] = rec.parent =>
                                             s \in rec.listed

\* A row locked for an update is nobody else's.
UpdatesExclusive ==
    \A t, u \in Txs, p \in Parents :
        t # u /\ Update(p) \in locks[t] =>
            Update(p) \notin locks[u] /\ Share(p) \notin locks[u]

Kinds == {"none", "register", "settings", "delete", "student"}
Pcs == {"idle", "begin", "share", "token", "evict", "wait", "parent", "unlink",
        "tokens", "resolve", "student", "commit"}

TxRec ==
    [kind : Kinds, pc : Pcs, parent : Parents \cup {NoParent},
     token : Tokens \cup {0}, on : BOOLEAN, student : Students \cup {0},
     start : 0..MaxStarts, doomed : SUBSET (1..MaxStarts),
     listed : SUBSET Students]

AccountInv ==
    /\ TypeOK
    /\ tx \in [Txs -> TxRec] /\ DOMAIN locks = Txs
    /\ \A t \in Txs : TxOK(tx[t], locks[t])
    /\ UpdatesExclusive
    /\ NothingLeftBehind

-----------------------------------------------------------------------------

\* The rows of different tables, and the two modes of a lock, never compare
\* equal.
LEMMA RowsApart ==
    ASSUME NEW p, NEW q, NEW k
    PROVE  /\ Share(p) # Update(q)
           /\ Share(p) = Share(q) => p = q
           /\ Update(p) = Update(q) => p = q
           /\ TokenRow(k) # Share(p) /\ TokenRow(k) # Update(p)
           /\ StudentRow(k) # Share(p) /\ StudentRow(k) # Update(p)
  <1>1. /\ Share(p)[1] = "parent" /\ Share(p)[2] = p /\ Share(p)[3] = "share"
        /\ Share(q)[2] = q
        /\ Update(p)[1] = "parent" /\ Update(p)[2] = p
        /\ Update(q)[2] = q /\ Update(q)[3] = "update"
        /\ TokenRow(k)[1] = "token" /\ StudentRow(k)[1] = "student"
    BY DEF Share, Update, TokenRow, StudentRow
  <1> QED
    BY <1>1

\* The record of no request.
LEMMA IdleRec == Idle \in TxRec
  <1>1. 0 \in 0..MaxStarts
    BY ParentAssumption
  <1> QED
    BY <1>1 DEF Idle, TxRec, Kinds, Pcs

\* A statement that only waits for rows, locks them and remembers what it read.
LEMMA StepKeeps ==
    ASSUME AccountInv, NEW t \in Txs, NEW rec \in TxRec, NEW rows,
           Step(t, rec, rows),
           TxOK(rec, locks[t] \cup rows),
           \A p \in Parents : Update(p) \in rows => CanUpdate(t, p),
           \A p \in Parents : Share(p) \in rows => CanShare(t, p)
    PROVE  AccountInv'
  <1>1. /\ tx' \in [Txs -> TxRec] /\ DOMAIN locks' = Txs
        /\ tx'[t] = rec /\ locks'[t] = locks[t] \cup rows
        /\ \A u \in Txs \ {t} : tx'[u] = tx[u] /\ locks'[u] = locks[u]
    BY DEF AccountInv, Step
  <1>2. UNCHANGED <<state, push, version, devices, link, active, clock>>
    BY DEF Step, rowVars
  <1>3. TypeOK' /\ NothingLeftBehind'
    BY <1>2 DEF AccountInv, TypeOK, NothingLeftBehind, Devices
  <1>4. \A u \in Txs : TxOK(tx[u], locks[u])'
    <2> SUFFICES ASSUME NEW u \in Txs PROVE TxOK(tx[u], locks[u])'
      OBVIOUS
    <2>1. CASE u = t
      BY <2>1, <1>1, <1>2 DEF TxOK
    <2>2. CASE u # t
      BY <2>2, <1>1, <1>2 DEF AccountInv, TxOK
    <2> QED
      BY <2>1, <2>2
  <1>5. UpdatesExclusive'
    BY <1>1 DEF AccountInv, UpdatesExclusive, CanUpdate, CanShare, Free
  <1> QED
    BY <1>1, <1>3, <1>4, <1>5 DEF AccountInv

\* A transaction that ends leaves the others' beliefs alone: it changed only
\* what belongs to a parent it had locked, and of the devices and students of
\* other parents at most some are gone.
LEMMA OthersKeep ==
    ASSUME AccountInv, NEW t \in Txs, NEW p \in Parents, Over(t),
           \/ Update(p) \in locks[t]
           \/ Share(p) \in locks[t] /\ UNCHANGED <<state, push, version>>,
           \A q \in Parents \ {p} : /\ state'[q] = state[q]
                                    /\ push'[q] = push[q]
                                    /\ version'[q] = version[q],
           \A d \in devices' : d.parent # p => d \in devices,
           \A s \in Students : link'[s] = link[s] \/ link'[s] \in {p, NoParent}
    PROVE  \A u \in Txs \ {t} : TxOK(tx[u], locks[u])'
  <1> SUFFICES ASSUME NEW u \in Txs \ {t} PROVE TxOK(tx[u], locks[u])'
    OBVIOUS
  <1> DEFINE rec == tx[u]
             held == locks[u]
  <1>1. tx'[u] = rec /\ locks'[u] = held /\ TxOK(rec, held) /\ rec \in TxRec
    BY DEF Over, AccountInv
  <1>2. Update(p) \notin held /\ (Update(p) \in locks[t] => Share(p) \notin held)
    <2>1. CASE Update(p) \in locks[t]
      BY <2>1 DEF AccountInv, UpdatesExclusive
    <2>2. CASE Share(p) \in locks[t]
      BY <2>2 DEF AccountInv, UpdatesExclusive
    <2> QED
      BY <2>1, <2>2
  <1> HIDE DEF rec, held
  <1>3. PcOK(rec) /\ ArgsOK(rec)
    BY <1>1 DEF TxOK
  <1>4. Shares(rec) => /\ Share(rec.parent) \in held
                       /\ state'[rec.parent] = "live"
                       /\ rec.on => push'[rec.parent]
    <2> SUFFICES ASSUME Shares(rec)
                 PROVE  /\ Share(rec.parent) \in held
                        /\ state'[rec.parent] = "live"
                        /\ rec.on => push'[rec.parent]
      OBVIOUS
    <2>1. /\ Share(rec.parent) \in held /\ rec.parent \in Parents
          /\ state[rec.parent] = "live" /\ (rec.on => push[rec.parent])
      BY <1>1 DEF TxOK, Shares, ArgsOK
    <2>2. CASE rec.parent = p
      BY <2>1, <2>2, <1>2
    <2>3. CASE rec.parent # p
      BY <2>1, <2>3
    <2> QED
      BY <2>2, <2>3
  <1>5. Updates(rec) => rec.parent \in Parents /\ rec.parent # p
    BY <1>1, <1>2 DEF TxOK, Updates, PcOK, ArgsOK
  <1>6. Updates(rec) =>
          /\ Update(rec.parent) \in held
          /\ \/ state'[rec.parent] = "live"
             \/ state'[rec.parent] = "new" /\ rec.kind = "student" /\ rec.on
          /\ rec.kind = "student" /\ rec.on => version'[rec.parent] < MaxVersion
    BY <1>1, <1>5 DEF TxOK
  <1>7. Drops(rec) => Updates(rec)
    BY DEF Drops, Updates
  <1>8. Drops(rec) => \A d \in devices' : d.parent = rec.parent =>
                                            d.id \in rec.doomed
    BY <1>1, <1>5, <1>7 DEF TxOK
  <1>9. Unlinks(rec) => Updates(rec)
    BY DEF Unlinks, Updates
  <1>10. Unlinks(rec) => \A s \in Students : link'[s] = rec.parent =>
                                               s \in rec.listed
    BY <1>1, <1>5, <1>9, ParentAssumption DEF TxOK
  <1> QED
    BY <1>1, <1>3, <1>4, <1>6, <1>8, <1>10 DEF TxOK

\* A transaction that ends, with a commit or without one.
LEMMA OverKeeps ==
    ASSUME AccountInv, NEW t \in Txs, Over(t),
           TypeOK', NothingLeftBehind',
           \A u \in Txs \ {t} : TxOK(tx[u], locks[u])'
    PROVE  AccountInv'
  <1>1. /\ tx' \in [Txs -> TxRec] /\ DOMAIN locks' = Txs
        /\ tx'[t] = Idle /\ locks'[t] = {}
        /\ \A u \in Txs \ {t} : tx'[u] = tx[u] /\ locks'[u] = locks[u]
    BY IdleRec DEF AccountInv, Over
  <1>2. TxOK(tx[t], locks[t])'
    BY <1>1 DEF TxOK, Idle, PcOK, ArgsOK, Shares, Updates, Drops, Unlinks
  <1>3. UpdatesExclusive'
    BY <1>1 DEF AccountInv, UpdatesExclusive
  <1> QED
    BY <1>1, <1>2, <1>3 DEF AccountInv

\* A rolled back transaction only gives up its locks.
LEMMA GiveUpKeeps ==
    ASSUME AccountInv, NEW t \in Txs, GiveUp(t)
    PROVE  AccountInv'
  <1>1. Over(t) /\ UNCHANGED <<state, push, version, devices, link, active, clock>>
    BY DEF GiveUp, rowVars
  <1>2. TypeOK' /\ NothingLeftBehind'
    BY <1>1 DEF AccountInv, TypeOK, NothingLeftBehind, Devices
  <1>3. ASSUME NEW u \in Txs \ {t} PROVE TxOK(tx[u], locks[u])'
    <2>1. tx'[u] = tx[u] /\ locks'[u] = locks[u]
      BY <1>1 DEF Over, AccountInv
    <2> QED
      BY <1>1, <2>1 DEF AccountInv, TxOK
  <1> QED
    BY <1>1, <1>2, <1>3, OverKeeps

-----------------------------------------------------------------------------

\* A request that arrives has locked nothing and believes nothing yet.
LEMMA BeginKeeps ==
    ASSUME AccountInv, NEW t \in Txs, Begin(t) \/ BeginStudent(t)
    PROVE  AccountInv'
  <1> USE IdleRec DEF TxRec, Kinds, Pcs, TxOK, PcOK, ArgsOK, Shares, Updates,
          Drops, Unlinks
  <1>1. ASSUME NEW p \in Parents, NEW k \in Tokens,
               Step(t, [Idle EXCEPT !.kind = "register", !.pc = "begin",
                          !.parent = p, !.token = k], {})
        PROVE  AccountInv'
    <2> DEFINE rec == [Idle EXCEPT !.kind = "register", !.pc = "begin",
                         !.parent = p, !.token = k]
    <2>1. rec \in TxRec /\ TxOK(rec, locks[t] \cup {})
      BY DEF Idle
    <2>2. Step(t, rec, {})
      BY <1>1
    <2> HIDE DEF rec, TxOK, TxRec
    <2> QED
      BY <2>1, <2>2, StepKeeps
  <1>2. ASSUME NEW p \in Parents, NEW on \in BOOLEAN,
               Step(t, [Idle EXCEPT !.kind = "settings", !.pc = "parent",
                          !.parent = p, !.on = on], {})
        PROVE  AccountInv'
    <2> DEFINE rec == [Idle EXCEPT !.kind = "settings", !.pc = "parent",
                         !.parent = p, !.on = on]
    <2>1. rec \in TxRec /\ TxOK(rec, locks[t] \cup {})
      BY DEF Idle
    <2>2. Step(t, rec, {})
      BY <1>2
    <2> HIDE DEF rec, TxOK, TxRec
    <2> QED
      BY <2>1, <2>2, StepKeeps
  <1>3. ASSUME NEW p \in Parents,
               Step(t, [Idle EXCEPT !.kind = "delete", !.pc = "parent",
                          !.parent = p], {})
        PROVE  AccountInv'
    <2> DEFINE rec == [Idle EXCEPT !.kind = "delete", !.pc = "parent",
                         !.parent = p]
    <2>1. rec \in TxRec /\ TxOK(rec, locks[t] \cup {})
      BY DEF Idle
    <2>2. Step(t, rec, {})
      BY <1>3
    <2> HIDE DEF rec, TxOK, TxRec
    <2> QED
      BY <2>1, <2>2, StepKeeps
  <1>4. ASSUME NEW s \in Students, NEW pin \in BOOLEAN,
               Step(t, [Idle EXCEPT !.kind = "student", !.pc = "resolve",
                          !.student = s, !.on = pin], {})
        PROVE  AccountInv'
    <2> DEFINE rec == [Idle EXCEPT !.kind = "student", !.pc = "resolve",
                         !.student = s, !.on = pin]
    <2>1. rec \in TxRec /\ TxOK(rec, locks[t] \cup {})
      BY DEF Idle
    <2>2. Step(t, rec, {})
      BY <1>4
    <2> HIDE DEF rec, TxOK, TxRec
    <2> QED
      BY <2>1, <2>2, StepKeeps
  <1> QED
    BY <1>1, <1>2, <1>3, <1>4 DEF Begin, BeginStudent

\* registerDeviceToken up to its commit.
LEMMA RegisterKeeps ==
    ASSUME AccountInv, NEW t \in Txs,
           BeginTx(t) \/ ShareParent(t) \/ TakeToken(t) \/ Evict(t)
               \/ LockVictims(t)
    PROVE  AccountInv'
  <1> DEFINE rec == tx[t]
  <1> USE DEF TxRec, Kinds, Pcs, PcOK, ArgsOK, Shares, Updates, Drops, Unlinks
  <1>0. rec \in TxRec /\ TxOK(rec, locks[t])
    BY DEF AccountInv
  <1>1. CASE BeginTx(t)
    <2> DEFINE new == [rec EXCEPT !.pc = "share", !.start = clock + 1]
    <2>1. /\ locks' = locks
          /\ UNCHANGED <<state, push, version, devices, link, active>>
          /\ clock' = clock + 1 /\ clock + 1 \in 1..MaxStarts
          /\ rec.pc = "begin"
      BY <1>1, ParentAssumption DEF BeginTx, rowVars, AccountInv, TypeOK
    <2>2. new \in TxRec /\ TxOK(new, locks[t])
      <3>1. clock + 1 \in 0..MaxStarts
        BY <2>1, ParentAssumption DEF AccountInv, TypeOK
      <3>2. new \in TxRec
        BY <3>1, <1>0
      <3> QED
        BY <3>2, <2>1, <1>0 DEF TxOK
    <2>3. TypeOK' /\ NothingLeftBehind' /\ UpdatesExclusive'
      BY <2>1, ParentAssumption
      DEF AccountInv, TypeOK, NothingLeftBehind, Devices, UpdatesExclusive
    <2>4. tx' \in [Txs -> TxRec] /\ tx'[t] = new
            /\ \A u \in Txs \ {t} : tx'[u] = tx[u]
      BY <1>1, <1>0, <2>2 DEF AccountInv, BeginTx
    <2> HIDE DEF new, rec
    <2>5. \A u \in Txs : TxOK(tx[u], locks[u])'
      BY <2>1, <2>2, <2>4 DEF AccountInv, TxOK
    <2> QED
      BY <2>1, <2>3, <2>4, <2>5 DEF AccountInv
  <1>2. CASE ShareParent(t)
    <2>1. CASE state[rec.parent] = "live"
      <3> DEFINE new == [rec EXCEPT !.pc = "token", !.on = push[rec.parent]]
      <3>1. /\ Step(t, new, {Share(rec.parent)}) /\ rec.pc = "share"
            /\ CanShare(t, rec.parent)
        BY <1>2, <2>1 DEF ShareParent
      <3>2. rec.parent \in Parents /\ push[rec.parent] \in BOOLEAN
        BY <1>0, <3>1 DEF TxOK, AccountInv, TypeOK
      <3>3. new \in TxRec
        BY <1>0, <3>2
      <3>4. TxOK(new, locks[t] \cup {Share(rec.parent)})
        BY <1>0, <2>1, <3>1, <3>2 DEF TxOK
      <3>5. \A p \in Parents : /\ Share(p) \in {Share(rec.parent)} =>
                                    CanShare(t, p)
                               /\ Update(p) \notin {Share(rec.parent)}
        BY <3>1, RowsApart
      <3> HIDE DEF new
      <3> QED
        BY <3>1, <3>3, <3>4, <3>5, StepKeeps
    <2>2. CASE state[rec.parent] # "live"
      BY <1>2, <2>2, GiveUpKeeps DEF ShareParent
    <2> QED
      BY <2>1, <2>2
  <1>3. CASE TakeToken(t)
    <2> DEFINE new == IF rec.on THEN [rec EXCEPT !.pc = "evict"]
                      ELSE [rec EXCEPT !.pc = "commit",
                              !.doomed = Ids({d \in devices : d.token = rec.token})]
    <2>1. Step(t, new, {TokenRow(rec.token)}) /\ rec.pc = "token"
      BY <1>3 DEF TakeToken
    <2>2. Ids({d \in devices : d.token = rec.token}) \subseteq 1..MaxStarts
      BY DEF AccountInv, TypeOK, Ids
    <2>3. new \in TxRec
      BY <1>0, <2>2
    <2>4. TxOK(new, locks[t] \cup {TokenRow(rec.token)})
      BY <1>0, <2>1 DEF TxOK
    <2>5. \A p \in Parents : /\ Share(p) \notin {TokenRow(rec.token)}
                             /\ Update(p) \notin {TokenRow(rec.token)}
      BY RowsApart
    <2> HIDE DEF new
    <2> QED
      BY <2>1, <2>3, <2>4, <2>5, StepKeeps
  <1>4. CASE Evict(t)
    <2> DEFINE new == [rec EXCEPT !.pc = "wait", !.doomed = Ids(Beyond(rec))]
    <2>1. Step(t, new, {}) /\ rec.pc = "evict"
      BY <1>4 DEF Evict
    <2>2. Ids(Beyond(rec)) \subseteq 1..MaxStarts
      <3>1. rec.kind = "register" /\ rec.start \in 1..MaxStarts
        BY <1>0, <2>1 DEF TxOK
      <3>2. Upserted(rec).id \in 1..MaxStarts
        BY <3>1 DEF Upserted, Ids, AccountInv, TypeOK
      <3>3. \A d \in Own(rec) : d.id \in 1..MaxStarts
        BY <3>2 DEF Own, AccountInv, TypeOK
      <3> QED
        BY <3>3 DEF Beyond, Ids
    <2>3. new \in TxRec
      BY <1>0, <2>2
    <2>4. TxOK(new, locks[t] \cup {})
      BY <1>0, <2>1 DEF TxOK
    <2> HIDE DEF new
    <2> QED
      BY <2>1, <2>3, <2>4, StepKeeps
  <1>5. CASE LockVictims(t)
    <2> DEFINE rows == {TokenRow(d.token) : d \in Victims(rec)}
               new == [rec EXCEPT !.pc = "commit"]
    <2>1. Step(t, new, rows) /\ rec.pc = "wait"
      BY <1>5 DEF LockVictims
    <2>2. new \in TxRec
      BY <1>0
    <2>3. TxOK(new, locks[t] \cup rows)
      BY <1>0, <2>1 DEF TxOK
    <2>4. \A p \in Parents : Share(p) \notin rows /\ Update(p) \notin rows
      BY RowsApart
    <2> HIDE DEF new, rows
    <2> QED
      BY <2>1, <2>2, <2>3, <2>4, StepKeeps
  <1> QED
    BY <1>1, <1>2, <1>3, <1>4, <1>5

\* The push switch and the deletion of the account up to their commit.
LEMMA SettingsKeep ==
    ASSUME AccountInv, NEW t \in Txs,
           LockParent(t) \/ Unlink(t) \/ DropTokens(t)
    PROVE  AccountInv'
  <1> DEFINE rec == tx[t]
  <1> USE DEF TxRec, Kinds, Pcs, PcOK, ArgsOK, Shares, Updates, Drops, Unlinks
  <1>0. rec \in TxRec /\ TxOK(rec, locks[t])
    BY DEF AccountInv
  <1>1. CASE LockParent(t)
    <2>1. CASE state[rec.parent] = "live"
      <3> DEFINE pc == CASE rec.kind = "delete" -> "unlink"
                         [] rec.kind = "settings" /\ rec.on -> "commit"
                         [] OTHER -> "tokens"
                 new == [rec EXCEPT !.pc = pc]
      <3>1. /\ Step(t, new, {Update(rec.parent)}) /\ rec.pc = "parent"
            /\ CanUpdate(t, rec.parent)
        BY <1>1, <2>1 DEF LockParent
      <3>2. rec.kind \in {"settings", "delete"} /\ rec.parent \in Parents
        BY <1>0, <3>1 DEF TxOK
      <3>3. \/ rec.kind = "delete" /\ pc = "unlink"
            \/ rec.kind = "settings" /\ rec.on /\ pc = "commit"
            \/ rec.kind = "settings" /\ ~rec.on /\ pc = "tokens"
        BY <3>2
      <3> HIDE DEF pc
      <3>4. new \in TxRec
        BY <1>0, <3>3
      <3>5. TxOK(new, locks[t] \cup {Update(rec.parent)})
        BY <1>0, <2>1, <3>2, <3>3 DEF TxOK
      <3>6. \A p \in Parents : /\ Update(p) \in {Update(rec.parent)} =>
                                    CanUpdate(t, p)
                               /\ Share(p) \notin {Update(rec.parent)}
        BY <3>1, RowsApart
      <3> HIDE DEF new
      <3> QED
        BY <3>1, <3>4, <3>5, <3>6, StepKeeps
    <2>2. CASE state[rec.parent] # "live"
      BY <1>1, <2>2, GiveUpKeeps DEF LockParent
    <2> QED
      BY <2>1, <2>2
  <1>2. CASE Unlink(t)
    <2> DEFINE new == [rec EXCEPT !.pc = "tokens",
                                  !.listed = Linked(rec.parent)]
               rows == {StudentRow(s) : s \in Linked(rec.parent)}
    <2>1. Step(t, new, rows) /\ rec.pc = "unlink"
      BY <1>2 DEF Unlink
    <2>2. /\ Linked(rec.parent) \subseteq Students
          /\ \A s \in Students : link[s] = rec.parent => s \in Linked(rec.parent)
      BY DEF Linked
    <2>3. new \in TxRec
      BY <1>0, <2>2
    <2>4. TxOK(new, locks[t] \cup rows)
      BY <1>0, <2>1, <2>2 DEF TxOK
    <2>5. \A p \in Parents : Share(p) \notin rows /\ Update(p) \notin rows
      BY RowsApart
    <2> HIDE DEF new, rows
    <2> QED
      BY <2>1, <2>3, <2>4, <2>5, StepKeeps
  <1>3. CASE DropTokens(t)
    <2> DEFINE new == [rec EXCEPT !.doomed = Ids(Devices(rec.parent)), !.pc =
                         IF rec.kind = "student" THEN "student" ELSE "commit"]
    <2>1. Step(t, new, DeviceLocks(rec.parent)) /\ rec.pc = "tokens"
      BY <1>3 DEF DropTokens
    <2>2. /\ Ids(Devices(rec.parent)) \subseteq 1..MaxStarts
          /\ \A d \in devices : d.parent = rec.parent =>
                                  d.id \in Ids(Devices(rec.parent))
      BY DEF AccountInv, TypeOK, Ids, Devices
    <2>3. new \in TxRec
      BY <1>0, <2>2
    <2>4. TxOK(new, locks[t] \cup DeviceLocks(rec.parent))
      <3>1. rec.kind \in {"settings", "delete", "student"}
        BY <1>0, <2>1 DEF TxOK
      <3>2. CASE rec.kind = "student"
        BY <1>0, <2>1, <2>2, <3>2 DEF TxOK
      <3>3. CASE rec.kind # "student"
        BY <1>0, <2>1, <2>2, <3>1, <3>3 DEF TxOK
      <3> QED
        BY <3>2, <3>3
    <2>5. \A p \in Parents : /\ Share(p) \notin DeviceLocks(rec.parent)
                             /\ Update(p) \notin DeviceLocks(rec.parent)
      BY RowsApart DEF DeviceLocks
    <2> HIDE DEF new
    <2> QED
      BY <2>1, <2>3, <2>4, <2>5, StepKeeps
  <1> QED
    BY <1>1, <1>2, <1>3

\* The student form up to its commit.
LEMMA StudentKeeps ==
    ASSUME AccountInv, NEW t \in Txs, ResolveParent(t) \/ WriteStudent(t)
    PROVE  AccountInv'
  <1> DEFINE rec == tx[t]
  <1> USE DEF TxRec, Kinds, Pcs, PcOK, ArgsOK, Shares, Updates, Drops, Unlinks
  <1>0. rec \in TxRec /\ TxOK(rec, locks[t])
    BY DEF AccountInv
  <1>1. CASE ResolveParent(t)
    <2>1. CASE GiveUp(t)
      BY <2>1, GiveUpKeeps
    <2>2. ASSUME NEW p \in Parents, rec.pc = "resolve", CanUpdate(t, p),
                 state[p] = "live" \/ (state[p] = "new" /\ rec.on),
                 rec.on => version[p] < MaxVersion,
                 Step(t, [rec EXCEPT !.parent = p, !.pc =
                            IF rec.on THEN "tokens" ELSE "student"],
                      {Update(p)})
          PROVE  AccountInv'
      <3> DEFINE new == [rec EXCEPT !.parent = p, !.pc =
                           IF rec.on THEN "tokens" ELSE "student"]
      <3>1. new \in TxRec
        BY <1>0
      <3>2. TxOK(new, locks[t] \cup {Update(p)})
        BY <1>0, <2>2 DEF TxOK
      <3>3. \A q \in Parents : /\ Update(q) \in {Update(p)} => CanUpdate(t, q)
                               /\ Share(q) \notin {Update(p)}
        BY <2>2, RowsApart
      <3>4. Step(t, new, {Update(p)})
        BY <2>2
      <3> HIDE DEF new
      <3> QED
        BY <3>1, <3>2, <3>3, <3>4, StepKeeps
    <2> QED
      BY <1>1, <2>1, <2>2 DEF ResolveParent
  <1>2. CASE WriteStudent(t)
    <2> DEFINE new == [rec EXCEPT !.pc = "commit"]
    <2>1. Step(t, new, {StudentRow(rec.student)}) /\ rec.pc = "student"
      BY <1>2 DEF WriteStudent
    <2>2. new \in TxRec
      BY <1>0
    <2>3. TxOK(new, locks[t] \cup {StudentRow(rec.student)})
      BY <1>0, <2>1 DEF TxOK
    <2>4. \A p \in Parents : /\ Share(p) \notin {StudentRow(rec.student)}
                             /\ Update(p) \notin {StudentRow(rec.student)}
      BY RowsApart
    <2> HIDE DEF new
    <2> QED
      BY <2>1, <2>2, <2>3, <2>4, StepKeeps
  <1> QED
    BY <1>1, <1>2

-----------------------------------------------------------------------------

\* The row a registration leaves is well formed and its parent's.
LEMMA OwnFacts ==
    ASSUME AccountInv, NEW rec \in TxRec, rec.parent \in Parents,
           rec.token \in Tokens, rec.start \in 1..MaxStarts
    PROVE  /\ Own(rec) \subseteq [id : 1..MaxStarts, token : Tokens,
                                  parent : Parents, seen : 1..MaxStarts]
           /\ \A d \in Own(rec) : d.parent # rec.parent => d \in devices
  <1>1. Upserted(rec).id \in 1..MaxStarts
    BY DEF Upserted, Ids, AccountInv, TypeOK
  <1>2. Upserted(rec) = [id |-> Upserted(rec).id, token |-> rec.token,
                         parent |-> rec.parent, seen |-> rec.start]
    BY DEF Upserted
  <1> QED
    BY <1>1, <1>2 DEF Own, AccountInv, TypeOK

\* The FOR SHARE has kept the parent live and its switch on.
LEMMA CommitRegisterKeeps ==
    ASSUME AccountInv, NEW t \in Txs, CommitRegister(t)
    PROVE  AccountInv'
  <1> DEFINE rec == tx[t]
  <1>0. rec \in TxRec /\ TxOK(rec, locks[t])
    BY DEF AccountInv
  <1>1. /\ rec.pc = "commit" /\ rec.kind = "register" /\ Over(t)
        /\ devices' = Kept(IF rec.on THEN Own(rec) ELSE devices, rec)
        /\ UNCHANGED <<state, push, version, link, active, clock>>
    BY DEF CommitRegister
  <1>2. /\ rec.parent \in Parents /\ rec.token \in Tokens
        /\ rec.start \in 1..MaxStarts
        /\ Share(rec.parent) \in locks[t] /\ state[rec.parent] = "live"
        /\ rec.on => push[rec.parent]
    BY <1>0, <1>1 DEF TxOK, ArgsOK, Shares
  <1>3. /\ devices' \subseteq [id : 1..MaxStarts, token : Tokens,
                               parent : Parents, seen : 1..MaxStarts]
        /\ \A d \in devices' : d.parent # rec.parent => d \in devices
        /\ ~rec.on => devices' \subseteq devices
    <2>1. CASE rec.on
      BY <2>1, <1>0, <1>1, <1>2, OwnFacts DEF Kept
    <2>2. CASE ~rec.on
      BY <2>2, <1>1 DEF Kept, AccountInv, TypeOK
    <2> QED
      BY <2>1, <2>2
  <1>4. TypeOK'
    BY <1>1, <1>3 DEF AccountInv, TypeOK
  <1>5. NothingLeftBehind'
    <2> SUFFICES ASSUME NEW p \in Parents,
                        state[p] = "gone" \/ (state[p] = "live" /\ ~push[p]),
                        NEW d \in devices', d.parent = p
                 PROVE  FALSE
      BY <1>1 DEF NothingLeftBehind, Devices, AccountInv
    <2>1. p = rec.parent
      BY <1>3 DEF AccountInv, NothingLeftBehind, Devices
    <2>2. ~rec.on
      BY <2>1, <1>2
    <2> QED
      BY <2>2, <1>3 DEF AccountInv, NothingLeftBehind, Devices
  <1>6. \A u \in Txs \ {t} : TxOK(tx[u], locks[u])'
    <2> HIDE DEF rec
    <2> QED
      BY <1>1, <1>2, <1>3, OthersKeep
  <1> QED
    BY <1>1, <1>4, <1>5, <1>6, OverKeeps

\* Switched off, the parent loses the devices listed under its lock, which
\* are all.
LEMMA CommitSettingsKeeps ==
    ASSUME AccountInv, NEW t \in Txs, CommitSettings(t)
    PROVE  AccountInv'
  <1> DEFINE rec == tx[t]
  <1>0. rec \in TxRec /\ TxOK(rec, locks[t])
    BY DEF AccountInv
  <1>1. /\ rec.pc = "commit" /\ rec.kind = "settings" /\ Over(t)
        /\ push' = [push EXCEPT ![rec.parent] = rec.on]
        /\ devices' = Kept(devices, rec)
        /\ UNCHANGED <<state, version, link, active, clock>>
    BY DEF CommitSettings
  <1>2. /\ rec.parent \in Parents /\ rec.on \in BOOLEAN
        /\ Update(rec.parent) \in locks[t] /\ state[rec.parent] = "live"
        /\ ~rec.on => \A d \in devices : d.parent = rec.parent =>
                                           d.id \in rec.doomed
    BY <1>0, <1>1 DEF TxOK, TxRec, ArgsOK, Updates, Drops
  <1>3. /\ push' \in [Parents -> BOOLEAN] /\ push'[rec.parent] = rec.on
        /\ \A q \in Parents \ {rec.parent} : push'[q] = push[q]
    BY <1>1, <1>2 DEF AccountInv, TypeOK
  <1>4. devices' \subseteq devices
    BY <1>1 DEF Kept
  <1>5. TypeOK'
    BY <1>1, <1>3, <1>4 DEF AccountInv, TypeOK
  <1>6. NothingLeftBehind'
    <2> SUFFICES ASSUME NEW p \in Parents,
                        state[p] = "gone" \/ (state[p] = "live" /\ ~push'[p]),
                        NEW d \in devices', d.parent = p
                 PROVE  FALSE
      BY <1>1 DEF NothingLeftBehind, Devices, AccountInv
    <2>1. CASE p = rec.parent
      <3>1. ~rec.on
        BY <2>1, <1>2, <1>3
      <3> QED
        BY <2>1, <3>1, <1>1, <1>2 DEF Kept
    <2>2. CASE p # rec.parent
      BY <2>2, <1>3, <1>4 DEF AccountInv, NothingLeftBehind, Devices
    <2> QED
      BY <2>1, <2>2
  <1>7. \A u \in Txs \ {t} : TxOK(tx[u], locks[u])'
    <2> HIDE DEF rec
    <2> QED
      BY <1>1, <1>2, <1>3, <1>4, OthersKeep
  <1> QED
    BY <1>1, <1>5, <1>6, <1>7, OverKeeps

\* The row goes with the devices and links listed under its lock.
LEMMA CommitDeleteKeeps ==
    ASSUME AccountInv, NEW t \in Txs, CommitDelete(t)
    PROVE  AccountInv'
  <1> DEFINE rec == tx[t]
  <1>0. rec \in TxRec /\ TxOK(rec, locks[t])
    BY DEF AccountInv
  <1>1. /\ rec.pc = "commit" /\ rec.kind = "delete" /\ Over(t)
        /\ state' = [state EXCEPT ![rec.parent] = "gone"]
        /\ link' = [s \in Students |-> IF s \in rec.listed THEN NoParent
                                       ELSE link[s]]
        /\ devices' = Kept(devices, rec)
        /\ UNCHANGED <<push, version, active, clock>>
    BY DEF CommitDelete
  <1>2. /\ rec.parent \in Parents /\ Update(rec.parent) \in locks[t]
        /\ \A d \in devices : d.parent = rec.parent => d.id \in rec.doomed
        /\ \A s \in Students : link[s] = rec.parent => s \in rec.listed
    BY <1>0, <1>1 DEF TxOK, ArgsOK, Updates, Drops, Unlinks
  <1>3. /\ state' \in [Parents -> {"new", "live", "gone"}]
        /\ \A q \in Parents \ {rec.parent} : state'[q] = state[q]
    BY <1>1, <1>2 DEF AccountInv, TypeOK
  <1>4. devices' \subseteq devices
    BY <1>1 DEF Kept
  <1>5. /\ link' \in [Students -> Parents \cup {NoParent}]
        /\ \A s \in Students : link'[s] = link[s] \/ link'[s] = NoParent
        /\ \A s \in Students : link'[s] # rec.parent
    BY <1>1, <1>2, ParentAssumption DEF AccountInv, TypeOK
  <1>6. TypeOK'
    BY <1>1, <1>3, <1>4, <1>5 DEF AccountInv, TypeOK
  <1>7. NothingLeftBehind'
    <2> SUFFICES ASSUME NEW p \in Parents,
                        state'[p] = "gone" \/ (state'[p] = "live" /\ ~push[p])
                 PROVE  /\ \A d \in devices' : d.parent # p
                        /\ state'[p] = "gone" =>
                             \A s \in Students : link'[s] # p
      BY <1>1 DEF NothingLeftBehind, Devices
    <2>1. CASE p = rec.parent
      BY <2>1, <1>1, <1>2, <1>5 DEF Kept
    <2>2. CASE p # rec.parent
      <3>1. state'[p] = state[p]
        BY <2>2, <1>3
      <3>2. /\ \A d \in devices : d.parent # p
            /\ state[p] = "gone" => \A s \in Students : link[s] # p
        BY <3>1 DEF AccountInv, NothingLeftBehind, Devices
      <3> QED
        BY <3>1, <3>2, <1>4, <1>5, ParentAssumption
    <2> QED
      BY <2>1, <2>2
  <1>8. \A u \in Txs \ {t} : TxOK(tx[u], locks[u])'
    <2> HIDE DEF rec
    <2> QED
      BY <1>1, <1>2, <1>3, <1>4, <1>5, OthersKeep
  <1> QED
    BY <1>1, <1>6, <1>7, <1>8, OverKeeps

\* A new PIN goes with the devices listed under the parent's lock.
LEMMA CommitStudentKeeps ==
    ASSUME AccountInv, NEW t \in Txs, CommitStudent(t)
    PROVE  /\ AccountInv'
           /\ \A p \in Parents : version'[p] # version[p] =>
                \A d \in devices' : d.parent # p
  <1> DEFINE rec == tx[t]
  <1>0. rec \in TxRec /\ TxOK(rec, locks[t])
    BY DEF AccountInv
  <1>1. /\ rec.pc = "commit" /\ rec.kind = "student" /\ Over(t)
        /\ state' = [state EXCEPT ![rec.parent] = "live"]
        /\ version' = [version EXCEPT ![rec.parent] =
             IF rec.on /\ state[rec.parent] = "live" THEN @ + 1 ELSE @]
        /\ link' = [link EXCEPT ![rec.student] = rec.parent]
        /\ devices' = Kept(devices, rec)
        /\ UNCHANGED <<push, active, clock>>
    BY DEF CommitStudent
  <1>2. /\ rec.parent \in Parents /\ rec.student \in Students
        /\ Update(rec.parent) \in locks[t]
        /\ ~rec.on => state[rec.parent] = "live"
        /\ rec.on => \A d \in devices : d.parent = rec.parent =>
                                          d.id \in rec.doomed
        /\ rec.on => version[rec.parent] < MaxVersion
    BY <1>0, <1>1 DEF TxOK, ArgsOK, Updates, Drops
  <1>3. /\ state' \in [Parents -> {"new", "live", "gone"}]
        /\ state'[rec.parent] = "live"
        /\ \A q \in Parents \ {rec.parent} : state'[q] = state[q]
    BY <1>1, <1>2 DEF AccountInv, TypeOK
  <1>4. /\ version' \in [Parents -> 0..MaxVersion]
        /\ \A q \in Parents \ {rec.parent} : version'[q] = version[q]
        /\ ~rec.on => version' = version
    <2>1. version[rec.parent] \in 0..MaxVersion /\ MaxVersion \in Nat
      BY <1>2, ParentAssumption DEF AccountInv, TypeOK
    <2> QED
      BY <2>1, <1>1, <1>2 DEF AccountInv, TypeOK
  <1>5. /\ devices' \subseteq devices
        /\ rec.on => \A d \in devices' : d.parent # rec.parent
    BY <1>1, <1>2 DEF Kept
  <1>6. /\ link' \in [Students -> Parents \cup {NoParent}]
        /\ \A s \in Students : link'[s] = link[s] \/ link'[s] = rec.parent
    BY <1>1, <1>2 DEF AccountInv, TypeOK
  <1>7. TypeOK'
    BY <1>1, <1>3, <1>4, <1>5, <1>6 DEF AccountInv, TypeOK
  <1>8. NothingLeftBehind'
    <2> SUFFICES ASSUME NEW p \in Parents,
                        state'[p] = "gone" \/ (state'[p] = "live" /\ ~push[p])
                 PROVE  /\ \A d \in devices' : d.parent # p
                        /\ state'[p] = "gone" =>
                             \A s \in Students : link'[s] # p
      BY <1>1 DEF NothingLeftBehind, Devices
    <2>1. CASE p = rec.parent
      BY <2>1, <1>2, <1>3, <1>5 DEF AccountInv, NothingLeftBehind, Devices
    <2>2. CASE p # rec.parent
      <3>1. state'[p] = state[p]
        BY <2>2, <1>3
      <3>2. /\ \A d \in devices : d.parent # p
            /\ state[p] = "gone" => \A s \in Students : link[s] # p
        BY <3>1 DEF AccountInv, NothingLeftBehind, Devices
      <3> QED
        BY <2>2, <3>1, <3>2, <1>5, <1>6
    <2> QED
      BY <2>1, <2>2
  <1>9. \A u \in Txs \ {t} : TxOK(tx[u], locks[u])'
    <2> HIDE DEF rec
    <2> QED
      BY <1>1, <1>2, <1>3, <1>4, <1>5, <1>6, OthersKeep
  <1>10. \A p \in Parents : version'[p] # version[p] =>
           \A d \in devices' : d.parent # p
    BY <1>4, <1>5
  <1> QED
    BY <1>1, <1>7, <1>8, <1>9, <1>10, OverKeeps

-----------------------------------------------------------------------------

\* Every step keeps the invariant, and one that replaces a PIN leaves no token
\* of the parent.
LEMMA AccountStep ==
    ASSUME AccountInv, [Next]_vars
    PROVE  /\ AccountInv'
           /\ \A p \in Parents : version'[p] # version[p] =>
                \A d \in devices' : d.parent # p
  <1>1. CASE UNCHANGED vars
    <2>1. UNCHANGED <<state, push, version, devices, link, active, clock, tx,
                      locks>>
      BY <1>1 DEF vars, rowVars
    <2> QED
      BY <2>1 DEF AccountInv, TypeOK, NothingLeftBehind, Devices,
                  UpdatesExclusive, TxOK
  <1>2. ASSUME NEW s \in Students, DeleteStudent(s)
        PROVE  AccountInv' /\ version' = version
    <2>1. /\ UNCHANGED <<state, push, version, link, clock, tx, locks, devices>>
          /\ active' \in [Students -> BOOLEAN]
      BY <1>2 DEF DeleteStudent, AccountInv, TypeOK
    <2> QED
      BY <2>1 DEF AccountInv, TypeOK, NothingLeftBehind, Devices,
                  UpdatesExclusive, TxOK
  <1>3. ASSUME NEW k \in Tokens, DeleteToken(k)
        PROVE  AccountInv' /\ version' = version
    <2>1. /\ UNCHANGED <<state, push, version, link, clock, tx, locks, active>>
          /\ devices' \subseteq devices
      BY <1>3 DEF DeleteToken
    <2> QED
      BY <2>1 DEF AccountInv, TypeOK, NothingLeftBehind, Devices,
                  UpdatesExclusive, TxOK
  <1>4. ASSUME NEW t \in Txs, TxStep(t)
        PROVE  /\ AccountInv'
               /\ \A p \in Parents : version'[p] # version[p] =>
                    \A d \in devices' : d.parent # p
    <2>1. CASE CommitStudent(t)
      BY <2>1, CommitStudentKeeps
    <2>2. CASE ~CommitStudent(t)
      <3>1. version' = version
        BY <1>4, <2>2 DEF TxStep, Begin, BeginStudent, BeginTx, ShareParent,
           TakeToken, Evict, LockVictims, CommitRegister, LockParent, Unlink,
           DropTokens, CommitSettings, CommitDelete, ResolveParent,
           WriteStudent, Abort, GiveUp, Step, rowVars
      <3>2. AccountInv'
        BY <1>4, <2>2, BeginKeeps, RegisterKeeps, CommitRegisterKeeps,
           SettingsKeep, CommitSettingsKeeps, CommitDeleteKeeps, StudentKeeps,
           GiveUpKeeps DEF TxStep, Abort
      <3> QED
        BY <3>1, <3>2
    <2> QED
      BY <2>1, <2>2
  <1> QED
    BY <1>1, <1>2, <1>3, <1>4 DEF Next, vars, rowVars

\* At the start every student's parent exists, nobody has a device and no
\* request has arrived.
LEMMA AccountInit == Init => AccountInv
  <1> SUFFICES ASSUME Init PROVE AccountInv
    OBVIOUS
  <1>1. /\ 0 \in 0..MaxVersion /\ 0 \in 0..MaxStarts
        /\ FirstParents \subseteq Parents
    BY ParentAssumption
  <1>2. TypeOK
    <2>1. push \in [Parents -> BOOLEAN] /\ active \in [Students -> BOOLEAN]
      BY Zenon DEF Init
    <2> QED
      BY <1>1, <2>1 DEF Init, TypeOK
  <1>3. NothingLeftBehind
    BY <1>1 DEF Init, NothingLeftBehind, Devices
  <1>4. /\ tx \in [Txs -> TxRec] /\ DOMAIN locks = Txs
        /\ \A t \in Txs : tx[t] = Idle /\ locks[t] = {}
    BY IdleRec DEF Init
  <1>5. UpdatesExclusive
    BY <1>4 DEF UpdatesExclusive
  <1>6. \A t \in Txs : TxOK(tx[t], locks[t])
    BY <1>4 DEF TxOK, Idle, PcOK, ArgsOK, Shares, Updates, Drops, Unlinks
  <1> QED
    BY <1>2, <1>3, <1>4, <1>5, <1>6 DEF AccountInv

\* No device is left with a parent that is gone or has notifications off, and
\* no student with a parent that is gone, whatever requests overlapped.
THEOREM AccountSafe == Spec => [](TypeOK /\ NothingLeftBehind)
  <1>1. AccountInv /\ [Next]_vars => AccountInv'
    BY AccountStep
  <1>2. AccountInv => TypeOK /\ NothingLeftBehind
    BY DEF AccountInv
  <1> QED
    BY AccountInit, <1>1, <1>2, PTL DEF Spec

\* The step that replaces a PIN leaves no token of the parent.
THEOREM AccountSignOut == Spec => SignOutClearsTokens
  <1>1. AccountInv /\ [Next]_vars => AccountInv'
    BY AccountStep
  <1>2. AccountInv /\ [Next]_vars =>
          [\A p \in Parents : version'[p] # version[p] =>
             \A d \in devices' : d.parent # p]_vars
    BY AccountStep
  <1> QED
    BY AccountInit, <1>1, <1>2, PTL DEF Spec, SignOutClearsTokens
=============================================================================
