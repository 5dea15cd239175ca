----------------------------- MODULE Broadcasts -----------------------------
(***************************************************************************)
(* Broadcasts (internal/handlers/broadcasts.go, internal/notify): an admin *)
(* sends one text to an audience of parents.  One transaction writes the   *)
(* broadcast and a notification per recipient; a background goroutine then *)
(* pushes it to the recipients' devices in batches.                        *)
(*                                                                         *)
(* Transactions run at READ COMMITTED; a request's writes stay in its      *)
(* record until its commit.  Module Closures adds the requests that send   *)
(* a broadcast from a transaction of their own.                            *)
(***************************************************************************)
EXTENDS Integers, SequencesExt

CONSTANTS
    Requests,       \* requests served at once
    Parents,        \* parents.id, positive numbers
    Tokens,         \* FCM device tokens
    Texts,          \* title and body
    DuplicateWait,  \* BroadcastDuplicateWait, in ticks of the clock
    BatchSize,      \* PushBatchSize
    MaxRequests,    \* bound: requests begun
    MaxTime,        \* bound: ticks of the clock
    MaxEvents,      \* bound: changes of parents, students and devices,
                    \* failed requests and restarts of the process
    Registered,     \* the parents at the start
    InClass,        \* those with an active child in the class
    Workloads,      \* what happens together: the kinds of requests, and
                    \* "firebase" (a client is configured), "devices", "time",
                    \* "nobody" (the school has no parents yet)
    HasDevice       \* those that own a device, as a function of the token

ASSUME BroadcastsAssumption ==
    /\ Parents \subseteq Nat \ {0} /\ IsFiniteSet(Parents)
    /\ DuplicateWait \in Nat /\ BatchSize \in Nat \ {0}
    /\ {MaxRequests, MaxTime, MaxEvents} \subseteq Nat
    /\ Registered \subseteq Parents /\ InClass \subseteq Registered
    /\ HasDevice \in [Tokens -> Registered \cup {0}]

VARIABLES
    workload,       \* what happens in this behaviour, one of Workloads
    now,            \* LOCALTIMESTAMP
    parents,        \* the rows of parents
    class,          \* the parents with an active child in the class
    owner,          \* device_tokens: each token's parent, 0 when no row
    broadcasts,     \* in commit order; the place stands for the id
    notifications,  \* [parent, broadcast] rows
    push,           \* the background push of each broadcast
    req,            \* each request's transaction
    locks,          \* the table locks it holds
    begun, events   \* requests begun, and other events

clock == <<workload, now>>
people == <<parents, class, owner>>
tables == <<broadcasts, notifications>>
vars == <<clock, people, tables, push, req, locks, begun, events>>

\* The parent of an audience_type other than "parent" is NULL, here 0; the
\* deletion of the account sets it to NULL too.
Audience == [type : {"all", "class", "parent"}, parent : Parents \cup {0}]
Everybody == [type |-> "all", parent |-> 0]
ToParent(p) == [type |-> "parent", parent |-> p]
\* `about' is what the requests of module Closures carry.
Idle == [kind |-> "none", pc |-> "idle", text |-> 0, audience |-> Everybody,
         at |-> 0, to |-> {}, about |-> {}]
NoPush == [pc |-> "none", todo |-> <<>>, listed |-> {}, tried |-> <<>>]

TypeOK ==
    /\ now \in 0..MaxTime
    /\ parents \subseteq Parents /\ class \subseteq parents
    /\ owner \in [Tokens -> parents \cup {0}]
    /\ broadcasts \in Seq([text : Texts, audience : Audience,
                           at : 0..MaxTime, count : 1..Cardinality(Parents),
                           by : {"broadcast", "create", "cancel"}])
    /\ notifications \subseteq
         [parent : parents, broadcast : DOMAIN broadcasts]
    /\ DOMAIN push = 1..MaxRequests

Init ==
    /\ workload \in Workloads
    /\ now = 0 /\ begun = 0 /\ events = 0
    /\ parents = IF "nobody" \in workload THEN {} ELSE Registered
    /\ class = InClass \cap parents
    /\ owner = [k \in Tokens |->
                 IF HasDevice[k] \in parents THEN HasDevice[k] ELSE 0]
    /\ broadcasts = <<>> /\ notifications = {}
    /\ push = [b \in 1..MaxRequests |-> NoPush]
    /\ req = [r \in Requests |-> Idle]
    /\ locks = [r \in Requests |-> {}]

-----------------------------------------------------------------------------

Happens == events < MaxEvents /\ events' = events + 1

\* A request arrives.
Accepts(r, kind) ==
    /\ kind \in workload /\ req[r].pc = "idle"
    /\ begun < MaxRequests /\ begun' = begun + 1

Free(r, modes) == \A u \in Requests \ {r} : locks[u] \cap modes = {}

Step(r, rec, modes) ==
    /\ req' = [req EXCEPT ![r] = rec]
    /\ locks' = [locks EXCEPT ![r] = @ \cup modes]

Done(r) ==
    /\ req' = [req EXCEPT ![r] = Idle]
    /\ locks' = [locks EXCEPT ![r] = {}]

\* recipientsSQL
Recipients(audience) ==
    CASE audience.type = "all" -> parents
      [] audience.type = "class" -> class
      [] audience.type = "parent" -> {audience.parent} \cap parents

-----------------------------------------------------------------------------
(* createBroadcast                                                         *)

Requestable ==
    {Everybody, [type |-> "class", parent |-> 0]}
        \cup {ToParent(p) : p \in parents}

\* A parent's phone number is looked up before the transaction, whose start
\* is the created_at of what it writes.
Begin(r) ==
    /\ Accepts(r, "broadcast")
    /\ \E text \in Texts, a \in Requestable :
         req' = [req EXCEPT ![r] =
                   [Idle EXCEPT !.kind = "broadcast", !.pc = "lock",
                                !.text = text, !.audience = a, !.at = now]]
    /\ UNCHANGED <<clock, people, tables, push, locks, events>>

\* SHARE ROW EXCLUSIVE conflicts with itself and with an INSERT's lock.
CanLock(r) == Free(r, {"exclusive", "insert"})

\* ROW EXCLUSIVE, the lock of an INSERT, does not conflict with itself.
MutLockBroadcasts(r) ==
    /\ req[r].kind = "broadcast" /\ req[r].pc = "lock"
    /\ Free(r, {"exclusive"})
    /\ Step(r, [req[r] EXCEPT !.pc = "check"], {"insert"})
    /\ UNCHANGED <<clock, people, tables, push, begun, events>>

LockBroadcasts(r) ==
    /\ req[r].kind = "broadcast" /\ req[r].pc = "lock"
    /\ CanLock(r)
    /\ Step(r, [req[r] EXCEPT !.pc = "check"], {"exclusive"})
    /\ UNCHANGED <<clock, people, tables, push, begun, events>>

\* Times are compared with the broadcast's own start, not with now.
RecentDuplicate(rec) ==
    \E b \in DOMAIN broadcasts :
        /\ broadcasts[b].text = rec.text
        /\ broadcasts[b].audience = rec.audience
        /\ broadcasts[b].at > rec.at - DuplicateWait

CheckDuplicate(r) ==
    /\ req[r].pc = "check"
    /\ IF RecentDuplicate(req[r]) THEN Done(r)
       ELSE Step(r, [req[r] EXCEPT !.pc = "insert"], {})
    /\ UNCHANGED <<clock, people, tables, push, begun, events>>

-----------------------------------------------------------------------------
(* notify.CreateBroadcast, in the caller's transaction                     *)

\* Nobody to reach is ErrNoRecipients.
Reaches(to) == to # {}

\* The broadcast's row, and the recipients the second statement's snapshot
\* sees.  Without any the handler rolls back.
SelectRecipients(r) ==
    LET to == Recipients(req[r].audience)
    IN  /\ req[r].kind = "broadcast" /\ req[r].pc = "insert"
        /\ Free(r, {"exclusive"})
        /\ IF Reaches(to)
           THEN Step(r, [req[r] EXCEPT !.pc = "keys", !.to = to], {"insert"})
           ELSE Done(r)
        /\ UNCHANGED <<clock, people, tables, push, begun, events>>

\* The foreign key locks every recipient; one deleted since fails the whole
\* transaction.
LockRecipients(r) ==
    /\ req[r].pc = "keys"
    /\ IF req[r].to \subseteq parents
       THEN Step(r, [req[r] EXCEPT !.pc = "commit"], {})
       ELSE Done(r)
    /\ UNCHANGED <<clock, people, tables, push, begun, events>>

\* What the commit of a transaction that called CreateBroadcast adds.
\* COMMIT's answer may be lost (a cancelled context): then no push is started,
\* and without a Firebase client PushBroadcast does nothing.
Announced(rec) ==
    LET b == Len(broadcasts) + 1
    IN  /\ broadcasts' = Append(broadcasts,
             [text |-> rec.text, audience |-> rec.audience, at |-> rec.at,
              count |-> Cardinality(rec.to), by |-> rec.kind])
        /\ notifications' = notifications
             \cup {[parent |-> p, broadcast |-> b] : p \in rec.to}
        /\ \E pc \in {"lost", "queued"} :
             /\ pc = "queued" => "firebase" \in workload
             /\ push' = [push EXCEPT ![b].pc = pc]

Commit(r) ==
    /\ req[r].kind = "broadcast" /\ req[r].pc = "commit"
    /\ Announced(req[r])
    /\ Done(r)
    /\ UNCHANGED <<clock, people, begun, events>>

\* An error or a client that went away.
Abort(r) ==
    /\ req[r].pc # "idle" /\ Happens
    /\ Done(r)
    /\ UNCHANGED <<clock, people, tables, push, begun>>

-----------------------------------------------------------------------------
(* notify.PushBroadcast, in the background                                 *)

\* Every device of every recipient, ordered by device_tokens.id; which order
\* the ids have does not matter.
ListTokens(b) ==
    /\ push[b].pc = "queued"
    /\ LET mine(k) == [parent |-> owner[k], broadcast |-> b]
           listed == {k \in Tokens : mine(k) \in notifications}
       IN  \/ push' = [push EXCEPT ![b].pc = "lost"]
           \/ push' = [push EXCEPT ![b] =
                [@ EXCEPT !.pc = "sending", !.todo = SetToSeq(listed),
                          !.listed = listed]]
    /\ UNCHANGED <<clock, people, tables, req, locks, begun, events>>

Batch(todo) == SubSeq(todo, 1, Min({BatchSize, Len(todo)}))

Rest(todo) == SubSeq(todo, Len(Batch(todo)) + 1, Len(todo))

\* A failed batch ends the push.
MutAfterFailure(todo) == [NoPush EXCEPT !.pc = "done"]

\* The call failed or ran into PushBatchTimeout; the next batch is tried.
AfterFailure(todo) == [NoPush EXCEPT !.pc = "sending", !.todo = Rest(todo)]

\* One multicast: it fails as a whole, or some tokens turn out unregistered
\* and are deleted (clearDeadToken).
SendBatch(b) ==
    LET todo == push[b].todo
        batch == Batch(todo)
        tried == push[b].tried \o batch
    IN  /\ push[b].pc = "sending" /\ todo # <<>>
        /\ \/ /\ push' = [push EXCEPT ![b] =
                   [AfterFailure(todo) EXCEPT !.listed = push[b].listed,
                                              !.tried = tried]]
              /\ UNCHANGED owner
           \/ \E dead \in SUBSET {batch[i] : i \in DOMAIN batch} :
                /\ push' = [push EXCEPT ![b].todo = Rest(todo),
                                        ![b].tried = tried]
                /\ owner' = [k \in Tokens |->
                               IF k \in dead THEN 0 ELSE owner[k]]
        /\ UNCHANGED <<clock, parents, class, tables, req, locks, begun,
                       events>>

FinishPush(b) ==
    /\ push[b].pc = "sending" /\ push[b].todo = <<>>
    /\ push' = [push EXCEPT ![b].pc = "done"]
    /\ UNCHANGED <<clock, people, tables, req, locks, begun, events>>

-----------------------------------------------------------------------------
(* The rest of the system, seen from here                                  *)

\* A parent is created, or an account deleted: what references it goes with
\* it, and the deletion waits for transactions that hold its key.
AddParent(p) ==
    /\ Happens /\ p \notin parents
    /\ parents' = parents \cup {p}
    /\ UNCHANGED <<clock, class, owner, tables, push, req, locks, begun>>

\* Notifications outlive their parent.
MutKept(p) == notifications

Kept(p) == {n \in notifications : n.parent # p}

DeleteParent(p) ==
    /\ Happens /\ p \in parents
    /\ \A r \in Requests : req[r].pc = "commit" => p \notin req[r].to
    /\ parents' = parents \ {p} /\ class' = class \ {p}
    /\ owner' = [k \in Tokens |-> IF owner[k] = p THEN 0 ELSE owner[k]]
    /\ notifications' = Kept(p)
    /\ broadcasts' = [b \in DOMAIN broadcasts |->
         IF broadcasts[b].audience = ToParent(p)
         THEN [broadcasts[b] EXCEPT !.audience = ToParent(0)]
         ELSE broadcasts[b]]
    /\ UNCHANGED <<clock, push, req, locks, begun>>

\* A student joins or leaves the class; a device is registered, moved to
\* another parent or removed.
EditClass(p) ==
    /\ "broadcast" \in workload /\ Happens /\ p \in parents
    /\ class' = IF p \in class THEN class \ {p} ELSE class \cup {p}
    /\ UNCHANGED <<clock, parents, owner, tables, push, req, locks, begun>>

MoveToken(k, p) ==
    /\ "devices" \in workload /\ Happens /\ p \in parents \cup {0}
    /\ owner' = [owner EXCEPT ![k] = p]
    /\ UNCHANGED <<clock, parents, class, tables, push, req, locks, begun>>

Tick ==
    /\ "time" \in workload /\ now < MaxTime /\ now' = now + 1
    /\ UNCHANGED <<workload, people, tables, push, req, locks, begun, events>>

\* The process dies: transactions are rolled back and pushes are lost.
Crash ==
    /\ Happens
    /\ req' = [r \in Requests |-> Idle]
    /\ locks' = [r \in Requests |-> {}]
    /\ push' = [b \in DOMAIN push |->
         IF push[b].pc \in {"queued", "sending"}
         THEN [push[b] EXCEPT !.pc = "lost"] ELSE push[b]]
    /\ UNCHANGED <<clock, people, tables, begun>>

CreateStep(r) ==
    \/ LockBroadcasts(r) \/ CheckDuplicate(r) \/ SelectRecipients(r)
    \/ LockRecipients(r) \/ Commit(r)

PushStep(b) == ListTokens(b) \/ SendBatch(b) \/ FinishPush(b)

World ==
    \/ \E p \in Parents : AddParent(p) \/ DeleteParent(p) \/ EditClass(p)
    \/ \E k \in Tokens, p \in Parents \cup {0} : MoveToken(k, p)
    \/ Tick \/ Crash

\* The requests of the bound, and the pushes they started, have ended.
Answered ==
    /\ begun = MaxRequests /\ \A r \in Requests : req[r].pc = "idle"
    /\ \A b \in DOMAIN push : push[b].pc \in {"none", "done", "lost"}
    /\ UNCHANGED vars

Next ==
    \/ Answered
    \/ \E r \in Requests : Begin(r) \/ CreateStep(r) \/ Abort(r)
    \/ \E b \in 1..MaxRequests : PushStep(b)
    \/ World

\* A goroutine is scheduled again and again, and every call it makes to the
\* database or to Firebase has a timeout.
Fairness == \A b \in 1..MaxRequests : WF_vars(PushStep(b))

Spec == Init /\ [][Next]_vars /\ Fairness

-----------------------------------------------------------------------------

\* A broadcast an admin sends is at least DuplicateWait apart from every one
\* committed before it, a closure's included, with the same text to the same
\* audience, however the requests overlap; the audience of an account that was
\* deleted since is no longer known.
NoRepeat ==
    \A b, c \in DOMAIN broadcasts :
        b < c /\ broadcasts[c].by = "broadcast"
              /\ broadcasts[b].text = broadcasts[c].text
              /\ broadcasts[b].audience = broadcasts[c].audience
              /\ broadcasts[b].audience # ToParent(0)
        => \/ broadcasts[c].at >= broadcasts[b].at + DuplicateWait
           \/ broadcasts[b].at >= broadcasts[c].at + DuplicateWait

\* A broadcast in the log reached somebody, its notifications belong to
\* parents that exist and are never more than it counted, also when accounts
\* are deleted while it is written.
LogIsHonest ==
    \A b \in DOMAIN broadcasts :
        LET rows == {n \in notifications : n.broadcast = b}
        IN  /\ broadcasts[b].count > 0
            /\ Cardinality(rows) <= broadcasts[b].count
            /\ {n.parent : n \in rows} \subseteq parents

\* A push that has started tries every device it listed, and none twice,
\* unless the process dies: a failed batch does not stop the ones after it.
PushTriesAll ==
    \A b \in 1..MaxRequests :
        push[b].pc = "sending" ~>
            \/ push[b].pc = "lost"
            \/ /\ push[b].pc = "done"
               /\ {push[b].tried[i] : i \in DOMAIN push[b].tried}
                    = push[b].listed
               /\ Len(push[b].tried) = Cardinality(push[b].listed)
=============================================================================
