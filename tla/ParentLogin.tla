----------------------------- MODULE ParentLogin -----------------------------
(***************************************************************************)
(* Where a parent's PIN is asked for: at login (handlers/mobile.go,        *)
(* MobileLoginHandler) and before the account is deleted                   *)
(* (handlers/parent_account.go, AccountDeleteHandler).  Both count wrong   *)
(* PINs in one limiter keyed by the canonical phone number, an instance of *)
(* LoginLimiter whose slots in use are read off the requests' program      *)
(* counters.  The admin's student form creates parents and replaces PINs   *)
(* at any moment (resolveParent), and AuthMiddleware compares a token's    *)
(* session version with the parent's row.  What deletion and PIN changes   *)
(* do to device tokens and children is in ParentAccount.                   *)
(***************************************************************************)
EXTENDS Logins

CONSTANTS
    Phones,       \* phone numbers in canonical form
    Pins,         \* the PINs in use and tried
    PinFailures,  \* the limiter's maxFailures
    MaxRequests,  \* bound: logins and deletions ever begun
    MaxParents,   \* bound: parents ever created
    MaxVersion    \* bound: PIN changes of one parent

ASSUME ParentLoginAssumption ==
    /\ PinFailures \in Nat \ {0}
    /\ MaxRequests \in Nat /\ MaxParents \in Nat /\ MaxVersion \in Nat
    /\ 0 \notin Reqs  \* Unlocked

VARIABLES
    phones, phonesSwept,  \* the limiter's entries and lastSweep
    row,      \* the rows of parents, by phone_number; id 0 where there is none
    lastId,   \* the serial of parents.id: never handed out twice
    locked    \* the deletion holding each phone's row FOR UPDATE

parentLimiter == <<now, phones, phonesSwept>>
parentVars == <<parentLimiter, row, lastId, locked, req, tokens, begun>>

NoRow == [id |-> 0, pin |-> 0, version |-> 0]
Unlocked == 0

ParentIdle == [pc |-> "idle", phone |-> 0, parent |-> 0, pin |-> 0,
         seen |-> NoRow, outcome |-> "Released"]

\* The handlers between a granted Allow and its Finish.
Holders(phone) ==
    {r \in Reqs : /\ req[r].pc \notin {"idle", "phone", "ask"}
                  /\ req[r].phone = phone}

Held == [phone \in Phones |-> Cardinality(Holders(phone))]

Limiter == INSTANCE LoginLimiter WITH
    Keys <- Phones, MaxFailures <- PinFailures,
    entries <- phones, lastSweep <- phonesSwept, reserved <- Held

ParentTypeOK ==
    /\ Limiter!TypeOK
    /\ row \in [Phones -> {NoRow} \cup
                  [id : 1..MaxParents, pin : Pins, version : 0..MaxVersion]]
    /\ lastId \in 0..MaxParents
    /\ locked \in [Phones -> Reqs \cup {Unlocked}]
    /\ \A r \in Reqs : req[r].pc \in {"idle", "phone", "ask", "read", "compare",
                                      "lock", "check", "delete", "finish"}
    /\ tokens \subseteq
         [id : 1..MaxParents, version : 0..MaxVersion, pin : Pins]
    /\ begun \in 0..MaxRequests

ParentInit ==
    /\ now = 0 /\ phones = [k \in {} |-> 0] /\ phonesSwept = -Window
    /\ row = [phone \in Phones |-> NoRow]
    /\ lastId = 0
    /\ locked = [phone \in Phones |-> Unlocked]
    /\ req = [r \in Reqs |-> ParentIdle]
    /\ tokens = {}
    /\ begun = 0

Exists(id) == \E phone \in Phones : row[phone].id = id
RowOf(id) == row[CHOOSE phone \in Phones : row[phone].id = id]

\* AuthMiddleware: the parent exists and the version is its current one.
ParentAccepted(t) == Exists(t.id) /\ RowOf(t.id).version = t.version

Go(r, pc) == req' = [req EXCEPT ![r].pc = pc]
Conclude(r, outcome) ==
    req' = [req EXCEPT ![r].pc = "finish", ![r].outcome = outcome,
                       ![r].seen = NoRow]

-----------------------------------------------------------------------------
(* MobileLoginHandler.  A number that is no Iraqi mobile number, and an    *)
(* empty PIN, are answered before anything is read or counted.             *)

\* The limiter is asked before the PIN is looked at.
BeginLogin(r) ==
    /\ req[r].pc = "idle"
    /\ begun < MaxRequests /\ begun' = begun + 1
    /\ \E phone \in Phones, pin \in Pins :
         \/ /\ req' = [req EXCEPT ![r] = [ParentIdle EXCEPT
                         !.pc = "read", !.phone = phone, !.pin = pin]]
            /\ Limiter!AllowGranted(phone)
         \/ /\ UNCHANGED req
            /\ Limiter!AllowFull(phone) \/ Limiter!AllowLocked(phone)
    /\ UNCHANGED <<row, lastId, locked, tokens>>

\* The hash and the version come from one SELECT; an error counts for nothing.
ReadParent(r) ==
    LET found == row[req[r].phone]
    IN  /\ req[r].pc = "read"
        /\ \/ /\ found # NoRow
              /\ req' = [req EXCEPT ![r].pc = "compare", ![r].seen = found]
           \/ found = NoRow /\ Conclude(r, "Failed")
           \/ Conclude(r, "Released")
        /\ UNCHANGED <<parentLimiter, row, lastId, locked, tokens, begun>>

\* A token that cannot be signed leaves the outcome a success.
ComparePin(r) ==
    LET seen == req[r].seen
    IN  /\ req[r].pc = "compare"
        /\ IF req[r].pin = seen.pin
           THEN /\ Conclude(r, "Succeeded")
                /\ \/ tokens' = tokens \cup {[id |-> seen.id, version |-> seen.version,
                                              pin |-> req[r].pin]}
                   \/ UNCHANGED tokens
           ELSE Conclude(r, "Failed") /\ UNCHANGED tokens
        /\ UNCHANGED <<parentLimiter, row, lastId, locked, begun>>

-----------------------------------------------------------------------------
(* AccountDeleteHandler, for a token AuthMiddleware has just accepted. *)

BeginDelete(r) ==
    /\ req[r].pc = "idle"
    /\ begun < MaxRequests /\ begun' = begun + 1
    /\ \E t \in tokens, pin \in Pins :
         /\ ParentAccepted(t)
         /\ req' = [req EXCEPT ![r] = [ParentIdle EXCEPT !.pc = "phone", !.parent = t.id,
                                         !.pin = pin]]
    /\ UNCHANGED <<parentLimiter, row, lastId, locked, tokens>>

\* The parent's phone number; nothing is held yet if the lookup fails.
FindPhone(r) ==
    LET id == req[r].parent
    IN  /\ req[r].pc = "phone"
        /\ \/ \E phone \in Phones :
                /\ row[phone].id = id
                /\ req' = [req EXCEPT ![r].pc = "ask", ![r].phone = phone]
           \/ req' = [req EXCEPT ![r] = ParentIdle]
        /\ UNCHANGED <<parentLimiter, row, lastId, locked, tokens, begun>>

\* The same limiter and key as at login.
Ask(r) ==
    LET phone == req[r].phone
    IN  /\ req[r].pc = "ask"
        /\ \/ Go(r, "lock") /\ Limiter!AllowGranted(phone)
           \/ /\ req' = [req EXCEPT ![r] = ParentIdle]
              /\ Limiter!AllowFull(phone) \/ Limiter!AllowLocked(phone)
        /\ UNCHANGED <<row, lastId, locked, tokens, begun>>

\* SELECT pin_code ... FOR UPDATE without the lock.
MutTakes(phone, r) == UNCHANGED locked

Takes(phone, r) == locked' = [locked EXCEPT ![phone] = r]

\* A parent that is gone is answered before the deferred Finish is set up.
MutGone(r) == req' = [req EXCEPT ![r] = ParentIdle]

\* The parent is gone, or the lookup failed: nothing is counted.
Gone(r) == Conclude(r, "Released")

\* The row is found by id: a new parent with this number is not it.
LockParent(r) ==
    LET phone == req[r].phone
    IN  /\ req[r].pc = "lock" /\ locked[phone] = Unlocked
        /\ \/ /\ row[phone].id = req[r].parent
              /\ req' = [req EXCEPT ![r].pc = "check", ![r].seen = row[phone]]
              /\ Takes(phone, r)
           \/ Gone(r) /\ UNCHANGED locked
        /\ UNCHANGED <<parentLimiter, row, lastId, tokens, begun>>

\* What the transaction held ends with it, however it ends.
Unlock(r) == locked' = [phone \in Phones |->
                          IF locked[phone] = r THEN Unlocked ELSE locked[phone]]

CheckPin(r) ==
    /\ req[r].pc = "check"
    /\ IF req[r].pin = req[r].seen.pin
       THEN Go(r, "delete") /\ UNCHANGED locked
       ELSE Conclude(r, "Failed") /\ Unlock(r)
    /\ UNCHANGED <<parentLimiter, row, lastId, tokens, begun>>

\* DELETE and COMMIT, or an error before that, which counts for nothing.
CommitDelete(r) ==
    LET phone == req[r].phone
    IN  /\ req[r].pc = "delete"
        /\ \/ /\ row' = [row EXCEPT ![phone] =
                           IF @.id = req[r].parent THEN NoRow ELSE @]
              /\ Conclude(r, "Succeeded")
           \/ UNCHANGED row /\ Conclude(r, "Released")
        /\ Unlock(r)
        /\ UNCHANGED <<parentLimiter, lastId, tokens, begun>>

\* The deferred Finish of both handlers, which runs before the row lock of a
\* failed deletion is gone or after it: the two do not meet.
FinishPin(r) ==
    /\ req[r].pc = "finish"
    /\ req' = [req EXCEPT ![r] = ParentIdle]
    /\ Limiter!Finish(req[r].phone, req[r].outcome)
    /\ UNCHANGED <<row, lastId, locked, tokens, begun>>

-----------------------------------------------------------------------------
(* resolveParent with a PIN: an upsert by phone number. *)

MutNewVersion(found) == found.version

NewVersion(found) == found.version + 1

SetPin(phone, pin) ==
    /\ locked[phone] = Unlocked
    /\ IF row[phone] = NoRow
       THEN /\ lastId < MaxParents
            /\ lastId' = lastId + 1
            /\ row' = [row EXCEPT ![phone] =
                         [id |-> lastId + 1, pin |-> pin, version |-> 0]]
       ELSE /\ row[phone].version < MaxVersion
            /\ row' = [row EXCEPT ![phone] =
                         [@ EXCEPT !.pin = pin, !.version = NewVersion(row[phone])]]
            /\ UNCHANGED lastId
    /\ UNCHANGED <<parentLimiter, locked, req, tokens, begun>>

ParentTick ==
    /\ now < MaxTime
    /\ now' = now + 1
    /\ UNCHANGED <<phones, phonesSwept, row, lastId, locked, req, tokens, begun>>

\* All requests the bound allows have been answered.
ParentAnswered ==
    /\ begun = MaxRequests /\ \A r \in Reqs : req[r].pc = "idle"
    /\ UNCHANGED parentVars

ParentNext ==
    \/ ParentAnswered
    \/ \E r \in Reqs : \/ BeginLogin(r) \/ BeginDelete(r) \/ FindPhone(r) \/ Ask(r)
                       \/ ReadParent(r) \/ ComparePin(r)
                       \/ LockParent(r) \/ CheckPin(r) \/ CommitDelete(r)
                       \/ FinishPin(r)
    \/ \E phone \in Phones, pin \in Pins : SetPin(phone, pin)
    \/ ParentTick

ParentSpec == ParentInit /\ [][ParentNext]_parentVars

-----------------------------------------------------------------------------

\* Login and deletion together use the one limiter as LoginLimiter asks:
\* every granted slot is given back exactly once, also when the parent is
\* gone or the transaction fails.
UsesLimiter == Limiter!Spec

\* Every session AuthMiddleware still accepts was opened with the parent's
\* current PIN, although a login may answer after the PIN it read was
\* replaced, and a new parent under an old number starts again at version 0.
ParentSessionsCurrent ==
    \A t \in tokens : ParentAccepted(t) => \E phone \in Phones :
        row[phone].id = t.id /\ row[phone].pin = t.pin

\* An account goes only for the PIN it has at that moment: a PIN replaced
\* while the deletion was under way no longer deletes it.
DeletedByPin ==
    [][\A phone \in Phones :
         row[phone] # NoRow /\ row'[phone] = NoRow =>
             \E r \in Reqs : /\ req[r].pc = "delete" /\ req'[r].pc = "finish"
                             /\ req[r].parent = row[phone].id
                             /\ req[r].pin = row[phone].pin]_parentVars
=============================================================================
