---------------------------- MODULE LoginLimiter ----------------------------
(***************************************************************************)
(* The in-memory limiter of failed logins (internal/ratelimit/login.go).   *)
(*                                                                         *)
(* A handler calls Allow(key) before it looks at the credentials and, in a *)
(* defer, Finish(key, outcome) after it.  Both run under the limiter's     *)
(* mutex, so each is one action; between them any number of other requests *)
(* run.  `reserved' counts, per key, the handlers that are between a       *)
(* granted Allow and its Finish: it is the environment's view of what the  *)
(* limiter keeps in inFlight.                                              *)
(***************************************************************************)
EXTENDS LimiterClock

CONSTANTS
    Keys,         \* the keys callers pass: a phone number, user|ip, an ip
    MaxFailures   \* NewLoginLimiter's maxFailures

ASSUME LimiterAssumption == MaxFailures \in Nat \ {0}

VARIABLES
    entries,    \* the map: key |-> [start, failures, inFlight]
    lastSweep,  \* when expired entries were last removed
    reserved    \* handlers holding a slot, per key

vars == <<entries, lastSweep, now, reserved>>

Entry == [start : Nat, failures : Nat, inFlight : Nat]

Outcomes == {"Released", "Failed", "Succeeded"}

TypeOK ==
    /\ DOMAIN entries \subseteq Keys
    /\ IsFiniteSet(DOMAIN entries)
    /\ entries \in [DOMAIN entries -> Entry]
    /\ lastSweep \in Int
    /\ now \in Nat
    /\ reserved \in [Keys -> Nat]

\* No entry; lastSweep is the zero time, so the first Allow sweeps.
Init ==
    /\ entries = [k \in {} |-> 0]
    /\ lastSweep = -Window
    /\ now = 0
    /\ reserved = [k \in Keys |-> 0]

-----------------------------------------------------------------------------

Expired(e) == now >= e.start + Window

MutSweepable(e) == e.inFlight = 0

\* What a sweep may delete.
Sweepable(e) == e.inFlight = 0 /\ Expired(e)

Swept(es) == [k \in {j \in DOMAIN es : ~Sweepable(es[j])} |-> es[k]]

\* The sweep every Allow starts with: at most once per window.
Due == now - lastSweep >= Window
AfterSweep == IF Due THEN Swept(entries) ELSE entries
LastAfterSweep == IF Due THEN now ELSE lastSweep

Full(es) == MaxKeys > 0 /\ Cardinality(DOMAIN es) >= MaxKeys

\* A new key meets a full map: sweep again, at most once per SweepGap.
Forced(key) ==
    /\ key \notin DOMAIN AfterSweep
    /\ Full(AfterSweep)
    /\ now - LastAfterSweep >= SweepGap

\* The map and the sweep time once both sweeps have had their chance.
Map(key) == IF Forced(key) THEN Swept(AfterSweep) ELSE AfterSweep
Last(key) == IF Forced(key) THEN now ELSE LastAfterSweep

\* key's entry when Allow reaches its check: fresh, restarted or as it was.
Current(key) ==
    IF key \notin DOMAIN Map(key)
    THEN [start |-> now, failures |-> 0, inFlight |-> 0]
    ELSE IF Expired(Map(key)[key])
    THEN [Map(key)[key] EXCEPT !.start = now, !.failures = 0]
    ELSE Map(key)[key]

Put(es, key, e) ==
    [k \in DOMAIN es \cup {key} |-> IF k = key THEN e ELSE es[k]]

HasSlot(e) == e.failures + e.inFlight < MaxFailures

\* The limiter is full of live entries: a new key is refused, nothing evicted.
AllowFull(key) ==
    /\ key \notin DOMAIN Map(key) /\ Full(Map(key))
    /\ entries' = Map(key)
    /\ lastSweep' = Last(key)
    /\ UNCHANGED <<now, reserved>>

\* The key has an entry now, and the entry a free slot: one is reserved.
AllowGranted(key) ==
    /\ key \in DOMAIN Map(key) \/ ~Full(Map(key))
    /\ HasSlot(Current(key))
    /\ entries' = Put(Map(key), key,
                      [Current(key) EXCEPT !.inFlight = @ + 1])
    /\ lastSweep' = Last(key)
    /\ reserved' = [reserved EXCEPT ![key] = @ + 1]
    /\ UNCHANGED now

\* No free slot: refused, but the entry may have been restarted.
AllowLocked(key) ==
    /\ key \in DOMAIN Map(key) \/ ~Full(Map(key))
    /\ ~HasSlot(Current(key))
    /\ entries' = Put(Map(key), key, Current(key))
    /\ lastSweep' = Last(key)
    /\ UNCHANGED <<now, reserved>>

Allow(key) == AllowFull(key) \/ AllowGranted(key) \/ AllowLocked(key)

\* What Finish leaves of the entry it finds.
Finished(e, outcome) ==
    [start    |-> e.start,
     inFlight |-> IF e.inFlight > 0 THEN e.inFlight - 1 ELSE 0,
     failures |-> IF outcome = "Failed" THEN e.failures + 1
                  ELSE IF outcome = "Succeeded" THEN 0 ELSE e.failures]

MutForget(e, outcome) == outcome = "Succeeded"

\* A success deletes the entry once nobody else holds a slot of it.
Forget(e, outcome) ==
    outcome = "Succeeded" /\ Finished(e, outcome).inFlight = 0

\* Only a handler whose Allow was granted calls Finish, and calls it once.
Finish(key, outcome) ==
    /\ reserved[key] > 0
    /\ reserved' = [reserved EXCEPT ![key] = @ - 1]
    /\ entries' =
         IF key \notin DOMAIN entries THEN entries
         ELSE IF Forget(entries[key], outcome)
         THEN [k \in DOMAIN entries \ {key} |-> entries[k]]
         ELSE [entries EXCEPT ![key] = Finished(@, outcome)]
    /\ UNCHANGED <<lastSweep, now>>

Tick ==
    /\ now < MaxTime
    /\ now' = now + 1
    /\ UNCHANGED <<entries, lastSweep, reserved>>

Next ==
    \/ \E key \in Keys : Allow(key)
    \/ \E key \in Keys, outcome \in Outcomes : Finish(key, outcome)
    \/ Tick

Spec == Init /\ [][Next]_vars

-----------------------------------------------------------------------------

\* Every handler that holds a slot will find its entry when it finishes, and
\* the entry counts exactly those handlers: no sweep, restart, success or
\* full map ever loses or invents a reservation.
SlotsAccounted ==
    \A key \in Keys :
        reserved[key] = IF key \in DOMAIN entries
                        THEN entries[key].inFlight ELSE 0

\* Verdicts still possible plus verdicts already wrong never exceed the
\* limit, so concurrent guesses cannot get past it.
SlotsBounded ==
    \A key \in DOMAIN entries :
        entries[key].failures + entries[key].inFlight <= MaxFailures

\* The handlers really checking a password for a key, and the wrong ones
\* counted, never exceed the limit: no sweep, success or expired window
\* forgets a guess that is still being checked.
GuessesBounded ==
    \A key \in Keys :
        reserved[key] + (IF key \in DOMAIN entries
                         THEN entries[key].failures ELSE 0) <= MaxFailures

\* The map never outgrows its cap.
KeysBounded == MaxKeys > 0 => Cardinality(DOMAIN entries) <= MaxKeys

LockedOut(key) ==
    /\ key \in DOMAIN entries
    /\ entries[key].failures >= MaxFailures
    /\ ~Expired(entries[key])

\* A lockout ends only with its window: until then no late success, sweep or
\* flood of other keys erases it or lets one more attempt through.
LockoutStands ==
    [][\A key \in Keys :
        LockedOut(key) =>
            /\ reserved'[key] <= reserved[key]
            /\ key \in DOMAIN entries'
            /\ entries'[key] = entries[key]]_vars
=============================================================================
