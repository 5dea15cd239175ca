------------------------- MODULE LoginLimiterProofs -------------------------
(***************************************************************************)
(* The limiter's invariant and its lockout guarantee, for every set of     *)
(* keys and every limit, window, sweep gap and cap; then its two users,    *)
(* the administrators' and parents' logins: each takes only the limiter's  *)
(* steps, and what each promises about its sessions.  The two logins are   *)
(* separate specifications, each over the variables of Logins.             *)
(***************************************************************************)
EXTENDS LoginLimiter, AdminLogin, ParentLogin, FiniteSetTheorems, TLAPS

\* SlotsAccounted and SlotsBounded need each other only through TypeOK, but
\* the lockout needs both: a full entry has no handler left to finish.
LimiterInv == TypeOK /\ SlotsAccounted /\ SlotsBounded /\ KeysBounded

\* Sweeping keeps every entry it does not delete, and deletes only idle,
\* expired ones.
LEMMA SweptFacts ==
    ASSUME NEW es, IsFiniteSet(DOMAIN es), es \in [DOMAIN es -> Entry]
    PROVE  /\ DOMAIN Swept(es) \subseteq DOMAIN es
           /\ IsFiniteSet(DOMAIN Swept(es))
           /\ Swept(es) \in [DOMAIN Swept(es) -> Entry]
           /\ \A k \in DOMAIN Swept(es) : Swept(es)[k] = es[k]
           /\ \A k \in DOMAIN es : k \notin DOMAIN Swept(es) => Sweepable(es[k])
  <1> DEFINE D == {j \in DOMAIN es : ~Sweepable(es[j])}
  <1>1. D \subseteq DOMAIN es /\ Swept(es) = [k \in D |-> es[k]]
    BY DEF Swept
  <1>2. IsFiniteSet(D)
    BY <1>1, FS_Subset
  <1>3. DOMAIN Swept(es) = D /\ \A k \in D : Swept(es)[k] = es[k]
    BY <1>1
  <1>4. \A k \in DOMAIN es : k \notin D => Sweepable(es[k])
    OBVIOUS
  <1> HIDE DEF D
  <1> QED
    BY <1>1, <1>2, <1>3, <1>4

\* The map Allow works on after its sweeps, described by the map before them.
LEMMA MapFacts ==
    ASSUME TypeOK, NEW key \in Keys
    PROVE  /\ DOMAIN Map(key) \subseteq DOMAIN entries
           /\ IsFiniteSet(DOMAIN Map(key))
           /\ Map(key) \in [DOMAIN Map(key) -> Entry]
           /\ \A k \in DOMAIN Map(key) : Map(key)[k] = entries[k]
           /\ \A k \in DOMAIN entries :
                  k \notin DOMAIN Map(key) => Sweepable(entries[k])
           /\ Last(key) \in Int
  <1> DEFINE Facts(es) ==
               /\ DOMAIN es \subseteq DOMAIN entries
               /\ IsFiniteSet(DOMAIN es)
               /\ es \in [DOMAIN es -> Entry]
               /\ \A k \in DOMAIN es : es[k] = entries[k]
               /\ \A k \in DOMAIN entries :
                      k \notin DOMAIN es => Sweepable(entries[k])
  <1>1. Facts(entries)
    BY DEF TypeOK
  <1>2. ASSUME NEW es, Facts(es)
        PROVE  Facts(Swept(es))
    BY <1>2, SweptFacts
  <1>3. Facts(AfterSweep)
    <2>1. Facts(Swept(entries))
      BY <1>1, <1>2
    <2> HIDE DEF Facts
    <2> QED
      BY <1>1, <2>1 DEF AfterSweep
  <1>4. Facts(Map(key))
    <2>1. Facts(Swept(AfterSweep))
      BY <1>3, <1>2
    <2> HIDE DEF Facts
    <2> QED
      BY <1>3, <2>1 DEF Map
  <1>5. Last(key) \in Int
    BY DEF TypeOK, Last, LastAfterSweep
  <1> QED
    BY <1>4, <1>5

\* The entry Allow checks is well formed, keeps the key's reservations and
\* never has more failures than the stored one.
LEMMA CurrentFacts ==
    ASSUME LimiterInv, NEW key \in Keys
    PROVE  /\ Current(key) \in Entry
           /\ Current(key).inFlight = reserved[key]
           /\ Current(key).failures + Current(key).inFlight <= MaxFailures
  <1> USE LimiterAssumption, ClockAssumption DEF LimiterInv, Entry
  <1>1. CASE key \notin DOMAIN Map(key)
    <2>1. Current(key) = [start |-> now, failures |-> 0, inFlight |-> 0]
      BY <1>1 DEF Current
    <2>2. reserved[key] = 0
      BY <1>1, MapFacts DEF SlotsAccounted, Sweepable
    <2> QED
      BY <2>1, <2>2 DEF TypeOK
  <1>2. CASE key \in DOMAIN Map(key)
    <2>1. /\ Map(key)[key] \in Entry /\ Map(key)[key] = entries[key]
          /\ key \in DOMAIN entries
      BY <1>2, MapFacts
    <2>2. /\ entries[key].inFlight = reserved[key]
          /\ entries[key].failures + entries[key].inFlight <= MaxFailures
      BY <2>1 DEF SlotsAccounted, SlotsBounded
    <2>3. CASE Expired(Map(key)[key])
      <3>1. Current(key) = [entries[key] EXCEPT !.start = now, !.failures = 0]
        BY <1>2, <2>1, <2>3 DEF Current
      <3>2. Current(key) = [start |-> now, failures |-> 0,
                            inFlight |-> entries[key].inFlight]
        BY <3>1, <2>1
      <3> QED
        BY <3>2, <2>1, <2>2 DEF TypeOK
    <2>4. CASE ~Expired(Map(key)[key])
      BY <1>2, <2>1, <2>2, <2>4 DEF Current
    <2> QED
      BY <2>3, <2>4
  <1> QED
    BY <1>1, <1>2

\* Storing an entry under a key leaves a well-formed map, with at most one
\* key more than before.
LEMMA PutFacts ==
    ASSUME NEW es, IsFiniteSet(DOMAIN es), es \in [DOMAIN es -> Entry],
           DOMAIN es \subseteq Keys, NEW key \in Keys, NEW e \in Entry
    PROVE  /\ DOMAIN Put(es, key, e) = DOMAIN es \cup {key}
           /\ IsFiniteSet(DOMAIN Put(es, key, e))
           /\ Put(es, key, e) \in [DOMAIN Put(es, key, e) -> Entry]
           /\ Put(es, key, e)[key] = e
           /\ \A k \in DOMAIN es : k # key => Put(es, key, e)[k] = es[k]
           /\ key \in DOMAIN es =>
                Cardinality(DOMAIN Put(es, key, e)) = Cardinality(DOMAIN es)
           /\ key \notin DOMAIN es =>
                Cardinality(DOMAIN Put(es, key, e)) = Cardinality(DOMAIN es) + 1
  <1>1. /\ IsFiniteSet(DOMAIN es \cup {key})
        /\ Cardinality(DOMAIN es \cup {key}) =
             IF key \in DOMAIN es THEN Cardinality(DOMAIN es)
             ELSE Cardinality(DOMAIN es) + 1
    BY FS_AddElement
  <1>2. DOMAIN Put(es, key, e) = DOMAIN es \cup {key}
    BY DEF Put
  <1>3. \A k \in DOMAIN es \cup {key} :
            Put(es, key, e)[k] = IF k = key THEN e ELSE es[k]
    BY DEF Put
  <1>4. Put(es, key, e) \in [DOMAIN es \cup {key} -> Entry]
    BY DEF Put
  <1> QED
    BY <1>1, <1>2, <1>3, <1>4

\* Storing `e' for key keeps the limiter's invariant whenever `e' counts the
\* handlers that hold the key's slots and a new key finds room.
LEMMA StoreKeepsInv ==
    ASSUME LimiterInv, NEW key \in Keys, NEW e \in Entry,
           key \in DOMAIN Map(key) \/ ~Full(Map(key)),
           e.failures + e.inFlight <= MaxFailures,
           entries' = Put(Map(key), key, e),
           lastSweep' = Last(key),
           now' = now,
           reserved' \in [Keys -> Nat],
           reserved'[key] = e.inFlight,
           \A k \in Keys : k # key => reserved'[k] = reserved[k]
    PROVE  LimiterInv'
  <1> USE DEF LimiterInv
  <1>1. /\ DOMAIN Map(key) \subseteq DOMAIN entries
        /\ IsFiniteSet(DOMAIN Map(key))
        /\ Map(key) \in [DOMAIN Map(key) -> Entry]
        /\ \A k \in DOMAIN Map(key) : Map(key)[k] = entries[k]
        /\ \A k \in DOMAIN entries :
               k \notin DOMAIN Map(key) => Sweepable(entries[k])
        /\ Last(key) \in Int
    BY MapFacts
  <1>2. DOMAIN Map(key) \subseteq Keys
    BY <1>1 DEF TypeOK
  <1>3. /\ DOMAIN entries' = DOMAIN Map(key) \cup {key}
        /\ IsFiniteSet(DOMAIN entries')
        /\ entries' \in [DOMAIN entries' -> Entry]
        /\ entries'[key] = e
        /\ \A k \in DOMAIN Map(key) : k # key => entries'[k] = entries[k]
        /\ key \in DOMAIN Map(key) =>
               Cardinality(DOMAIN entries') = Cardinality(DOMAIN Map(key))
        /\ key \notin DOMAIN Map(key) =>
               Cardinality(DOMAIN entries') = Cardinality(DOMAIN Map(key)) + 1
    BY <1>1, <1>2, PutFacts
  <1>4. TypeOK'
    BY <1>1, <1>2, <1>3 DEF TypeOK
  <1>5. SlotsAccounted'
    <2> SUFFICES ASSUME NEW k \in Keys
                 PROVE  reserved'[k] = IF k \in DOMAIN entries'
                                       THEN entries'[k].inFlight ELSE 0
      BY DEF SlotsAccounted
    <2>1. CASE k = key
      BY <2>1, <1>3
    <2>2. CASE k # key /\ k \in DOMAIN Map(key)
      BY <2>2, <1>1, <1>3 DEF SlotsAccounted
    <2>3. CASE k # key /\ k \notin DOMAIN Map(key)
      BY <2>3, <1>1, <1>3 DEF SlotsAccounted, Sweepable
    <2> QED
      BY <2>1, <2>2, <2>3
  <1>6. SlotsBounded'
    BY <1>1, <1>3 DEF SlotsBounded
  <1>7. KeysBounded'
    <2>1. /\ Cardinality(DOMAIN Map(key)) <= Cardinality(DOMAIN entries)
          /\ Cardinality(DOMAIN Map(key)) \in Nat
          /\ Cardinality(DOMAIN entries) \in Nat
      BY <1>1, FS_Subset, FS_CardinalityType DEF TypeOK
    <2> QED
      BY <2>1, <1>3, ClockAssumption DEF KeysBounded, Full
  <1> QED
    BY <1>4, <1>5, <1>6, <1>7

\* Finish with the key's entry kept.
LEMMA FinishedFacts ==
    ASSUME NEW e \in Entry, e.inFlight > 0, NEW outcome \in Outcomes,
           e.failures + e.inFlight <= MaxFailures
    PROVE  /\ Finished(e, outcome) \in Entry
           /\ Finished(e, outcome).inFlight = e.inFlight - 1
           /\ Finished(e, outcome).failures + Finished(e, outcome).inFlight
                <= MaxFailures
  <1> USE LimiterAssumption DEF Entry, Outcomes
  <1>1. /\ e.start \in Nat /\ e.failures \in Nat /\ e.inFlight \in Nat
        /\ MaxFailures \in Nat
    OBVIOUS
  <1>2. CASE outcome = "Failed"
    BY <1>1, <1>2 DEF Finished
  <1>3. CASE outcome = "Succeeded"
    BY <1>1, <1>3 DEF Finished
  <1>4. CASE outcome = "Released"
    BY <1>1, <1>4 DEF Finished
  <1> QED
    BY <1>2, <1>3, <1>4

\* Every action keeps the invariant.
LEMMA LimiterStep == LimiterInv /\ [Next]_vars => LimiterInv'
  <1> SUFFICES ASSUME LimiterInv, [Next]_vars PROVE LimiterInv'
    OBVIOUS
  <1> USE LimiterAssumption, ClockAssumption
  <1>1. ASSUME NEW key \in Keys, AllowFull(key) PROVE LimiterInv'
    <2>1. /\ DOMAIN entries' \subseteq DOMAIN entries
          /\ IsFiniteSet(DOMAIN entries')
          /\ entries' \in [DOMAIN entries' -> Entry]
          /\ \A k \in DOMAIN entries' : entries'[k] = entries[k]
          /\ \A k \in DOMAIN entries :
                 k \notin DOMAIN entries' => Sweepable(entries[k])
          /\ lastSweep' \in Int
      BY <1>1, MapFacts DEF AllowFull, LimiterInv
    <2>2. reserved' = reserved /\ now' = now
      BY <1>1 DEF AllowFull
    <2>3. TypeOK'
      BY <2>1, <2>2 DEF LimiterInv, TypeOK
    <2>4. SlotsAccounted'
      BY <2>1, <2>2 DEF LimiterInv, SlotsAccounted, Sweepable
    <2>5. SlotsBounded'
      BY <2>1 DEF LimiterInv, SlotsBounded
    <2>6. KeysBounded'
      <3>1. /\ Cardinality(DOMAIN entries') <= Cardinality(DOMAIN entries)
            /\ Cardinality(DOMAIN entries') \in Nat
            /\ Cardinality(DOMAIN entries) \in Nat
        BY <2>1, FS_Subset, FS_CardinalityType DEF LimiterInv, TypeOK
      <3> QED
        BY <3>1 DEF LimiterInv, KeysBounded
    <2> QED
      BY <2>3, <2>4, <2>5, <2>6 DEF LimiterInv
  <1>2. ASSUME NEW key \in Keys, AllowGranted(key) PROVE LimiterInv'
    <2> DEFINE e == [Current(key) EXCEPT !.inFlight = @ + 1]
    <2>1. /\ Current(key) \in Entry
          /\ Current(key).inFlight = reserved[key]
          /\ Current(key).failures + Current(key).inFlight < MaxFailures
      BY <1>2, CurrentFacts DEF AllowGranted, HasSlot
    <2>2. e = [start |-> Current(key).start, failures |-> Current(key).failures,
               inFlight |-> Current(key).inFlight + 1]
      BY <2>1 DEF Entry
    <2>3. /\ e \in Entry /\ e.inFlight = reserved[key] + 1
          /\ e.failures + e.inFlight <= MaxFailures
      BY <2>1, <2>2 DEF Entry
    <2>4. /\ reserved' \in [Keys -> Nat] /\ reserved'[key] = reserved[key] + 1
          /\ \A k \in Keys : k # key => reserved'[k] = reserved[k]
      BY <1>2 DEF AllowGranted, LimiterInv, TypeOK
    <2>5. /\ entries' = Put(Map(key), key, e) /\ lastSweep' = Last(key)
          /\ now' = now
          /\ key \in DOMAIN Map(key) \/ ~Full(Map(key))
      BY <1>2 DEF AllowGranted
    <2> HIDE DEF e
    <2> QED
      BY <2>3, <2>4, <2>5, StoreKeepsInv
  <1>3. ASSUME NEW key \in Keys, AllowLocked(key) PROVE LimiterInv'
    <2>1. /\ reserved' \in [Keys -> Nat] /\ reserved' = reserved
          /\ entries' = Put(Map(key), key, Current(key))
          /\ lastSweep' = Last(key) /\ now' = now
          /\ key \in DOMAIN Map(key) \/ ~Full(Map(key))
      BY <1>3 DEF AllowLocked, LimiterInv, TypeOK
    <2> QED
      BY <2>1, CurrentFacts, StoreKeepsInv
  <1>4. ASSUME NEW key \in Keys, NEW outcome \in Outcomes, Finish(key, outcome)
        PROVE  LimiterInv'
    <2>1. /\ key \in DOMAIN entries /\ entries[key] \in Entry
          /\ entries[key].inFlight = reserved[key] /\ reserved[key] > 0
          /\ entries[key].failures + entries[key].inFlight <= MaxFailures
      BY <1>4 DEF Finish, LimiterInv, SlotsAccounted, SlotsBounded, TypeOK
    <2>2. /\ reserved' \in [Keys -> Nat] /\ reserved'[key] = reserved[key] - 1
          /\ \A k \in Keys : k # key => reserved'[k] = reserved[k]
          /\ now' = now /\ lastSweep' = lastSweep
      BY <1>4, <2>1 DEF Finish, LimiterInv, TypeOK
    <2> DEFINE e == Finished(entries[key], outcome)
    <2>3. /\ e \in Entry /\ e.inFlight = reserved[key] - 1
          /\ e.failures + e.inFlight <= MaxFailures
      BY <2>1, FinishedFacts
    <2>4. CASE Forget(entries[key], outcome)
      <3>1. /\ entries' = [k \in DOMAIN entries \ {key} |-> entries[k]]
            /\ reserved'[key] = 0
        BY <1>4, <2>1, <2>2, <2>3, <2>4 DEF Finish, Forget
      <3>2. /\ DOMAIN entries' = DOMAIN entries \ {key}
            /\ IsFiniteSet(DOMAIN entries')
            /\ Cardinality(DOMAIN entries') <= Cardinality(DOMAIN entries)
            /\ Cardinality(DOMAIN entries') \in Nat
            /\ Cardinality(DOMAIN entries) \in Nat
        BY <3>1, FS_Subset, FS_CardinalityType DEF LimiterInv, TypeOK
      <3>3. TypeOK'
        BY <3>1, <3>2, <2>2 DEF LimiterInv, TypeOK
      <3>4. SlotsAccounted' /\ SlotsBounded'
        BY <3>1, <3>2, <2>2 DEF LimiterInv, SlotsAccounted, SlotsBounded
      <3>5. KeysBounded'
        BY <3>2 DEF LimiterInv, KeysBounded
      <3> QED
        BY <3>3, <3>4, <3>5 DEF LimiterInv
    <2>5. CASE ~Forget(entries[key], outcome)
      <3>1. entries' = [entries EXCEPT ![key] = e]
        BY <1>4, <2>1, <2>5 DEF Finish
      <3>2. /\ DOMAIN entries' = DOMAIN entries /\ entries'[key] = e
            /\ \A k \in DOMAIN entries : k # key => entries'[k] = entries[k]
        BY <3>1, <2>1
      <3> HIDE DEF e
      <3>3. TypeOK'
        BY <3>1, <3>2, <2>2, <2>3 DEF LimiterInv, TypeOK
      <3>4. SlotsAccounted'
        BY <3>2, <2>1, <2>2, <2>3 DEF LimiterInv, SlotsAccounted
      <3>5. SlotsBounded'
        BY <3>2, <2>3 DEF LimiterInv, SlotsBounded
      <3>6. KeysBounded'
        BY <3>2 DEF LimiterInv, KeysBounded
      <3> QED
        BY <3>3, <3>4, <3>5, <3>6 DEF LimiterInv
    <2> QED
      BY <2>4, <2>5
  <1>5. CASE Tick
    BY <1>5 DEF Tick, LimiterInv, TypeOK, SlotsAccounted, SlotsBounded,
                KeysBounded
  <1>6. CASE UNCHANGED vars
    BY <1>6 DEF vars, LimiterInv, TypeOK, SlotsAccounted, SlotsBounded,
                KeysBounded
  <1> QED
    BY <1>1, <1>2, <1>3, <1>4, <1>5, <1>6 DEF Next, Allow

\* Type correctness, slot accounting, the slot limit and the key cap hold in
\* every reachable state of Allow, Finish and the clock.
THEOREM LimiterSafe == Spec => [](TypeOK /\ SlotsAccounted /\ SlotsBounded
                                  /\ KeysBounded)
  <1>1. Init => LimiterInv
    <2> SUFFICES ASSUME Init PROVE LimiterInv
      OBVIOUS
    <2>1. /\ DOMAIN entries = {} /\ reserved = [k \in Keys |-> 0]
          /\ now = 0 /\ lastSweep = -Window
      BY DEF Init
    <2>2. IsFiniteSet({}) /\ Cardinality({}) = 0
      BY FS_EmptySet
    <2>3. entries \in [DOMAIN entries -> Entry]
      BY DEF Init
    <2> QED
      BY <2>1, <2>2, <2>3, LimiterAssumption, ClockAssumption
      DEF LimiterInv, TypeOK, SlotsAccounted, SlotsBounded, KeysBounded
  <1>2. LimiterInv => TypeOK /\ SlotsAccounted /\ SlotsBounded /\ KeysBounded
    BY DEF LimiterInv
  <1> QED
    BY <1>1, <1>2, LimiterStep, PTL DEF Spec

\* Guesses under way and guesses that failed stay within the limit, because
\* the map counts exactly the handlers that hold a slot.
THEOREM LimiterBounds == Spec => []GuessesBounded
  <1>1. LimiterInv => GuessesBounded
    <2> SUFFICES ASSUME LimiterInv, NEW key \in Keys
                 PROVE  reserved[key] + (IF key \in DOMAIN entries
                          THEN entries[key].failures ELSE 0) <= MaxFailures
      BY DEF GuessesBounded
    <2>1. CASE key \in DOMAIN entries
      <3>1. /\ entries[key] \in Entry
            /\ reserved[key] = entries[key].inFlight
            /\ entries[key].failures + entries[key].inFlight <= MaxFailures
        BY <2>1 DEF LimiterInv, TypeOK, SlotsAccounted, SlotsBounded
      <3> QED
        BY <2>1, <3>1, LimiterAssumption DEF Entry
    <2>2. CASE key \notin DOMAIN entries
      BY <2>2, LimiterAssumption DEF LimiterInv, SlotsAccounted
    <2> QED
      BY <2>1, <2>2
  <1> QED
    BY <1>1, LimiterSafe, PTL DEF LimiterInv

\* A locked entry survives every step of its window unchanged, and grants
\* no further attempt.
LEMMA LockoutStep ==
    ASSUME LimiterInv, [Next]_vars, NEW key \in Keys, LockedOut(key)
    PROVE  /\ reserved'[key] <= reserved[key]
           /\ key \in DOMAIN entries'
           /\ entries'[key] = entries[key]
  <1> USE LimiterAssumption, ClockAssumption
  <1>1. /\ key \in DOMAIN entries /\ entries[key] \in Entry
        /\ entries[key].failures >= MaxFailures /\ ~Expired(entries[key])
        /\ entries[key].inFlight = 0 /\ reserved[key] = 0
    BY DEF LimiterInv, LockedOut, SlotsAccounted, SlotsBounded, TypeOK, Entry
  <1>2. ASSUME NEW other \in Keys
        PROVE  key \in DOMAIN Map(other) /\ Map(other)[key] = entries[key]
    BY <1>1, MapFacts DEF LimiterInv, Sweepable
  <1>3. Current(key) = entries[key] /\ ~HasSlot(Current(key))
    BY <1>1, <1>2 DEF Current, HasSlot, Entry
  <1>4. ASSUME NEW other \in Keys, NEW e
        PROVE  /\ key \in DOMAIN Put(Map(other), other, e)
               /\ Put(Map(other), other, e)[key] =
                    IF other = key THEN e ELSE entries[key]
    BY <1>2 DEF Put
  <1>5. ASSUME NEW other \in Keys, Allow(other)
        PROVE  /\ reserved'[key] <= reserved[key]
               /\ key \in DOMAIN entries'
               /\ entries'[key] = entries[key]
    <2>1. CASE AllowFull(other)
      BY <2>1, <1>1, <1>2 DEF AllowFull
    <2>2. CASE AllowGranted(other)
      <3>1. other # key
        BY <2>2, <1>3 DEF AllowGranted
      <3> QED
        BY <3>1, <2>2, <1>1, <1>4 DEF AllowGranted, LimiterInv, TypeOK
    <2>3. CASE AllowLocked(other)
      BY <2>3, <1>1, <1>3, <1>4 DEF AllowLocked
    <2> QED
      BY <1>5, <2>1, <2>2, <2>3 DEF Allow
  <1>6. ASSUME NEW other \in Keys, NEW outcome \in Outcomes,
               Finish(other, outcome)
        PROVE  /\ reserved'[key] <= reserved[key]
               /\ key \in DOMAIN entries'
               /\ entries'[key] = entries[key]
    <2>1. other # key
      BY <1>6, <1>1 DEF Finish
    <2> QED
      BY <2>1, <1>6, <1>1 DEF Finish, LimiterInv, TypeOK
  <1>7. CASE Tick
    BY <1>7, <1>1 DEF Tick
  <1>8. CASE UNCHANGED vars
    BY <1>8, <1>1 DEF vars
  <1> QED
    BY <1>5, <1>6, <1>7, <1>8 DEF Next

\* Lockouts stand until their window ends, whatever the other keys do.
THEOREM LimiterLockout == Spec => LockoutStands
  <1>1. Spec => []LimiterInv
    BY LimiterSafe, PTL DEF LimiterInv
  <1>2. LimiterInv /\ [Next]_vars =>
          [\A key \in Keys :
             LockedOut(key) =>
               /\ reserved'[key] <= reserved[key]
               /\ key \in DOMAIN entries'
               /\ entries'[key] = entries[key]]_vars
    BY LockoutStep
  <1> QED
    BY <1>1, <1>2, PTL DEF Spec, LockoutStands
-----------------------------------------------------------------------------
(* The administrators' login, over the limiter's window, gap and cap       *)

\* A login handler: an address that identifies nobody never meets the second
\* limiter, and no verdict clears an address.
Handler(a) ==
    /\ a = [pc |-> a.pc, user |-> a.user, ip |-> a.ip, pass |-> a.pass,
            row |-> a.row, version |-> a.version,
            userOutcome |-> a.userOutcome, ipOutcome |-> a.ipOutcome]
    /\ a.pc # "idle" => a.user \in Users /\ a.ip \in Addrs \cup {Proxy}
    /\ a.pc \in {"ip", "finishIP"} => a.ip # Proxy
    /\ a.userOutcome \in Outcomes /\ a.ipOutcome \in {"Released", "Failed"}
    /\ a.pc = "compare" => a.row = a.version

\* The n-th password comes with the n-th version, so a session's version
\* tells its password.
AdminInv ==
    /\ hash = version
    /\ \A t \in tokens : t.pass = t.version
    /\ DOMAIN req = Reqs
    /\ \A r \in Reqs : Handler(req[r])
    /\ now \in Nat
    /\ \A k \in DOMAIN ips : ips[k] \in Entry

UsesIP(a) == a.pc \in {"read", "compare", "finishIP"} /\ a.ip # Proxy

\* One handler goes on.
Moves(r, b) ==
    /\ DOMAIN req' = Reqs /\ req'[r] = b
    /\ \A u \in Reqs \ {r} : req'[u] = req[u]

\* A handler goes on and keeps its slots.
Onward(r, b) ==
    /\ Moves(r, b) /\ Handler(b)
    /\ req[r].pc # "idle" /\ b.pc # "idle"
    /\ b.user = req[r].user /\ b.ip = req[r].ip

LEMMA IdleHandler == Handler(AdminIdle) /\ AdminIdle.pc = "idle"
<1>1. /\ AdminIdle.pc = "idle" /\ AdminIdle.userOutcome = "Released"
      /\ AdminIdle.ipOutcome = "Released"
  BY DEF AdminIdle
<1>2. AdminIdle = [pc |-> AdminIdle.pc, user |-> AdminIdle.user,
        ip |-> AdminIdle.ip, pass |-> AdminIdle.pass, row |-> AdminIdle.row,
        version |-> AdminIdle.version, userOutcome |-> AdminIdle.userOutcome,
        ipOutcome |-> AdminIdle.ipOutcome]
  BY DEF AdminIdle
<1> QED
  BY <1>1, <1>2 DEF Handler, Outcomes

\* Who goes on without leaving its user slot, or its address slot, changes
\* nothing in the view of that limiter.
LEMMA UserHeldSame ==
    ASSUME AdminInv, NEW r \in Reqs, NEW b, Onward(r, b)
    PROVE  UNCHANGED UserHeld
<1>1. \A u \in Reqs : /\ req'[u].pc # "idle" <=> req[u].pc # "idle"
                      /\ req[u].pc # "idle" => /\ req'[u].user = req[u].user
                                               /\ req'[u].ip = req[u].ip
  BY DEF Onward, Moves
<1>2. \A k : {u \in InUser : UserKey(u) = k}'
             = {u \in InUser : UserKey(u) = k}
  BY <1>1 DEF InUser, UserKey
<1> QED
  BY <1>2, Zenon DEF UserHeld

\* A step that takes or gives back no slot of the address limiter.
LEMMA IPHeldSame ==
    ASSUME AdminInv, NEW r \in Reqs, NEW b, Moves(r, b), UsesIP(req[r]) <=> UsesIP(b),
           UsesIP(b) => b.ip = req[r].ip
    PROVE  UNCHANGED IPHeld
<1>1. \A u \in Reqs : /\ UsesIP(req'[u]) <=> UsesIP(req[u])
                      /\ UsesIP(req[u]) => req'[u].ip = req[u].ip
  BY DEF Moves
<1>2. \A k : {u \in InIP : req[u].ip = k}'
             = {u \in InIP : req[u].ip = k}
  BY <1>1 DEF InIP, UsesIP
<1> QED
  BY <1>2, Zenon DEF IPHeld

-----------------------------------------------------------------------------

\* EXCEPT on a record of handlers.
LEMMA SetField ==
    ASSUME DOMAIN req = Reqs, NEW r \in Reqs, NEW b, req' = [req EXCEPT ![r] = b]
    PROVE  Moves(r, b)
  BY DEF Moves

\* A granted Allow starts a handler.
LEMMA AllowUserStep ==
    ASSUME AdminInv, NEW r \in Reqs, AllowUser(r)
    PROVE  /\ UNCHANGED req \/ \E b : /\ Moves(r, b) /\ Handler(b)
                                      /\ ~UsesIP(req[r]) /\ ~UsesIP(b)
           /\ UserLimiter!Next
           /\ UNCHANGED <<ips, ipsSwept, hash, version, tokens, now>>
<1>0. req[r].pc = "idle" /\ UNCHANGED <<ips, ipsSwept, hash, version, tokens>>
  BY Zenon DEF AllowUser
<1>1. PICK user \in Users, ip \in Places, pass \in Versions :
        \/ /\ req' = [req EXCEPT ![r] = [AdminIdle EXCEPT
                        !.pc = AfterUser(ip), !.user = user, !.ip = ip,
                        !.pass = pass]]
           /\ UserLimiter!AllowGranted(<<user, ip>>)
        \/ /\ UNCHANGED req
           /\ \/ UserLimiter!AllowFull(<<user, ip>>)
              \/ UserLimiter!AllowLocked(<<user, ip>>)
  BY Zenon DEF AllowUser
<1>2. UNCHANGED now /\ UserLimiter!Next
  <2>1. UserLimiter!Allow(<<user, ip>>) /\ <<user, ip>> \in Users \X Places
    BY <1>1, Zenon DEF UserLimiter!Allow
  <2>2. UNCHANGED now
    BY <1>1, Zenon DEF UserLimiter!AllowGranted, UserLimiter!AllowFull,
                       UserLimiter!AllowLocked
  <2> QED
    BY <2>1, <2>2, Zenon DEF UserLimiter!Next
<1> DEFINE pc == AfterUser(ip)
           b1 == [AdminIdle EXCEPT !.pc = pc]
           b2 == [b1 EXCEPT !.user = user]
           b3 == [b2 EXCEPT !.ip = ip]
           b == [b3 EXCEPT !.pass = pass]
<1>3. UNCHANGED req \/ req' = [req EXCEPT ![r] = b]
  BY <1>1, Zenon
<1>4. (pc = "read" /\ ip = Proxy) \/ (pc = "ip" /\ ip # Proxy)
  BY DEF AfterUser
<1>5. /\ b1 = [AdminIdle EXCEPT !.pc = pc] /\ b2 = [b1 EXCEPT !.user = user]
      /\ b3 = [b2 EXCEPT !.ip = ip] /\ b = [b3 EXCEPT !.pass = pass]
  OBVIOUS
<1> HIDE DEF pc, b1, b2, b3, b
<1>6. b = [pc |-> pc, user |-> user, ip |-> ip, pass |-> pass, row |-> 0,
           version |-> 0, userOutcome |-> "Released", ipOutcome |-> "Released"]
  BY <1>5 DEF AdminIdle
<1>7. Handler(b) /\ ~UsesIP(b)
  BY <1>4, <1>6 DEF Handler, UsesIP, Places, Outcomes
<1>8. ~UsesIP(req[r])
  BY <1>0 DEF UsesIP
<1>9. UNCHANGED req \/ Moves(r, b)
  BY <1>3, SetField DEF AdminInv
<1> QED
  BY <1>0, <1>2, <1>7, <1>8, <1>9, Zenon

\* The second limiter's answer.
LEMMA AllowIPStep ==
    ASSUME AdminInv, NEW r \in Reqs, AllowIP(r)
    PROVE  /\ \E b : Onward(r, b) /\ b.pc # "compare"
           /\ IPLimiter!Allow(req[r].ip) /\ req[r].ip \in Addrs
           /\ UNCHANGED <<users, usersSwept, hash, version, tokens, now>>
<1> DEFINE a == req[r]
           b1 == [a EXCEPT !.pc = "read"]
           b2 == [a EXCEPT !.pc = "finishUser"]
<1>0. /\ a.pc = "ip" /\ Handler(a) /\ DOMAIN req = Reqs
      /\ UNCHANGED <<users, usersSwept, hash, version, tokens>>
  BY Zenon DEF AllowIP, AdminInv
<1>1. /\ req' = [req EXCEPT ![r] = b1] \/ req' = [req EXCEPT ![r] = b2]
      /\ IPLimiter!Allow(a.ip)
  BY Zenon DEF AllowIP, Refused, IPLimiter!Allow
<1>2. UNCHANGED now
  BY Zenon DEF AllowIP, IPLimiter!AllowGranted,
               IPLimiter!AllowFull, IPLimiter!AllowLocked
<1>3. b1 = [a EXCEPT !.pc = "read"] /\ b2 = [a EXCEPT !.pc = "finishUser"]
  OBVIOUS
<1> HIDE DEF a, b1, b2
<1>4. /\ Handler(b1) /\ b1.pc = "read" /\ b1.user = a.user /\ b1.ip = a.ip
      /\ Handler(b2) /\ b2.pc = "finishUser" /\ b2.user = a.user /\ b2.ip = a.ip
  BY <1>0, <1>3 DEF Handler
<1>5. Moves(r, b1) \/ Moves(r, b2)
  BY <1>0, <1>1, SetField
<1>6. Onward(r, b1) \/ Onward(r, b2)
  BY <1>0, <1>4, <1>5 DEF Onward, a
<1>7. a.ip \in Addrs
  BY <1>0 DEF Handler
<1> QED
  BY <1>0, <1>1, <1>2, <1>4, <1>6, <1>7 DEF a

\* A verdict sends the handler to the limiters whose slots it holds.
LEMMA ConcludedFacts ==
    ASSUME AdminInv, NEW r \in Reqs, req[r].pc \in {"read", "compare"},
           NEW uo \in Outcomes, NEW io \in {"Released", "Failed"}, NEW b,
           b = Concluded(r, uo, io), Moves(r, b)
    PROVE  Onward(r, b) /\ (UsesIP(req[r]) <=> UsesIP(b))
<1> DEFINE a == req[r]
           pc == Finishing(r)
           b1 == [AdminIdle EXCEPT !.pc = pc]
           b2 == [b1 EXCEPT !.user = a.user]
           b3 == [b2 EXCEPT !.ip = a.ip]
           b4 == [b3 EXCEPT !.userOutcome = uo]
           b5 == [b4 EXCEPT !.ipOutcome = io]
<1>1. b = b5
  BY Zenon DEF Concluded
<1>2. /\ Handler(a) /\ a.pc \in {"read", "compare"}
      /\ (pc = "finishUser" /\ a.ip = Proxy) \/ (pc = "finishIP" /\ a.ip # Proxy)
  BY DEF AdminInv, Finishing
<1>3. /\ b1 = [AdminIdle EXCEPT !.pc = pc] /\ b2 = [b1 EXCEPT !.user = a.user]
      /\ b3 = [b2 EXCEPT !.ip = a.ip] /\ b4 = [b3 EXCEPT !.userOutcome = uo]
      /\ b5 = [b4 EXCEPT !.ipOutcome = io]
  OBVIOUS
<1> HIDE DEF a, pc, b1, b2, b3, b4, b5
<1>4. b = [pc |-> pc, user |-> a.user, ip |-> a.ip, pass |-> 0, row |-> 0,
           version |-> 0, userOutcome |-> uo, ipOutcome |-> io]
  BY <1>1, <1>3 DEF AdminIdle
<1>5. /\ b.pc = pc /\ b.user = a.user /\ b.ip = a.ip /\ Handler(b)
  BY <1>2, <1>4 DEF Handler
<1> QED
  BY <1>2, <1>5 DEF Onward, UsesIP, a

\* The row, or the verdict that there is none.
LEMMA ReadAdminStep ==
    ASSUME AdminInv, NEW r \in Reqs, ReadAdmin(r)
    PROVE  /\ \E b : Onward(r, b) /\ (UsesIP(req[r]) <=> UsesIP(b))
           /\ UNCHANGED <<now, users, usersSwept, ips, ipsSwept, hash, version, tokens>>
<1> DEFINE a == req[r]
           q1 == [req EXCEPT ![r].pc = "compare"]
           q2 == [q1 EXCEPT ![r].row = hash[a.user]]
           q == [q2 EXCEPT ![r].version = version[a.user]]
           c1 == Concluded(r, "Failed", "Failed")
           c2 == Concluded(r, "Released", "Released")
<1>0. /\ a.pc = "read" /\ Handler(a) /\ DOMAIN req = Reqs /\ hash = version
      /\ UNCHANGED <<now, users, usersSwept, ips, ipsSwept, hash, version, tokens>>
  BY DEF ReadAdmin, AdminInv, adminLimiters
<1>1. req' = q \/ req' = [req EXCEPT ![r] = c1] \/ req' = [req EXCEPT ![r] = c2]
  BY Zenon DEF ReadAdmin, DatabaseOutcome
<1>2. CASE req' = [req EXCEPT ![r] = c1] \/ req' = [req EXCEPT ![r] = c2]
  <2>1. c1 = Concluded(r, "Failed", "Failed")
        /\ c2 = Concluded(r, "Released", "Released")
    OBVIOUS
  <2> HIDE DEF c1, c2
  <2>2. Moves(r, c1) \/ Moves(r, c2)
    BY <1>0, <1>2, SetField
  <2>3. Moves(r, c1) => Onward(r, c1) /\ (UsesIP(req[r]) <=> UsesIP(c1))
    BY <1>0, <2>1, ConcludedFacts DEF Outcomes
  <2>4. Moves(r, c2) => Onward(r, c2) /\ (UsesIP(req[r]) <=> UsesIP(c2))
    BY <1>0, <2>1, ConcludedFacts DEF Outcomes
  <2> QED
    BY <1>0, <2>2, <2>3, <2>4, Zenon
<1>3. CASE req' = q
  <2> DEFINE b == q[r]
  <2>1. /\ q1 = [req EXCEPT ![r].pc = "compare"] /\ q2 = [q1 EXCEPT ![r].row = hash[a.user]]
        /\ q = [q2 EXCEPT ![r].version = version[a.user]]
    OBVIOUS
  <2>2. a = req[r]
    OBVIOUS
  <2> HIDE DEF a, q1, q2, q, c1, c2
  <2>3. Moves(r, b)
    BY <1>0, <1>3, <2>1 DEF Moves
  <2>4. b = [pc |-> "compare", user |-> a.user, ip |-> a.ip, pass |-> a.pass,
             row |-> hash[a.user], version |-> version[a.user],
             userOutcome |-> a.userOutcome, ipOutcome |-> a.ipOutcome]
    <3>1. q1[r] = [a EXCEPT !.pc = "compare"] /\ DOMAIN q1 = Reqs
      BY <1>0, <2>1, <2>2
    <3>2. q2[r] = [q1[r] EXCEPT !.row = hash[a.user]] /\ DOMAIN q2 = Reqs
      BY <2>1, <3>1
    <3>3. b = [q2[r] EXCEPT !.version = version[a.user]]
      BY <2>1, <3>2
    <3>4. q1[r] = [pc |-> "compare", user |-> a.user, ip |-> a.ip, pass |-> a.pass,
             row |-> a.row, version |-> a.version,
             userOutcome |-> a.userOutcome, ipOutcome |-> a.ipOutcome]
      BY <1>0, <3>1 DEF Handler
    <3>5. q2[r] = [pc |-> "compare", user |-> a.user, ip |-> a.ip, pass |-> a.pass,
             row |-> hash[a.user], version |-> a.version,
             userOutcome |-> a.userOutcome, ipOutcome |-> a.ipOutcome]
      BY <3>2, <3>4
    <3> HIDE DEF b
    <3> QED
      BY <3>3, <3>5
  <2> HIDE DEF b
  <2>5. Handler(b) /\ b.pc = "compare" /\ b.user = a.user /\ b.ip = a.ip
    BY <1>0, <2>4 DEF Handler
  <2> QED
    BY <1>0, <2>2, <2>3, <2>5 DEF Onward, UsesIP
<1> QED
  BY <1>1, <1>2, <1>3

\* The verdict; a token carries what the SELECT saw.
LEMMA CompareStep ==
    ASSUME AdminInv, NEW r \in Reqs, ComparePassword(r)
    PROVE  /\ \E b : Onward(r, b) /\ (UsesIP(req[r]) <=> UsesIP(b))
           /\ \A t \in tokens' : t.pass = t.version
           /\ UNCHANGED <<now, users, usersSwept, ips, ipsSwept, hash, version>>
<1> DEFINE a == req[r]
           c1 == Concluded(r, "Failed", "Failed")
           c2 == Concluded(r, "Succeeded", "Released")
           t == [user |-> a.user, version |-> a.version, pass |-> a.pass]
<1>0. /\ a.pc = "compare" /\ Handler(a) /\ DOMAIN req = Reqs
      /\ \A s \in tokens : s.pass = s.version
      /\ UNCHANGED <<now, users, usersSwept, ips, ipsSwept, hash, version>>
  BY DEF ComparePassword, AdminInv, adminLimiters
<1>1. /\ req' = [req EXCEPT ![r] = c1] \/ req' = [req EXCEPT ![r] = c2]
      /\ tokens' = tokens \/ (a.pass = a.row /\ tokens' = tokens \cup {t})
  BY Zenon DEF ComparePassword, SuccessIPOutcome, TokenVersion
<1>2. c1 = Concluded(r, "Failed", "Failed")
      /\ c2 = Concluded(r, "Succeeded", "Released")
  OBVIOUS
<1>3. \A s \in tokens' : s.pass = s.version
  <2>1. a.pass = a.row => t.pass = t.version
    BY <1>0 DEF Handler
  <2> HIDE DEF t
  <2> QED
    BY <1>0, <1>1, <2>1
<1> HIDE DEF c1, c2, t
<1>4. Moves(r, c1) \/ Moves(r, c2)
  BY <1>0, <1>1, SetField
<1>5. Moves(r, c1) => Onward(r, c1) /\ (UsesIP(req[r]) <=> UsesIP(c1))
  BY <1>0, <1>2, ConcludedFacts DEF Outcomes
<1>6. Moves(r, c2) => Onward(r, c2) /\ (UsesIP(req[r]) <=> UsesIP(c2))
  BY <1>0, <1>2, ConcludedFacts DEF Outcomes
<1> QED
  BY <1>0, <1>3, <1>4, <1>5, <1>6, Zenon

\* The address is given back first, the username after it.
LEMMA FinishIPStep ==
    ASSUME AdminInv, NEW r \in Reqs, FinishIP(r)
    PROVE  /\ \E b : Onward(r, b)
           /\ IPLimiter!Finish(req[r].ip, req[r].ipOutcome)
           /\ req[r].ip \in Addrs /\ req[r].ipOutcome \in {"Released", "Failed"}
           /\ UNCHANGED <<users, usersSwept, hash, version, tokens, now>>
<1> DEFINE a == req[r]
           b == [a EXCEPT !.pc = "finishUser"]
<1>0. /\ a.pc = "finishIP" /\ Handler(a) /\ DOMAIN req = Reqs
      /\ UNCHANGED <<users, usersSwept, hash, version, tokens>>
      /\ req' = [req EXCEPT ![r] = b]
      /\ IPLimiter!Finish(a.ip, a.ipOutcome)
  BY Zenon DEF FinishIP, AdminInv
<1>1. UNCHANGED now
  BY <1>0, Zenon DEF IPLimiter!Finish
<1>2. b = [a EXCEPT !.pc = "finishUser"]
  OBVIOUS
<1> HIDE DEF a, b
<1>3. /\ Handler(b) /\ b.pc = "finishUser" /\ b.user = a.user /\ b.ip = a.ip
  BY <1>0, <1>2 DEF Handler
<1>4. Moves(r, b)
  BY <1>0, SetField
<1>5. Onward(r, b)
  BY <1>0, <1>3, <1>4 DEF Onward, a
<1>6. a.ip \in Addrs /\ a.ipOutcome \in {"Released", "Failed"}
  BY <1>0 DEF Handler
<1> QED
  BY <1>0, <1>1, <1>5, <1>6 DEF a

LEMMA FinishUserStep ==
    ASSUME AdminInv, NEW r \in Reqs, FinishUser(r)
    PROVE  /\ Moves(r, AdminIdle) /\ ~UsesIP(req[r]) /\ ~UsesIP(AdminIdle)
           /\ UserLimiter!Next
           /\ UNCHANGED <<ips, ipsSwept, hash, version, tokens, now>>
<1>0. /\ req[r].pc = "finishUser" /\ Handler(req[r]) /\ DOMAIN req = Reqs
      /\ UNCHANGED <<ips, ipsSwept, hash, version, tokens>>
      /\ req' = [req EXCEPT ![r] = AdminIdle]
      /\ UserLimiter!Finish(UserKey(r), req[r].userOutcome)
  BY Zenon DEF FinishUser, AdminInv
<1>1. UNCHANGED now
  BY <1>0, Zenon DEF UserLimiter!Finish
<1>2. /\ UserKey(r) \in Users \X Places
      /\ req[r].userOutcome \in UserLimiter!Outcomes
  BY <1>0 DEF Handler, UserKey, Places, UserLimiter!Outcomes, Outcomes
<1>3. UserLimiter!Next
  BY <1>0, <1>2, Zenon DEF UserLimiter!Next
<1>4. ~UsesIP(req[r]) /\ ~UsesIP(AdminIdle)
  BY <1>0, IdleHandler DEF UsesIP
<1> QED
  BY <1>0, <1>1, <1>3, <1>4, SetField

-----------------------------------------------------------------------------
(* What the second limiter remembers of an address                         *)

\* Entries within their window keep their failures.
Remembers ==
    /\ \A k \in DOMAIN ips' : ips'[k] \in Entry
    /\ \A k \in DOMAIN ips : now < ips[k].start + Window =>
         k \in DOMAIN ips' /\ ips'[k].failures >= ips[k].failures

\* Allow sweeps only expired entries.
LEMMA AllowRemembers ==
    ASSUME AdminInv, NEW key, IPLimiter!Allow(key)
    PROVE  Remembers
<1> DEFINE m == IPLimiter!Map(key)
           e == IPLimiter!Current(key)
<1>0. now \in Nat /\ Window \in Nat /\ \A k \in DOMAIN ips : ips[k] \in Entry
  BY ClockAssumption DEF AdminInv
<1> DEFINE Good(es) == /\ DOMAIN es \subseteq DOMAIN ips
                       /\ \A k \in DOMAIN es : es[k] = ips[k]
                       /\ \A k \in DOMAIN ips : now < ips[k].start + Window => k \in DOMAIN es
<1>1. ASSUME NEW es, Good(es) PROVE Good(IPLimiter!Swept(es))
  <2> DEFINE D == {j \in DOMAIN es : ~IPLimiter!Sweepable(es[j])}
  <2>1. DOMAIN IPLimiter!Swept(es) = D
        /\ \A k \in D : IPLimiter!Swept(es)[k] = es[k]
    BY DEF IPLimiter!Swept
  <2>2. \A k \in DOMAIN ips : now < ips[k].start + Window => k \in D
    BY <1>0, <1>1 DEF IPLimiter!Sweepable, IPLimiter!Expired, Entry
  <2>3. D \subseteq DOMAIN es
    OBVIOUS
  <2> HIDE DEF D
  <2> QED
    BY <1>1, <2>1, <2>2, <2>3
<1>2. Good(ips)
  OBVIOUS
<1> HIDE DEF Good
<1>3. Good(IPLimiter!AfterSweep)
  BY <1>1, <1>2 DEF IPLimiter!AfterSweep
<1>4. Good(m)
  BY <1>1, <1>3 DEF IPLimiter!Map
<1>5. /\ e \in Entry
      /\ key \in DOMAIN m /\ now < ips[key].start + Window => e = ips[key]
  <2>1. CASE key \notin DOMAIN m
    <3>1. e = [start |-> now, failures |-> 0, inFlight |-> 0]
      BY <2>1 DEF IPLimiter!Current
    <3> QED
      BY <1>0, <2>1, <3>1 DEF Entry
  <2>2. CASE key \in DOMAIN m
    <3>0. m[key] = ips[key] /\ ips[key] \in Entry
      BY <1>0, <1>4, <2>2 DEF Good
    <3>1. CASE IPLimiter!Expired(m[key])
      <4> DEFINE x1 == [ips[key] EXCEPT !.start = now]
                 x == [x1 EXCEPT !.failures = 0]
      <4>1. e = x
        BY <2>2, <3>0, <3>1 DEF IPLimiter!Current
      <4>2. x \in Entry
        BY <1>0, <3>0 DEF Entry
      <4>3. ~(now < ips[key].start + Window)
        BY <1>0, <3>0, <3>1 DEF IPLimiter!Expired, Entry
      <4> HIDE DEF x, e
      <4> QED
        BY <4>1, <4>2, <4>3
    <3>2. CASE ~IPLimiter!Expired(m[key])
      <4>1. e = ips[key]
        BY <2>2, <3>0, <3>2 DEF IPLimiter!Current
      <4> HIDE DEF e
      <4> QED
        BY <3>0, <4>1
    <3> QED
      BY <3>1, <3>2
  <2> QED
    BY <2>1, <2>2
<1>6. \/ ips' = m
      \/ ips' = IPLimiter!Put(m, key, e)
      \/ ips' = IPLimiter!Put(m, key, [e EXCEPT !.inFlight = @ + 1])
  BY Zenon DEF IPLimiter!Allow, IPLimiter!AllowFull,
               IPLimiter!AllowGranted, IPLimiter!AllowLocked
<1> HIDE DEF m, e
<1>7. [e EXCEPT !.inFlight = @ + 1] \in Entry
      /\ [e EXCEPT !.inFlight = @ + 1].failures = e.failures
  BY <1>5 DEF Entry
<1>8. ASSUME NEW x \in Entry, x.failures = e.failures,
             ips' = IPLimiter!Put(m, key, x)
      PROVE  Remembers
  <2>1. /\ DOMAIN ips' = DOMAIN m \cup {key} /\ ips'[key] = x
        /\ \A k \in DOMAIN m : k # key => ips'[k] = m[k]
    BY <1>8 DEF IPLimiter!Put
  <2>2. \A k \in DOMAIN ips' : ips'[k] \in Entry
    BY <1>0, <1>4, <1>8, <2>1 DEF Good
  <2>3. ASSUME NEW k \in DOMAIN ips, now < ips[k].start + Window
        PROVE  k \in DOMAIN ips' /\ ips'[k].failures >= ips[k].failures
    <3>1. k \in DOMAIN m /\ m[k] = ips[k] /\ ips[k].failures \in Nat
      BY <1>0, <1>4, <2>3 DEF Good, Entry
    <3>2. ips'[k].failures = ips[k].failures
      BY <1>5, <1>8, <2>1, <2>3, <3>1
    <3> QED
      BY <2>1, <3>1, <3>2
  <2> QED
    BY <2>2, <2>3 DEF Remembers
<1>9. CASE ips' = m
  <2>1. \A k \in DOMAIN ips : ips[k].failures \in Nat
    BY <1>0 DEF Entry
  <2> QED
    BY <1>0, <1>4, <1>9, <2>1 DEF Good, Remembers
<1> QED
  BY <1>5, <1>6, <1>7, <1>8, <1>9

\* No verdict on an address is Succeeded, the one that would clear it.
LEMMA FinishRemembers ==
    ASSUME AdminInv, NEW key, NEW outcome \in {"Released", "Failed"},
           IPLimiter!Finish(key, outcome)
    PROVE  Remembers
<1> DEFINE x == IPLimiter!Finished(ips[key], outcome)
<1>0. \A k \in DOMAIN ips : ips[k] \in Entry
  BY DEF AdminInv
<1>1. ips' = ips \/ (key \in DOMAIN ips /\ ips' = [ips EXCEPT ![key] = x])
  <2>1. ~IPLimiter!Forget(ips[key], outcome)
    BY DEF IPLimiter!Forget
  <2> QED
    BY <2>1, Zenon DEF IPLimiter!Finish
<1>2. CASE key \in DOMAIN ips /\ ips' = [ips EXCEPT ![key] = x]
  <2>1. ips[key] \in Entry
    BY <1>0, <1>2
  <2>2. x \in Entry /\ x.failures >= ips[key].failures
    BY <2>1 DEF IPLimiter!Finished, Entry
  <2> HIDE DEF x
  <2>3. DOMAIN ips' = DOMAIN ips /\ ips'[key] = x /\ \A k \in DOMAIN ips \ {key} : ips'[k] = ips[k]
    BY <1>2
  <2>4. \A k \in DOMAIN ips : ips[k].failures \in Nat
    BY <1>0 DEF Entry
  <2> QED
    BY <1>0, <2>2, <2>3, <2>4 DEF Remembers
<1>3. CASE ips' = ips
  BY <1>0, <1>3 DEF Remembers, Entry
<1> QED
  BY <1>1, <1>2, <1>3

LEMMA SameRemembers ==
    ASSUME AdminInv, UNCHANGED ips
    PROVE  Remembers
<1>1. \A k \in DOMAIN ips : ips[k] \in Entry /\ ips[k].failures \in Nat
  BY DEF AdminInv, Entry
<1> QED
  BY <1>1 DEF Remembers

-----------------------------------------------------------------------------

\* What every step of the login keeps: the invariant, both limiters' steps,
\* and an address's failures.
AdminKept ==
    /\ AdminInv' /\ Remembers
    /\ [UserLimiter!Next]_UserLimiter!vars
    /\ [IPLimiter!Next]_IPLimiter!vars

\* A handler that keeps its user slot takes a step that the first limiter
\* does not see.
LEMMA OnwardKept ==
    ASSUME AdminInv, NEW r \in Reqs, NEW b, Onward(r, b), Remembers,
           \A t \in tokens' : t.pass = t.version,
           UNCHANGED <<now, users, usersSwept, hash, version>>,
           [IPLimiter!Next]_IPLimiter!vars
    PROVE  AdminKept
<1>1. UNCHANGED UserLimiter!vars
  BY UserHeldSame DEF UserLimiter!vars
<1>2. \A u \in Reqs : Handler(req'[u])
  BY DEF Onward, Moves, AdminInv
<1>3. AdminInv'
  BY <1>2 DEF AdminInv, Onward, Moves, Remembers, Handler
<1> QED
  BY <1>1, <1>3, Zenon DEF AdminKept

\* A step of the first limiter that the second does not see.
LEMMA UserStepKept ==
    ASSUME AdminInv, UserLimiter!Next, DOMAIN req' = Reqs,
           \A u \in Reqs : Handler(req'[u]), UNCHANGED IPHeld,
           UNCHANGED <<now, ips, ipsSwept, hash, version, tokens>>
    PROVE  AdminKept
<1>1. Remembers
  BY SameRemembers
<1>2. AdminInv'
  BY DEF AdminInv, Handler
<1>3. UNCHANGED IPLimiter!vars
  BY DEF IPLimiter!vars
<1> QED
  BY <1>1, <1>2, <1>3, Zenon DEF AdminKept

\* Every step of the login, by the limiter it touches.
LEMMA AdminStep ==
    ASSUME AdminInv, [AdminNext]_adminVars
    PROVE  AdminKept
<1>0. \A t \in tokens : t.pass = t.version
  BY DEF AdminInv
<1>1. ASSUME NEW r \in Reqs, AllowUser(r) PROVE AdminKept
  <2>1. /\ UNCHANGED req \/ \E b : /\ Moves(r, b) /\ Handler(b)
                                   /\ ~UsesIP(req[r]) /\ ~UsesIP(b)
        /\ UserLimiter!Next
        /\ UNCHANGED <<ips, ipsSwept, hash, version, tokens, now>>
    BY <1>1, AllowUserStep
  <2>2. CASE UNCHANGED req
    <3>1. UNCHANGED IPHeld
      BY <2>2 DEF IPHeld, InIP
    <3>2. DOMAIN req' = Reqs /\ \A u \in Reqs : Handler(req'[u])
      BY <2>2 DEF AdminInv
    <3> QED
      BY <2>1, <3>1, <3>2, UserStepKept
  <2>3. ASSUME NEW b, Moves(r, b), Handler(b), ~UsesIP(req[r]), ~UsesIP(b)
        PROVE  AdminKept
    <3>1. UNCHANGED IPHeld
      BY <2>3, IPHeldSame
    <3>2. DOMAIN req' = Reqs /\ \A u \in Reqs : Handler(req'[u])
      BY <2>3 DEF AdminInv, Moves
    <3> QED
      BY <2>1, <3>1, <3>2, UserStepKept
  <2> QED
    BY <2>1, <2>2, <2>3
<1>2. ASSUME NEW r \in Reqs, AllowIP(r) PROVE AdminKept
  <2>1. PICK b : Onward(r, b)
    BY <1>2, AllowIPStep
  <2>2. /\ IPLimiter!Allow(req[r].ip) /\ req[r].ip \in Addrs
        /\ UNCHANGED <<users, usersSwept, hash, version, tokens, now>>
    BY <1>2, AllowIPStep
  <2>3. [IPLimiter!Next]_IPLimiter!vars
    BY <2>2, Zenon DEF IPLimiter!Next
  <2>4. Remembers
    BY <2>2, AllowRemembers
  <2> QED
    BY <1>0, <2>1, <2>2, <2>3, <2>4, OnwardKept
<1>3. ASSUME NEW r \in Reqs, ReadAdmin(r) \/ ComparePassword(r) PROVE AdminKept
  <2>1. /\ \E b : Onward(r, b) /\ (UsesIP(req[r]) <=> UsesIP(b))
        /\ \A t \in tokens' : t.pass = t.version
        /\ UNCHANGED <<now, users, usersSwept, ips, ipsSwept, hash, version>>
    <3>1. CASE ReadAdmin(r)
      BY <1>0, <3>1, ReadAdminStep
    <3> QED
      BY <1>3, <3>1, CompareStep
  <2>2. PICK b : Onward(r, b) /\ (UsesIP(req[r]) <=> UsesIP(b))
    BY <2>1
  <2>3. UNCHANGED IPHeld
    BY <2>2, IPHeldSame DEF Onward
  <2>4. UNCHANGED IPLimiter!vars
    BY <2>1, <2>3 DEF IPLimiter!vars
  <2>5. Remembers
    BY <2>1, SameRemembers
  <2> QED
    BY <2>1, <2>2, <2>4, <2>5, OnwardKept
<1>4. ASSUME NEW r \in Reqs, FinishIP(r) PROVE AdminKept
  <2>1. PICK b : Onward(r, b)
    BY <1>4, FinishIPStep
  <2>2. /\ IPLimiter!Finish(req[r].ip, req[r].ipOutcome) /\ req[r].ip \in Addrs
        /\ req[r].ipOutcome \in {"Released", "Failed"}
        /\ UNCHANGED <<users, usersSwept, hash, version, tokens, now>>
    BY <1>4, FinishIPStep
  <2>3. req[r].ipOutcome \in IPLimiter!Outcomes
    BY <2>2 DEF IPLimiter!Outcomes
  <2>4. [IPLimiter!Next]_IPLimiter!vars
    BY <2>2, <2>3, Zenon DEF IPLimiter!Next
  <2>5. Remembers
    BY <2>2, FinishRemembers
  <2> QED
    BY <1>0, <2>1, <2>2, <2>4, <2>5, OnwardKept
<1>5. ASSUME NEW r \in Reqs, FinishUser(r) PROVE AdminKept
  <2>1. /\ Moves(r, AdminIdle) /\ ~UsesIP(req[r]) /\ ~UsesIP(AdminIdle)
        /\ UserLimiter!Next
        /\ UNCHANGED <<ips, ipsSwept, hash, version, tokens, now>>
    BY <1>5, FinishUserStep
  <2>2. UNCHANGED IPHeld
    BY <2>1, IPHeldSame
  <2>3. DOMAIN req' = Reqs /\ \A u \in Reqs : Handler(req'[u])
    BY <2>1, IdleHandler DEF AdminInv, Moves
  <2> QED
    BY <2>1, <2>2, <2>3, UserStepKept
<1>6. CASE UNCHANGED req /\ UNCHANGED <<users, usersSwept, ips, ipsSwept, tokens>>
           /\ hash' = version' /\ (UNCHANGED now \/ (now < MaxTime /\ now' = now + 1))
  <2>1. UNCHANGED <<UserHeld, IPHeld>>
    BY <1>6 DEF UserHeld, IPHeld, InUser, InIP, UserKey
  <2>2. [UserLimiter!Next]_UserLimiter!vars
    BY <1>6, <2>1 DEF UserLimiter!Next, UserLimiter!Tick,
                      UserLimiter!vars
  <2>3. [IPLimiter!Next]_IPLimiter!vars
    BY <1>6, <2>1 DEF IPLimiter!Next, IPLimiter!Tick, IPLimiter!vars
  <2>4. Remembers
    BY <1>6, SameRemembers
  <2>5. AdminInv'
    BY <1>6 DEF AdminInv, Handler
  <2> QED
    BY <2>2, <2>3, <2>4, <2>5, Zenon DEF AdminKept
<1>7. ASSUME NEW user \in Admins, Rotate(user) PROVE AdminKept
  <2>1. hash' = version'
    BY <1>7 DEF Rotate, AdminInv
  <2> QED
    BY <1>6, <1>7, <2>1 DEF Rotate, adminLimiters
<1>8. CASE AdminTick
  BY <1>6, <1>8 DEF AdminTick, AdminInv
<1>9. CASE AdminAnswered \/ UNCHANGED adminVars
  BY <1>6, <1>9 DEF AdminAnswered, adminVars, adminLimiters, AdminInv
<1> QED
  BY <1>1, <1>2, <1>3, <1>4, <1>5, <1>7, <1>8, <1>9 DEF AdminNext

LEMMA AdminInitOK ==
    AdminInit => AdminInv /\ UserLimiter!Init /\ IPLimiter!Init
<1> SUFFICES ASSUME AdminInit
             PROVE  AdminInv /\ UserLimiter!Init /\ IPLimiter!Init
  OBVIOUS
<1>1. DOMAIN req = Reqs /\ \A r \in Reqs : req[r] = AdminIdle
  BY DEF AdminInit
<1>2. AdminInv
  BY <1>1, IdleHandler DEF AdminInit, AdminInv
<1>3. InUser = {} /\ InIP = {}
  BY <1>1, IdleHandler DEF InUser, InIP
<1>4. /\ \A k : {r \in InUser : UserKey(r) = k} = {}
      /\ \A k : {r \in InIP : req[r].ip = k} = {}
  BY <1>3
<1>5. Cardinality({}) = 0
  BY FS_EmptySet
<1> DEFINE U(k) == Cardinality({r \in InUser : UserKey(r) = k})
           I(k) == Cardinality({r \in InIP : req[r].ip = k})
<1>6. (\A k : U(k) = 0) /\ (\A k : I(k) = 0)
  BY <1>4, <1>5
<1>7. /\ UserHeld = [k \in Users \X Places |-> U(k)]
      /\ IPHeld = [k \in Addrs |-> I(k)]
  BY DEF UserHeld, IPHeld
<1> HIDE DEF U, I
<1>8. /\ UserHeld = [k \in Users \X Places |-> 0]
      /\ IPHeld = [k \in Addrs |-> 0]
  BY <1>6, <1>7
<1> QED
  BY <1>2, <1>8 DEF AdminInit, UserLimiter!Init, IPLimiter!Init

\* AdminLoginHandler gives back each slot of both limiters exactly once, on
\* refusals and errors too, for any number of handlers at once: it implements
\* LoginLimiter twice, so what is proved of a limiter holds of both.
THEOREM AdminUsesLimiters == AdminSpec => UsesLimiters
<1>1. AdminInv /\ [AdminNext]_adminVars =>
        /\ AdminInv'
        /\ [UserLimiter!Next]_UserLimiter!vars
        /\ [IPLimiter!Next]_IPLimiter!vars
  BY AdminStep DEF AdminKept
<1> QED
  BY <1>1, AdminInitOK, PTL
     DEF AdminSpec, UsesLimiters, UserLimiter!Spec, IPLimiter!Spec

\* No step of any login forgets a wrong guess of an address before its window
\* is over, a correct password included.
THEOREM AdminRemembers == AdminSpec => AddressNotForgiven
<1>1. AdminInv /\ [AdminNext]_adminVars =>
        /\ AdminInv'
        /\ \A a \in DOMAIN ips : now < ips[a].start + Window =>
             a \in DOMAIN ips' /\ ips'[a].failures >= ips[a].failures
  BY AdminStep DEF AdminKept, Remembers
<1> QED
  BY <1>1, AdminInitOK, PTL DEF AdminSpec, AddressNotForgiven

\* A session that AdminMiddleware accepts was opened with the password of the
\* moment, however often it was rotated during the login: the hash and the
\* version are read, and raised, in one statement.
THEOREM AdminSessions == AdminSpec => []AdminSessionsCurrent
<1>1. AdminInv /\ [AdminNext]_adminVars => AdminInv'
  BY AdminStep DEF AdminKept
<1>2. AdminInv => AdminSessionsCurrent
  BY DEF AdminInv, AdminSessionsCurrent, AdminAccepted
<1> QED
  BY <1>1, <1>2, AdminInitOK, PTL DEF AdminSpec

-----------------------------------------------------------------------------
(* The parents' login and the deletion of accounts, over one limiter       *)

\* A login or a deletion.
Caller(a) ==
    /\ a = [pc |-> a.pc, phone |-> a.phone, parent |-> a.parent, pin |-> a.pin,
            seen |-> a.seen, outcome |-> a.outcome]
    /\ a.pc \notin {"idle", "phone"} => a.phone \in Phones
    /\ a.outcome \in Outcomes

HasASlot(a) == a.pc \notin {"idle", "phone", "ask"}

\* Each parent has its id alone, and ids are not handed out twice.
ParentsInv ==
    /\ DOMAIN row = Phones /\ DOMAIN locked = Phones /\ lastId \in Nat
    /\ \A p \in Phones :
         \/ row[p] = NoRow
         \/ /\ row[p] = [id |-> row[p].id, pin |-> row[p].pin,
                         version |-> row[p].version]
            /\ row[p].id \in 1..lastId /\ row[p].version \in Nat
    /\ \A p, q \in Phones : row[p].id = row[q].id /\ row[p].id # 0 => p = q

\* A PIN with the version of the row it was read from: as long as the row has
\* that version it has that PIN.
Sound(s) ==
    /\ s.id \in 1..lastId /\ s.version \in Nat
    /\ \A p \in Phones : row[p].id = s.id =>
         /\ s.version <= row[p].version
         /\ s.version = row[p].version => s.pin = row[p].pin

\* A login past its SELECT.
SeenSound(a) == a.pc = "compare" => Sound(a.seen)

\* A deletion past its FOR UPDATE: the row is still what it saw.
LockKept(r, a) ==
    a.pc \in {"check", "delete"} =>
        /\ locked[a.phone] = r /\ row[a.phone] = a.seen /\ a.seen.id = a.parent
        /\ a.pc = "delete" => a.pin = a.seen.pin

ParentInv ==
    /\ DOMAIN req = Reqs /\ ParentsInv
    /\ \A r \in Reqs : Caller(req[r]) /\ SeenSound(req[r]) /\ LockKept(r, req[r])
    /\ \A t \in tokens : Sound(t)

LEMMA NoRowFacts ==
    /\ NoRow = [id |-> 0, pin |-> 0, version |-> 0] /\ NoRow.id = 0
  BY DEF NoRow

LEMMA IdleCaller ==
    /\ Caller(ParentIdle) /\ ParentIdle.pc = "idle"
    /\ SeenSound(ParentIdle) /\ \A r : LockKept(r, ParentIdle)
<1>1. /\ ParentIdle.pc = "idle" /\ ParentIdle.outcome = "Released"
      /\ ParentIdle = [pc |-> ParentIdle.pc, phone |-> ParentIdle.phone,
           parent |-> ParentIdle.parent, pin |-> ParentIdle.pin,
           seen |-> ParentIdle.seen, outcome |-> ParentIdle.outcome]
  BY DEF ParentIdle
<1> QED
  BY <1>1 DEF Caller, SeenSound, LockKept, Outcomes

\* Who keeps its slot, or has none, changes nothing for the limiter.
LEMMA HeldSame ==
    ASSUME NEW r \in Reqs, NEW b, Moves(r, b),
           HasASlot(req[r]) <=> HasASlot(b),
           HasASlot(b) => b.phone = req[r].phone
    PROVE  UNCHANGED Held
<1>1. \A u \in Reqs : /\ HasASlot(req'[u]) <=> HasASlot(req[u])
                      /\ HasASlot(req[u]) => req'[u].phone = req[u].phone
  BY DEF Moves
<1>2. \A p : Holders(p)' = Holders(p)
  BY <1>1 DEF Holders, HasASlot
<1> QED
  BY <1>2, Zenon DEF Held

\* A request goes on: the rows stay, and the locks of the others.
LEMMA CallerGoes ==
    ASSUME ParentInv, NEW r \in Reqs, NEW b, Moves(r, b), Caller(b), SeenSound(b),
           UNCHANGED <<row, lastId>>, LockKept(r, b)', DOMAIN locked' = Phones,
           \A u \in Reqs \ {r}, p \in Phones : locked[p] = u => locked'[p] = u,
           \A t \in tokens' : Sound(t)
    PROVE  ParentInv'
<1>1. ParentsInv'
  BY DEF ParentInv, ParentsInv
<1>2. \A s : Sound(s) <=> Sound(s)'
  BY DEF Sound
<1>3. ASSUME NEW u \in Reqs
      PROVE  Caller(req'[u]) /\ SeenSound(req[u])' /\ LockKept(u, req[u])'
  <2>1. CASE u = r
    <3>1. req'[u] = b
      BY <2>1 DEF Moves
    <3>2. SeenSound(b)'
      BY <1>2 DEF SeenSound
    <3> QED
      BY <2>1, <3>1, <3>2 DEF SeenSound, LockKept
  <2>2. CASE u # r
    <3>1. req'[u] = req[u] /\ Caller(req[u]) /\ SeenSound(req[u]) /\ LockKept(u, req[u])
      BY <2>2 DEF Moves, ParentInv
    <3>2. SeenSound(req[u])'
      BY <1>2, <3>1 DEF SeenSound
    <3>3. LockKept(u, req[u])'
      BY <2>2, <3>1 DEF LockKept, Caller
    <3> QED
      BY <3>1, <3>2, <3>3
  <2> QED
    BY <2>1, <2>2
<1>4. \A t \in tokens' : Sound(t)'
  BY <1>2
<1> QED
  BY <1>1, <1>3, <1>4 DEF ParentInv, Moves, Caller

\* A request of the parents' handlers and everything that must be shown of it.
Deleted ==
    \A phone \in Phones :
        row[phone] # NoRow /\ row'[phone] = NoRow =>
            \E r \in Reqs : /\ req[r].pc = "delete" /\ req'[r].pc = "finish"
                            /\ req[r].parent = row[phone].id
                            /\ req[r].pin = row[phone].pin

ParentKept ==
    /\ ParentInv' /\ Deleted
    /\ [Limiter!Next]_Limiter!vars

\* A step that keeps the rows and the locks, and which the limiter takes or
\* does not see.
LEMMA QuietStep ==
    ASSUME ParentInv, NEW r \in Reqs, NEW b, Moves(r, b), Caller(b), SeenSound(b),
           b.pc \notin {"check", "delete"}, UNCHANGED <<row, lastId, locked>>,
           \A t \in tokens' : Sound(t),
           Limiter!Next \/
             /\ UNCHANGED <<now, phones, phonesSwept>>
             /\ HasASlot(req[r]) <=> HasASlot(b)
             /\ HasASlot(b) => b.phone = req[r].phone
    PROVE  ParentKept
<1>1. LockKept(r, b)'
  BY DEF LockKept
<1>2. ParentInv'
  BY <1>1, CallerGoes DEF ParentInv, ParentsInv
<1>3. Deleted
  BY DEF Deleted
<1>4. [Limiter!Next]_Limiter!vars
  <2>1. CASE ~Limiter!Next
    <3>1. UNCHANGED Held
      BY <2>1, HeldSame
    <3> QED
      BY <2>1, <3>1 DEF Limiter!vars
  <2> QED
    BY <2>1
<1> QED
  BY <1>2, <1>3, <1>4, Zenon DEF ParentKept

\* The verdict of a request that has a slot.
LEMMA Concludes ==
    ASSUME ParentInv, NEW r \in Reqs, NEW outcome \in Outcomes,
           Conclude(r, outcome), HasASlot(req[r])
    PROVE  \E b : /\ Moves(r, b) /\ Caller(b) /\ b.pc = "finish"
                  /\ b.phone = req[r].phone /\ HasASlot(b)
<1> DEFINE a == req[r]
           q1 == [req EXCEPT ![r].pc = "finish"]
           q2 == [q1 EXCEPT ![r].outcome = outcome]
           q == [q2 EXCEPT ![r].seen = NoRow]
           b == q[r]
<1>0. DOMAIN req = Reqs /\ Caller(a) /\ HasASlot(a) /\ req' = q /\ a = req[r]
  BY DEF ParentInv, Conclude
<1>1. /\ q1 = [req EXCEPT ![r].pc = "finish"] /\ q2 = [q1 EXCEPT ![r].outcome = outcome]
      /\ q = [q2 EXCEPT ![r].seen = NoRow]
  OBVIOUS
<1> HIDE DEF a, q1, q2, q
<1>2. Moves(r, b)
  BY <1>0, <1>1 DEF Moves
<1>3. q1[r] = [a EXCEPT !.pc = "finish"] /\ DOMAIN q1 = Reqs
  BY <1>0, <1>1
<1>4. q2[r] = [q1[r] EXCEPT !.outcome = outcome] /\ DOMAIN q2 = Reqs
  BY <1>1, <1>3
<1>5. b = [q2[r] EXCEPT !.seen = NoRow]
  BY <1>1, <1>4
<1>6. q1[r] = [pc |-> "finish", phone |-> a.phone, parent |-> a.parent,
               pin |-> a.pin, seen |-> a.seen, outcome |-> a.outcome]
  BY <1>0, <1>3 DEF Caller
<1>7. q2[r] = [pc |-> "finish", phone |-> a.phone, parent |-> a.parent,
               pin |-> a.pin, seen |-> a.seen, outcome |-> outcome]
  BY <1>4, <1>6
<1> HIDE DEF b
<1>8. b = [pc |-> "finish", phone |-> a.phone, parent |-> a.parent,
           pin |-> a.pin, seen |-> NoRow, outcome |-> outcome]
  BY <1>5, <1>7
<1>9. Caller(b) /\ b.pc = "finish" /\ b.phone = a.phone
  BY <1>0, <1>8 DEF Caller, HasASlot
<1> QED
  BY <1>0, <1>2, <1>9 DEF HasASlot

\* A request goes to another place, perhaps with the row it has read.
Sees(r, pc, s) == req' = [req EXCEPT ![r].pc = pc, ![r].seen = s]

AllButPc(a, b) == b.phone = a.phone /\ b.parent = a.parent /\ b.pin = a.pin

LEMMA GoFacts ==
    ASSUME ParentInv, NEW r \in Reqs, NEW pc, Go(r, pc),
           req[r].phone \in Phones
    PROVE  \E b : /\ Moves(r, b) /\ Caller(b) /\ b.pc = pc
                  /\ AllButPc(req[r], b) /\ b.seen = req[r].seen
<1> DEFINE a == req[r]
           b == [a EXCEPT !.pc = pc]
<1>0. DOMAIN req = Reqs /\ Caller(a) /\ a = req[r] /\ req' = [req EXCEPT ![r] = b]
  BY Zenon DEF ParentInv, Go
<1>1. b = [a EXCEPT !.pc = pc]
  OBVIOUS
<1> HIDE DEF a, b
<1>2. b = [pc |-> pc, phone |-> a.phone, parent |-> a.parent, pin |-> a.pin,
           seen |-> a.seen, outcome |-> a.outcome]
  BY <1>0, <1>1 DEF Caller
<1>3. Caller(b) /\ b.pc = pc /\ AllButPc(a, b) /\ b.seen = a.seen
  BY <1>0, <1>2 DEF Caller, AllButPc
<1>4. Moves(r, b)
  BY <1>0 DEF Moves
<1> QED
  BY <1>0, <1>3, <1>4

LEMMA SeesFacts ==
    ASSUME ParentInv, NEW r \in Reqs, NEW pc, NEW s, Sees(r, pc, s),
           req[r].phone \in Phones
    PROVE  \E b : /\ Moves(r, b) /\ Caller(b) /\ b.pc = pc
                  /\ AllButPc(req[r], b) /\ b.seen = s
<1> DEFINE a == req[r]
           q1 == [req EXCEPT ![r].pc = pc]
           q == [q1 EXCEPT ![r].seen = s]
           b1 == q1[r]
           b == q[r]
<1>0. DOMAIN req = Reqs /\ Caller(a) /\ a = req[r] /\ req' = q
  BY Zenon DEF ParentInv, Sees
<1>1. q1 = [req EXCEPT ![r].pc = pc] /\ q = [q1 EXCEPT ![r].seen = s]
  OBVIOUS
<1> HIDE DEF a, q1, q
<1>2. b1 = [a EXCEPT !.pc = pc] /\ DOMAIN q1 = Reqs
  BY <1>0, <1>1
<1>3. b = [b1 EXCEPT !.seen = s] /\ Moves(r, b)
  BY <1>0, <1>1, <1>2 DEF Moves
<1> HIDE DEF b1, b
<1>4. b1 = [pc |-> pc, phone |-> a.phone, parent |-> a.parent, pin |-> a.pin,
            seen |-> a.seen, outcome |-> a.outcome]
  BY <1>0, <1>2 DEF Caller
<1>5. b = [pc |-> pc, phone |-> a.phone, parent |-> a.parent, pin |-> a.pin,
           seen |-> s, outcome |-> a.outcome]
  BY <1>3, <1>4
<1>6. Caller(b) /\ b.pc = pc /\ AllButPc(a, b) /\ b.seen = s
  BY <1>0, <1>5 DEF Caller, AllButPc
<1> QED
  BY <1>0, <1>3, <1>6

-----------------------------------------------------------------------------

LEMMA BeginLoginStep ==
    ASSUME ParentInv, NEW r \in Reqs, BeginLogin(r)
    PROVE  ParentKept
<1>0. /\ UNCHANGED <<row, lastId, locked, tokens>> /\ DOMAIN req = Reqs
      /\ \A t \in tokens' : Sound(t)
  BY DEF BeginLogin, ParentInv
<1>1. PICK phone \in Phones, pin \in Pins :
        \/ /\ req' = [req EXCEPT ![r] = [ParentIdle EXCEPT
                        !.pc = "read", !.phone = phone, !.pin = pin]]
           /\ Limiter!AllowGranted(phone)
        \/ /\ UNCHANGED req
           /\ Limiter!AllowFull(phone) \/ Limiter!AllowLocked(phone)
  BY Zenon DEF BeginLogin
<1>2. Limiter!Next
  BY <1>1, Zenon DEF Limiter!Allow, Limiter!Next
<1> DEFINE b1 == [ParentIdle EXCEPT !.pc = "read"]
           b2 == [b1 EXCEPT !.phone = phone]
           b == [b2 EXCEPT !.pin = pin]
<1>3. UNCHANGED req \/ req' = [req EXCEPT ![r] = b]
  BY <1>1, Zenon
<1>4. /\ b1 = [ParentIdle EXCEPT !.pc = "read"] /\ b2 = [b1 EXCEPT !.phone = phone]
      /\ b = [b2 EXCEPT !.pin = pin]
  OBVIOUS
<1> HIDE DEF b1, b2, b
<1>5. b = [pc |-> "read", phone |-> phone, parent |-> 0, pin |-> pin,
           seen |-> NoRow, outcome |-> "Released"]
  BY <1>4 DEF ParentIdle
<1>6. Caller(b) /\ SeenSound(b) /\ b.pc = "read"
  BY <1>5 DEF Caller, SeenSound, Outcomes
<1>7. CASE req' = [req EXCEPT ![r] = b]
  <2>1. Moves(r, b)
    BY <1>0, <1>7 DEF Moves
  <2> QED
    BY <1>0, <1>2, <1>6, <2>1, QuietStep
<1>8. CASE UNCHANGED req
  <2>1. ParentInv'
    BY <1>0, <1>8 DEF ParentInv, ParentsInv, Caller, SeenSound, LockKept, Sound
  <2>2. Deleted
    BY <1>0 DEF Deleted
  <2> QED
    BY <1>2, <2>1, <2>2, Zenon DEF ParentKept
<1> QED
  BY <1>3, <1>7, <1>8

\* The PIN and its version are read by one SELECT.
LEMMA ReadParentStep ==
    ASSUME ParentInv, NEW r \in Reqs, ReadParent(r)
    PROVE  ParentKept
<1> DEFINE found == row[req[r].phone]
<1>0. /\ req[r].pc = "read" /\ Caller(req[r]) /\ ParentsInv
      /\ UNCHANGED <<now, phones, phonesSwept, row, lastId, locked, tokens>>
      /\ \A t \in tokens' : Sound(t)
  BY DEF ReadParent, ParentInv, parentLimiter
<1>1. \/ found # NoRow /\ Sees(r, "compare", found)
      \/ Conclude(r, "Failed")
      \/ Conclude(r, "Released")
  BY Zenon DEF ReadParent, Sees
<1>2. req[r].phone \in Phones /\ HasASlot(req[r])
  BY <1>0 DEF Caller, HasASlot
<1>3. ASSUME NEW o \in Outcomes, Conclude(r, o) PROVE ParentKept
  <2>1. PICK b : /\ Moves(r, b) /\ Caller(b) /\ b.pc = "finish"
                 /\ b.phone = req[r].phone /\ HasASlot(b)
    BY <1>2, <1>3, Concludes
  <2>2. SeenSound(b)
    BY <2>1 DEF SeenSound
  <2> QED
    BY <1>0, <1>2, <2>1, <2>2, QuietStep
<1>4. CASE found # NoRow /\ Sees(r, "compare", found)
  <2>1. found = row[req[r].phone]
    OBVIOUS
  <2> HIDE DEF found
  <2>2. PICK b : /\ Moves(r, b) /\ Caller(b) /\ b.pc = "compare"
                 /\ b.phone = req[r].phone /\ b.seen = found
    BY <1>2, <1>4, SeesFacts DEF AllButPc
  <2>3. Sound(found)
    <3>1. found.id \in 1..lastId /\ found.version \in Nat
      BY <1>0, <1>2, <1>4, <2>1 DEF ParentsInv
    <3>2. \A p \in Phones : row[p].id = found.id => p = req[r].phone
      BY <1>0, <1>2, <2>1, <3>1 DEF ParentsInv
    <3> QED
      BY <2>1, <3>1, <3>2 DEF Sound
  <2>4. SeenSound(b) /\ HasASlot(b)
    BY <2>2, <2>3 DEF SeenSound, HasASlot
  <2> QED
    BY <1>0, <1>2, <2>2, <2>4, QuietStep
<1> QED
  BY <1>1, <1>3, <1>4 DEF Outcomes

\* A token carries the version that was read with the PIN it was given for.
LEMMA CompareParentStep ==
    ASSUME ParentInv, NEW r \in Reqs, ComparePin(r)
    PROVE  ParentKept
<1> DEFINE seen == req[r].seen
           t == [id |-> seen.id, version |-> seen.version, pin |-> req[r].pin]
<1>0. /\ req[r].pc = "compare" /\ Caller(req[r]) /\ Sound(seen)
      /\ UNCHANGED <<now, phones, phonesSwept, row, lastId, locked>>
      /\ \A s \in tokens : Sound(s)
  BY DEF ComparePin, ParentInv, parentLimiter, SeenSound
<1>1. /\ Conclude(r, "Succeeded") \/ Conclude(r, "Failed")
      /\ tokens' = tokens \/ (req[r].pin = seen.pin /\ tokens' = tokens \cup {t})
  BY Zenon DEF ComparePin
<1>2. HasASlot(req[r])
  BY <1>0 DEF HasASlot
<1>3. \A s \in tokens' : Sound(s)
  <2>1. t.id = seen.id /\ t.version = seen.version /\ t.pin = req[r].pin
    OBVIOUS
  <2> HIDE DEF t, seen
  <2>2. req[r].pin = seen.pin => Sound(t)
    BY <1>0, <2>1 DEF Sound
  <2> QED
    BY <1>0, <1>1, <2>2
<1> HIDE DEF t, seen
<1>4. PICK o \in Outcomes : Conclude(r, o)
  BY <1>1 DEF Outcomes
<1>5. PICK b : /\ Moves(r, b) /\ Caller(b) /\ b.pc = "finish"
               /\ b.phone = req[r].phone /\ HasASlot(b)
  BY <1>2, <1>4, Concludes
<1>6. SeenSound(b)
  BY <1>5 DEF SeenSound
<1> QED
  BY <1>0, <1>2, <1>3, <1>5, <1>6, QuietStep

LEMMA BeginDeleteStep ==
    ASSUME ParentInv, NEW r \in Reqs, BeginDelete(r)
    PROVE  ParentKept
<1>0. /\ UNCHANGED <<now, phones, phonesSwept, row, lastId, locked, tokens>>
      /\ DOMAIN req = Reqs /\ req[r].pc = "idle"
      /\ \A t \in tokens' : Sound(t)
  BY DEF BeginDelete, ParentInv, parentLimiter
<1>1. PICK t \in tokens, pin \in Pins :
        req' = [req EXCEPT ![r] = [ParentIdle EXCEPT
                  !.pc = "phone", !.parent = t.id, !.pin = pin]]
  BY Zenon DEF BeginDelete
<1> DEFINE b1 == [ParentIdle EXCEPT !.pc = "phone"]
           b2 == [b1 EXCEPT !.parent = t.id]
           b == [b2 EXCEPT !.pin = pin]
<1>2. /\ b1 = [ParentIdle EXCEPT !.pc = "phone"] /\ b2 = [b1 EXCEPT !.parent = t.id]
      /\ b = [b2 EXCEPT !.pin = pin] /\ req' = [req EXCEPT ![r] = b]
  BY <1>1, Zenon
<1> HIDE DEF b1, b2, b
<1>3. b = [pc |-> "phone", phone |-> 0, parent |-> t.id, pin |-> pin,
           seen |-> NoRow, outcome |-> "Released"]
  BY <1>2 DEF ParentIdle
<1>4. Caller(b) /\ SeenSound(b) /\ b.pc = "phone"
  BY <1>3 DEF Caller, SeenSound, Outcomes
<1>5. Moves(r, b)
  BY <1>0, <1>2 DEF Moves
<1>6. ~HasASlot(b) /\ ~HasASlot(req[r])
  BY <1>0, <1>4 DEF HasASlot
<1> QED
  BY <1>0, <1>4, <1>5, <1>6, QuietStep

\* A deletion that finds no parent takes no slot.
LEMMA FindPhoneStep ==
    ASSUME ParentInv, NEW r \in Reqs, FindPhone(r)
    PROVE  ParentKept
<1>0. /\ UNCHANGED <<now, phones, phonesSwept, row, lastId, locked, tokens>>
      /\ DOMAIN req = Reqs /\ req[r].pc = "phone" /\ ~HasASlot(req[r])
      /\ \A t \in tokens' : Sound(t)
  BY DEF FindPhone, ParentInv, parentLimiter, HasASlot
<1>1. \/ \E phone \in Phones : req' = [req EXCEPT ![r].pc = "ask", ![r].phone = phone]
      \/ req' = [req EXCEPT ![r] = ParentIdle]
  BY Zenon DEF FindPhone
<1>2. CASE req' = [req EXCEPT ![r] = ParentIdle]
  <2>1. Moves(r, ParentIdle) /\ ~HasASlot(ParentIdle)
    BY <1>0, <1>2, IdleCaller DEF Moves, HasASlot
  <2> QED
    BY <1>0, <2>1, IdleCaller, QuietStep
<1>3. ASSUME NEW phone \in Phones,
             req' = [req EXCEPT ![r].pc = "ask", ![r].phone = phone]
      PROVE  ParentKept
  <2> DEFINE a == req[r]
             q1 == [req EXCEPT ![r].pc = "ask"]
             q == [q1 EXCEPT ![r].phone = phone]
             b1 == q1[r]
             b == q[r]
  <2>1. /\ q1 = [req EXCEPT ![r].pc = "ask"] /\ q = [q1 EXCEPT ![r].phone = phone]
        /\ req' = q /\ Caller(a) /\ a = req[r]
    BY <1>3, Zenon DEF ParentInv
  <2> HIDE DEF a, q1, q
  <2>2. b1 = [a EXCEPT !.pc = "ask"] /\ DOMAIN q1 = Reqs
    BY <1>0, <2>1
  <2>3. b = [b1 EXCEPT !.phone = phone] /\ Moves(r, b)
    BY <1>0, <2>1, <2>2 DEF Moves
  <2> HIDE DEF b1, b
  <2>4. b1 = [pc |-> "ask", phone |-> a.phone, parent |-> a.parent, pin |-> a.pin,
              seen |-> a.seen, outcome |-> a.outcome]
    BY <2>1, <2>2 DEF Caller
  <2>5. b = [pc |-> "ask", phone |-> phone, parent |-> a.parent, pin |-> a.pin,
             seen |-> a.seen, outcome |-> a.outcome]
    BY <2>3, <2>4
  <2>6. Caller(b) /\ SeenSound(b) /\ b.pc = "ask" /\ ~HasASlot(b)
    BY <2>1, <2>5 DEF Caller, SeenSound, HasASlot
  <2> QED
    BY <1>0, <2>3, <2>6, QuietStep
<1> QED
  BY <1>1, <1>2, <1>3

\* Granted, the handler holds one slot more; refused, it is idle again.
LEMMA AskStep ==
    ASSUME ParentInv, NEW r \in Reqs, Ask(r)
    PROVE  ParentKept
<1>0. /\ UNCHANGED <<row, lastId, locked, tokens>>
      /\ DOMAIN req = Reqs /\ req[r].pc = "ask" /\ Caller(req[r])
      /\ \A t \in tokens' : Sound(t)
  BY DEF Ask, ParentInv
<1>1. req[r].phone \in Phones
  BY <1>0 DEF Caller
<1>2. Limiter!Next
  BY <1>1, Zenon DEF Ask, Limiter!Next, Limiter!Allow
<1>3. Go(r, "lock") \/ req' = [req EXCEPT ![r] = ParentIdle]
  BY Zenon DEF Ask
<1>4. CASE Go(r, "lock")
  <2>1. PICK b : Moves(r, b) /\ Caller(b) /\ b.pc = "lock"
    BY <1>1, <1>4, GoFacts
  <2>2. SeenSound(b)
    BY <2>1 DEF SeenSound
  <2> QED
    BY <1>0, <1>2, <2>1, <2>2, QuietStep
<1>5. CASE req' = [req EXCEPT ![r] = ParentIdle]
  <2>1. Moves(r, ParentIdle)
    BY <1>0, <1>5 DEF Moves
  <2> QED
    BY <1>0, <1>2, <2>1, IdleCaller, QuietStep
<1> QED
  BY <1>3, <1>4, <1>5

\* The one step that gives a slot back.
LEMMA FinishStep ==
    ASSUME ParentInv, NEW r \in Reqs, FinishPin(r)
    PROVE  ParentKept
<1>0. /\ UNCHANGED <<row, lastId, locked, tokens>>
      /\ DOMAIN req = Reqs /\ req[r].pc = "finish" /\ Caller(req[r])
      /\ req' = [req EXCEPT ![r] = ParentIdle]
      /\ \A t \in tokens' : Sound(t)
  BY DEF FinishPin, ParentInv
<1>1. req[r].phone \in Phones /\ req[r].outcome \in Limiter!Outcomes
  BY <1>0 DEF Caller, Outcomes, Limiter!Outcomes
<1>2. Limiter!Next
  BY <1>1, Zenon DEF FinishPin, Limiter!Next
<1>3. Moves(r, ParentIdle)
  BY <1>0 DEF Moves
<1> QED
  BY <1>0, <1>2, <1>3, IdleCaller, QuietStep

\* A step within a deletion: the rows stay, and the locks of the others.
LEMMA DeletionStep ==
    ASSUME ParentInv, NEW r \in Reqs, NEW b, Moves(r, b), Caller(b), SeenSound(b),
           UNCHANGED <<now, phones, phonesSwept, row, lastId, tokens>>,
           HasASlot(req[r]), HasASlot(b), b.phone = req[r].phone,
           LockKept(r, b)', DOMAIN locked' = Phones,
           \A u \in Reqs \ {r}, p \in Phones : locked[p] = u => locked'[p] = u
    PROVE  ParentKept
<1>1. ParentInv'
  BY CallerGoes DEF ParentInv
<1>2. Deleted
  BY DEF Deleted
<1>3. UNCHANGED Limiter!vars
  BY HeldSame DEF Limiter!vars
<1> QED
  BY <1>1, <1>2, <1>3, Zenon DEF ParentKept

\* An unlocked row is held by nobody.
LEMMA LockParentStep ==
    ASSUME ParentInv, NEW r \in Reqs, LockParent(r)
    PROVE  ParentKept
<1> DEFINE phone == req[r].phone
<1>0. /\ UNCHANGED <<now, phones, phonesSwept, row, lastId, tokens>>
      /\ req[r].pc = "lock" /\ Caller(req[r]) /\ locked[phone] = 0
      /\ DOMAIN locked = Phones
  BY DEF LockParent, ParentInv, ParentsInv, parentLimiter, Unlocked
<1>1. \/ /\ row[phone].id = req[r].parent /\ Sees(r, "check", row[phone])
         /\ locked' = [locked EXCEPT ![phone] = r]
      \/ Conclude(r, "Released") /\ UNCHANGED locked
  BY Zenon DEF LockParent, Takes, Gone, Sees
<1>2. phone \in Phones /\ HasASlot(req[r])
  BY <1>0 DEF Caller, HasASlot
<1>3. CASE Conclude(r, "Released") /\ UNCHANGED locked
  <2>1. PICK b : /\ Moves(r, b) /\ Caller(b) /\ b.pc = "finish"
                 /\ b.phone = req[r].phone /\ HasASlot(b)
    BY <1>2, <1>3, Concludes DEF Outcomes
  <2>2. SeenSound(b) /\ LockKept(r, b)'
    BY <2>1 DEF SeenSound, LockKept
  <2> QED
    BY <1>0, <1>2, <1>3, <2>1, <2>2, DeletionStep
<1>4. CASE /\ row[phone].id = req[r].parent /\ Sees(r, "check", row[phone])
           /\ locked' = [locked EXCEPT ![phone] = r]
  <2>1. PICK b : /\ Moves(r, b) /\ Caller(b) /\ b.pc = "check"
                 /\ AllButPc(req[r], b) /\ b.seen = row[phone]
    BY <1>2, <1>4, SeesFacts
  <2>2. locked'[phone] = r /\ DOMAIN locked' = Phones
        /\ \A p \in Phones \ {phone} : locked'[p] = locked[p]
    BY <1>0, <1>2, <1>4
  <2>3. \A u \in Reqs \ {r}, p \in Phones : locked[p] = u => locked'[p] = u
    BY <1>0, <2>2, ParentLoginAssumption
  <2>4. b.phone = phone /\ b.parent = req[r].parent
    BY <2>1 DEF AllButPc
  <2> HIDE DEF phone
  <2>5. SeenSound(b) /\ HasASlot(b) /\ LockKept(r, b)'
    BY <1>0, <1>4, <2>1, <2>2, <2>4 DEF SeenSound, HasASlot, LockKept
  <2> QED
    BY <1>0, <1>2, <2>1, <2>2, <2>3, <2>4, <2>5, DeletionStep DEF phone
<1> QED
  BY <1>1, <1>3, <1>4

\* Nobody else's lock is given up.
LEMMA UnlockFacts ==
    ASSUME ParentInv, NEW r \in Reqs, Unlock(r)
    PROVE  /\ DOMAIN locked' = Phones
           /\ \A u \in Reqs \ {r}, p \in Phones : locked[p] = u => locked'[p] = u
  BY DEF Unlock

\* The PIN is compared with the row under the lock.
LEMMA CheckPinStep ==
    ASSUME ParentInv, NEW r \in Reqs, CheckPin(r)
    PROVE  ParentKept
<1>0. /\ UNCHANGED <<now, phones, phonesSwept, row, lastId, tokens>>
      /\ req[r].pc = "check" /\ Caller(req[r]) /\ LockKept(r, req[r])
      /\ DOMAIN locked = Phones
  BY DEF CheckPin, ParentInv, ParentsInv, parentLimiter
<1>1. \/ req[r].pin = req[r].seen.pin /\ Go(r, "delete") /\ UNCHANGED locked
      \/ Conclude(r, "Failed") /\ Unlock(r)
  BY Zenon DEF CheckPin
<1>2. req[r].phone \in Phones /\ HasASlot(req[r])
  BY <1>0 DEF Caller, HasASlot
<1>3. CASE Conclude(r, "Failed") /\ Unlock(r)
  <2>1. PICK b : /\ Moves(r, b) /\ Caller(b) /\ b.pc = "finish"
                 /\ b.phone = req[r].phone /\ HasASlot(b)
    BY <1>2, <1>3, Concludes DEF Outcomes
  <2>2. SeenSound(b) /\ LockKept(r, b)'
    BY <2>1 DEF SeenSound, LockKept
  <2> QED
    BY <1>0, <1>2, <1>3, <2>1, <2>2, UnlockFacts, DeletionStep
<1>4. CASE req[r].pin = req[r].seen.pin /\ Go(r, "delete") /\ UNCHANGED locked
  <2>1. PICK b : /\ Moves(r, b) /\ Caller(b) /\ b.pc = "delete"
                 /\ AllButPc(req[r], b) /\ b.seen = req[r].seen
    BY <1>2, <1>4, GoFacts
  <2>2. b.phone = req[r].phone /\ b.parent = req[r].parent /\ b.pin = req[r].pin
    BY <2>1 DEF AllButPc
  <2>3. SeenSound(b) /\ HasASlot(b) /\ LockKept(r, b)'
    BY <1>0, <1>4, <2>1, <2>2 DEF SeenSound, HasASlot, LockKept
  <2> QED
    BY <1>0, <1>2, <1>4, <2>1, <2>2, <2>3, DeletionStep
<1> QED
  BY <1>1, <1>3, <1>4

\* One row is replaced, and nobody but r holds it.
LEMMA RowReplaced ==
    ASSUME ParentInv, NEW phone \in Phones, NEW x, row' = [row EXCEPT ![phone] = x],
           NEW last \in Nat, lastId <= last, lastId' = last,
           \/ x = NoRow
           \/ /\ x = [id |-> x.id, pin |-> x.pin, version |-> x.version]
              /\ x.id \in 1..last /\ x.version \in Nat,
           \/ x.id = 0 \/ x.id > lastId
           \/ x.id = row[phone].id /\ x.version > row[phone].version,
           DOMAIN locked' = Phones
    PROVE  /\ ParentsInv' /\ \A s : Sound(s) => Sound(s)'
           /\ row'[phone] = x /\ \A p \in Phones \ {phone} : row'[p] = row[p]
<1>0. ParentsInv
  BY DEF ParentInv
<1>1. /\ DOMAIN row' = Phones /\ row'[phone] = x
      /\ \A p \in Phones \ {phone} : row'[p] = row[p]
  BY <1>0 DEF ParentsInv
<1>2. /\ lastId \in Nat /\ NoRow.id = 0 /\ NoRow.version = 0
      /\ \A p \in Phones : row[p].id \in Nat /\ row[p].id <= lastId
                           /\ row[p].version \in Nat
  <2>1. NoRow.id = 0 /\ NoRow.version = 0
    BY DEF NoRow
  <2> QED
    BY <1>0, <2>1 DEF ParentsInv
<1>3. x.id \in Nat /\ x.version \in Nat /\ x.id <= last
  BY <1>2
<1>4. ASSUME NEW p \in Phones
      PROVE  \/ row'[p] = NoRow
             \/ /\ row'[p] = [id |-> row'[p].id, pin |-> row'[p].pin,
                              version |-> row'[p].version]
                /\ row'[p].id \in 1..lastId' /\ row'[p].version \in Nat
  <2>1. CASE p = phone
    BY <1>1, <2>1
  <2>2. CASE p # phone
    <3>1. row'[p] = row[p]
      BY <1>1, <2>2
    <3>2. \/ row[p] = NoRow
          \/ /\ row[p] = [id |-> row[p].id, pin |-> row[p].pin,
                          version |-> row[p].version]
             /\ row[p].id \in 1..lastId /\ row[p].version \in Nat
      BY <1>0 DEF ParentsInv
    <3>3. \A n \in 1..lastId : n \in 1..lastId'
      BY <1>2
    <3> QED
      BY <3>1, <3>2, <3>3
  <2> QED
    BY <2>1, <2>2
<1>5. ASSUME NEW p \in Phones, NEW q \in Phones, row'[p].id = row'[q].id, row'[p].id # 0
      PROVE  p = q
  <2>1. \A u \in Phones \ {phone} : row[u].id = x.id /\ x.id # 0 => FALSE
    <3>1. \A u \in Phones : row[u].id = row[phone].id /\ row[u].id # 0 => u = phone
      BY <1>0 DEF ParentsInv
    <3> QED
      BY <1>2, <1>3, <3>1
  <2>2. \A u, v \in Phones \ {phone} : row[u].id = row[v].id /\ row[u].id # 0 => u = v
    BY <1>0 DEF ParentsInv
  <2> QED
    BY <1>1, <1>5, <2>1, <2>2
<1>6. ParentsInv'
  BY <1>1, <1>4, <1>5 DEF ParentsInv
<1>7. ASSUME NEW s, Sound(s) PROVE Sound(s)'
  <2>1. s.id \in 1..lastId /\ s.version \in Nat
    BY <1>7 DEF Sound
  <2>2. s.id \in 1..lastId'
    BY <1>2, <2>1
  <2>3. ASSUME NEW p \in Phones, row'[p].id = s.id
        PROVE  /\ s.version <= row'[p].version
               /\ s.version = row'[p].version => s.pin = row'[p].pin
    <3>1. CASE p = phone
      <4>1. x.id = s.id /\ x.id = row[phone].id /\ x.version > row[phone].version
        BY <1>1, <1>2, <2>1, <2>3, <3>1
      <4>2. s.version <= row[phone].version
        BY <1>7, <4>1 DEF Sound
      <4> QED
        BY <1>1, <1>2, <1>3, <2>1, <3>1, <4>1, <4>2
    <3>2. CASE p # phone
      BY <1>1, <1>7, <2>3, <3>2 DEF Sound
    <3> QED
      BY <3>1, <3>2
  <2> QED
    BY <2>1, <2>2, <2>3 DEF Sound
<1> QED
  BY <1>1, <1>6, <1>7

\* The row that goes is the one the deletion locked and whose PIN it checked.
LEMMA CommitDeleteStep ==
    ASSUME ParentInv, NEW r \in Reqs, CommitDelete(r)
    PROVE  ParentKept
<1> DEFINE phone == req[r].phone
           x == IF row[phone].id = req[r].parent THEN NoRow ELSE row[phone]
<1>0. /\ UNCHANGED <<now, phones, phonesSwept, lastId, tokens>>
      /\ req[r].pc = "delete" /\ Caller(req[r]) /\ LockKept(r, req[r])
      /\ Unlock(r) /\ ParentsInv
  BY DEF CommitDelete, ParentInv, parentLimiter
<1>1. \/ row' = [row EXCEPT ![phone] = x] /\ Conclude(r, "Succeeded")
      \/ UNCHANGED row /\ Conclude(r, "Released")
  BY Zenon DEF CommitDelete
<1>2. phone \in Phones /\ HasASlot(req[r])
  BY <1>0 DEF Caller, HasASlot
<1>3. /\ locked[phone] = r /\ row[phone].id = req[r].parent
      /\ req[r].pin = row[phone].pin
  BY <1>0 DEF LockKept
<1>4. PICK b : /\ Moves(r, b) /\ Caller(b) /\ b.pc = "finish"
               /\ b.phone = req[r].phone /\ HasASlot(b)
  BY <1>1, <1>2, Concludes DEF Outcomes
<1>5. SeenSound(b) /\ LockKept(r, b)' /\ SeenSound(b)'
  BY <1>4 DEF SeenSound, LockKept
<1>6. CASE UNCHANGED row
  BY <1>0, <1>2, <1>4, <1>5, <1>6, UnlockFacts, DeletionStep
<1>7. CASE row' = [row EXCEPT ![phone] = x]
  <2>1. row' = [row EXCEPT ![phone] = NoRow]
    BY <1>3, <1>7
  <2>2. /\ lastId \in Nat /\ lastId <= lastId /\ lastId' = lastId
        /\ NoRow.id = 0 /\ DOMAIN locked' = Phones
    BY <1>0, NoRowFacts, UnlockFacts DEF ParentsInv
  <2>3. /\ ParentsInv' /\ \A s : Sound(s) => Sound(s)'
        /\ row'[phone] = NoRow /\ \A p \in Phones \ {phone} : row'[p] = row[p]
    BY <1>2, <2>1, <2>2, RowReplaced
  <2> HIDE DEF phone, x
  <2>4. ASSUME NEW u \in Reqs
        PROVE  Caller(req'[u]) /\ SeenSound(req[u])' /\ LockKept(u, req[u])'
    <3>1. CASE u = r
      BY <1>4, <1>5, <3>1 DEF Moves, SeenSound, LockKept
    <3>2. CASE u # r
      <4>1. /\ req'[u] = req[u] /\ Caller(req[u]) /\ SeenSound(req[u])
            /\ LockKept(u, req[u])
        BY <1>4, <3>2 DEF Moves, ParentInv
      <4>2. SeenSound(req[u])'
        BY <2>3, <4>1 DEF SeenSound
      <4>3. LockKept(u, req[u])'
        <5>1. \A p \in Phones : locked[p] = u => locked'[p] = u /\ p # phone
          BY <1>0, <1>3, <3>2, UnlockFacts
        <5> QED
          BY <2>3, <4>1, <5>1 DEF LockKept, Caller
      <4> QED
        BY <4>1, <4>2, <4>3
    <3> QED
      BY <3>1, <3>2
  <2>5. ParentInv'
    BY <1>0, <1>4, <2>3, <2>4 DEF ParentInv, Moves, Caller
  <2>6. Deleted
    <3>1. req'[r].pc = "finish"
      BY <1>4 DEF Moves
    <3> QED
      BY <1>0, <1>3, <2>3, <3>1 DEF Deleted
  <2>7. UNCHANGED Limiter!vars
    BY <1>0, <1>2, <1>4, HeldSame DEF Limiter!vars
  <2> QED
    BY <2>5, <2>6, <2>7, Zenon DEF ParentKept
<1> QED
  BY <1>1, <1>6, <1>7

\* A new PIN comes with a new version, or a new parent.
LEMMA SetPinStep ==
    ASSUME ParentInv, NEW phone \in Phones, NEW pin \in Pins,
           SetPin(phone, pin)
    PROVE  ParentKept
<1>0. /\ UNCHANGED <<now, phones, phonesSwept, locked, req, tokens>>
      /\ locked[phone] = 0 /\ ParentsInv /\ lastId \in Nat
  BY DEF SetPin, ParentInv, ParentsInv, parentLimiter, Unlocked
<1>1. PICK x : /\ row' = [row EXCEPT ![phone] = x] /\ x.id # 0
               /\ x = [id |-> x.id, pin |-> x.pin, version |-> x.version]
               /\ lastId' \in Nat /\ lastId <= lastId'
               /\ x.id \in 1..lastId' /\ x.version \in Nat
               /\ \/ x.id > lastId
                  \/ x.id = row[phone].id /\ x.version > row[phone].version
  <2>1. CASE row[phone] = NoRow
    <3> DEFINE w == [id |-> lastId + 1, pin |-> pin, version |-> 0]
    <3>1. lastId' = lastId + 1 /\ row' = [row EXCEPT ![phone] = w]
      BY <2>1 DEF SetPin
    <3>2. w.id = lastId + 1 /\ w.version = 0 /\ w.pin = pin
          /\ w = [id |-> w.id, pin |-> w.pin, version |-> w.version]
      OBVIOUS
    <3> HIDE DEF w
    <3>3. /\ w.id # 0 /\ lastId' \in Nat /\ lastId <= lastId'
          /\ w.id \in 1..lastId' /\ w.version \in Nat /\ w.id > lastId
      BY <1>0, <3>1, <3>2
    <3> QED
      BY <3>1, <3>2, <3>3, Zenon
  <2>2. CASE row[phone] # NoRow
    <3> DEFINE y == row[phone]
               w1 == [y EXCEPT !.pin = pin]
               w == [w1 EXCEPT !.version = NewVersion(row[phone])]
    <3>1. row' = [row EXCEPT ![phone] = w] /\ UNCHANGED lastId
      BY <2>2, Zenon DEF SetPin
    <3>2. /\ y = [id |-> y.id, pin |-> y.pin, version |-> y.version]
          /\ y.id \in 1..lastId /\ y.version \in Nat
      BY <1>0, <2>2 DEF ParentsInv
    <3>3. w1 = [y EXCEPT !.pin = pin] /\ w = [w1 EXCEPT !.version = y.version + 1]
          /\ y = row[phone]
      BY DEF NewVersion
    <3> HIDE DEF y, w1, w
    <3>4. w = [id |-> y.id, pin |-> pin, version |-> y.version + 1]
      BY <3>2, <3>3
    <3>5. w.id = y.id /\ w.version = y.version + 1 /\ w.pin = pin
      BY <3>4
    <3>6. w = [id |-> w.id, pin |-> w.pin, version |-> w.version]
      BY <3>4, <3>5
    <3>7. /\ w.id # 0 /\ lastId' \in Nat /\ lastId <= lastId'
          /\ w.id \in 1..lastId' /\ w.version \in Nat
          /\ w.version > y.version
      BY <1>0, <3>1, <3>2, <3>5
    <3>8. w.id = row[phone].id /\ w.version > row[phone].version
      BY <3>3, <3>5, <3>7
    <3> QED
      BY <3>1, <3>6, <3>7, <3>8, Zenon
  <2> QED
    BY <2>1, <2>2
<1>2. /\ ParentsInv' /\ \A s : Sound(s) => Sound(s)'
      /\ row'[phone] = x /\ \A p \in Phones \ {phone} : row'[p] = row[p]
  <2>1. DOMAIN locked' = Phones
    BY <1>0 DEF ParentsInv
  <2> QED
    BY <1>1, <2>1, RowReplaced
<1>3. ASSUME NEW u \in Reqs
      PROVE  Caller(req'[u]) /\ SeenSound(req[u])' /\ LockKept(u, req[u])'
  <2>1. /\ req'[u] = req[u] /\ Caller(req[u]) /\ SeenSound(req[u])
        /\ LockKept(u, req[u])
    BY <1>0 DEF ParentInv
  <2>2. SeenSound(req[u])'
    BY <1>2, <2>1 DEF SeenSound
  <2>3. LockKept(u, req[u])'
    <3>1. \A p \in Phones : locked[p] = u => locked'[p] = u /\ p # phone
      BY <1>0, ParentLoginAssumption
    <3> QED
      BY <1>2, <2>1, <3>1 DEF LockKept, Caller
  <2> QED
    BY <2>1, <2>2, <2>3
<1>4. ParentInv'
  BY <1>0, <1>2, <1>3 DEF ParentInv, Caller
<1>5. Deleted
  BY <1>1, <1>2, NoRowFacts DEF Deleted
<1>6. UNCHANGED Limiter!vars
  BY <1>0 DEF Limiter!vars, Held, Holders
<1> QED
  BY <1>4, <1>5, <1>6, Zenon DEF ParentKept

\* Every step of logins, deletions and PIN changes.
LEMMA ParentStep ==
    ASSUME ParentInv, [ParentNext]_parentVars
    PROVE  ParentKept
<1>1. CASE /\ UNCHANGED <<phones, phonesSwept, row, lastId, locked, req, tokens>>
           /\ UNCHANGED now \/ (now < MaxTime /\ now' = now + 1)
  <2>1. ParentInv'
    BY <1>1 DEF ParentInv, ParentsInv, Caller, SeenSound, LockKept, Sound
  <2>2. Deleted
    BY <1>1 DEF Deleted
  <2>3. UNCHANGED Held
    BY <1>1 DEF Held, Holders
  <2>4. [Limiter!Next]_Limiter!vars
    BY <1>1, <2>3 DEF Limiter!Next, Limiter!Tick, Limiter!vars
  <2> QED
    BY <2>1, <2>2, <2>4, Zenon DEF ParentKept
<1>2. CASE ParentTick \/ ParentAnswered \/ UNCHANGED parentVars
  BY <1>1, <1>2 DEF ParentTick, ParentAnswered, parentVars, parentLimiter
<1> QED
  BY <1>2, BeginLoginStep, BeginDeleteStep, FindPhoneStep, AskStep, ReadParentStep,
     CompareParentStep, LockParentStep, CheckPinStep, CommitDeleteStep, FinishStep,
     SetPinStep DEF ParentNext

LEMMA ParentInitOK == ParentInit => ParentInv /\ Limiter!Init
<1> SUFFICES ASSUME ParentInit PROVE ParentInv /\ Limiter!Init
  OBVIOUS
<1>1. /\ DOMAIN req = Reqs /\ \A r \in Reqs : req[r] = ParentIdle
      /\ DOMAIN row = Phones /\ DOMAIN locked = Phones /\ lastId = 0 /\ tokens = {}
      /\ \A p \in Phones : row[p] = NoRow
  BY DEF ParentInit
<1>2. ParentsInv
  BY <1>1, NoRowFacts DEF ParentsInv
<1>3. ParentInv
  BY <1>1, <1>2, IdleCaller DEF ParentInv
<1>4. \A p : Holders(p) = {}
  BY <1>1, IdleCaller DEF Holders
<1>5. Cardinality({}) = 0
  BY FS_EmptySet
<1>6. Held = [p \in Phones |-> 0]
  BY <1>4, <1>5 DEF Held
<1> QED
  BY <1>3, <1>6 DEF ParentInit, Limiter!Init

\* MobileLoginHandler and AccountDeleteHandler, any number of each at once,
\* give back every slot of their one limiter exactly once, also when the
\* parent is gone: together they implement LoginLimiter.
THEOREM ParentUsesLimiter == ParentSpec => UsesLimiter
<1>1. ParentInv /\ [ParentNext]_parentVars =>
        ParentInv' /\ [Limiter!Next]_Limiter!vars
  BY ParentStep DEF ParentKept
<1> QED
  BY <1>1, ParentInitOK, PTL DEF ParentSpec, UsesLimiter, Limiter!Spec

\* A session that AuthMiddleware accepts was opened with the PIN the parent
\* has now, for any number of logins, PIN changes and new parents under old
\* numbers: a PIN and its version are read, and replaced, together.
THEOREM ParentSessions == ParentSpec => []ParentSessionsCurrent
<1>1. ParentInv /\ [ParentNext]_parentVars => ParentInv'
  BY ParentStep DEF ParentKept
<1>2. ParentInv => ParentSessionsCurrent
  <2> SUFFICES ASSUME ParentInv, NEW t \in tokens, ParentAccepted(t)
               PROVE  \E phone \in Phones : row[phone].id = t.id /\ row[phone].pin = t.pin
    BY DEF ParentSessionsCurrent
  <2> DEFINE p == CHOOSE phone \in Phones : row[phone].id = t.id
  <2>1. p \in Phones /\ row[p].id = t.id /\ row[p].version = t.version
    BY DEF ParentAccepted, Exists, RowOf
  <2>2. Sound(t)
    BY DEF ParentInv
  <2> HIDE DEF p
  <2> QED
    BY <2>1, <2>2 DEF Sound
<1> QED
  BY <1>1, <1>2, ParentInitOK, PTL DEF ParentSpec

\* An account is deleted only for the PIN it has at the moment it goes: from
\* its FOR UPDATE to its COMMIT a deletion keeps the row as it checked it.
THEOREM ParentDeletions == ParentSpec => DeletedByPin
<1>1. ParentInv /\ [ParentNext]_parentVars => ParentInv' /\ Deleted
  BY ParentStep DEF ParentKept
<1> QED
  BY <1>1, ParentInitOK, PTL DEF ParentSpec, DeletedByPin, Deleted
=============================================================================
