----------------------------- MODULE AdminLogin -----------------------------
(***************************************************************************)
(* The administrators' login (handlers/admin.go, AdminLoginHandler) over   *)
(* its two limiters, one per username and client address and one per       *)
(* address, and the session check of later requests (AdminMiddleware).     *)
(*                                                                         *)
(* Each limiter is an instance of LoginLimiter, with the slots in use read *)
(* off the requests' program counters: that the handler gives every slot   *)
(* back, once, on every path is the statement that this module implements  *)
(* both instances.  Allow, Finish and the SELECT are the points where      *)
(* requests interleave.                                                    *)
(***************************************************************************)
EXTENDS Logins

CONSTANTS
    Users,         \* usernames tried
    Admins,        \* the ones that have a row in admins
    Addrs,         \* client addresses
    Proxy,         \* what a trusted proxy that names no client resolves to
    UserFailures,  \* AdminFailuresPerUserIP
    IPFailures,    \* AdminFailuresPerIP
    MaxLogins,     \* bound: logins ever tried
    MaxRotations   \* bound: password changes of one administrator

ASSUME AdminLoginAssumption ==
    /\ Admins \subseteq Users /\ Proxy \notin Addrs
    /\ UserFailures \in Nat \ {0} /\ IPFailures \in Nat \ {0}
    /\ MaxLogins \in Nat /\ MaxRotations \in Nat

VARIABLES
    users, usersSwept,  \* AdminUserLimiter: entries and lastSweep
    ips, ipsSwept,      \* AdminIPLimiter
    hash,      \* admins.password_hash, as the password it is the hash of
    version    \* admins.session_version

adminLimiters == <<now, users, usersSwept, ips, ipsSwept>>
adminVars == <<adminLimiters, hash, version, req, tokens, begun>>

Places == Addrs \cup {Proxy}
\* The n-th password an administrator sets is n, its version then too.
Versions == 0..MaxRotations
UserKey(r) == <<req[r].user, req[r].ip>>

\* Handlers between a granted Allow and its Finish.
InUser == {r \in Reqs : req[r].pc # "idle"}
InIP == {r \in Reqs : req[r].pc \in {"read", "compare", "finishIP"}
                      /\ req[r].ip # Proxy}
UserHeld ==
    [k \in Users \X Places |-> Cardinality({r \in InUser : UserKey(r) = k})]
IPHeld == [a \in Addrs |-> Cardinality({r \in InIP : req[r].ip = a})]

UserLimiter == INSTANCE LoginLimiter WITH
    Keys <- Users \X Places, MaxFailures <- UserFailures,
    entries <- users, lastSweep <- usersSwept, reserved <- UserHeld

IPLimiter == INSTANCE LoginLimiter WITH
    Keys <- Addrs, MaxFailures <- IPFailures,
    entries <- ips, lastSweep <- ipsSwept, reserved <- IPHeld

\* userOutcome and ipOutcome start as Released.
AdminIdle == [pc |-> "idle", user |-> 0, ip |-> 0, pass |-> 0, row |-> 0,
         version |-> 0, userOutcome |-> "Released", ipOutcome |-> "Released"]

AdminTypeOK ==
    /\ UserLimiter!TypeOK /\ IPLimiter!TypeOK
    /\ hash \in [Admins -> Versions] /\ version \in [Admins -> Versions]
    /\ \A r \in Reqs :
         /\ req[r].pc \in {"idle", "ip", "read", "compare", "finishIP",
                           "finishUser"}
         /\ {req[r].userOutcome, req[r].ipOutcome}
              \subseteq UserLimiter!Outcomes
    /\ tokens \subseteq [user : Admins, version : Versions, pass : Versions]
    /\ begun \in 0..MaxLogins

AdminInit ==
    /\ now = 0
    /\ users = [k \in {} |-> 0] /\ usersSwept = -Window
    /\ ips = [k \in {} |-> 0] /\ ipsSwept = -Window
    /\ hash = [u \in Admins |-> 0] /\ version = [u \in Admins |-> 0]
    /\ req = [r \in Reqs |-> AdminIdle]
    /\ tokens = {}
    /\ begun = 0

-----------------------------------------------------------------------------
(* AdminLoginHandler *)

\* Where a handler goes once its user slot is granted: an address that
\* identifies nobody skips the second limiter.
AfterUser(ip) == IF ip = Proxy THEN "read" ELSE "ip"

\* The body is read, the address resolved, and the first limiter asked.
AllowUser(r) ==
    /\ req[r].pc = "idle"
    /\ begun < MaxLogins /\ begun' = begun + 1
    /\ \E user \in Users, ip \in Places, pass \in Versions :
         \/ /\ req' = [req EXCEPT ![r] = [AdminIdle EXCEPT
                         !.pc = AfterUser(ip), !.user = user, !.ip = ip,
                         !.pass = pass]]
            /\ UserLimiter!AllowGranted(<<user, ip>>)
         \/ /\ UNCHANGED req
            /\ \/ UserLimiter!AllowFull(<<user, ip>>)
               \/ UserLimiter!AllowLocked(<<user, ip>>)
    /\ UNCHANGED <<ips, ipsSwept, hash, version, tokens>>

\* The refusal answers without running the deferred Finish.
MutRefused == "idle"

\* A refused handler holds no slot of the second limiter but still the
\* first's, which its defer gives back.
Refused == "finishUser"

AllowIP(r) ==
    /\ req[r].pc = "ip"
    /\ \/ /\ req' = [req EXCEPT ![r].pc = "read"]
          /\ IPLimiter!AllowGranted(req[r].ip)
       \/ /\ req' = [req EXCEPT ![r].pc = Refused]
          /\ \/ IPLimiter!AllowFull(req[r].ip)
             \/ IPLimiter!AllowLocked(req[r].ip)
    /\ UNCHANGED <<users, usersSwept, hash, version, tokens, begun>>

\* The defers run last in, first out.
Finishing(r) == IF req[r].ip = Proxy THEN "finishUser" ELSE "finishIP"

Concluded(r, userOutcome, ipOutcome) ==
    [AdminIdle EXCEPT !.pc = Finishing(r), !.user = req[r].user, !.ip = req[r].ip,
                 !.userOutcome = userOutcome, !.ipOutcome = ipOutcome]

\* A lookup that fails leaves both outcomes as they were declared.
DatabaseOutcome == "Released"

\* The hash and the version come from one SELECT.
ReadAdmin(r) ==
    LET user == req[r].user
    IN  /\ req[r].pc = "read"
        /\ \/ /\ user \in Admins
              /\ req' = [req EXCEPT ![r].pc = "compare", ![r].row = hash[user],
                                    ![r].version = version[user]]
           \/ /\ user \notin Admins
              /\ req' = [req EXCEPT ![r] = Concluded(r, "Failed", "Failed")]
           \/ /\ req' = [req EXCEPT ![r] =
                           Concluded(r, DatabaseOutcome, DatabaseOutcome)]
        /\ UNCHANGED <<adminLimiters, hash, version, tokens, begun>>

\* A success clears the address's count as well.
MutSuccessIPOutcome == "Succeeded"

\* A success clears the username's count and leaves the address's alone.
SuccessIPOutcome == "Released"

\* The token carries the version found when the token is made.
MutTokenVersion(r) == version[req[r].user]

TokenVersion(r) == req[r].version

\* bcrypt compares with what was read, and the token is made from it too; a
\* token that cannot be signed leaves the outcome a success.
ComparePassword(r) ==
    LET user == req[r].user
    IN  /\ req[r].pc = "compare"
        /\ IF req[r].pass = req[r].row
           THEN /\ req' = [req EXCEPT ![r] =
                             Concluded(r, "Succeeded", SuccessIPOutcome)]
                /\ \/ tokens' = tokens \cup {[user |-> user,
                                              version |-> TokenVersion(r),
                                              pass |-> req[r].pass]}
                   \/ UNCHANGED tokens
           ELSE /\ req' = [req EXCEPT ![r] = Concluded(r, "Failed", "Failed")]
                /\ UNCHANGED tokens
        /\ UNCHANGED <<adminLimiters, hash, version, begun>>

FinishIP(r) ==
    /\ req[r].pc = "finishIP"
    /\ req' = [req EXCEPT ![r].pc = "finishUser"]
    /\ IPLimiter!Finish(req[r].ip, req[r].ipOutcome)
    /\ UNCHANGED <<users, usersSwept, hash, version, tokens, begun>>

FinishUser(r) ==
    /\ req[r].pc = "finishUser"
    /\ req' = [req EXCEPT ![r] = AdminIdle]
    /\ UserLimiter!Finish(UserKey(r), req[r].userOutcome)
    /\ UNCHANGED <<ips, ipsSwept, hash, version, tokens, begun>>

\* rotate_admin_password.sql: one UPDATE sets the hash and raises the version.
Rotate(user) ==
    /\ version[user] < MaxRotations
    /\ hash' = [hash EXCEPT ![user] = @ + 1]
    /\ version' = [version EXCEPT ![user] = @ + 1]
    /\ UNCHANGED <<adminLimiters, req, tokens, begun>>

AdminTick ==
    /\ now < MaxTime
    /\ now' = now + 1
    /\ UNCHANGED <<users, usersSwept, ips, ipsSwept, hash, version, req, tokens,
                   begun>>

\* All logins the bound allows have been answered.
AdminAnswered ==
    /\ begun = MaxLogins /\ \A r \in Reqs : req[r].pc = "idle"
    /\ UNCHANGED adminVars

AdminNext ==
    \/ AdminAnswered
    \/ \E r \in Reqs : \/ AllowUser(r) \/ AllowIP(r) \/ ReadAdmin(r)
                       \/ ComparePassword(r) \/ FinishIP(r) \/ FinishUser(r)
    \/ \E user \in Admins : Rotate(user)
    \/ AdminTick

AdminSpec == AdminInit /\ [][AdminNext]_adminVars

-----------------------------------------------------------------------------

\* The handlers use both limiters as LoginLimiter asks: every granted slot is
\* given back exactly once, on refusals and errors too.
UsesLimiters == UserLimiter!Spec /\ IPLimiter!Spec

\* An address's wrong guesses, over all usernames, are forgotten only when
\* their window is over: a correct password in between buys no new guesses.
AddressNotForgiven ==
    [][\A a \in DOMAIN ips :
         now < ips[a].start + Window =>
             a \in DOMAIN ips' /\ ips'[a].failures >= ips[a].failures]_adminVars

\* AdminMiddleware's test of a token's session version.
AdminAccepted(t) == t.version = version[t.user]

\* Every session the middleware still accepts was opened with the current
\* password, also when the password changed during the login.
AdminSessionsCurrent == \A t \in tokens : AdminAccepted(t) => t.pass = hash[t.user]
=============================================================================
