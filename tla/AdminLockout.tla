---------------------------- MODULE AdminLockout ----------------------------
(***************************************************************************)
(* Logging in to a staff account, as far as the lock goes: login() of      *)
(* apps/api/src/admin/auth/admin-auth.service.ts, the columns              *)
(* failedLoginAttempts and lockedUntil of one row of User.                 *)
(*                                                                         *)
(* A login decides on the row as it read it before verifyPassword and      *)
(* writes absolute values.  The session a login opens is AdminAccount's.   *)
(***************************************************************************)
EXTENDS Integers

CONSTANTS
    Logins,       \* login requests that can be in flight
    MaxLogins     \* ADMIN_MAX_LOGIN_ATTEMPTS

ASSUME MaxLoginsAssumption == MaxLogins \in Nat \ {0}

VARIABLES
    fails,        \* failedLoginAttempts; beyond MaxLogins it makes no difference
    locked,       \* lockedUntil is in the future
    login,        \* where each login stands, and the count it read
    wrongs,       \* history: wrong passwords the account was charged for
    met           \* history: two logins were in flight together

lockVars == <<fails, locked, login, wrongs, met>>

NoLogin == [at |-> "idle", read |-> 0]

LockInit ==
    /\ fails = 0 /\ locked = FALSE
    /\ login = [l \in Logins |-> NoLogin]
    /\ wrongs = 0 /\ met = FALSE

\* The row is read, a lock refuses, and verifyPassword is awaited.
ReadAccount(l, verdict) ==
    /\ login[l] = NoLogin
    /\ ~locked
    /\ login' = [login EXCEPT ![l] = [at |-> verdict, read |-> fails]]
    /\ met' = (met \/ \E m \in Logins : login[m] # NoLogin)
    /\ UNCHANGED <<fails, locked, wrongs>>

Attempts(l) == login[l].read + 1

\* Mutant of Locks: one attempt more before the account is locked.
LocksLater(l) == Attempts(l) > MaxLogins

Locks(l) == Attempts(l) >= MaxLogins

\* Absolute values from the row as read: a lock set since then is lifted.
RejectLogin(l) ==
    /\ login[l].at = "bad"
    /\ fails' = IF Attempts(l) < MaxLogins THEN Attempts(l) ELSE MaxLogins
    /\ locked' = Locks(l)
    /\ wrongs' = wrongs + 1
    /\ login' = [login EXCEPT ![l] = NoLogin]
    /\ UNCHANGED met

\* After adminSession.create: the counter and any lock are cleared.
AcceptLogin(l) ==
    /\ login[l].at = "good"
    /\ fails' = 0 /\ locked' = FALSE
    /\ wrongs' = 0
    /\ login' = [login EXCEPT ![l] = NoLogin]
    /\ UNCHANGED met

\* A call rejects or the process dies.
LoginDies(l) ==
    /\ login[l] # NoLogin
    /\ login' = [login EXCEPT ![l] = NoLogin]
    /\ UNCHANGED <<fails, locked, wrongs, met>>

\* ADMIN_LOCKOUT_MINUTES are over.  The counter stays, so the next wrong password
\* locks the account again: one is left.
LockRunsOut ==
    /\ locked
    /\ locked' = FALSE
    /\ wrongs' = MaxLogins - 1
    /\ UNCHANGED <<fails, login, met>>

LockNext ==
    \/ \E l \in Logins :
          \/ \E verdict \in {"good", "bad"} : ReadAccount(l, verdict)
          \/ RejectLogin(l)
          \/ AcceptLogin(l)
          \/ LoginDies(l)
    \/ LockRunsOut

LockSpec == LockInit /\ [][LockNext]_lockVars

-----------------------------------------------------------------------------
\* "Failed-attempt lockout": MaxLogins wrong passwords lock the account until
\* time or a right one lifts it, unless logins overlapped: each writes the count
\* it read plus one, and no lock with it if that is not enough for one.
LockoutHolds ==
    met \/ (wrongs <= MaxLogins /\ (wrongs = MaxLogins => locked))
=============================================================================
