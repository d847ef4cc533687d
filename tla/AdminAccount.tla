---------------------------- MODULE AdminAccount ----------------------------
(***************************************************************************)
(* A staff account's password, e-mail address and sessions:                *)
(* apps/api/src/admin/auth/admin-auth.service.ts.                          *)
(*                                                                         *)
(* Passwords are versions; a session remembers the one it was opened with. *)
(* Of the challenges of a purpose the newest unconsumed one is kept, the   *)
(* only one consumeOtp() reads, and whether an older one lies open beneath *)
(* it.  The lock a login may run into is AdminLockout's.                   *)
(***************************************************************************)
EXTENDS Integers

CONSTANTS
    AdminRequests,    \* request slots
    AdminSessions,    \* sessions that may be created
    NoAdminSession,
    MaxOtpTries,      \* MAX_OTP_ATTEMPTS
    MaxChanges        \* password changes (bound)

ASSUME AdminSessionsAssumption == NoAdminSession \notin AdminSessions
ASSUME AdminLimitsAssumption == MaxOtpTries \in Nat \ {0} /\ MaxChanges \in Nat

VARIABLES
    password,      \* version of passwordHash
    adminSession,  \* per session: its state, the password it was opened with, and
                   \* (history) whether a password change need not end it
    challenge,     \* per purpose: state and attempts of the newest row, and whether
                   \* one beneath it is open
    adminReq       \* what each request is doing, with what it read

adminVars == <<password, adminSession, challenge, adminReq>>

Purposes == {"password", "email"}

NoAdminRequest == [at |-> "idle", read |-> 0, by |-> NoAdminSession, purpose |-> "email"]
Checking(step, v)    == [NoAdminRequest EXCEPT !.at = step, !.read = v]
Confirming(step, s, u) == [NoAdminRequest EXCEPT !.at = step, !.by = s, !.purpose = u]

Challenge(state, n, older) == [state |-> state, tries |-> n, older |-> older]

Session(state, v, spared) == [state |-> state, password |-> v, spared |-> spared]
NoSessionYet == Session("none", 0, FALSE)
Revoked      == Session("revoked", 0, FALSE)
LiveAdmin(s) == adminSession[s].state = "live"

\* Sessions that a crash between the update and the revocation leaves behind.
SpareAll == [s \in AdminSessions |->
                IF LiveAdmin(s) THEN Session("live", adminSession[s].password, TRUE)
                ELSE adminSession[s]]

AdminInit ==
    /\ password = 0
    /\ adminSession = [s \in AdminSessions |-> NoSessionYet]
    /\ challenge = [u \in Purposes |-> Challenge("closed", 0, FALSE)]
    /\ adminReq = [p \in AdminRequests |-> NoAdminRequest]

StartRequest(p, r) ==
    adminReq[p] = NoAdminRequest /\ adminReq' = [adminReq EXCEPT ![p] = r]
NextPiece(p, step) == adminReq' = [adminReq EXCEPT ![p].at = step]
EndRequest(p) == adminReq' = [adminReq EXCEPT ![p] = NoAdminRequest]

-----------------------------------------------------------------------------
(* login and logout *)

\* The right password for the row as read; a wrong one changes nothing here.
CheckPassword(p) ==
    /\ StartRequest(p, Checking("open", password))
    /\ UNCHANGED <<password, adminSession, challenge>>

\* A login that read the row before a password change opens its session after.
OpenSession(p, s) ==
    /\ adminReq[p].at = "open"
    /\ adminSession[s] = NoSessionYet
    /\ adminSession' = [adminSession EXCEPT ![s] =
          Session("live", adminReq[p].read, adminReq[p].read # password)]
    /\ EndRequest(p)
    /\ UNCHANGED <<password, challenge>>

\* logout, or the session's time to live.
EndSession(s) ==
    /\ LiveAdmin(s)
    /\ adminSession' = [adminSession EXCEPT ![s] = Revoked]
    /\ UNCHANGED <<password, challenge, adminReq>>

-----------------------------------------------------------------------------
(* Changing the password or the e-mail: a code to the address, then confirm *)

\* The guard's session and the current password; a new row each time, so its
\* attempts start at zero.
RequestChange(s, u) ==
    /\ LiveAdmin(s)
    /\ challenge' = [challenge EXCEPT
          ![u] = Challenge("open", 0, @.older \/ @.state = "open")]
    /\ UNCHANGED <<password, adminSession, adminReq>>

\* AdminSessionGuard; the session is not looked at again.
StartConfirm(p, s, u) ==
    /\ LiveAdmin(s)
    /\ StartRequest(p, Confirming("read", s, u))
    /\ UNCHANGED <<password, adminSession, challenge>>

\* consumeOtp's read: no open row, an expired one or one without attempts refuses.
ReadChallenge(p, u, verdict) ==
    /\ adminReq[p].at = "read" /\ adminReq[p].purpose = u
    /\ challenge[u].state = "open" /\ challenge[u].tries < MaxOtpTries
    /\ NextPiece(p, verdict)
    /\ UNCHANGED <<password, adminSession, challenge>>

\* The row compared may not be the newest one any more.
RejectCode(p, u) ==
    /\ adminReq[p].at = "bad" /\ adminReq[p].purpose = u
    /\ \/ challenge[u].state = "open" /\ challenge' = [challenge EXCEPT ![u].tries = @ + 1]
       \/ UNCHANGED challenge
    /\ EndRequest(p)
    /\ UNCHANGED <<password, adminSession>>

\* What the newest row is once it is consumed: one beneath it comes up again.
Uncovered(u) ==
    {Challenge("closed", 0, FALSE)} \union
    {Challenge("open", n, older) : n \in {m \in 0 .. MaxOtpTries : challenge[u].older},
                                  older \in BOOLEAN}

ConsumeCode(p, u) ==
    /\ adminReq[p].at = "good" /\ adminReq[p].purpose = u
    /\ \E after \in Uncovered(u) \union {challenge[u]} :
          challenge' = [challenge EXCEPT ![u] = after]
    /\ NextPiece(p, "update")
    /\ UNCHANGED <<password, adminSession>>

\* The session that makes the change may stay.
ChangePassword(p) ==
    LET s == adminReq[p].by IN
    /\ adminReq[p].at = "update" /\ adminReq[p].purpose = "password"
    /\ password < MaxChanges
    /\ password' = password + 1
    /\ adminSession' = IF LiveAdmin(s)
          THEN [adminSession EXCEPT ![s] = Session("live", @.password, TRUE)]
          ELSE adminSession
    /\ NextPiece(p, "revoke")
    /\ UNCHANGED <<challenge>>

\* The address itself is not modelled: the step leaves the sessions to be revoked.
ChangeEmail(p) ==
    /\ adminReq[p].at = "update" /\ adminReq[p].purpose = "email"
    /\ NextPiece(p, "revoke")
    /\ UNCHANGED <<password, adminSession, challenge>>

\* Mutant of Others: the NOT of the where clause is lost.
OwnOnly(p) == {adminReq[p].by}

Others(p) == AdminSessions \ {adminReq[p].by}

RevokeOtherSessions(p) ==
    /\ adminReq[p].at = "revoke"
    /\ adminSession' = [s \in AdminSessions |->
          IF LiveAdmin(s) /\ s \in Others(p) THEN Revoked ELSE adminSession[s]]
    /\ EndRequest(p)
    /\ UNCHANGED <<password, challenge>>

\* A call rejects or the process dies.
AdminRequestDies(p) ==
    /\ adminReq[p] # NoAdminRequest
    /\ EndRequest(p)
    /\ adminSession' = IF adminReq[p].at = "revoke" THEN SpareAll ELSE adminSession
    /\ UNCHANGED <<password, challenge>>

-----------------------------------------------------------------------------
\* The row stays the newest: those beneath it are out of reach.
CodeRunsOut(u) ==
    /\ challenge[u].state = "open"
    /\ challenge' = [challenge EXCEPT ![u] = Challenge("closed", 0, FALSE)]
    /\ UNCHANGED <<password, adminSession, adminReq>>

\* The process starts again; the row in the database is there, so nothing is seeded.
Boot ==
    /\ adminReq' = [p \in AdminRequests |-> NoAdminRequest]
    /\ adminSession' = IF \E p \in AdminRequests : adminReq[p].at = "revoke"
                       THEN SpareAll ELSE adminSession
    /\ UNCHANGED <<password, challenge>>

LoginLogout(p) == CheckPassword(p) \/ \E s \in AdminSessions : OpenSession(p, s)

ConfirmChange(p) ==
    \/ \E s \in AdminSessions, u \in Purposes : StartConfirm(p, s, u)
    \/ \E u \in Purposes :
          \/ \E verdict \in {"bad", "good"} : ReadChallenge(p, u, verdict)
          \/ RejectCode(p, u)
          \/ ConsumeCode(p, u)
    \/ ChangePassword(p)
    \/ ChangeEmail(p)
    \/ RevokeOtherSessions(p)

AdminNext ==
    \/ \E p \in AdminRequests :
          LoginLogout(p) \/ ConfirmChange(p) \/ AdminRequestDies(p)
    \/ \E s \in AdminSessions : EndSession(s) \/ \E u \in Purposes : RequestChange(s, u)
    \/ \E u \in Purposes : CodeRunsOut(u)
    \/ Boot

AdminSpec == AdminInit /\ [][AdminNext]_adminVars

-----------------------------------------------------------------------------
\* Once a password change is through, no session opened with an older password
\* is left but the one that made the change, those of logins that had read the
\* old password, and those a crash between update and revocation left behind.
OldSessionsEnd ==
    \A s \in AdminSessions :
        LiveAdmin(s) /\ adminSession[s].password < password
            => \/ adminSession[s].spared
               \/ \E p \in AdminRequests : adminReq[p].at = "revoke"
=============================================================================
