--------------------------- MODULE ConsoleSession ---------------------------
(***************************************************************************)
(* Who the staff console takes its user for: AdminAuthProvider.tsx, the    *)
(* login page, AdminShell and the settings page (apps/web), against one    *)
(* session at the API, where AdminSessionGuard asks for it.                *)
(*                                                                         *)
(* The provider remembers a user or none.  me(), login() and logout() are  *)
(* answered at one moment and land at a later one, in any order; a change  *)
(* of page comes after the router was asked for it.                        *)
(***************************************************************************)
EXTENDS Integers, Sequences

CONSTANT MaxRefreshes    \* refreshes on their way at the same time (bound)

ASSUME RefreshesAssumption == MaxRefreshes \in Nat \ {0}

VARIABLES
    signed,      \* the cookie's session is good
    path,        \* "/admin/login", or any other page of the console
    going,       \* the page the router was asked for, or "nowhere"
    user,        \* the provider holds a user
    loading,
    refreshes,   \* refresh() on its way: where it was called, its answer, and
                 \* (history) whether another answer landed since
    entering,    \* login(): "idle", "asked" or "ok"
    leaving,     \* logout(): "idle", "asked" or "done"
    form,        \* the e-mail form of the settings page: "initial", "code" or "changed"
    stray        \* history: an overtaken answer landed, or me() failed without a 401

sessionVars == <<signed, path, going, user, loading, refreshes, entering, leaving, form, stray>>

Pages == {"login", "console"}

Refresh(page) == [from |-> page, answer |-> "none", overtaken |-> FALSE]
Overtaken(rs) == [i \in DOMAIN rs |-> [rs[i] EXCEPT !.overtaken = TRUE]]
AllBut(i)     == SubSeq(refreshes, 1, i - 1) \o SubSeq(refreshes, i + 1, Len(refreshes))

\* The page as it loads: the effect of [refresh].
Loaded(page) ==
    /\ path' = page /\ going' = "nowhere"
    /\ user' = FALSE /\ loading' = TRUE
    /\ refreshes' = <<Refresh(page)>>
    /\ entering' = "idle" /\ leaving' = "idle" /\ form' = "initial"
    /\ stray' = FALSE

SessionInit ==
    /\ signed \in BOOLEAN
    /\ path \in Pages /\ going = "nowhere"
    /\ user = FALSE /\ loading = TRUE
    /\ refreshes = <<Refresh(path)>>
    /\ entering = "idle" /\ leaving = "idle" /\ form = "initial"
    /\ stray = FALSE

-----------------------------------------------------------------------------
(* refresh() *)

\* AdminSessionGuard and me(): a user, a 401, or no answer worth the name.
MeAnswered(i) ==
    /\ refreshes[i].answer = "none"
    /\ \E answer \in {IF signed THEN "me" ELSE "401", "failed"} :
          refreshes' = [refreshes EXCEPT ![i].answer = answer]
    /\ UNCHANGED <<signed, path, going, user, loading, entering, leaving, form, stray>>

\* Mutant of GoesIn: a user found at the login page is left there.
StaysOut(r) == FALSE

\* isLogin as it was when refresh was made.
GoesIn(r)  == r.answer = "me" /\ r.from = "login"
GoesOut(r) == r.answer = "401" /\ r.from = "console"

RefreshLands(i) ==
    LET r == refreshes[i] IN
    /\ r.answer # "none"
    /\ user' = (r.answer = "me")
    /\ loading' = FALSE
    /\ going' = IF GoesIn(r) THEN "console" ELSE IF GoesOut(r) THEN "login" ELSE going
    /\ refreshes' = Overtaken(AllBut(i))
    /\ stray' = (stray \/ r.overtaken \/ r.answer = "failed")
    /\ UNCHANGED <<signed, path, entering, leaving, form>>

\* The router gets there.  Past the login page or on to it, refresh is another function,
\* and its effect runs.
Navigated ==
    /\ going # "nowhere"
    /\ going' = "nowhere"
    /\ path' = going
    /\ IF going # path
       THEN Len(refreshes) < MaxRefreshes /\ refreshes' = Append(refreshes, Refresh(going))
       ELSE UNCHANGED refreshes
    /\ form' = IF going # path THEN "initial" ELSE form
    /\ UNCHANGED <<signed, user, loading, entering, leaving, stray>>

-----------------------------------------------------------------------------
(* login() and logout() *)

\* The form is there for nobody only.
SignIn ==
    /\ path = "login" /\ ~loading /\ ~user
    /\ entering = "idle"
    /\ entering' = "asked"
    /\ UNCHANGED <<signed, path, going, user, loading, refreshes, leaving, form, stray>>

SignInAnswered ==
    /\ entering = "asked"
    /\ \/ entering' = "ok" /\ signed' = TRUE
       \/ entering' = "idle" /\ UNCHANGED signed
    /\ UNCHANGED <<path, going, user, loading, refreshes, leaving, form, stray>>

SignInLands ==
    /\ entering = "ok"
    /\ entering' = "idle"
    /\ user' = TRUE /\ loading' = FALSE /\ going' = "console"
    /\ refreshes' = Overtaken(refreshes)
    /\ UNCHANGED <<signed, path, leaving, form, stray>>

\* The shell is there for a user only.
SignOut ==
    /\ path = "console" /\ ~loading /\ user
    /\ leaving = "idle"
    /\ leaving' = "asked"
    /\ UNCHANGED <<signed, path, going, user, loading, refreshes, entering, form, stray>>

\* The session is revoked, or the call fails before or after that.
SignOutAnswered ==
    /\ leaving = "asked"
    /\ leaving' = "done"
    /\ signed' \in {signed, FALSE}
    /\ UNCHANGED <<path, going, user, loading, refreshes, entering, form, stray>>

\* finally: nobody, and the login page, whatever the answer was.
SignOutLands ==
    /\ leaving = "done"
    /\ leaving' = "idle"
    /\ user' = FALSE /\ going' = "login"
    /\ refreshes' = Overtaken(refreshes)
    /\ UNCHANGED <<signed, path, loading, entering, form, stray>>

-----------------------------------------------------------------------------
(* The settings page *)

\* A code to the new address, which AdminAccount follows; a refusal leaves the form.
RequestEmailChange ==
    /\ path = "console" /\ user /\ ~loading /\ signed
    /\ form = "initial"
    /\ form' = "code"
    /\ UNCHANGED <<signed, path, going, user, loading, refreshes, entering, leaving, stray>>

\* The other sessions are revoked, this one is not.
ConfirmEmailChange ==
    /\ form = "code" /\ path = "console" /\ user /\ signed
    /\ form' = "changed"
    /\ UNCHANGED <<signed, path, going, user, loading, refreshes, entering, leaving, stray>>

\* Two seconds later, by window.location: the page starts over.
LeaveForLogin ==
    /\ form = "changed"
    /\ Loaded("login")
    /\ UNCHANGED signed

-----------------------------------------------------------------------------
\* It runs out, or is revoked from another browser.
SessionEnds ==
    /\ signed
    /\ signed' = FALSE
    /\ UNCHANGED <<path, going, user, loading, refreshes, entering, leaving, form, stray>>

Reload ==
    /\ Loaded(path)
    /\ UNCHANGED signed

SessionNext ==
    \/ \E i \in DOMAIN refreshes : MeAnswered(i) \/ RefreshLands(i)
    \/ Navigated
    \/ SignIn \/ SignInAnswered \/ SignInLands
    \/ SignOut \/ SignOutAnswered \/ SignOutLands
    \/ RequestEmailChange \/ ConfirmEmailChange \/ LeaveForLogin
    \/ SessionEnds \/ Reload

SessionSpec == SessionInit /\ [][SessionNext]_sessionVars

-----------------------------------------------------------------------------
(* Properties *)

Resting == refreshes = <<>> /\ going = "nowhere" /\ entering = "idle" /\ leaving = "idle"

\* With nothing under way the console shows a user, or the login page its form: nobody is
\* left before "Redirecting", however sessions end and logouts fail.  Not so once me()
\* failed without a 401, or an answer landed that another had overtaken.
ConsoleSettles ==
    Resting /\ ~stray => ~loading /\ (user <=> path = "console")
=============================================================================
