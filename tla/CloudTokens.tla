---------------------------- MODULE CloudTokens ----------------------------
(***************************************************************************)
(* Connecting a browser to Google Drive, Dropbox or OneDrive:              *)
(* apps/api/src/cloud/cloud.controller.ts, cloud-token-store.ts and the    *)
(* OAuth services of the three providers.                                  *)
(*                                                                         *)
(* One browser, which holds the id of its cloud session in a cookie, and   *)
(* one provider.  A token stands for the consent it was granted by.  The   *)
(* answers of requests arrive in any order, and set or clear the cookie    *)
(* when they do.                                                           *)
(***************************************************************************)
EXTENDS Integers

CONSTANTS
    CloudRequests,    \* request slots
    MaxConsents,      \* visits to the provider's consent page (bound)
    MaxCloudSessions  \* cloud sessions (bound)

ASSUME CloudBoundsAssumption == MaxConsents \in Nat /\ MaxCloudSessions \in Nat

Consents      == 1 .. MaxConsents
CloudSessions == 1 .. MaxCloudSessions
None          == 0

VARIABLES
    provider,      \* one of Providers
    cookie,        \* the browser's cloud session, or None
    sessionsMade,
    consent,       \* per visit: "none", "open" or "back", and the session in its state
    tokens,        \* the record in Redis under each session
    cloudReq,      \* the requests in flight
    dropped,       \* history: the session was disconnected
    busyAtDrop     \* history: ... with another request on it under way

cloudHistory == <<dropped, busyAtDrop>>
cloudVars == <<provider, cookie, sessionsMade, consent, tokens, cloudReq, cloudHistory>>

\* What disconnecting does at the provider first: it revokes what the record holds, or an
\* access token, which may have to be refreshed for that, or nothing.
GoogleDrive == [revokes |-> "record"]
Dropbox     == [revokes |-> "access"]
OneDrive    == [revokes |-> "nothing"]
Providers   == {GoogleDrive, Dropbox, OneDrive}

Absent == [refresh |-> None, access |-> None, fresh |-> FALSE]
Tokens(r, a) == [refresh |-> r, access |-> a, fresh |-> TRUE]

NoCloudRequest == [for |-> "none", at |-> "idle", sid |-> None, got |-> Absent,
                   seen |-> Absent]

CloudInit ==
    /\ provider \in Providers
    /\ cookie = None /\ sessionsMade = 0
    /\ consent = [c \in Consents |-> [at |-> "none", sid |-> None]]
    /\ tokens = [s \in CloudSessions |-> Absent]
    /\ cloudReq = [r \in CloudRequests |-> NoCloudRequest]
    /\ dropped = [s \in CloudSessions |-> FALSE]
    /\ busyAtDrop = [s \in CloudSessions |-> FALSE]

On(s) == {r \in CloudRequests : cloudReq[r].sid = s}

Goes(r, step) == cloudReq' = [cloudReq EXCEPT ![r].at = step]
GoesWith(r, step, got) ==
    cloudReq' = [cloudReq EXCEPT ![r] = [[@ EXCEPT !.at = step] EXCEPT !.got = got]]
Ends(r)       == cloudReq' = [cloudReq EXCEPT ![r] = NoCloudRequest]
Starts(r, what, step, s, seen) ==
    /\ cloudReq[r] = NoCloudRequest
    /\ cloudReq' = [cloudReq EXCEPT ![r] = [for |-> what, at |-> step, sid |-> s,
                                            got |-> Absent, seen |-> seen]]

-----------------------------------------------------------------------------
(* Connecting *)

\* The cookie's session, or a new one.
EnsureSession == IF cookie # None THEN cookie ELSE sessionsMade + 1

\* saveState
SaveState(c, s) == consent' = [consent EXCEPT ![c] = [at |-> "open", sid |-> s]]

\* getdel
ConsumeState(c) == consent' = [consent EXCEPT ![c].at = "back"]

AuthUrl(c) ==
    LET s == EnsureSession IN
    /\ consent[c].at = "none" /\ \A d \in Consents : d < c => consent[d].at # "none"
    /\ s \in CloudSessions
    /\ cookie' = s
    /\ sessionsMade' = IF s > sessionsMade THEN s ELSE sessionsMade
    /\ SaveState(c, s)
    /\ UNCHANGED <<provider, tokens, cloudReq, cloudHistory>>

\* The user denies, the state's ten minutes are over, or the callback comes without a cookie.
ConsentLost(c) ==
    /\ consent[c].at = "open"
    /\ ConsumeState(c)
    /\ UNCHANGED <<provider, cookie, sessionsMade, tokens, cloudReq, cloudHistory>>

\* The request arrives with the code, the state and the cookie.
Callback(r, c) ==
    /\ consent[c].at = "open" /\ cookie # None
    /\ Starts(r, "callback", "state", cookie, [Absent EXCEPT !.access = c])
    /\ busyAtDrop' = [busyAtDrop EXCEPT ![cookie] =
          @ \/ \E q \in On(cookie) : cloudReq[q].for = "disconnect"]
    /\ UNCHANGED <<provider, cookie, sessionsMade, consent, tokens, dropped>>

\* oauthCallbackSessionMatches
SessionMatches(r, c) == consent[c].sid = cloudReq[r].sid

\* The state is consumed, if no other request was first, and the session in it compared
\* with the cookie that came with the request.
CheckState(r) ==
    LET c == cloudReq[r].seen.access IN
    /\ cloudReq[r].at = "state"
    /\ ConsumeState(c)
    /\ IF consent[c].at = "open" /\ SessionMatches(r, c) THEN Goes(r, "exchange") ELSE Ends(r)
    /\ UNCHANGED <<provider, cookie, sessionsMade, tokens, cloudHistory>>

\* An access token, and a refresh token if the provider sends one.
Grants(c) == {Tokens(c, c), Tokens(None, c)}

ExchangeCode(r) ==
    /\ cloudReq[r].at = "exchange"
    /\ \/ \E granted \in Grants(cloudReq[r].seen.access) :
              GoesWith(r, "merge", granted)
       \/ Goes(r, "answer")
    /\ UNCHANGED <<provider, cookie, sessionsMade, consent, tokens, cloudHistory>>

-----------------------------------------------------------------------------
(* Storing tokens: existing is read, and the merged record written *)

\* tokens.refreshToken || existing?.refreshToken || ''
Merge(new, existing) ==
    [new EXCEPT !.refresh = IF @ # None THEN @ ELSE existing.refresh]

ReadExisting(r) ==
    /\ cloudReq[r].at = "merge"
    /\ GoesWith(r, "store", Merge(cloudReq[r].got, tokens[cloudReq[r].sid]))
    /\ UNCHANGED <<provider, cookie, sessionsMade, consent, tokens, cloudHistory>>

StoreTokens(r) ==
    /\ cloudReq[r].at = "store"
    /\ tokens' = [tokens EXCEPT ![cloudReq[r].sid] = cloudReq[r].got]
    /\ CASE cloudReq[r].for = "callback" -> Goes(r, "answer")
         [] cloudReq[r].for = "use" -> Ends(r)
         [] cloudReq[r].for = "disconnect" -> Goes(r, "clear")
    /\ UNCHANGED <<provider, cookie, sessionsMade, consent, cloudHistory>>

\* The redirect carries the cookie, whether the exchange went well or not.
AnswerCallback(r) ==
    /\ cloudReq[r].at = "answer"
    /\ cookie' = cloudReq[r].sid
    /\ Ends(r)
    /\ UNCHANGED <<provider, sessionsMade, consent, tokens, cloudHistory>>

-----------------------------------------------------------------------------
(* Using the tokens *)

\* A fresh access token is used as it is; without a refresh token there is nothing
\* to ask the provider for.
Refreshable(s) == ~tokens[s].fresh /\ tokens[s].refresh # None

\* picker-config, files, import, export: those that find a fresh token, or none,
\* change nothing.
UseTokens(r) ==
    /\ cookie # None /\ Refreshable(cookie)
    /\ Starts(r, "use", "refresh", cookie, tokens[cookie])
    /\ UNCHANGED <<provider, cookie, sessionsMade, consent, tokens, cloudHistory>>

\* A new access token of the same consent; OneDrive sends a new refresh token as well.
Regrant(seen) == Tokens(seen.refresh, seen.refresh)

\* A refused refresh leaves the record as it is.
RefreshAccess(r) ==
    /\ cloudReq[r].at = "refresh"
    /\ \/ GoesWith(r, "merge", Regrant(cloudReq[r].seen))
       \/ IF cloudReq[r].for = "use" THEN Ends(r) ELSE Goes(r, "clear")
    /\ UNCHANGED <<provider, cookie, sessionsMade, consent, tokens, cloudHistory>>

\* The record's 60 days are over, or the key it was encrypted with is no longer the
\* configured one: it reads as none.
RecordLapses(s) ==
    /\ tokens[s] # Absent
    /\ tokens' = [tokens EXCEPT ![s] = Absent]
    /\ UNCHANGED <<provider, cookie, sessionsMade, consent, cloudReq, cloudHistory>>

AccessExpires(s) ==
    /\ tokens[s].fresh
    /\ tokens' = [tokens EXCEPT ![s].fresh = FALSE]
    /\ UNCHANGED <<provider, cookie, sessionsMade, consent, cloudReq, cloudHistory>>

-----------------------------------------------------------------------------
(* Disconnecting *)

\* A refresh made for the revocation is stored like any other.
RevokeAccess(s) ==
    IF provider.revokes = "access" /\ Refreshable(s) THEN "refresh" ELSE "clear"

Disconnect(r) ==
    /\ cookie # None
    /\ Starts(r, "disconnect", RevokeAccess(cookie), cookie, tokens[cookie])
    /\ UNCHANGED <<provider, cookie, sessionsMade, consent, tokens, cloudHistory>>

ClearTokens(r) ==
    LET s == cloudReq[r].sid IN
    /\ cloudReq[r].at = "clear"
    /\ tokens' = [tokens EXCEPT ![s] = Absent]
    /\ dropped' = [dropped EXCEPT ![s] = TRUE]
    /\ busyAtDrop' = [busyAtDrop EXCEPT ![s] = @ \/ On(s) # {r}]
    /\ Goes(r, "forget")
    /\ UNCHANGED <<provider, cookie, sessionsMade, consent>>

\* Mutant of ForgetCookie: the session id stays in the browser.
LeaveCookie(r) ==
    /\ cloudReq[r].at = "forget"
    /\ Ends(r)
    /\ UNCHANGED <<provider, cookie, sessionsMade, consent, tokens, cloudHistory>>

ForgetCookie(r) ==
    /\ cloudReq[r].at = "forget"
    /\ cookie' = None
    /\ Ends(r)
    /\ UNCHANGED <<provider, sessionsMade, consent, tokens, cloudHistory>>

\* Redis or the process fails: a browser without an answer keeps its cookie.
CloudRequestDies(r) ==
    /\ cloudReq[r] # NoCloudRequest
    /\ Ends(r)
    /\ busyAtDrop' = [busyAtDrop EXCEPT ![cloudReq[r].sid] = @ \/ cloudReq[r].at = "forget"]
    /\ UNCHANGED <<provider, cookie, sessionsMade, consent, tokens, dropped>>

CloudRequest(r) ==
    \/ \E c \in Consents : Callback(r, c)
    \/ CheckState(r)
    \/ ExchangeCode(r)
    \/ ReadExisting(r)
    \/ StoreTokens(r)
    \/ AnswerCallback(r)
    \/ UseTokens(r)
    \/ RefreshAccess(r)
    \/ Disconnect(r)
    \/ ClearTokens(r)
    \/ ForgetCookie(r)
    \/ CloudRequestDies(r)

CloudNext ==
    \/ \E c \in Consents : AuthUrl(c) \/ ConsentLost(c)
    \/ \E r \in CloudRequests : CloudRequest(r)
    \/ \E s \in CloudSessions : AccessExpires(s) \/ RecordLapses(s)

CloudSpec == CloudInit /\ [][CloudNext]_cloudVars

-----------------------------------------------------------------------------
\* A disconnected session keeps no tokens, and no consent page still open can
\* bring some, unless another request on the session overlapped the disconnect.
DisconnectHolds ==
    \A s \in CloudSessions : dropped[s] /\ ~busyAtDrop[s] => tokens[s] = Absent
=============================================================================
