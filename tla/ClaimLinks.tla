----------------------------- MODULE ClaimLinks -----------------------------
(***************************************************************************)
(* The link mailed with a finished file: the claim token of                *)
(* auth-email.service.ts, the send-file-email job, and the download the    *)
(* link opens (files.controller.ts, files.service.ts).                     *)
(*                                                                         *)
(* One file and one link.  The link is opened by a GET, by whoever follows *)
(* it: the reader, twice, or a mail scanner.  The queue is BullMQ's, as    *)
(* the code uses it: MailTries attempts, and a job whose worker died is    *)
(* given to another one.                                                   *)
(***************************************************************************)
EXTENDS Integers

CONSTANTS
    LinkGets,      \* GETs of the link that can be in flight
    MailTries      \* "attempts: 3"

ASSUME MailTriesAssumption == MailTries \in Nat \ {0}

VARIABLES
    stored,       \* the file's row: "ready", "due" (READY, past its time), "expired"
    claimKey,     \* the token's key in Redis
    mailJob,      \* the send-file-email job: where it stands, attempts used up
    mails,        \* mails handed to the mail server
    deliveries,   \* Download rows of channel EMAIL
    link,         \* where each GET of the link stands
    downloads,    \* Download rows of channel BROWSER made through the link
    owner,        \* the address is a VerifiedUser
    crossed       \* history: two GETs had both read the token before it was deleted

linkVars == <<stored, claimKey, mailJob, mails, deliveries, link, downloads, owner,
              crossed>>
mailVars == <<mailJob, mails, deliveries>>
getVars  == <<link, downloads, owner, crossed>>

JobSteps  == {"none", "queued", "sending", "logging", "done", "dead"}
LinkSteps == {"idle", "spend", "resolve", "count", "verify"}

LinkInit ==
    /\ stored = "ready"
    /\ claimKey = "none"
    /\ mailJob = [at |-> "none", tries |-> 0]
    /\ mails = 0
    /\ deliveries = 0
    /\ link = [g \in LinkGets |-> "idle"]
    /\ downloads = 0
    /\ owner = FALSE
    /\ crossed = FALSE

-----------------------------------------------------------------------------
(* The end of complete(), and the job *)

CreateClaimToken ==
    /\ claimKey = "none"
    /\ claimKey' = "stored"
    /\ UNCHANGED <<stored, mailVars, getVars>>

\* If the process dies here, a token exists that nobody was sent.
QueueFileEmail ==
    /\ claimKey # "none" /\ mailJob.at = "none"
    /\ mailJob' = [mailJob EXCEPT !.at = "queued"]
    /\ UNCHANGED <<stored, claimKey, mails, deliveries, getVars>>

JobGoes(step) == mailJob' = [mailJob EXCEPT !.at = step]

\* The job throws, or its worker dies and the stalled job goes to another one:
\* another attempt, or none is left.
JobThrows ==
    mailJob' = [at |-> IF mailJob.tries + 1 < MailTries THEN "queued" ELSE "dead",
                tries |-> mailJob.tries + 1]

\* The row must be READY; that it is past its time is not looked at.
FetchMailJob ==
    /\ mailJob.at = "queued"
    /\ IF stored # "expired" THEN JobGoes("sending") ELSE JobThrows
    /\ UNCHANGED <<stored, claimKey, mails, deliveries, getVars>>

\* A send that failed may have reached the mail server all the same.
SendFileEmail ==
    /\ mailJob.at = "sending"
    /\ \/ JobGoes("logging") /\ mails' = mails + 1
       \/ JobThrows /\ mails' \in {mails, mails + 1}
    /\ UNCHANGED <<stored, claimKey, deliveries, getVars>>

\* download.create, after the mail: if it fails, or its answer is lost, the next
\* attempt mails again.
LogDelivery ==
    /\ mailJob.at = "logging"
    /\ \/ JobGoes("done") /\ deliveries' = deliveries + 1
       \/ JobThrows /\ deliveries' \in {deliveries, deliveries + 1}
    /\ UNCHANGED <<stored, claimKey, mails, getVars>>

-----------------------------------------------------------------------------
(* GET claim-download *)

LinkGoes(g, step) == link' = [link EXCEPT ![g] = step]

\* consumeClaimToken: GET, then DEL.
ReadClaim(g) ==
    /\ mails > 0 /\ claimKey = "stored"
    /\ link[g] = "idle"
    /\ LinkGoes(g, "spend")
    /\ crossed' = (crossed \/ \E h \in LinkGets : link[h] = "spend")
    /\ UNCHANGED <<stored, claimKey, mailVars, downloads, owner>>

\* Mutant of DeleteClaim: the key is left to its time to live.
KeepClaim(g) ==
    /\ link[g] = "spend"
    /\ LinkGoes(g, "resolve")
    /\ UNCHANGED <<stored, claimKey, mailVars, downloads, owner, crossed>>

DeleteClaim(g) ==
    /\ link[g] = "spend"
    /\ claimKey' = "gone"
    /\ LinkGoes(g, "resolve")
    /\ UNCHANGED <<stored, mailVars, downloads, owner, crossed>>

\* getDownload reads the row; an overdue row is marked and refused.  The token
\* is spent either way.
ResolveFile(g) ==
    /\ link[g] = "resolve"
    /\ LinkGoes(g, IF stored = "ready" THEN "count" ELSE "idle")
    /\ stored' = IF stored = "due" THEN "expired" ELSE stored
    /\ UNCHANGED <<claimKey, mailVars, downloads, owner, crossed>>

CountDownload(g) ==
    /\ link[g] = "count"
    /\ downloads' = downloads + 1
    /\ LinkGoes(g, "verify")
    /\ UNCHANGED <<stored, claimKey, mailVars, owner, crossed>>

\* markEmailVerified, the cookie and the redirect.
MarkEmailVerified(g) ==
    /\ link[g] = "verify"
    /\ owner' = TRUE
    /\ LinkGoes(g, "idle")
    /\ UNCHANGED <<stored, claimKey, mailVars, downloads, crossed>>

\* Redis, the database or the process fails: nothing is given back.
LinkFails(g) ==
    /\ link[g] # "idle"
    /\ LinkGoes(g, "idle")
    /\ UNCHANGED <<stored, claimKey, mailVars, downloads, owner, crossed>>

-----------------------------------------------------------------------------
\* 24 hours
ClaimLapses ==
    /\ claimKey = "stored"
    /\ claimKey' = "gone"
    /\ UNCHANGED <<stored, mailVars, getVars>>

\* The file's time to live; the row follows when someone looks or sweeps.
FileAges ==
    /\ stored' = CASE stored = "ready" -> "due" [] OTHER -> "expired"
    /\ stored # "expired"
    /\ UNCHANGED <<claimKey, mailVars, getVars>>

OpenLink(g) ==
    \/ ReadClaim(g)
    \/ DeleteClaim(g)
    \/ ResolveFile(g)
    \/ CountDownload(g)
    \/ MarkEmailVerified(g)
    \/ LinkFails(g)

MailNext ==
    \/ FetchMailJob
    \/ SendFileEmail
    \/ LogDelivery

LinkNext ==
    \/ CreateClaimToken
    \/ QueueFileEmail
    \/ MailNext
    \/ \E g \in LinkGets : OpenLink(g)
    \/ ClaimLapses
    \/ FileAges

LinkSpec == LinkInit /\ [][LinkNext]_linkVars

-----------------------------------------------------------------------------
\* "One-time magic link": the link downloads once, unless two GETs had both
\* read the token before either deleted it.
LinkSpentOnce == crossed \/ downloads <= 1
=============================================================================
