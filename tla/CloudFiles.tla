----------------------------- MODULE CloudFiles -----------------------------
(***************************************************************************)
(* Listing, importing and exporting PDFs: the panels of the browser        *)
(* (apps/web/src/features/cloud) and what the API does for them            *)
(* (apps/api/src/cloud).  How a session comes to hold tokens is            *)
(* CloudTokens; here it is linked or not, and the link can be lost.        *)
(*                                                                         *)
(* One panel, one file at the provider and one file of the user's.  A      *)
(* request is decided when its answer arrives, except an import, which     *)
(* reads the file twice.  Sizes: 0 is empty, CLOUD_CAP the largest taken.  *)
(***************************************************************************)
EXTENDS Integers

CONSTANT CLOUD_CAP   \* MAX_CLOUD_FILE_BYTES

ASSUME CapAssumption == CLOUD_CAP \in Nat \ {0}

VARIABLES
    store,       \* whose panel: "drive", "dropbox", "onedrive", or "button" (Drive export)
    wired,       \* the panel was given onImport and exportFile
    remote,      \* the provider's file, as it is now
    own,       \* exportFile, or the button's file
    linked,      \* the cookie's session holds tokens the provider takes
    script,      \* the Picker's script: "none", "loading", "ready" or "broken"
    panel,
    running,     \* per operation: "idle", "asked", "content", "listing"
    lastAction,
    shown,       \* the operation whose error is on display
    received,    \* the file last handed to onImport, in a set
    taken,    \* the file last taken by the provider, in a set
    beside       \* history: an operation was started beside another

cfVars == <<store, wired, remote, own, linked, script, panel, running, lastAction, shown,
            received, taken, beside>>

Stores     == {"drive", "dropbox", "onedrive", "button"}
Operations == {"status", "list", "connect", "disconnect", "import", "picker", "export"}

\* named: its name ends in .pdf.  typed: its type is PDF.  magic: %PDF- among its first
\* bytes.  inside: it is in the app's folder.
Paper == [named |-> TRUE, typed |-> TRUE, magic |-> TRUE, inside |-> TRUE, size |-> CLOUD_CAP]

Unfit       == {[Paper EXCEPT !.size = CLOUD_CAP + 1], [Paper EXCEPT !.magic = FALSE]}
RemoteFiles == {Paper, [[Paper EXCEPT !.named = FALSE] EXCEPT !.inside = FALSE]} \union Unfit
LocalFiles  == {Paper} \union Unfit

Mounted == [connected |-> FALSE, busy |-> FALSE, consent |-> FALSE, files |-> FALSE,
            result |-> FALSE]
Quiet   == [op \in Operations |-> "idle"]

CloudFilesInit ==
    /\ store \in Stores
    /\ wired \in BOOLEAN /\ (store = "button" => wired)
    /\ remote \in IF wired /\ store # "button" THEN RemoteFiles ELSE {Paper}
    /\ own \in IF wired THEN LocalFiles ELSE {Paper}
    /\ Paper \in {remote, own}                       \* (bound)
    /\ linked \in BOOLEAN
    /\ script = "none"
    /\ panel = Mounted
    /\ running = [Quiet EXCEPT !["status"] = "asked"]
    /\ lastAction = "none" /\ shown = "none"
    /\ received = {} /\ taken = {}
    /\ beside = FALSE

-----------------------------------------------------------------------------
(* The API *)

\* requireSession, requireProviderSession and requireToken: without tokens a 401.
Permitted == linked

\* isCloudPdfMeta
LooksLikePdf(f) == f.named \/ f.typed

\* What a listing shows.
DriveLists(f)    == f.typed
DropboxLists(f)  == f.inside /\ f.named
OneDriveLists(f) == f.inside /\ f.named

Lists(f) == CASE store = "drive"    -> DriveLists(f)
              [] store = "dropbox"  -> DropboxLists(f)
              [] store = "onedrive" -> OneDriveLists(f)

\* What an import takes, by the file's metadata.  A Dropbox app sees its own folder only.
DriveTakes(f)    == LooksLikePdf(f) /\ f.size <= CLOUD_CAP
DropboxTakes(f)  == f.inside /\ f.named /\ f.size <= CLOUD_CAP
OneDriveTakes(f) == f.inside /\ LooksLikePdf(f) /\ f.size <= CLOUD_CAP

Takes(f) == CASE store = "drive"    -> DriveTakes(f)
              [] store = "dropbox"  -> DropboxTakes(f)
              [] store = "onedrive" -> OneDriveTakes(f)

\* Mutant of WithinCap: the body is read without a limit, as the metadata was checked.
AnyBody(f) == f.size > 0

\* readCloudBodyCapped, of the body as it comes.
WithinCap(f) == f.size > 0 /\ f.size <= CLOUD_CAP

\* Mutant of IsPdfMagic: the type is believed.
TypeIsPdf(f) == f.typed

IsPdfMagic(f) == f.magic

\* isPdfUpload
UploadPasses(f) == LooksLikePdf(f) /\ IsPdfMagic(f) /\ WithinCap(f)

\* exportFile of each service, which checks the file before it looks for tokens.  Drive
\* keeps files of one name apart, Dropbox renames the new one, OneDrive replaces the old.
DriveUpload(f)    == UploadPasses(f) /\ Permitted /\ UNCHANGED remote
DropboxUpload(f)  == UploadPasses(f) /\ Permitted /\ UNCHANGED remote
OneDriveUpload(f) == UploadPasses(f) /\ Permitted /\ remote' \in {remote, f}

Uploads(f) == CASE store \in {"drive", "button"} -> DriveUpload(f)
                [] store = "dropbox"             -> DropboxUpload(f)
                [] store = "onedrive"            -> OneDriveUpload(f)

-----------------------------------------------------------------------------
(* The panels *)

Panels     == {"drive", "dropbox", "onedrive"}
Exclusive  == {"connect", "disconnect", "import", "picker", "export"}   \* those that set busy
UnderWay   == {op \in Exclusive : running[op] # "idle"}

\* setBusy(true), setError(null) and the request.  (bound: no operation beside itself)
Begins(op) ==
    /\ running[op] = "idle"
    /\ running' = [running EXCEPT ![op] = "asked"]
    /\ beside' = (beside \/ UnderWay # {})

Shows(op)  == shown' = op
Clears     == shown' = "none"
Finishes(op)   == running' = [running EXCEPT ![op] = "idle"]
Listing(op) == running' = [running EXCEPT ![op] = "listing"]
Environment == UNCHANGED <<store, wired, remote, own, linked>>

\* refreshStatus of either panel: a 503 is shown, with Connect as its Retry.
StatusAnswered ==
    /\ store \in Panels
    /\ running["status"] = "asked"
    /\ \/ /\ panel' = [panel EXCEPT !.connected = linked]
          /\ IF linked THEN Listing("status") ELSE Finishes("status")
          /\ UNCHANGED <<shown, lastAction>>
       \/ /\ panel' = [panel EXCEPT !.connected = FALSE]
          /\ Finishes("status")
          /\ \/ Shows("status") /\ lastAction' = "connect"
             \/ UNCHANGED <<shown, lastAction>>
    /\ Environment /\ UNCHANGED <<script, received, taken, beside>>

\* Mutant of ListFails: Retry stays with what came before the listing.
ListFailsOnly == shown' = "list" /\ UNCHANGED lastAction

\* A listing that fails shows its own error, and Retry lists again.
ListFails == shown' = "list" /\ lastAction' = "list"

\* loadFiles, at the end of the operation that called it.
ListAnswered(op) ==
    /\ running[op] = "listing"
    /\ LET frees == IF op \in Exclusive THEN FALSE ELSE panel.busy
       IN  \/ /\ Permitted
              /\ panel' = [panel EXCEPT !.files = Lists(remote), !.busy = frees]
              /\ UNCHANGED <<shown, lastAction>>
           \/ /\ panel' = [panel EXCEPT !.files = FALSE, !.busy = frees]
              /\ ListFails
    /\ Finishes(op)
    /\ Environment /\ UNCHANGED <<script, received, taken, beside>>

\* An operation that throws: the error, and the finally block.
Fails(op) ==
    /\ Shows(op)
    /\ Finishes(op)
    /\ panel' = [panel EXCEPT !.busy = FALSE]

\* The page goes to the provider.  What comes back is a page that starts over.
PageLoads ==
    /\ panel' = Mounted
    /\ running' = [Quiet EXCEPT !["status"] = "asked"]
    /\ lastAction' = "none" /\ shown' = "none" /\ script' = "none"
    /\ received' = {} /\ taken' = {} /\ beside' = FALSE
    /\ linked' \in BOOLEAN
    /\ UNCHANGED <<store, wired, remote, own>>

Connect ==
    /\ Begins("connect")
    /\ panel' = [panel EXCEPT !.busy = TRUE]
    /\ Clears /\ lastAction' = "connect"
    /\ Environment /\ UNCHANGED <<script, received, taken>>

ConnectAnswered ==
    /\ running["connect"] = "asked"
    /\ \/ PageLoads
       \/ /\ Fails("connect")
          /\ Environment /\ UNCHANGED <<script, lastAction, received, taken, beside>>

\* The Drive panel clears its error; the other panels leave it on display.
DriveDisconnect ==
    /\ store = "drive"
    /\ Begins("disconnect")
    /\ panel' = [panel EXCEPT !.busy = TRUE]
    /\ Clears
    /\ Environment /\ UNCHANGED <<script, lastAction, received, taken>>

GenericDisconnect ==
    /\ store \in {"dropbox", "onedrive"}
    /\ Begins("disconnect")
    /\ panel' = [panel EXCEPT !.busy = TRUE]
    /\ Environment /\ UNCHANGED <<script, lastAction, shown, received, taken>>

\* Tokens are dropped before the answer; consent goes with them.
DisconnectAnswered ==
    /\ running["disconnect"] = "asked"
    /\ \/ /\ linked' = FALSE
          /\ panel' = [panel EXCEPT !.connected = FALSE, !.files = FALSE, !.consent = FALSE,
                                    !.busy = FALSE, !.result = @ /\ store # "drive"]
          /\ Finishes("disconnect")
          /\ UNCHANGED <<shown, lastAction>>
       \/ Fails("disconnect") /\ lastAction' = "disconnect" /\ linked' \in {linked, FALSE}
    /\ UNCHANGED <<store, wired, remote, own, script, received, taken, beside>>

Import ==
    /\ wired
    /\ Begins("import")
    /\ panel' = [panel EXCEPT !.busy = TRUE]
    /\ Clears /\ lastAction' = "import"
    /\ Environment /\ UNCHANGED <<script, received, taken>>

\* importFile of the three services, up to the request for the content.
ImportReadsMeta ==
    /\ running["import"] = "asked"
    /\ Permitted /\ Takes(remote)
    /\ running' = [running EXCEPT !["import"] = "content"]
    /\ Environment
    /\ UNCHANGED <<script, panel, lastAction, shown, received, taken, beside>>

\* The content is whatever the file holds by then.  The Drive panel lists again.
ImportAnswered ==
    /\ running["import"] = "content"
    /\ WithinCap(remote) /\ IsPdfMagic(remote)
    /\ received' = {remote}
    /\ IF store = "drive" THEN Listing("import") /\ UNCHANGED panel
       ELSE Finishes("import") /\ panel' = [panel EXCEPT !.busy = FALSE]
    /\ Environment /\ UNCHANGED <<script, lastAction, shown, taken, beside>>

\* Refused, or lost on the way.
ImportFails ==
    /\ running["import"] \in {"asked", "content"}
    /\ Fails("import")
    /\ Environment /\ UNCHANGED <<script, lastAction, received, taken, beside>>

ExportOwn ==
    /\ wired /\ panel.consent
    /\ Begins("export")
    /\ panel' = [panel EXCEPT !.busy = TRUE, !.result = @ /\ store \in {"dropbox", "onedrive"}]
    /\ Clears /\ lastAction' = IF store = "button" THEN "none" ELSE "export"
    /\ Environment /\ UNCHANGED <<script, received, taken>>

\* exportFile of the three services; the panel then lists again.
ExportAnswered ==
    /\ store \in Panels
    /\ running["export"] = "asked"
    /\ \/ /\ Uploads(own)
          /\ taken' = {own}
          /\ panel' = [panel EXCEPT !.result = TRUE]
          /\ Listing("export") /\ UNCHANGED shown
       \/ Fails("export") /\ UNCHANGED <<taken, remote>>
    /\ UNCHANGED <<store, wired, own, linked>>
    /\ UNCHANGED <<script, lastAction, received, beside>>

-----------------------------------------------------------------------------
(* The Google Picker *)

Pick ==
    /\ store = "drive" /\ wired
    /\ Begins("picker")
    /\ panel' = [panel EXCEPT !.busy = TRUE]
    /\ Clears /\ lastAction' = "picker"
    /\ Environment /\ UNCHANGED <<script, received, taken>>

\* The configuration came: the script is loaded once, and never again once it has failed.
PickerLoads ==
    /\ running["picker"] = "asked"
    /\ script \in {"none", "ready"}
    /\ script' = IF script = "ready" THEN "ready" ELSE "loading"
    /\ running' = [running EXCEPT !["picker"] = "content"]
    /\ Permitted
    /\ Environment /\ UNCHANGED <<panel, lastAction, shown, received, taken, beside>>

\* No file was picked, or the one picked is received: importFile is part of this operation.
Picked ==
    /\ running["picker"] = "content"
    /\ script' = "ready"
    /\ \/ /\ Finishes("picker")
          /\ panel' = [panel EXCEPT !.busy = FALSE]
          /\ UNCHANGED <<shown, lastAction>>
       \/ /\ running["import"] = "idle"
          /\ running' = [[running EXCEPT !["picker"] = "idle"] EXCEPT !["import"] = "asked"]
          /\ panel' = [panel EXCEPT !.busy = TRUE]
          /\ Clears /\ lastAction' = "import"
    /\ Environment /\ UNCHANGED <<received, taken, beside>>

PickerFails ==
    /\ running["picker"] \in {"asked", "content"}
    /\ script' \in IF script = "loading" THEN {"broken", "ready"} ELSE {script}
    /\ Fails("picker")
    /\ Environment /\ UNCHANGED <<lastAction, received, taken, beside>>

-----------------------------------------------------------------------------
(* What the user does *)

\* setConsent, while nothing is busy.
TicksConsent ==
    /\ wired /\ panel.connected /\ ~panel.busy
    /\ panel' = [panel EXCEPT !.consent = ~@]
    /\ Environment
    /\ UNCHANGED <<script, running, lastAction, shown, received, taken, beside>>

\* The buttons, which wait for busy.
Click ==
    /\ store \in Panels /\ ~panel.busy
    /\ \/ ~panel.connected /\ Connect
       \/ panel.connected /\ (DriveDisconnect \/ GenericDisconnect)
       \/ panel.connected /\ panel.files /\ Import
       \/ panel.connected /\ (Pick \/ ExportOwn)

\* Retry of a listing, which sets nothing busy.
ListAgain ==
    /\ running["list"] = "idle"
    /\ Clears
    /\ Listing("list")
    /\ Environment /\ UNCHANGED <<script, panel, lastAction, received, taken, beside>>

\* An export without consent only says so.
AsksConsent ==
    /\ ~panel.consent
    /\ Shows("export")
    /\ Environment
    /\ UNCHANGED <<script, panel, running, lastAction, received, taken, beside>>

\* retryLast of the Drive panel, where importFile does not wait for busy.
DriveRetry ==
    /\ store = "drive" /\ shown # "none"
    /\ \/ lastAction = "export" /\ (AsksConsent \/ ExportOwn)
       \/ lastAction = "connect" /\ Connect
       \/ lastAction = "disconnect" /\ DriveDisconnect
       \/ lastAction = "list" /\ ListAgain
       \/ lastAction = "import" /\ Import
       \/ lastAction = "picker" /\ Pick

\* retryLast of the others: Disconnect is started with its error cleared here.
GenericRetry ==
    /\ store \in {"dropbox", "onedrive"} /\ shown # "none"
    /\ \/ lastAction = "export" /\ (AsksConsent \/ ExportOwn)
       \/ lastAction = "connect" /\ Connect
       \/ /\ lastAction = "disconnect"
          /\ Begins("disconnect")
          /\ panel' = [panel EXCEPT !.busy = TRUE]
          /\ Clears
          /\ Environment /\ UNCHANGED <<script, lastAction, received, taken>>
       \/ lastAction = "list" /\ ListAgain
       \/ lastAction = "import" /\ Import

-----------------------------------------------------------------------------
(* The export button of a tool: no Retry, no list, no disconnect *)

ButtonStatus ==
    /\ store = "button"
    /\ running["status"] = "asked"
    /\ panel' \in {[panel EXCEPT !.connected = linked], [panel EXCEPT !.connected = FALSE]}
    /\ Finishes("status")
    /\ Environment /\ UNCHANGED <<script, lastAction, shown, received, taken, beside>>

ButtonClick ==
    /\ store = "button" /\ ~panel.busy
    /\ \/ /\ ~panel.connected
          /\ Begins("connect")
          /\ panel' = [panel EXCEPT !.busy = TRUE]
          /\ Clears
          /\ Environment /\ UNCHANGED <<script, lastAction, received, taken>>
       \/ panel.connected /\ ExportOwn

\* A 401 takes the button back to Connect.
ButtonAnswered ==
    /\ store = "button"
    /\ running["export"] = "asked"
    /\ Finishes("export")
    /\ \/ /\ Uploads(own)
          /\ taken' = {own}
          /\ panel' = [panel EXCEPT !.connected = TRUE, !.result = TRUE, !.busy = FALSE]
          /\ UNCHANGED shown
       \/ /\ panel' = [panel EXCEPT !.connected = @ /\ linked, !.busy = FALSE]
          /\ Shows("export") /\ UNCHANGED <<taken, remote>>
    /\ UNCHANGED <<store, wired, own, linked>>
    /\ UNCHANGED <<script, lastAction, received, beside>>

-----------------------------------------------------------------------------
(* The world outside *)

\* The file at the provider is replaced, by anyone, between the two reads of an import.
\* (Before the first it may be any file to begin with.)
RemoteReplaced ==
    /\ running["import"] = "content"
    /\ remote' \in Unfit
    /\ UNCHANGED <<store, wired, own, linked, script, panel, running, lastAction, shown,
                   received, taken, beside>>

\* The tool ran again: the button's file is another.
LocalReplaced ==
    /\ store = "button" /\ running["export"] = "idle"
    /\ own' \in LocalFiles
    /\ UNCHANGED <<store, wired, remote, linked, script, panel, running, lastAction, shown,
                   received, taken, beside>>

\* The user revokes the app at the provider, or Redis lets the record expire.
LinkLost ==
    /\ linked /\ linked' = FALSE
    /\ UNCHANGED <<store, wired, remote, own, script, panel, running, lastAction, shown,
                   received, taken, beside>>

PanelAnswers ==
    \/ StatusAnswered
    \/ \E op \in {"status", "list", "import", "export"} : ListAnswered(op)
    \/ ConnectAnswered \/ DisconnectAnswered
    \/ ImportReadsMeta \/ ImportAnswered \/ ImportFails
    \/ ExportAnswered
    \/ PickerLoads \/ Picked \/ PickerFails

CloudFilesNext ==
    \/ Click \/ TicksConsent \/ DriveRetry \/ GenericRetry
    \/ PanelAnswers
    \/ ButtonStatus \/ ButtonClick \/ ButtonAnswered
    \/ RemoteReplaced \/ LocalReplaced \/ LinkLost

\* Once two operations overlap, nothing is said of the panel any more: used as a constraint.
OneAtATime == ~beside

CloudFilesSpec == CloudFilesInit /\ [][CloudFilesNext]_cfVars

-----------------------------------------------------------------------------
(* Properties *)

\* What crosses, in either direction, is a PDF by its own bytes and within the cap, though
\* the file may be replaced between the metadata that was checked and the content.
CrossesAsPdf ==
    \A f \in received \union taken : f.magic /\ f.size \in 1 .. CLOUD_CAP

\* Retry beside an error never imports or exports once more what went through: the
\* operation it repeats is the one that failed, even when that one was the listing after
\* it.  (Unless the user got two operations to run beside each other, as the Retry left
\* on display while disconnecting allows.)
RetryRepeatsFailure ==
    ~beside /\ shown # "none" /\ lastAction \in {"import", "export"} => shown = lastAction
=============================================================================
