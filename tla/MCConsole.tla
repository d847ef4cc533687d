----------------------------- MODULE MCConsole -----------------------------
(***************************************************************************)
(* The staff console, the cloud imports, the codes and links that are sent *)
(* by e-mail, and the crop margins, in one run: a behaviour is one of the  *)
(* component `part`, the others stand still.                               *)
(***************************************************************************)
EXTENDS AdminLockout, AdminAccount, CloudTokens, AdminTables, CloudFiles,
        AdminRecords, ConsoleSession, EmailOtp, ClaimLinks, PageGeometry, TLC

CONSTANTS r1, r2, s1, s2

VARIABLE part

\* Request slots are alike, and so are staff sessions.
Slots == Permutations({r1, r2}) \union Permutations({s1, s2})

ConsoleInit ==
    /\ part \in {"lock", "account", "tokens", "tables", "files",
                "errors", "status", "session", "otp", "link", "crop"}
    /\ LockInit /\ AdminInit /\ CloudInit /\ ListInit /\ CloudFilesInit
    /\ RecordsInit /\ SessionInit
    /\ OtpInit /\ LinkInit
    /\ GeomInit /\ (part # "crop" => turned = 0)
    /\ part # "tokens" => provider = GoogleDrive
    /\ part # "tables" => listing = Logs
    /\ part # "session" => signed /\ path = "login"
    /\ part # "files" => store = "drive" /\ ~wired /\ ~linked

LockRests    == UNCHANGED lockVars
AccountRests == UNCHANGED adminVars
TokensRest   == UNCHANGED cloudVars
TablesRest   == UNCHANGED listVars
FilesRest    == UNCHANGED cfVars
RecordsRest  == UNCHANGED recordVars
SessionRests == UNCHANGED sessionVars
OtpRests     == UNCHANGED otpVars
LinkRests    == UNCHANGED linkVars
CropRests    == UNCHANGED geomVars

StaffRests == LockRests /\ AccountRests /\ TablesRest /\ RecordsRest /\ SessionRests
CloudRests == TokensRest /\ FilesRest
UsersRest  == OtpRests /\ LinkRests /\ CropRests

\* What rests comes first: TLC then works it out once for a state and not for each step.
StaffNext ==
    \/ /\ part = "lock"
       /\ AccountRests /\ TablesRest /\ RecordsRest /\ SessionRests
       /\ LockNext
    \/ /\ part = "account"
       /\ LockRests /\ TablesRest /\ RecordsRest /\ SessionRests
       /\ AdminNext
    \/ /\ part = "tables"
       /\ LockRests /\ AccountRests /\ RecordsRest /\ SessionRests
       /\ ListNext
    \/ /\ LockRests /\ AccountRests /\ TablesRest /\ SessionRests
       /\ \/ part = "errors" /\ ErrorsNext
          \/ part = "status" /\ StatusNext
    \/ /\ part = "session"
       /\ LockRests /\ AccountRests /\ TablesRest /\ RecordsRest
       /\ SessionNext

CloudPartNext ==
    \/ part = "tokens" /\ FilesRest /\ CloudNext
    \/ part = "files" /\ TokensRest /\ CloudFilesNext

UsersNext ==
    \/ part = "otp" /\ LinkRests /\ CropRests /\ OtpNext
    \/ part = "link" /\ OtpRests /\ CropRests /\ LinkNext
    \/ part = "crop" /\ OtpRests /\ LinkRests /\ GeomNext

ConsoleNext ==
    /\ UNCHANGED part
    /\ \/ CloudRests /\ UsersRest /\ StaffNext
       \/ StaffRests /\ UsersRest /\ CloudPartNext
       \/ StaffRests /\ CloudRests /\ UsersNext

ConsoleSpec ==
    ConsoleInit
        /\ [][ConsoleNext]_<<part, lockVars, adminVars, cloudVars, listVars, cfVars,
                             recordVars, sessionVars, otpVars, linkVars, geomVars>>
=============================================================================
