------------------------------ MODULE EmailOtp ------------------------------
(***************************************************************************)
(* One-time codes by e-mail: apps/api/src/auth/auth-email.service.ts.      *)
(*                                                                         *)
(* One address.  Every request for a code adds a row; a guess is checked   *)
(* against the newest row that is not consumed, read before the bcrypt     *)
(* comparison and written after it.  The rows are numbered in the order    *)
(* they were created.  The rate limits of the two endpoints are those of   *)
(* RedisCounter and are not repeated here.                                 *)
(***************************************************************************)
EXTENDS Integers, FiniteSets

CONSTANTS
    OtpRequests,     \* request slots of POST verify
    MaxCodes,        \* codes asked for (a bound of the model)
    MAX_ATTEMPTS

ASSUME OtpRequestsAssumption == IsFiniteSet(OtpRequests) /\ OtpRequests # {}
ASSUME OtpLimitsAssumption == MaxCodes \in Nat /\ MAX_ATTEMPTS \in Nat \ {0}

VARIABLES
    otpRow,      \* state of each EmailVerification row
    attempts,    \* its attempts column
    guess,       \* per slot: the row a guess is compared with, and whether it matches
    verified,    \* how often each code verified the address
    doubled      \* history: two matching guesses at one code were in flight together

otpVars == <<otpRow, attempts, guess, verified, doubled>>

Codes == 1 .. MaxCodes

NoGuess == [row |-> 0, match |-> FALSE]
Guess   == [row : 0 .. MaxCodes, match : BOOLEAN]

\* consumedAt is null: used codes are out, expired ones are not.
Open(c) == otpRow[c] \in {"live", "expired"}

\* findFirst({ consumedAt: null }, orderBy createdAt desc)
Newest(c) == Open(c) /\ \A d \in Codes : d > c => ~Open(d)

\* The guesses being compared with row c, and those of them that will match.
Comparing(c) == {r \in OtpRequests : guess[r].row = c}
Matching(c)  == {r \in Comparing(c) : guess[r].match}

OtpInit ==
    /\ otpRow = [c \in Codes |-> "none"]
    /\ attempts = [c \in Codes |-> 0]
    /\ guess = [r \in OtpRequests |-> NoGuess]
    /\ verified = [c \in Codes |-> 0]
    /\ doubled = [c \in Codes |-> FALSE]

-----------------------------------------------------------------------------
\* A new row each time: the rows before it stay open.
RequestOtp(c) ==
    /\ otpRow[c] = "none"
    /\ \A d \in Codes : d < c => otpRow[d] # "none"
    /\ otpRow' = [otpRow EXCEPT ![c] = "live"]
    /\ UNCHANGED <<attempts, guess, verified, doubled>>

\* Mutant of MayGuess: one attempt too many.
MayGuessOnceMore(c) == Newest(c) /\ otpRow[c] = "live" /\ attempts[c] <= MAX_ATTEMPTS

\* The early returns of verifyOtp: no open row, expired, too many attempts.
MayGuess(c) == Newest(c) /\ otpRow[c] = "live" /\ attempts[c] < MAX_ATTEMPTS

\* The row is read, and bcrypt.compare awaited.
StartVerify(r, c, match) ==
    /\ guess[r] = NoGuess
    /\ MayGuess(c)
    /\ guess' = [guess EXCEPT ![r] = [row |-> c, match |-> match]]
    /\ doubled' = [doubled EXCEPT ![c] = @ \/ (match /\ Matching(c) # {})]
    /\ UNCHANGED <<otpRow, attempts, verified>>

\* attempts: { increment: 1 }
WrongCode(r, c) ==
    /\ guess[r] = [row |-> c, match |-> FALSE]
    /\ attempts' = [attempts EXCEPT ![c] = @ + 1]
    /\ guess' = [guess EXCEPT ![r] = NoGuess]
    /\ UNCHANGED <<otpRow, verified, doubled>>

\* Mutant of RightCode: the row is not marked consumed.
RightCodeUnspent(r, c) ==
    /\ guess[r] = [row |-> c, match |-> TRUE]
    /\ verified' = [verified EXCEPT ![c] = @ + 1]
    /\ guess' = [guess EXCEPT ![r] = NoGuess]
    /\ UNCHANGED <<otpRow, attempts, doubled>>

\* The transaction: consumed and verified, whatever the row has become since.
RightCode(r, c) ==
    /\ guess[r] = [row |-> c, match |-> TRUE]
    /\ otpRow' = [otpRow EXCEPT ![c] = "used"]
    /\ verified' = [verified EXCEPT ![c] = @ + 1]
    /\ guess' = [guess EXCEPT ![r] = NoGuess]
    /\ UNCHANGED <<attempts, doubled>>

\* A database call rejects, or the process dies, before the row is written.
VerifyDies(r) ==
    /\ guess[r] # NoGuess
    /\ guess' = [guess EXCEPT ![r] = NoGuess]
    /\ UNCHANGED <<otpRow, attempts, verified, doubled>>

\* OTP_TTL_MS
OtpExpires(c) ==
    /\ otpRow[c] = "live"
    /\ otpRow' = [otpRow EXCEPT ![c] = "expired"]
    /\ UNCHANGED <<attempts, guess, verified, doubled>>

VerifyOtp(r, c) ==
    \/ \E match \in BOOLEAN : StartVerify(r, c, match)
    \/ WrongCode(r, c)
    \/ RightCode(r, c)

OtpNext ==
    \/ \E c \in Codes : RequestOtp(c) \/ OtpExpires(c)
    \/ \E r \in OtpRequests, c \in Codes : VerifyOtp(r, c)
    \/ \E r \in OtpRequests : VerifyDies(r)

OtpSpec == OtpInit /\ [][OtpNext]_otpVars

-----------------------------------------------------------------------------
OtpTypeOK ==
    /\ otpRow \in [Codes -> {"none", "live", "expired", "used"}]
    /\ attempts \in [Codes -> Nat]
    /\ guess \in [OtpRequests -> Guess]
    /\ verified \in [Codes -> Nat]
    /\ doubled \in [Codes -> BOOLEAN]

\* MAX_ATTEMPTS bounds the guesses a code can get, those in flight included, up
\* to the requests that read the row before the last count was written.
GuessesBounded ==
    \A c \in Codes :
        attempts[c] + Cardinality(Comparing(c))
            <= MAX_ATTEMPTS - 1 + Cardinality(OtpRequests)

\* A code verifies the address once, unless two right guesses overlapped: the
\* transaction does not look at consumedAt again.
CodeUsedOnce == \A c \in Codes : doubled[c] \/ verified[c] <= 1
=============================================================================
