---------------------------- MODULE ServerProofs ----------------------------
(***************************************************************************)
(* Proofs about the API's small protocols: the one-time codes of EmailOtp, *)
(* the mailed link of ClaimLinks, the errors and the changes of users of   *)
(* AdminRecords, the lock of AdminLockout, the sessions of AdminAccount    *)
(* and the cloud sessions of CloudTokens.                                  *)
(***************************************************************************)
EXTENDS EmailOtp, ClaimLinks, AdminRecords, AdminLockout, AdminAccount, CloudTokens,
        FiniteSetTheorems, TLAPS

-----------------------------------------------------------------------------
(* One-time codes *)

\* Until two right guesses overlap, one at most is in flight, and none once the code
\* has been used.
UsedOnce(c) ==
    \/ doubled[c]
    \/ /\ \A r, s \in Matching(c) : r = s
       /\ \/ verified[c] = 0
          \/ verified[c] = 1 /\ Matching(c) = {} /\ otpRow[c] = "used"

\* The inductive invariant of EmailOtp.
OtpIInv == OtpTypeOK /\ GuessesBounded /\ \A c \in Codes : UsedOnce(c)

LEMMA OtpInitiallySound == OtpInit => OtpIInv
<1> SUFFICES ASSUME OtpInit PROVE OtpIInv
  OBVIOUS
<1> USE OtpRequestsAssumption, OtpLimitsAssumption
<1>1. OtpTypeOK
  BY DEF OtpInit, OtpTypeOK, Guess, NoGuess, Codes
<1>2. \A c \in Codes : Comparing(c) = {}
  BY DEF OtpInit, Comparing, NoGuess, Codes
<1>3. GuessesBounded
  <2> SUFFICES ASSUME NEW c \in Codes
               PROVE  attempts[c] + Cardinality(Comparing(c))
                          <= MAX_ATTEMPTS - 1 + Cardinality(OtpRequests)
    BY DEF GuessesBounded
  <2>1. Cardinality(Comparing(c)) = 0
    BY <1>2, FS_EmptySet
  <2>2. Cardinality(OtpRequests) \in Nat
    BY FS_CardinalityType
  <2>3. attempts[c] = 0
    BY DEF OtpInit
  <2> QED
    BY <2>1, <2>2, <2>3
<1>4. ASSUME NEW c \in Codes PROVE UsedOnce(c)
  BY <1>2 DEF UsedOnce, Matching, OtpInit
<1> QED
  BY <1>1, <1>3, <1>4 DEF OtpIInv

\* Comparing a guess less, or one that was free more, changes the count by one.
LEMMA ComparingFinite ==
  ASSUME NEW c \in Codes
  PROVE  /\ IsFiniteSet(Comparing(c))
         /\ Cardinality(Comparing(c)) \in Nat
         /\ Cardinality(Comparing(c)) <= Cardinality(OtpRequests)
         /\ Cardinality(OtpRequests) \in Nat
  BY OtpRequestsAssumption, FS_Subset, FS_CardinalityType DEF Comparing

LEMMA OtpTypeKept == OtpTypeOK /\ [OtpNext]_otpVars => OtpTypeOK'
<1> SUFFICES ASSUME OtpTypeOK, [OtpNext]_otpVars PROVE OtpTypeOK'
  OBVIOUS
<1> USE OtpLimitsAssumption DEF OtpTypeOK, Guess, NoGuess, Codes
<1>1. ASSUME NEW c \in Codes, RequestOtp(c) \/ OtpExpires(c) PROVE OtpTypeOK'
  BY <1>1 DEF RequestOtp, OtpExpires
<1>2. ASSUME NEW r \in OtpRequests, NEW c \in Codes, NEW match \in BOOLEAN,
             StartVerify(r, c, match)
      PROVE  OtpTypeOK'
  BY <1>2 DEF StartVerify
<1>3. ASSUME NEW r \in OtpRequests, NEW c \in Codes, WrongCode(r, c) PROVE OtpTypeOK'
  BY <1>3 DEF WrongCode
<1>4. ASSUME NEW r \in OtpRequests, NEW c \in Codes, RightCode(r, c) PROVE OtpTypeOK'
  BY <1>4 DEF RightCode
<1>5. ASSUME NEW r \in OtpRequests, VerifyDies(r) PROVE OtpTypeOK'
  BY <1>5 DEF VerifyDies
<1>6. CASE UNCHANGED otpVars
  BY <1>6 DEF otpVars
<1> HIDE DEF OtpTypeOK, Guess, NoGuess, Codes
<1> QED
  BY <1>1, <1>2, <1>3, <1>4, <1>5, <1>6 DEF OtpNext, VerifyOtp

\* A step that puts no guess beside the others leaves no more to count; each code loses
\* as many in flight as it counts.
LEMMA GuessesKept == OtpTypeOK /\ GuessesBounded /\ [OtpNext]_otpVars => GuessesBounded'
<1> SUFFICES ASSUME OtpTypeOK, GuessesBounded, [OtpNext]_otpVars,
                    NEW c \in Codes
             PROVE  attempts'[c] + Cardinality(Comparing(c)')
                        <= MAX_ATTEMPTS - 1 + Cardinality(OtpRequests)
  BY DEF GuessesBounded
<1> DEFINE before == Comparing(c)
           after  == {r \in OtpRequests : guess'[r].row = c}
<1>0. Comparing(c)' = after
  BY DEF Comparing
<1>1. /\ IsFiniteSet(before) /\ Cardinality(before) \in Nat
      /\ Cardinality(OtpRequests) \in Nat
  BY ComparingFinite
<1>2. attempts[c] \in Nat /\ MAX_ATTEMPTS \in Nat
  BY OtpLimitsAssumption DEF OtpTypeOK
<1>3. attempts[c] + Cardinality(before) <= MAX_ATTEMPTS - 1 + Cardinality(OtpRequests)
  BY DEF GuessesBounded
<1>4. ASSUME after \subseteq before, attempts'[c] = attempts[c]
      PROVE  attempts'[c] + Cardinality(after) <= MAX_ATTEMPTS - 1 + Cardinality(OtpRequests)
  <2>1. Cardinality(after) <= Cardinality(before) /\ Cardinality(after) \in Nat
    BY <1>1, <1>4, FS_Subset, FS_CardinalityType
  <2> QED
    BY <1>1, <1>2, <1>3, <1>4, <2>1
<1>5. ASSUME NEW d \in Codes, RequestOtp(d) \/ OtpExpires(d)
      PROVE  after \subseteq before /\ attempts'[c] = attempts[c]
  BY <1>5 DEF RequestOtp, OtpExpires, Comparing
<1>6. ASSUME NEW r \in OtpRequests, NEW d \in Codes, NEW match \in BOOLEAN,
             StartVerify(r, d, match)
      PROVE  attempts'[c] + Cardinality(after) <= MAX_ATTEMPTS - 1 + Cardinality(OtpRequests)
  <2>1. attempts'[c] = attempts[c]
    BY <1>6 DEF StartVerify
  <2>2. CASE d # c
    <3>1. after \subseteq before
      BY <1>6, <2>2 DEF StartVerify, Comparing, OtpTypeOK, Guess
    <3> QED
      BY <1>4, <2>1, <3>1
  <2>3. CASE d = c
    <3>1. after = before \union {r}
      BY <1>6, <2>3 DEF StartVerify, Comparing, OtpTypeOK, Guess
    <3>2. r \notin before
      BY <1>6 DEF StartVerify, Comparing, NoGuess, Codes
    <3>3. Cardinality(after) = Cardinality(before) + 1
      BY <1>1, <3>1, <3>2, FS_AddElement
    <3>4. before \subseteq OtpRequests \ {r}
      BY <3>2 DEF Comparing
    <3>5. /\ IsFiniteSet(OtpRequests \ {r})
          /\ Cardinality(OtpRequests \ {r}) = Cardinality(OtpRequests) - 1
      BY OtpRequestsAssumption, FS_RemoveElement
    <3>6. Cardinality(before) <= Cardinality(OtpRequests) - 1
      BY <3>4, <3>5, FS_Subset
    <3>7. attempts[c] < MAX_ATTEMPTS
      BY <1>6, <2>3 DEF StartVerify, MayGuess
    <3> QED
      BY <1>1, <1>2, <2>1, <3>3, <3>6, <3>7
  <2> QED
    BY <2>2, <2>3
<1>7. ASSUME NEW r \in OtpRequests, NEW d \in Codes, WrongCode(r, d)
      PROVE  attempts'[c] + Cardinality(after) <= MAX_ATTEMPTS - 1 + Cardinality(OtpRequests)
  <2>1. CASE d # c
    <3>1. after \subseteq before /\ attempts'[c] = attempts[c]
      BY <1>7, <2>1 DEF WrongCode, Comparing, OtpTypeOK, Guess, NoGuess, Codes
    <3> QED
      BY <1>4, <3>1
  <2>2. CASE d = c
    <3>1. r \in before
      BY <1>7, <2>2 DEF WrongCode, Comparing
    <3>2. after = before \ {r}
      BY <1>7, <2>2 DEF WrongCode, Comparing, OtpTypeOK, Guess, NoGuess, Codes
    <3>3. Cardinality(after) = Cardinality(before) - 1
      BY <1>1, <3>1, <3>2, FS_RemoveElement
    <3>4. attempts'[c] = attempts[c] + 1
      BY <1>7, <2>2 DEF WrongCode, OtpTypeOK
    <3> QED
      BY <1>1, <1>2, <1>3, <3>3, <3>4
  <2> QED
    BY <2>1, <2>2
<1>8. ASSUME NEW r \in OtpRequests, NEW d \in Codes, RightCode(r, d)
      PROVE  after \subseteq before /\ attempts'[c] = attempts[c]
  BY <1>8 DEF RightCode, Comparing, OtpTypeOK, Guess, NoGuess, Codes
<1>9. ASSUME NEW r \in OtpRequests, VerifyDies(r)
      PROVE  after \subseteq before /\ attempts'[c] = attempts[c]
  BY <1>9 DEF VerifyDies, Comparing, OtpTypeOK, Guess, NoGuess, Codes
<1>10. CASE UNCHANGED otpVars
  <2>1. after \subseteq before /\ attempts'[c] = attempts[c]
    BY <1>10 DEF otpVars, Comparing
  <2> QED
    BY <1>4, <2>1, <1>0
<1>11. CASE OtpNext
  BY <1>0, <1>4, <1>5, <1>6, <1>7, <1>8, <1>9, <1>11 DEF OtpNext, VerifyOtp
<1> QED
  BY <1>10, <1>11

\* The rows a step leaves alone keep what is said of them.
LEMMA UsedOnceKept ==
  ASSUME NEW c \in Codes, OtpTypeOK, UsedOnce(c), [OtpNext]_otpVars
  PROVE  UsedOnce(c)'
<1> DEFINE after == {r \in OtpRequests : guess'[r].row = c /\ guess'[r].match}
<1>0. Matching(c)' = after
  BY DEF Matching, Comparing
<1>1. ASSUME after \subseteq Matching(c), verified'[c] = verified[c],
             doubled'[c] = doubled[c], otpRow[c] = "used" => otpRow'[c] = "used"
      PROVE  UsedOnce(c)'
  <2>1. CASE doubled[c]
    BY <1>1, <2>1 DEF UsedOnce
  <2>2. CASE ~doubled[c]
    BY <1>0, <1>1, <2>2 DEF UsedOnce
  <2> QED
    BY <2>1, <2>2
<1>2. ASSUME NEW d \in Codes, RequestOtp(d) \/ OtpExpires(d) PROVE UsedOnce(c)'
  <2>1. after \subseteq Matching(c) /\ verified'[c] = verified[c] /\ doubled'[c] = doubled[c]
    BY <1>2 DEF RequestOtp, OtpExpires, Matching, Comparing
  <2>2. otpRow[c] = "used" => otpRow'[c] = "used"
    BY <1>2 DEF RequestOtp, OtpExpires, OtpTypeOK
  <2> QED
    BY <1>1, <2>1, <2>2
<1>3. ASSUME NEW r \in OtpRequests, NEW d \in Codes, NEW match \in BOOLEAN,
             StartVerify(r, d, match)
      PROVE  UsedOnce(c)'
  <2>1. verified' = verified /\ otpRow' = otpRow
    BY <1>3 DEF StartVerify
  <2>2. CASE d # c \/ ~match
    <3>1. after \subseteq Matching(c)
      BY <1>3, <2>2 DEF StartVerify, Matching, Comparing, OtpTypeOK, Guess
    <3>2. doubled'[c] = doubled[c]
      <4>1. CASE d # c
        BY <1>3, <4>1 DEF StartVerify, OtpTypeOK
      <4>2. CASE d = c
        <5>1. doubled'[c] = (doubled[c] \/ (match /\ Matching(c) # {}))
          BY <1>3, <4>2 DEF StartVerify, OtpTypeOK
        <5>2. ~match
          BY <2>2, <4>2
        <5> QED
          BY <5>1, <5>2 DEF OtpTypeOK
      <4> QED
        BY <4>1, <4>2
    <3> QED
      BY <1>1, <2>1, <3>1, <3>2
  <2>3. CASE d = c /\ match
    <3>1. doubled'[c] = (doubled[c] \/ (match /\ Matching(c) # {}))
      BY <1>3, <2>3 DEF StartVerify, OtpTypeOK
    <3>2. CASE doubled'[c]
      BY <3>2 DEF UsedOnce
    <3>3. CASE ~doubled'[c]
      <4>1. ~doubled[c] /\ Matching(c) = {}
        BY <2>3, <3>1, <3>3
      <4>2. after \subseteq {r}
        BY <1>3, <4>1 DEF StartVerify, Matching, Comparing, OtpTypeOK, Guess
      <4>3. otpRow[c] = "live"
        BY <1>3, <2>3 DEF StartVerify, MayGuess
      <4>4. verified[c] = 0
        BY <4>1, <4>3 DEF UsedOnce
      <4>5. \A s, t \in after : s = t
        BY <4>2
      <4> QED
        BY <1>0, <2>1, <4>4, <4>5 DEF UsedOnce
    <3> QED
      BY <3>2, <3>3
  <2> QED
    BY <2>2, <2>3
<1>4. ASSUME NEW r \in OtpRequests, NEW d \in Codes, WrongCode(r, d) PROVE UsedOnce(c)'
  BY <1>1, <1>4 DEF WrongCode, Matching, Comparing, OtpTypeOK, Guess, NoGuess, Codes
<1>5. ASSUME NEW r \in OtpRequests, NEW d \in Codes, RightCode(r, d) PROVE UsedOnce(c)'
  <2>1. after \subseteq Matching(c) /\ doubled' = doubled
    BY <1>5 DEF RightCode, Matching, Comparing, OtpTypeOK, Guess, NoGuess, Codes
  <2>2. CASE d # c
    BY <1>1, <1>5, <2>1, <2>2 DEF RightCode, OtpTypeOK
  <2>3. CASE d = c
    <3>1. CASE doubled[c]
      BY <2>1, <3>1 DEF UsedOnce
    <3>2. CASE ~doubled[c]
      <4>1. r \in Matching(c) /\ r \notin after
        BY <1>5, <2>3 DEF RightCode, Matching, Comparing, OtpTypeOK, Guess, NoGuess, Codes
      <4>2. verified[c] = 0 /\ after = {}
        BY <2>1, <3>2, <4>1 DEF UsedOnce
      <4>3. verified'[c] = 1 /\ otpRow'[c] = "used"
        BY <1>5, <2>3, <4>2 DEF RightCode, OtpTypeOK
      <4> QED
        BY <1>0, <4>2, <4>3 DEF UsedOnce
    <3> QED
      BY <3>1, <3>2
  <2> QED
    BY <2>2, <2>3
<1>6. ASSUME NEW r \in OtpRequests, VerifyDies(r) PROVE UsedOnce(c)'
  BY <1>1, <1>6 DEF VerifyDies, Matching, Comparing, OtpTypeOK, Guess, NoGuess, Codes
<1>7. CASE UNCHANGED otpVars
  BY <1>1, <1>7 DEF otpVars, Matching, Comparing
<1> QED
  BY <1>2, <1>3, <1>4, <1>5, <1>6, <1>7 DEF OtpNext, VerifyOtp

LEMMA OtpStaysSound == OtpIInv /\ [OtpNext]_otpVars => OtpIInv'
<1> SUFFICES ASSUME OtpIInv, [OtpNext]_otpVars PROVE OtpIInv'
  OBVIOUS
<1>1. OtpTypeOK'
  BY OtpTypeKept DEF OtpIInv
<1>2. GuessesBounded'
  BY GuessesKept DEF OtpIInv
<1>3. \A c \in Codes : UsedOnce(c)'
  BY UsedOnceKept DEF OtpIInv
<1> QED
  BY <1>1, <1>2, <1>3 DEF OtpIInv, Codes

\* auth-email.service.ts: however many requests compare at once, a code gets fewer guesses
\* than MAX_ATTEMPTS and the requests together.
THEOREM OtpGuessesAreBounded == OtpSpec => []GuessesBounded
<1>1. OtpIInv => GuessesBounded
  BY DEF OtpIInv
<1> QED
  BY OtpInitiallySound, OtpStaysSound, <1>1, PTL DEF OtpSpec

\* ... and verifies the address once, unless two right guesses overlapped.
THEOREM OtpVerifiesOnce == OtpSpec => []CodeUsedOnce
<1>1. ASSUME OtpIInv, NEW c \in Codes PROVE doubled[c] \/ verified[c] <= 1
  BY <1>1 DEF OtpIInv, UsedOnce
<1>2. OtpIInv => CodeUsedOnce
  BY <1>1 DEF CodeUsedOnce
<1> QED
  BY OtpInitiallySound, OtpStaysSound, <1>2, PTL DEF OtpSpec

-----------------------------------------------------------------------------
(* The mailed link *)

\* GETs that have read the token and may yet count a download.
InHand == {g \in LinkGets : link[g] \in {"spend", "resolve", "count"}}

LinkTypeOK ==
    /\ claimKey \in {"none", "stored", "gone"}
    /\ link \in [LinkGets -> LinkSteps]
    /\ downloads \in Nat
    /\ crossed \in BOOLEAN

\* While the token can be read, no GET has got past reading it.
KeyBeforeFile ==
    claimKey # "gone" => downloads = 0 /\ \A g \in InHand : link[g] = "spend"

\* One GET has the token in hand, or none has any more and it counted.
OneInHand ==
    /\ \A g, h \in InHand : g = h
    /\ downloads = 0 \/ (downloads = 1 /\ InHand = {})

\* The inductive invariant of ClaimLinks.
LinkIInv == LinkTypeOK /\ KeyBeforeFile /\ (crossed \/ OneInHand)

LEMMA LinkInitiallySound == LinkInit => LinkIInv
<1> SUFFICES ASSUME LinkInit PROVE LinkIInv
  OBVIOUS
<1>1. InHand = {}
  BY DEF LinkInit, InHand
<1>2. LinkTypeOK /\ KeyBeforeFile
  BY <1>1 DEF LinkInit, LinkTypeOK, LinkSteps, KeyBeforeFile
<1>3. OneInHand
  BY <1>1 DEF LinkInit, OneInHand
<1> QED
  BY <1>2, <1>3 DEF LinkIInv

LEMMA LinkStaysSound == LinkIInv /\ [LinkNext]_linkVars => LinkIInv'
<1> SUFFICES ASSUME LinkIInv, [LinkNext]_linkVars PROVE LinkIInv'
  OBVIOUS
<1> USE DEF LinkIInv, LinkTypeOK, LinkSteps, KeyBeforeFile, InHand
<1>1. ASSUME NEW g \in LinkGets, ReadClaim(g) PROVE LinkIInv'
  <2>1. LinkTypeOK' /\ KeyBeforeFile'
    BY <1>1 DEF ReadClaim, LinkGoes
  <2>2. crossed' \/ OneInHand'
    <3>1. CASE crossed'
      BY <3>1
    <3>2. CASE ~crossed'
      <4>1. ~crossed /\ \A h \in LinkGets : link[h] # "spend"
        BY <1>1, <3>2 DEF ReadClaim
      <4>2. InHand = {} /\ downloads = 0
        BY <1>1, <4>1 DEF ReadClaim
      <4>3. InHand' \subseteq {g} /\ downloads' = 0
        BY <1>1, <4>2 DEF ReadClaim, LinkGoes
      <4> QED
        BY <4>3 DEF OneInHand
    <3> QED
      BY <3>1, <3>2
  <2> QED
    BY <2>1, <2>2
<1>2. ASSUME InHand' \subseteq InHand, downloads' = downloads, crossed' = crossed
      PROVE  crossed' \/ OneInHand'
  BY <1>2 DEF OneInHand
<1>3. ASSUME NEW g \in LinkGets, DeleteClaim(g) \/ ResolveFile(g) PROVE LinkIInv'
  <2>1. LinkTypeOK' /\ KeyBeforeFile'
    BY <1>3 DEF DeleteClaim, ResolveFile, LinkGoes
  <2>2. InHand' \subseteq InHand /\ downloads' = downloads /\ crossed' = crossed
    BY <1>3 DEF DeleteClaim, ResolveFile, LinkGoes
  <2> QED
    BY <1>2, <2>1, <2>2
<1>4. ASSUME NEW g \in LinkGets, MarkEmailVerified(g) \/ LinkFails(g) PROVE LinkIInv'
  <2>1. LinkTypeOK' /\ KeyBeforeFile'
    BY <1>4 DEF MarkEmailVerified, LinkFails, LinkGoes
  <2>2. InHand' \subseteq InHand /\ downloads' = downloads /\ crossed' = crossed
    BY <1>4 DEF MarkEmailVerified, LinkFails, LinkGoes
  <2> QED
    BY <1>2, <2>1, <2>2
<1>5. ASSUME NEW g \in LinkGets, CountDownload(g) PROVE LinkIInv'
  <2>1. LinkTypeOK' /\ KeyBeforeFile'
    BY <1>5 DEF CountDownload, LinkGoes
  <2>2. crossed' \/ OneInHand'
    <3>1. CASE crossed
      BY <1>5, <3>1 DEF CountDownload
    <3>2. CASE OneInHand
      <4>1. InHand = {g} /\ downloads = 0
        BY <1>5, <3>2 DEF CountDownload, OneInHand
      <4>2. InHand' = {} /\ downloads' = 1
        BY <1>5, <4>1 DEF CountDownload, LinkGoes
      <4> QED
        BY <4>2 DEF OneInHand
    <3> QED
      BY <3>1, <3>2
  <2> QED
    BY <2>1, <2>2
<1>6. ASSUME CreateClaimToken \/ QueueFileEmail \/ MailNext \/ ClaimLapses \/ FileAges
             \/ UNCHANGED linkVars
      PROVE  LinkIInv'
  <2>1. LinkTypeOK' /\ KeyBeforeFile'
    BY <1>6 DEF CreateClaimToken, QueueFileEmail, MailNext, ClaimLapses, FileAges, linkVars,
                getVars, mailVars, FetchMailJob, SendFileEmail, LogDelivery
  <2>2. InHand' \subseteq InHand /\ downloads' = downloads /\ crossed' = crossed
    BY <1>6 DEF CreateClaimToken, QueueFileEmail, MailNext, ClaimLapses, FileAges, linkVars,
                getVars, mailVars, FetchMailJob, SendFileEmail, LogDelivery
  <2> QED
    BY <1>2, <2>1, <2>2
<1> QED
  BY <1>1, <1>3, <1>4, <1>5, <1>6 DEF LinkNext, OpenLink

\* auth-email.service.ts consumeClaimToken: the mailed link downloads the file once,
\* unless two GETs had read the token before either deleted it.
THEOREM LinkDownloadsOnce == LinkSpec => []LinkSpentOnce
<1>1. LinkIInv => LinkSpentOnce
  BY DEF LinkIInv, OneInHand, LinkSpentOnce
<1> QED
  BY LinkInitiallySound, LinkStaysSound, <1>1, PTL DEF LinkSpec

-----------------------------------------------------------------------------
(* Errors and alerts *)

\* Captures whose alert is not out yet.
Alerting == {c \in Captures : capture[c].at = "reached"}

\* An alert is owed for each row that was reached.
CapturesIInv ==
    /\ event.count \in Nat /\ reached \in Nat /\ alerts \in Nat
    /\ event = [count |-> event.count, open |-> event.open]
    /\ event.count = reached
    /\ capture \in [Captures -> [at : {"idle", "found", "reached"}, found : Nat]]
    /\ IsFiniteSet(Alerting)
    /\ alerts + Cardinality(Alerting) <= reached

LEMMA CapturesInitiallySound == RecordsInit => CapturesIInv
<1> SUFFICES ASSUME RecordsInit PROVE CapturesIInv
  OBVIOUS
<1>1. Alerting = {}
  BY DEF RecordsInit, Alerting, NoCapture
<1>2. IsFiniteSet(Alerting) /\ Cardinality(Alerting) = 0
  BY <1>1, FS_EmptySet
<1> QED
  BY <1>2 DEF RecordsInit, CapturesIInv, NoCapture

\* A capture that joins the ones that owe an alert makes them one more.
LEMMA OneMoreOwing ==
    ASSUME NEW Owed, NEW OwedNext, NEW c,
           IsFiniteSet(Owed), OwedNext = Owed \union {c}, c \notin Owed
    PROVE  IsFiniteSet(OwedNext) /\ Cardinality(OwedNext) = Cardinality(Owed) + 1
<1>1. /\ IsFiniteSet(Owed \union {c})
      /\ Cardinality(Owed \union {c}) = Cardinality(Owed) + 1
  BY FS_AddElement, FS_CardinalityType
<1> QED
  BY <1>1

LEMMA CapturesStaySound == CapturesIInv /\ [RecordsNext]_recordVars => CapturesIInv'
<1> SUFFICES ASSUME CapturesIInv, [RecordsNext]_recordVars PROVE CapturesIInv'
  OBVIOUS
<1> DEFINE owed == {c \in Captures : capture'[c].at = "reached"}
           Sound == /\ event'.count \in Nat /\ reached' \in Nat /\ alerts' \in Nat
                    /\ event' = [count |-> event'.count, open |-> event'.open]
                    /\ event'.count = reached'
                    /\ capture' \in [Captures ->
                                        [at : {"idle", "found", "reached"}, found : Nat]]
                    /\ IsFiniteSet(owed)
                    /\ alerts' + Cardinality(owed) <= reached'
<1>0. Sound => CapturesIInv'
  BY DEF CapturesIInv, Alerting
<1> USE DEF CapturesIInv, NoCapture, CaptureGoes, CaptureEnds
<1>1. IsFiniteSet(Alerting) /\ Cardinality(Alerting) \in Nat
  BY FS_CardinalityType
<1>2. ASSUME owed \subseteq Alerting
      PROVE  /\ IsFiniteSet(owed) /\ Cardinality(owed) \in Nat
             /\ Cardinality(owed) <= Cardinality(Alerting)
  BY <1>1, <1>2, FS_Subset, FS_CardinalityType
<1>3. ASSUME NEW c \in Captures, FindEvent(c) \/ CaptureDies(c) PROVE Sound
  <2>1. owed \subseteq Alerting
    BY <1>3 DEF FindEvent, CaptureDies, Alerting
  <2> QED
    BY <1>1, <1>2, <1>3, <2>1 DEF FindEvent, CaptureDies
<1>4. ASSUME NEW c \in Captures, CountAgain(c) PROVE Sound
  <2>1. owed = Alerting \union {c} /\ c \notin Alerting
    BY <1>4 DEF CountAgain, Alerting
  <2>2. IsFiniteSet(owed) /\ Cardinality(owed) = Cardinality(Alerting) + 1
    BY <1>1, <2>1, OneMoreOwing
  <2>3. /\ event' = [count |-> event.count + 1, open |-> TRUE] /\ reached' = reached + 1
        /\ alerts' = alerts
        /\ capture' = [capture EXCEPT ![c] = [at |-> "reached", found |-> event.count]]
    BY <1>4 DEF CountAgain, OneMore
  <2>4. capture' \in [Captures -> [at : {"idle", "found", "reached"}, found : Nat]]
    BY <1>4, <2>3
  <2>5. /\ event'.count \in Nat /\ event' = [count |-> event'.count, open |-> event'.open]
        /\ event'.count = reached'
    BY <2>3
  <2> QED
    BY <1>1, <2>2, <2>3, <2>4, <2>5
<1>5. ASSUME NEW c \in Captures, CreateEvent(c) PROVE Sound
  <2>1. CASE event.count = 0
    <3>1. owed = Alerting \union {c} /\ c \notin Alerting
      BY <1>5, <2>1 DEF CreateEvent, Alerting
    <3>2. IsFiniteSet(owed) /\ Cardinality(owed) = Cardinality(Alerting) + 1
      BY <1>1, <3>1, OneMoreOwing
    <3>3. /\ event' = [count |-> 1, open |-> TRUE] /\ reached' = reached + 1
          /\ alerts' = alerts
          /\ capture' = [capture EXCEPT ![c] = [at |-> "reached", found |-> event.count]]
      BY <1>5, <2>1 DEF CreateEvent
    <3>4. capture' \in [Captures -> [at : {"idle", "found", "reached"}, found : Nat]]
      BY <1>5, <3>3
    <3>5. event'.count = 1 /\ event' = [count |-> event'.count, open |-> event'.open]
      BY <3>3
    <3>6. event'.count = reached'
      <4>1. reached = 0
        BY <2>1 DEF CapturesIInv
      <4>2. reached' = 1
        BY <3>3, <4>1
      <4> QED
        BY <3>5, <4>2
    <3> QED
      BY <1>1, <3>2, <3>3, <3>4, <3>5, <3>6
  <2>2. CASE event.count # 0
    <3>1. owed \subseteq Alerting
      BY <1>5, <2>2 DEF CreateEvent, Alerting
    <3> QED
      BY <1>1, <1>2, <1>5, <2>2, <3>1 DEF CreateEvent
  <2> QED
    BY <2>1, <2>2
<1>6. ASSUME NEW c \in Captures, Alert(c) PROVE Sound
  <2>1. owed = Alerting \ {c} /\ c \in Alerting
    BY <1>6 DEF Alert, Alerting
  <2>2. IsFiniteSet(owed) /\ Cardinality(owed) = Cardinality(Alerting) - 1
    BY <1>1, <2>1, FS_RemoveElement
  <2> QED
    BY <1>1, <1>6, <2>2 DEF Alert
<1>7. ASSUME ResolveEvent PROVE Sound
  <2>1. owed \subseteq Alerting
    BY <1>7 DEF ResolveEvent, Alerting
  <2>2. event' = [count |-> event.count, open |-> FALSE]
    BY <1>7 DEF ResolveEvent
  <2>3. event'.count = event.count /\ event' = [count |-> event'.count, open |-> event'.open]
    BY <2>2
  <2> QED
    BY <1>1, <1>2, <1>7, <2>1, <2>3 DEF ResolveEvent
<1>8. ASSUME StatusNext \/ UNCHANGED recordVars PROVE Sound
  <2>1. UNCHANGED errorVars
    BY <1>8 DEF StatusNext, recordVars, UserLands, UserFails, Toggle, ReadBefore,
                UpdateStatus, RecordChange, ChangeDies
  <2>2. owed \subseteq Alerting
    BY <2>1 DEF errorVars, Alerting
  <2> QED
    BY <1>1, <1>2, <2>1, <2>2 DEF errorVars
<1> QED
  BY <1>0, <1>3, <1>4, <1>5, <1>6, <1>7, <1>8 DEF RecordsNext, ErrorsNext

\* admin-errors.service.ts: each capture that reached the row is counted once and alerts
\* at most once, however many are in flight.
THEOREM CapturesAreCounted == RecordsSpec => []CapturesCounted
<1>1. CapturesIInv => CapturesCounted
  BY FS_CardinalityType DEF CapturesIInv, CapturesCounted
<1> QED
  BY CapturesInitiallySound, CapturesStaySound, <1>1, PTL DEF RecordsSpec

-----------------------------------------------------------------------------
(* The lock of a staff account *)

LockTypeOK ==
    /\ fails \in Nat /\ wrongs \in Int
    /\ locked \in BOOLEAN /\ met \in BOOLEAN
    /\ login \in [Logins -> [at : {"idle", "good", "bad"}, read : Nat]]

\* No two logins have met: the one in flight, if any, read the count as it is and no lock,
\* and every wrong password is in the count.
OneLogin ==
    /\ \A l, m \in Logins : login[l] # NoLogin /\ login[m] # NoLogin => l = m
    /\ \A l \in Logins : login[l] # NoLogin => login[l].read = fails /\ ~locked
    /\ wrongs <= fails /\ fails <= MaxLogins
    /\ locked => fails = MaxLogins
    /\ wrongs = MaxLogins => locked

\* The inductive invariant of AdminLockout.
LockIInv == LockTypeOK /\ (met \/ OneLogin)

LEMMA LockStaysSound == LockIInv /\ [LockNext]_lockVars => LockIInv'
<1> SUFFICES ASSUME LockIInv, [LockNext]_lockVars PROVE LockIInv'
  OBVIOUS
<1> USE MaxLoginsAssumption DEF LockIInv, LockTypeOK, NoLogin
<1>1. ASSUME NEW l \in Logins, NEW verdict \in {"good", "bad"}, ReadAccount(l, verdict)
      PROVE  LockIInv'
  <2>1. LockTypeOK'
    BY <1>1 DEF ReadAccount
  <2>2. ASSUME ~met' PROVE OneLogin'
    <3>1. /\ ~met /\ \A m \in Logins : login[m] = NoLogin
          /\ ~locked /\ login' = [login EXCEPT ![l] = [at |-> verdict, read |-> fails]]
      BY <1>1, <2>2 DEF ReadAccount
    <3>2. \A m \in Logins : login'[m] # NoLogin => m = l /\ login'[m].read = fails
      BY <3>1
    <3>3. OneLogin /\ fails' = fails /\ locked' = locked /\ wrongs' = wrongs
      BY <1>1, <3>1 DEF ReadAccount
    <3> QED
      BY <3>1, <3>2, <3>3 DEF OneLogin
  <2> QED
    BY <2>1, <2>2
<1>2. ASSUME NEW l \in Logins, login' = [login EXCEPT ![l] = NoLogin], OneLogin,
             login[l] # NoLogin
      PROVE  \A m \in Logins : login'[m] = NoLogin
  BY <1>2 DEF OneLogin
<1>3. ASSUME NEW l \in Logins, RejectLogin(l) PROVE LockIInv'
  <2>0. login[l] # NoLogin /\ met' = met /\ login' = [login EXCEPT ![l] = NoLogin]
    BY <1>3 DEF RejectLogin
  <2>1. LockTypeOK'
    <3>1. Attempts(l) \in Nat
      BY DEF Attempts
    <3>2. fails' \in Nat /\ wrongs' \in Int
      BY <1>3, <3>1 DEF RejectLogin
    <3>3. locked' \in BOOLEAN
      BY <1>3 DEF RejectLogin, Locks
    <3> QED
      BY <2>0, <3>2, <3>3
  <2>2. ASSUME OneLogin PROVE OneLogin'
    <3>1. \A m \in Logins : login'[m] = NoLogin
      BY <1>2, <2>0, <2>2
    <3>2. login[l].read = fails /\ ~locked
      BY <2>0, <2>2 DEF OneLogin
    <3>3. /\ fails' = IF fails + 1 < MaxLogins THEN fails + 1 ELSE MaxLogins
          /\ wrongs' = wrongs + 1
          /\ locked' <=> fails + 1 >= MaxLogins
      BY <1>3, <3>2 DEF RejectLogin, Attempts, Locks
    <3> QED
      BY <2>2, <3>1, <3>2, <3>3 DEF OneLogin
  <2> QED
    BY <2>0, <2>1, <2>2
<1>4. ASSUME NEW l \in Logins, AcceptLogin(l) PROVE LockIInv'
  <2>0. /\ login[l] # NoLogin /\ met' = met /\ login' = [login EXCEPT ![l] = NoLogin]
        /\ fails' = 0 /\ wrongs' = 0 /\ locked' = FALSE
    BY <1>4 DEF AcceptLogin
  <2>1. LockTypeOK'
    <3>1. locked' \in BOOLEAN
      BY <2>0
    <3> QED
      BY <2>0, <3>1
  <2>2. ASSUME OneLogin PROVE OneLogin'
    <3>1. \A m \in Logins : login'[m] = NoLogin
      BY <1>2, <2>0, <2>2
    <3> QED
      BY <2>0, <3>1 DEF OneLogin
  <2> QED
    BY <2>0, <2>1, <2>2
<1>5. ASSUME NEW l \in Logins, LoginDies(l) PROVE LockIInv'
  <2>0. /\ UNCHANGED <<fails, locked, wrongs, met>>
        /\ login' = [login EXCEPT ![l] = NoLogin] /\ login[l] # NoLogin
    BY <1>5 DEF LoginDies
  <2>1. LockTypeOK'
    BY <2>0
  <2>2. ASSUME OneLogin PROVE OneLogin'
    <3>1. \A m \in Logins : login'[m] = NoLogin
      BY <1>2, <2>0, <2>2
    <3> QED
      BY <2>0, <2>2, <3>1 DEF OneLogin
  <2> QED
    BY <2>0, <2>1, <2>2
<1>6. CASE LockRunsOut
  <2>1. LockTypeOK'
    <3>1. locked' \in BOOLEAN
      BY <1>6 DEF LockRunsOut
    <3> QED
      BY <1>6, <3>1 DEF LockRunsOut
  <2>2. ASSUME OneLogin PROVE OneLogin'
    <3>1. \A l \in Logins : login'[l] = NoLogin
      BY <1>6, <2>2 DEF LockRunsOut, OneLogin
    <3> QED
      BY <1>6, <2>2, <3>1 DEF LockRunsOut, OneLogin
  <2>3. met' = met
    BY <1>6 DEF LockRunsOut
  <2> QED
    BY <2>1, <2>2, <2>3
<1>7. CASE UNCHANGED lockVars
  BY <1>7 DEF lockVars, OneLogin
<1> HIDE DEF LockIInv
<1> QED
  BY <1>1, <1>3, <1>4, <1>5, <1>6, <1>7 DEF LockNext

\* admin-auth.service.ts login(): MaxLogins wrong passwords lock the account, for any
\* number of logins that do not overlap.
THEOREM LoginsLock == LockSpec => []LockoutHolds
<1>1. LockInit => LockIInv
  <2> SUFFICES ASSUME LockInit PROVE LockIInv
    OBVIOUS
  <2>1. LockTypeOK
    <3>1. locked \in BOOLEAN /\ met \in BOOLEAN
      BY DEF LockInit
    <3> QED
      BY <3>1 DEF LockInit, LockTypeOK, NoLogin
  <2>2. OneLogin
    BY MaxLoginsAssumption DEF LockInit, OneLogin
  <2> QED
    BY <2>1, <2>2 DEF LockIInv
<1>2. LockIInv => LockoutHolds
  BY MaxLoginsAssumption DEF LockIInv, LockTypeOK, OneLogin, LockoutHolds
<1> QED
  BY <1>1, LockStaysSound, <1>2, PTL DEF LockSpec

-----------------------------------------------------------------------------
(* The audit trail *)

\* The status a trail leads to.
Told(rows) == IF rows = <<>> THEN "ACTIVE" ELSE rows[Len(rows)].after

Said      == Statuses \union {"none"}
TabStates == [at : {"loading", "idle", "asked", "read", "updated"},
              shows : Said, to : Said, before : Said]

TrailTypeOK ==
    /\ trail \in Seq([before : Said, after : Said])
    /\ tab \in [Tabs -> TabStates]
    /\ userStatus \in Said /\ tangled \in BOOLEAN

\* Each row starts where the one before ended.
Linked ==
    \A i \in 1 .. Len(trail) :
        trail[i].before = IF i = 1 THEN "ACTIVE" ELSE trail[i - 1].after

\* One change at most is being made; it knows what the trail tells, and until it updates,
\* or when there is none, the status is that.
OneChange ==
    /\ \A s, t \in Changing : s = t
    /\ Changing = {} => userStatus = Told(trail)
    /\ \A t \in Changing :
          /\ tab[t].before = Told(trail)
          /\ userStatus = IF tab[t].at = "read" THEN Told(trail) ELSE tab[t].to

\* The inductive invariant of the status half of AdminRecords.
TrailIInv == TrailTypeOK /\ (tangled \/ (Linked /\ OneChange))

LEMMA TrailStaysSound == TrailIInv /\ [RecordsNext]_recordVars => TrailIInv'
<1> SUFFICES ASSUME TrailIInv, [RecordsNext]_recordVars PROVE TrailIInv'
  OBVIOUS
<1> USE DEF TrailIInv, TrailTypeOK, NewTab
<1>1. ASSUME Changing' = Changing, trail' = trail, userStatus' = userStatus,
             tangled' = tangled, \A t \in Changing : tab'[t] = tab[t], TrailTypeOK'
      PROVE  TrailIInv'
  BY <1>1 DEF Linked, OneChange, Told
<1>2. ASSUME NEW t \in Tabs, UserLands(t) \/ UserFails(t) \/ Toggle(t) PROVE TrailIInv'
  <2>1. /\ trail' = trail /\ userStatus' = userStatus /\ tangled' = tangled
        /\ t \notin Changing
    BY <1>2 DEF UserLands, UserFails, Toggle, Changing
  <2>2. \E page \in TabStates : tab' = [tab EXCEPT ![t] = page] /\ page.at \notin {"read", "updated"}
    <3>1. CASE UserLands(t)
      <4>1. [NewTab EXCEPT !.at = "idle", !.shows = userStatus] \in TabStates
        BY DEF TabStates, Said, Statuses
      <4> QED
        BY <3>1, <4>1 DEF UserLands
    <3>2. CASE UserFails(t)
      <4>1. NewTab \in TabStates
        BY DEF TabStates, Said, Statuses
      <4> QED
        BY <3>2, <4>1 DEF UserFails
    <3>3. CASE Toggle(t)
      <4>1. PICK to \in Statuses :
                tab' = [tab EXCEPT ![t] = [tab[t] EXCEPT !.at = "asked", !.to = to]]
        BY <3>3 DEF Toggle
      <4>2. tab[t] \in TabStates /\ to \in Said
        BY DEF Said
      <4>3. [tab[t] EXCEPT !.at = "asked", !.to = to] \in TabStates
        BY <4>2 DEF TabStates, Said, Statuses
      <4> QED
        BY <4>1, <4>2, <4>3 DEF TabStates, Said, Statuses
    <3> QED
      BY <1>2, <3>1, <3>2, <3>3
  <2>3. TrailTypeOK' /\ \A s \in Changing : tab'[s] = tab[s]
    BY <2>1, <2>2 DEF Changing
  <2>4. Changing' = Changing
    BY <2>1, <2>2 DEF Changing
  <2> QED
    BY <1>1, <2>1, <2>3, <2>4
<1>3. ASSUME NEW t \in Tabs, ReadBefore(t) PROVE TrailIInv'
  <2>1. TrailTypeOK'
    BY <1>3 DEF ReadBefore, TabStates
  <2>2. ASSUME ~tangled' PROVE (Linked /\ OneChange)'
    <3>1. Changing = {} /\ ~tangled /\ trail' = trail /\ userStatus' = userStatus
      BY <1>3, <2>2 DEF ReadBefore
    <3>2. Changing' = {t} /\ tab'[t].at = "read" /\ tab'[t].before = userStatus
      BY <1>3, <3>1 DEF ReadBefore, Changing
    <3> QED
      BY <3>1, <3>2 DEF Linked, OneChange, Told
  <2> QED
    BY <2>1, <2>2
<1>4. ASSUME NEW t \in Tabs, UpdateStatus(t) PROVE TrailIInv'
  <2>1. TrailTypeOK'
    BY <1>4 DEF UpdateStatus, TabGoes, TabStates
  <2>2. ASSUME ~tangled' PROVE (Linked /\ OneChange)'
    <3>1. ~tangled /\ trail' = trail /\ userStatus' = tab[t].to /\ t \in Changing
      BY <1>4, <2>2 DEF UpdateStatus, Changing
    <3>2. Changing = {t}
      BY <3>1 DEF OneChange
    <3>3. Changing' = {t} /\ tab'[t] = [tab[t] EXCEPT !.at = "updated"]
      BY <1>4, <3>2 DEF UpdateStatus, TabGoes, Changing
    <3>4. tab'[t].before = Told(trail) /\ tab'[t].to = tab[t].to /\ tab'[t].at = "updated"
      BY <3>1, <3>3 DEF OneChange
    <3>5. OneChange'
      BY <3>1, <3>3, <3>4 DEF OneChange
    <3> QED
      BY <3>1, <3>5 DEF Linked
  <2> QED
    BY <2>1, <2>2
<1>5. ASSUME NEW t \in Tabs, RecordChange(t) PROVE TrailIInv'
  <2> DEFINE row == [before |-> tab[t].before, after |-> tab[t].to]
             n   == Len(trail)
  <2>0. /\ tab[t].at = "updated" /\ trail' = Append(trail, row) /\ t \in Changing
        /\ userStatus' = userStatus /\ tangled' = tangled
        /\ tab' = [tab EXCEPT ![t].at = "loading"]
    BY <1>5 DEF RecordChange, Before, TabGoes, Changing
  <2>1. TrailTypeOK'
    BY <2>0 DEF TabStates, Said, Statuses
  <2>2. ASSUME ~tangled' PROVE (Linked /\ OneChange)'
    <3>1. Changing = {t} /\ userStatus = tab[t].to /\ tab[t].before = Told(trail)
      BY <2>0, <2>2 DEF OneChange
    <3>2. Changing' = {}
      BY <2>0, <3>1 DEF Changing
    <3>3. /\ n \in Nat /\ Len(trail') = n + 1 /\ trail'[n + 1] = row
          /\ \A i \in 1 .. n : trail'[i] = trail[i]
      BY <2>0
    <3>4. Told(trail') = userStatus'
      BY <2>0, <3>1, <3>3 DEF Told
    <3>5. Linked'
      <4> SUFFICES ASSUME NEW i \in 1 .. n + 1
                   PROVE  trail'[i].before = IF i = 1 THEN "ACTIVE" ELSE trail'[i - 1].after
        BY <3>3 DEF Linked
      <4>1. CASE i <= n
        BY <2>0, <2>2, <3>3, <4>1 DEF Linked
      <4>2. CASE i = n + 1
        BY <3>1, <3>3, <4>2 DEF Told
      <4> QED
        BY <3>3, <4>1, <4>2
    <3> QED
      BY <3>2, <3>4, <3>5 DEF OneChange
  <2> QED
    BY <2>1, <2>2
<1>6. ASSUME NEW t \in Tabs, ChangeDies(t) PROVE TrailIInv'
  <2>1. TrailTypeOK'
    <3>1. [NewTab EXCEPT !.at = "idle", !.shows = tab[t].shows] \in TabStates
      BY DEF TabStates, Said, Statuses
    <3>2. tangled' \in BOOLEAN
      BY <1>6 DEF ChangeDies
    <3> QED
      BY <1>6, <3>1, <3>2 DEF ChangeDies
  <2>2. ASSUME ~tangled' PROVE (Linked /\ OneChange)'
    <3>1. ~tangled /\ trail' = trail /\ userStatus' = userStatus /\ tab[t].at # "updated"
      BY <1>6, <2>2 DEF ChangeDies
    <3>2. Changing' = Changing \ {t} /\ \A s \in Changing' : tab'[s] = tab[s]
      BY <1>6 DEF ChangeDies, Changing
    <3>3. Changing' = {} => userStatus = Told(trail)
      BY <3>1, <3>2 DEF OneChange, Changing
    <3> QED
      BY <3>1, <3>2, <3>3 DEF Linked, OneChange
  <2> QED
    BY <2>1, <2>2
<1>7. CASE ErrorsNext \/ UNCHANGED recordVars
  <2>1. UNCHANGED statusVars
    BY <1>7 DEF ErrorsNext, FindEvent, CountAgain, CreateEvent, Alert, CaptureDies,
                ResolveEvent, recordVars
  <2> QED
    BY <1>1, <2>1 DEF statusVars, Changing
<1> HIDE DEF TrailIInv
<1> QED
  BY <1>2, <1>3, <1>4, <1>5, <1>6, <1>7 DEF RecordsNext, StatusNext

\* admin-users.service.ts: each row of a user's audit trail starts where the one before
\* ended and the last one tells the status, for any number of pages and changes.
THEOREM TrailTellsStory == RecordsSpec => []AuditTellsStory
<1>1. RecordsInit => TrailIInv
  <2> SUFFICES ASSUME RecordsInit PROVE TrailIInv
    OBVIOUS
  <2>1. Changing = {} /\ trail = <<>> /\ userStatus = "ACTIVE"
    BY DEF RecordsInit, Changing, NewTab
  <2>2. TrailTypeOK
    <3>1. NewTab \in TabStates
      BY DEF NewTab, TabStates, Said
    <3>2. tab \in [Tabs -> TabStates] /\ userStatus \in Said
      BY <3>1 DEF RecordsInit, Said, Statuses
    <3>3. trail \in Seq([before : Said, after : Said])
      BY <2>1
    <3>4. tangled \in BOOLEAN
      BY DEF RecordsInit
    <3> QED
      BY <3>2, <3>3, <3>4 DEF TrailTypeOK
  <2>3. Linked /\ OneChange
    BY <2>1 DEF Linked, OneChange, Told
  <2> QED
    BY <2>2, <2>3 DEF TrailIInv
<1>2. TrailIInv => AuditTellsStory
  BY DEF TrailIInv, TrailTypeOK, Linked, OneChange, Told, AuditTellsStory
<1> QED
  BY <1>1, TrailStaysSound, <1>2, PTL DEF RecordsSpec

-----------------------------------------------------------------------------
(* Sessions and passwords *)

ConfirmSteps == {"read", "bad", "good", "update", "revoke"}

AdminRequestOK ==
    [at : {"idle", "open"} \union ConfirmSteps, read : Nat,
     by : AdminSessions \union {NoAdminSession}, purpose : Purposes]

AdminTypeOK ==
    /\ password \in Nat
    /\ adminSession \in [AdminSessions ->
          [state : {"none", "live", "revoked"}, password : Nat, spared : BOOLEAN]]
    /\ adminReq \in [AdminRequests -> AdminRequestOK]

\* A password was changed by p, and the other sessions are not revoked yet.
MustRevoke(p) == adminReq[p].at = "revoke" /\ adminReq[p].purpose = "password"

\* A session opened with an older password, and not spared, is about to be revoked by a
\* change of the password: a change of the address would spare the session that makes it.
OldOnesDue ==
    \A s \in AdminSessions :
        LiveAdmin(s) /\ adminSession[s].password < password /\ ~adminSession[s].spared
            => \E p \in AdminRequests : MustRevoke(p)

\* Who confirms has a session that was opened, which is spared once the password changed.
OwnSessions ==
    \A p \in AdminRequests :
        adminReq[p].at \in ConfirmSteps =>
            /\ adminReq[p].by \in AdminSessions
            /\ adminSession[adminReq[p].by].state # "none"
            /\ MustRevoke(p) /\ LiveAdmin(adminReq[p].by)
                  => adminSession[adminReq[p].by].spared

\* The inductive invariant of AdminAccount.
AdminIInv == AdminTypeOK /\ OldOnesDue /\ OwnSessions

LEMMA AdminInitiallySound == AdminInit => AdminIInv
<1> SUFFICES ASSUME AdminInit PROVE AdminIInv
  OBVIOUS
<1>1. NoAdminRequest \in AdminRequestOK /\ NoAdminRequest.at \notin ConfirmSteps
  BY DEF NoAdminRequest, AdminRequestOK, ConfirmSteps, Purposes
<1>2. NoSessionYet \in [state : {"none", "live", "revoked"}, password : Nat, spared : BOOLEAN]
  BY DEF NoSessionYet, Session
<1>3. AdminTypeOK
  BY <1>1, <1>2 DEF AdminInit, AdminTypeOK
<1>4. OldOnesDue
  BY DEF AdminInit, OldOnesDue, LiveAdmin, NoSessionYet, Session
<1>5. OwnSessions
  BY <1>1 DEF AdminInit, OwnSessions
<1> QED
  BY <1>3, <1>4, <1>5 DEF AdminIInv

\* A request that goes on to another step, none of them the revocation.
LEMMA RequestGoesOn ==
  ASSUME AdminIInv, UNCHANGED <<password, adminSession>>,
         NEW p \in AdminRequests, NEW r \in AdminRequestOK,
         adminReq' = [adminReq EXCEPT ![p] = r],
         adminReq[p].at # "revoke", ~(r.at = "revoke" /\ r.purpose = "password"),
         r.at \in ConfirmSteps =>
             r.by \in AdminSessions /\ adminSession[r.by].state # "none"
  PROVE  AdminIInv'
<1> USE DEF AdminIInv
<1>1. AdminTypeOK'
  BY DEF AdminTypeOK
<1>2. \A q \in AdminRequests : MustRevoke(q)' <=> MustRevoke(q)
  BY DEF MustRevoke, AdminTypeOK
<1>3. OldOnesDue'
  BY <1>2 DEF OldOnesDue, LiveAdmin
<1>4. OwnSessions'
  <2> SUFFICES ASSUME NEW q \in AdminRequests, adminReq'[q].at \in ConfirmSteps
               PROVE  /\ adminReq'[q].by \in AdminSessions
                      /\ adminSession[adminReq'[q].by].state # "none"
                      /\ MustRevoke(q)' /\ adminSession[adminReq'[q].by].state = "live"
                            => adminSession[adminReq'[q].by].spared
    BY DEF OwnSessions, LiveAdmin
  <2>1. CASE q = p
    <3>1. adminReq'[q] = r /\ ~MustRevoke(q)'
      BY <2>1 DEF MustRevoke, AdminTypeOK
    <3> QED
      BY <3>1
  <2>2. CASE q # p
    <3>1. adminReq'[q] = adminReq[q]
      BY <2>2 DEF AdminTypeOK
    <3> QED
      BY <1>2, <3>1 DEF OwnSessions, LiveAdmin
  <2> QED
    BY <2>1, <2>2
<1> QED
  BY <1>1, <1>3, <1>4

\* Sessions that end, or that are all spared, leave nobody in debt.
LEMMA FewerSessions ==
  ASSUME AdminIInv, password' = password,
         adminSession' \in [AdminSessions ->
             [state : {"none", "live", "revoked"}, password : Nat, spared : BOOLEAN]],
         adminReq' \in [AdminRequests -> AdminRequestOK],
         \A s \in AdminSessions :
             \/ adminSession'[s] = adminSession[s]
             \/ adminSession'[s].state = "revoked"
             \/ adminSession'[s].state = "live" /\ adminSession'[s].spared,
         \A p \in AdminRequests :
             adminReq'[p] = adminReq[p] \/ adminReq'[p].at \notin ConfirmSteps,
         \/ \A s \in AdminSessions : adminSession'[s].state = "live" => adminSession'[s].spared
         \/ \A p \in AdminRequests : MustRevoke(p) => MustRevoke(p)'
  PROVE  AdminIInv'
<1> USE DEF AdminIInv
<1>1. AdminTypeOK'
  BY DEF AdminTypeOK
<1>2. OldOnesDue'
  BY DEF OldOnesDue, LiveAdmin, AdminTypeOK
<1>3. OwnSessions'
  <2> SUFFICES ASSUME NEW q \in AdminRequests, adminReq'[q].at \in ConfirmSteps
               PROVE  /\ adminReq'[q].by \in AdminSessions
                      /\ adminSession'[adminReq'[q].by].state # "none"
                      /\ MustRevoke(q)' /\ adminSession'[adminReq'[q].by].state = "live"
                            => adminSession'[adminReq'[q].by].spared
    BY DEF OwnSessions, LiveAdmin
  <2>1. adminReq'[q] = adminReq[q] /\ (MustRevoke(q)' <=> MustRevoke(q))
    BY DEF MustRevoke
  <2>2. adminReq[q].by \in AdminSessions
    BY <2>1 DEF OwnSessions
  <2> DEFINE s == adminReq[q].by
  <2>3. /\ adminSession[s].state # "none"
        /\ MustRevoke(q) /\ adminSession[s].state = "live" => adminSession[s].spared
    BY <2>1 DEF OwnSessions, LiveAdmin
  <2>4. CASE adminSession'[s] = adminSession[s]
    BY <2>1, <2>2, <2>3, <2>4
  <2>5. CASE adminSession'[s].state = "revoked"
    BY <2>1, <2>2, <2>5
  <2>6. CASE adminSession'[s].state = "live" /\ adminSession'[s].spared
    BY <2>1, <2>2, <2>6
  <2> QED
    BY <2>2, <2>4, <2>5, <2>6
<1> QED
  BY <1>1, <1>2, <1>3

LEMMA AdminStaysSound == AdminIInv /\ [AdminNext]_adminVars => AdminIInv'
<1> SUFFICES ASSUME AdminIInv, [AdminNext]_adminVars PROVE AdminIInv'
  OBVIOUS
<1> DEFINE Record == [state : {"none", "live", "revoked"}, password : Nat, spared : BOOLEAN]
<1>0. /\ AdminTypeOK /\ OwnSessions /\ OldOnesDue
      /\ NoAdminRequest \in AdminRequestOK /\ NoAdminRequest.at = "idle"
      /\ Revoked \in Record /\ Revoked.state = "revoked"
  BY DEF AdminIInv, NoAdminRequest, AdminRequestOK, ConfirmSteps, Purposes, Revoked, Session
<1>1. ASSUME NEW p \in AdminRequests, CheckPassword(p) PROVE AdminIInv'
  <2> DEFINE r == Checking("open", password)
  <2>1. r \in AdminRequestOK /\ r.at = "open"
    BY <1>0 DEF Checking, NoAdminRequest, AdminRequestOK, AdminTypeOK
  <2>2. /\ adminReq' = [adminReq EXCEPT ![p] = r] /\ adminReq[p].at # "revoke"
        /\ UNCHANGED <<password, adminSession>>
    BY <1>0, <1>1 DEF CheckPassword, StartRequest
  <2> QED
    BY <2>1, <2>2, RequestGoesOn DEF ConfirmSteps
<1>2. ASSUME NEW p \in AdminRequests, NEW s \in AdminSessions, NEW u \in Purposes,
             StartConfirm(p, s, u)
      PROVE  AdminIInv'
  <2> DEFINE r == Confirming("read", s, u)
  <2>1. r \in AdminRequestOK /\ r.at = "read" /\ r.by = s
    BY DEF Confirming, NoAdminRequest, AdminRequestOK, ConfirmSteps
  <2>2. /\ adminReq' = [adminReq EXCEPT ![p] = r] /\ adminReq[p].at # "revoke"
        /\ UNCHANGED <<password, adminSession>> /\ adminSession[s].state # "none"
    BY <1>0, <1>2 DEF StartConfirm, StartRequest, LiveAdmin
  <2> QED
    BY <2>1, <2>2, RequestGoesOn
\* A confirmation takes its next step, short of the change of the password.
<1>3. ASSUME NEW p \in AdminRequests, NEW step \in ConfirmSteps, NextPiece(p, step),
             adminReq[p].at \in ConfirmSteps \ {"revoke"},
             step = "revoke" => adminReq[p].purpose = "email",
             UNCHANGED <<password, adminSession>>
      PROVE  AdminIInv'
  <2> DEFINE r == [adminReq[p] EXCEPT !.at = step]
  <2>1. /\ r \in AdminRequestOK /\ r.at = step /\ r.by = adminReq[p].by
        /\ r.purpose = adminReq[p].purpose
    BY <1>0 DEF AdminRequestOK, AdminTypeOK
  <2>2. adminReq' = [adminReq EXCEPT ![p] = r]
    BY <1>3 DEF NextPiece
  <2>3. r.by \in AdminSessions /\ adminSession[r.by].state # "none"
    BY <1>0, <1>3, <2>1 DEF OwnSessions
  <2> QED
    BY <1>3, <2>1, <2>2, <2>3, RequestGoesOn
<1>4. ASSUME NEW p \in AdminRequests, NEW u \in Purposes, NEW verdict \in {"bad", "good"},
             ReadChallenge(p, u, verdict) \/ ConsumeCode(p, u)
      PROVE  AdminIInv'
  BY <1>3, <1>4 DEF ReadChallenge, ConsumeCode, ConfirmSteps
<1>5. ASSUME NEW p \in AdminRequests, ChangeEmail(p) PROVE AdminIInv'
  BY <1>3, <1>5 DEF ChangeEmail, ConfirmSteps
<1>6. ASSUME NEW p \in AdminRequests, NEW u \in Purposes, RejectCode(p, u) PROVE AdminIInv'
  <2>1. /\ adminReq' = [adminReq EXCEPT ![p] = NoAdminRequest] /\ adminReq[p].at = "bad"
        /\ UNCHANGED <<password, adminSession>>
    BY <1>6 DEF RejectCode, EndRequest
  <2> QED
    BY <1>0, <2>1, RequestGoesOn DEF ConfirmSteps
<1>7. ASSUME NEW p \in AdminRequests, NEW s \in AdminSessions, OpenSession(p, s)
      PROVE  AdminIInv'
  <2> DEFINE new == Session("live", adminReq[p].read, adminReq[p].read # password)
  <2>0. /\ adminReq[p].at = "open" /\ adminSession[s].state = "none"
        /\ adminReq' = [adminReq EXCEPT ![p] = NoAdminRequest] /\ password' = password
        /\ adminSession' = [adminSession EXCEPT ![s] = new]
    BY <1>7 DEF OpenSession, EndRequest, NoSessionYet, Session
  <2>1. adminReq[p].read \in Nat /\ password \in Nat
    BY <1>0 DEF AdminTypeOK, AdminRequestOK
  <2>2. /\ new.password = adminReq[p].read /\ new.state = "live"
        /\ new.spared <=> adminReq[p].read # password
    BY DEF Session
  <2>3. new \in Record
    BY <2>1 DEF Session
  <2>4. AdminTypeOK'
    BY <1>0, <2>0, <2>3 DEF AdminTypeOK
  <2>5. \A q \in AdminRequests : MustRevoke(q)' <=> MustRevoke(q)
    BY <1>0, <2>0 DEF MustRevoke, AdminTypeOK
  <2>6. OldOnesDue'
    <3> SUFFICES ASSUME NEW t \in AdminSessions, adminSession'[t].state = "live",
                        adminSession'[t].password < password, ~adminSession'[t].spared
                 PROVE  \E q \in AdminRequests : MustRevoke(q)
      BY <2>0, <2>5 DEF OldOnesDue, LiveAdmin
    <3>1. t # s
      <4> SUFFICES ASSUME t = s PROVE FALSE
        OBVIOUS
      <4>1. adminSession'[t] = new
        BY <1>0, <2>0 DEF AdminTypeOK
      <4>2. adminReq[p].read < password /\ ~new.spared
        BY <2>2, <4>1
      <4>3. adminReq[p].read = password
        BY <2>2, <4>2
      <4> QED
        BY <2>1, <4>2, <4>3
    <3>2. adminSession'[t] = adminSession[t]
      BY <1>0, <2>0, <3>1 DEF AdminTypeOK
    <3> QED
      BY <1>0, <3>2 DEF OldOnesDue, LiveAdmin
  <2>7. OwnSessions'
    <3> SUFFICES ASSUME NEW q \in AdminRequests, adminReq'[q].at \in ConfirmSteps
                 PROVE  /\ adminReq'[q].by \in AdminSessions
                        /\ adminSession'[adminReq'[q].by].state # "none"
                        /\ MustRevoke(q)' /\ adminSession'[adminReq'[q].by].state = "live"
                              => adminSession'[adminReq'[q].by].spared
      BY DEF OwnSessions, LiveAdmin
    <3>1. adminReq'[q] = adminReq[q]
      BY <1>0, <2>0 DEF AdminTypeOK, ConfirmSteps
    <3>2. adminReq[q].by \in AdminSessions /\ adminReq[q].by # s
      BY <1>0, <2>0, <3>1 DEF OwnSessions
    <3>3. adminSession'[adminReq[q].by] = adminSession[adminReq[q].by]
      BY <1>0, <2>0, <3>2 DEF AdminTypeOK
    <3> QED
      BY <1>0, <2>5, <3>1, <3>2, <3>3 DEF OwnSessions, LiveAdmin
  <2> QED
    BY <2>4, <2>6, <2>7 DEF AdminIInv
<1>8. ASSUME NEW s \in AdminSessions, EndSession(s) PROVE AdminIInv'
  <2>1. /\ adminSession' = [adminSession EXCEPT ![s] = Revoked]
        /\ password' = password /\ adminReq' = adminReq
    BY <1>8 DEF EndSession
  <2>2. adminSession' \in [AdminSessions -> Record]
    BY <1>0, <2>1 DEF AdminTypeOK
  <2>3. \A t \in AdminSessions :
            adminSession'[t] = adminSession[t] \/ adminSession'[t].state = "revoked"
    BY <1>0, <2>1 DEF AdminTypeOK
  <2>4. \A p \in AdminRequests : MustRevoke(p) => MustRevoke(p)'
    BY <2>1 DEF MustRevoke
  <2> QED
    BY <1>0, <2>1, <2>2, <2>3, <2>4, FewerSessions DEF AdminTypeOK
<1>9. ASSUME NEW p \in AdminRequests, ChangePassword(p) PROVE AdminIInv'
  <2> DEFINE s   == adminReq[p].by
             own == Session("live", adminSession[s].password, TRUE)
  <2>0. /\ adminReq[p].at = "update" /\ adminReq[p].purpose = "password"
        /\ password' = password + 1
        /\ adminReq' = [adminReq EXCEPT ![p] = [adminReq[p] EXCEPT !.at = "revoke"]]
        /\ s \in AdminSessions /\ adminSession[s].state # "none"
    BY <1>0, <1>9 DEF ChangePassword, NextPiece, OwnSessions, ConfirmSteps
  <2>1. own \in Record /\ own.state = "live" /\ own.spared
    BY <1>0, <2>0 DEF Session, AdminTypeOK
  <2>2. /\ adminSession' \in [AdminSessions -> Record]
        /\ \A t \in AdminSessions : t # s => adminSession'[t] = adminSession[t]
        /\ adminSession'[s] = IF LiveAdmin(s) THEN own ELSE adminSession[s]
    <3>1. CASE LiveAdmin(s)
      BY <1>0, <1>9, <2>0, <2>1, <3>1 DEF ChangePassword, AdminTypeOK
    <3>2. CASE ~LiveAdmin(s)
      BY <1>0, <1>9, <2>0, <3>2 DEF ChangePassword, AdminTypeOK
    <3> QED
      BY <3>1, <3>2
  <2>3. /\ adminReq' \in [AdminRequests -> AdminRequestOK]
        /\ \A q \in AdminRequests : q # p => adminReq'[q] = adminReq[q]
        /\ adminReq'[p].at = "revoke" /\ adminReq'[p].by = s
        /\ adminReq'[p].purpose = "password"
    BY <1>0, <2>0 DEF AdminTypeOK, AdminRequestOK, ConfirmSteps
  <2>4. AdminTypeOK'
    BY <1>0, <2>0, <2>2, <2>3 DEF AdminTypeOK
  <2>5. OldOnesDue'
    BY <2>3 DEF OldOnesDue, MustRevoke
  <2>6. OwnSessions'
    <3> SUFFICES ASSUME NEW q \in AdminRequests, adminReq'[q].at \in ConfirmSteps
                 PROVE  /\ adminReq'[q].by \in AdminSessions
                        /\ adminSession'[adminReq'[q].by].state # "none"
                        /\ MustRevoke(q)' /\ adminSession'[adminReq'[q].by].state = "live"
                              => adminSession'[adminReq'[q].by].spared
      BY DEF OwnSessions, LiveAdmin
    <3>1. CASE q = p
      <4>1. adminReq'[q].by = s /\ s \in AdminSessions
        BY <2>0, <2>3, <3>1
      <4>2. CASE LiveAdmin(s)
        <5>1. adminSession'[s] = own
          BY <2>2, <4>2
        <5>2. own.state = "live" /\ own.spared
          BY <2>1
        <5> QED
          BY <4>1, <5>1, <5>2
      <4>3. CASE ~LiveAdmin(s)
        <5>1. adminSession'[s].state # "live" /\ adminSession'[s].state # "none"
          BY <2>0, <2>2, <4>3 DEF LiveAdmin
        <5> QED
          BY <4>1, <5>1
      <4> QED
        BY <4>2, <4>3
    <3>2. CASE q # p
      <4>1. /\ adminReq'[q] = adminReq[q] /\ adminReq[q].by \in AdminSessions
            /\ MustRevoke(q)' <=> MustRevoke(q)
        BY <1>0, <2>3, <3>2 DEF OwnSessions, MustRevoke
      <4> DEFINE t == adminReq[q].by
      <4>2. /\ adminSession[t].state # "none"
            /\ MustRevoke(q) /\ adminSession[t].state = "live" => adminSession[t].spared
        BY <1>0, <2>3, <3>2 DEF OwnSessions, LiveAdmin
      <4>3. adminSession'[t] = adminSession[t] \/ adminSession'[t] = own
        BY <2>2, <4>1
      <4> QED
        BY <2>1, <4>1, <4>2, <4>3
    <3> QED
      BY <3>1, <3>2
  <2> QED
    BY <2>4, <2>5, <2>6 DEF AdminIInv
<1>10. ASSUME NEW p \in AdminRequests, RevokeOtherSessions(p) PROVE AdminIInv'
  <2> DEFINE s == adminReq[p].by
  <2>0. /\ adminReq[p].at = "revoke" /\ password' = password
        /\ adminReq' = [adminReq EXCEPT ![p] = NoAdminRequest]
        /\ adminSession' = [t \in AdminSessions |->
               IF LiveAdmin(t) /\ t # s THEN Revoked ELSE adminSession[t]]
    BY <1>10 DEF RevokeOtherSessions, Others, EndRequest
  <2>1. adminSession' \in [AdminSessions -> Record]
    BY <1>0, <2>0 DEF AdminTypeOK
  <2>2. \A t \in AdminSessions :
            adminSession'[t] = adminSession[t] \/ adminSession'[t].state = "revoked"
    BY <1>0, <2>0
  <2>3. /\ adminReq' \in [AdminRequests -> AdminRequestOK]
        /\ \A q \in AdminRequests :
              adminReq'[q] = adminReq[q] \/ adminReq'[q].at \notin ConfirmSteps
    BY <1>0, <2>0 DEF AdminTypeOK, ConfirmSteps
  <2>4. CASE MustRevoke(p)
    <3>1. \A t \in AdminSessions : adminSession'[t].state = "live" => adminSession'[t].spared
      <4> SUFFICES ASSUME NEW t \in AdminSessions, adminSession'[t].state = "live"
                   PROVE  adminSession'[t].spared
        OBVIOUS
      <4>1. adminSession'[t] = adminSession[t] /\ LiveAdmin(t)
        BY <2>2 DEF LiveAdmin
      <4>2. t = s
        BY <1>0, <2>0, <4>1
      <4> QED
        BY <1>0, <2>0, <2>4, <4>1, <4>2 DEF OwnSessions, ConfirmSteps
    <3> QED
      BY <2>0, <2>1, <2>2, <2>3, <3>1, FewerSessions
  <2>5. CASE ~MustRevoke(p)
    <3>1. \A q \in AdminRequests : MustRevoke(q) => MustRevoke(q)'
      BY <1>0, <2>0, <2>5 DEF MustRevoke, AdminTypeOK
    <3> QED
      BY <2>0, <2>1, <2>2, <2>3, <3>1, FewerSessions
  <2> QED
    BY <2>4, <2>5
\* A crash spares the sessions that were about to be revoked.
<1>11. ASSUME NEW P \in SUBSET AdminRequests, password' = password,
              adminReq' = [p \in AdminRequests |-> IF p \in P THEN NoAdminRequest ELSE adminReq[p]],
              adminSession' = IF \E p \in P : adminReq[p].at = "revoke"
                              THEN SpareAll ELSE adminSession
       PROVE  AdminIInv'
  <2>1. /\ adminReq' \in [AdminRequests -> AdminRequestOK]
        /\ \A q \in AdminRequests :
              adminReq'[q] = adminReq[q] \/ adminReq'[q].at \notin ConfirmSteps
    BY <1>0, <1>11 DEF AdminTypeOK, ConfirmSteps
  <2>2. CASE \E p \in P : adminReq[p].at = "revoke"
    <3>1. adminSession' = SpareAll
      BY <1>11, <2>2
    <3>2. \A t \in AdminSessions :
              IF LiveAdmin(t) THEN adminSession'[t] = Session("live", adminSession[t].password, TRUE)
              ELSE adminSession'[t] = adminSession[t]
      BY <3>1 DEF SpareAll
    <3>3. \A t \in AdminSessions :
              /\ adminSession'[t] \in Record
              /\ adminSession'[t].state = "live" => adminSession'[t].spared
              /\ \/ adminSession'[t] = adminSession[t]
                 \/ adminSession'[t].state = "live" /\ adminSession'[t].spared
      <4> SUFFICES ASSUME NEW t \in AdminSessions
                   PROVE  /\ adminSession'[t] \in Record
                          /\ adminSession'[t].state = "live" => adminSession'[t].spared
                          /\ \/ adminSession'[t] = adminSession[t]
                             \/ adminSession'[t].state = "live" /\ adminSession'[t].spared
        OBVIOUS
      <4>0. adminSession[t] \in Record
        BY <1>0 DEF AdminTypeOK
      <4>1. CASE LiveAdmin(t)
        <5> DEFINE kept == Session("live", adminSession[t].password, TRUE)
        <5>1. kept \in Record /\ kept.state = "live" /\ kept.spared
          BY <4>0 DEF Session
        <5>2. adminSession'[t] = kept
          BY <3>2, <4>1
        <5> QED
          BY <5>1, <5>2
      <4>2. CASE ~LiveAdmin(t)
        <5>1. adminSession'[t] = adminSession[t]
          BY <3>2, <4>2
        <5> QED
          BY <4>0, <4>2, <5>1 DEF LiveAdmin
      <4> QED
        BY <4>1, <4>2
    <3>4. adminSession' \in [AdminSessions -> Record]
      BY <3>1, <3>3 DEF SpareAll
    <3> QED
      BY <1>11, <2>1, <3>3, <3>4, FewerSessions
  <2>3. CASE \A p \in P : adminReq[p].at # "revoke"
    <3>1. adminSession' = adminSession
      BY <1>11, <2>3
    <3>2. \A p \in AdminRequests : MustRevoke(p) => MustRevoke(p)'
      BY <1>11, <2>3 DEF MustRevoke
    <3> QED
      BY <1>0, <1>11, <2>1, <3>1, <3>2, FewerSessions DEF AdminTypeOK
  <2> QED
    BY <2>2, <2>3
<1>12. ASSUME NEW p \in AdminRequests, AdminRequestDies(p) PROVE AdminIInv'
  <2>1. adminReq' = [q \in AdminRequests |-> IF q \in {p} THEN NoAdminRequest ELSE adminReq[q]]
    BY <1>0, <1>12 DEF AdminRequestDies, EndRequest, AdminTypeOK
  <2>2. adminSession' = IF \E q \in {p} : adminReq[q].at = "revoke"
                        THEN SpareAll ELSE adminSession
    BY <1>12 DEF AdminRequestDies
  <2>3. password' = password
    BY <1>12 DEF AdminRequestDies
  <2> QED
    BY <1>11, <2>1, <2>2, <2>3
<1>13. CASE Boot
  <2>1. adminReq' = [q \in AdminRequests |->
                        IF q \in AdminRequests THEN NoAdminRequest ELSE adminReq[q]]
    BY <1>13 DEF Boot
  <2> QED
    BY <1>11, <1>13, <2>1 DEF Boot
<1>14. ASSUME UNCHANGED <<password, adminSession, adminReq>> PROVE AdminIInv'
  <2>1. AdminTypeOK' /\ (\A p \in AdminRequests : MustRevoke(p)' <=> MustRevoke(p))
    BY <1>0, <1>14 DEF AdminTypeOK, MustRevoke
  <2> QED
    BY <1>0, <1>14, <2>1 DEF AdminIInv, OldOnesDue, OwnSessions, LiveAdmin
<1>15. ASSUME NEW s \in AdminSessions, NEW u \in Purposes, RequestChange(s, u) PROVE AdminIInv'
  BY <1>14, <1>15 DEF RequestChange
<1>16. ASSUME NEW u \in Purposes, CodeRunsOut(u) PROVE AdminIInv'
  BY <1>14, <1>16 DEF CodeRunsOut
<1>17. CASE UNCHANGED adminVars
  BY <1>14, <1>17 DEF adminVars
<1> QED
  BY <1>1, <1>2, <1>4, <1>5, <1>6, <1>7, <1>8, <1>9, <1>10, <1>12, <1>13, <1>15, <1>16, <1>17
     DEF AdminNext, LoginLogout, ConfirmChange

\* admin-auth.service.ts: a change of the password ends the sessions opened with an older
\* one, for any number of sessions and requests, but for those it spares.
THEOREM OldSessionsAreEnded == AdminSpec => []OldSessionsEnd
<1>1. AdminIInv => OldSessionsEnd
  BY DEF AdminIInv, OldOnesDue, OldSessionsEnd, MustRevoke
<1> QED
  BY AdminInitiallySound, AdminStaysSound, <1>1, PTL DEF AdminSpec

-----------------------------------------------------------------------------
(* Disconnecting a cloud drive *)

\* A request that is under way, on a session that was made.
RequestOK(x, made) ==
    /\ x = [for |-> x.for, at |-> x.at, sid |-> x.sid, got |-> x.got, seen |-> x.seen]
    /\ \/ x = NoCloudRequest
       \/ x.sid \in 1 .. made /\ x.for \in {"callback", "use", "disconnect"}
    /\ x.at \in {"clear", "forget"} => x.for = "disconnect"
    /\ x.at = "refresh" => x.for \in {"use", "disconnect"}

CloudTypeOK ==
    /\ sessionsMade \in 0 .. MaxCloudSessions /\ cookie \in 0 .. sessionsMade
    /\ consent \in [Consents -> [at : {"none", "open", "back"}, sid : Nat]]
    /\ \A c \in Consents : consent[c].at = "open" => consent[c].sid \in 1 .. sessionsMade
    /\ cloudReq = [r \in CloudRequests |-> cloudReq[r]]
    /\ \A r \in CloudRequests : RequestOK(cloudReq[r], sessionsMade)
    /\ tokens = [s \in CloudSessions |-> tokens[s]]
    /\ dropped \in [CloudSessions -> BOOLEAN] /\ busyAtDrop \in [CloudSessions -> BOOLEAN]

\* Nothing but disconnects is under way on a session that was disconnected alone, and the
\* browser only knows it until the cookie is cleared.
Disconnected(s) ==
    /\ tokens[s] = Absent /\ s <= sessionsMade
    /\ \A q \in On(s) : cloudReq[q].at \in {"clear", "forget"}
    /\ cookie = s => \E q \in On(s) : cloudReq[q].at = "forget"

\* The inductive invariant of CloudTokens.
CloudIInv ==
    /\ CloudTypeOK
    /\ \A s \in CloudSessions : dropped[s] /\ ~busyAtDrop[s] => Disconnected(s)

LEMMA CloudInitiallySound == CloudInit => CloudIInv
<1> SUFFICES ASSUME CloudInit PROVE CloudIInv
  OBVIOUS
<1>1. RequestOK(NoCloudRequest, 0)
  BY DEF RequestOK, NoCloudRequest
<1>2. /\ sessionsMade \in 0 .. MaxCloudSessions /\ cookie \in 0 .. sessionsMade
      /\ sessionsMade = 0
  BY CloudBoundsAssumption DEF CloudInit, None
<1>3. /\ consent \in [Consents -> [at : {"none", "open", "back"}, sid : Nat]]
      /\ \A c \in Consents : consent[c].at # "open"
  BY DEF CloudInit, None
<1>4. /\ dropped \in [CloudSessions -> BOOLEAN] /\ busyAtDrop \in [CloudSessions -> BOOLEAN]
      /\ \A s \in CloudSessions : ~dropped[s]
  BY DEF CloudInit
<1>5. /\ cloudReq = [r \in CloudRequests |-> cloudReq[r]]
      /\ \A r \in CloudRequests : RequestOK(cloudReq[r], sessionsMade)
      /\ tokens = [s \in CloudSessions |-> tokens[s]]
  BY <1>1, <1>2 DEF CloudInit
<1> QED
  BY <1>2, <1>3, <1>4, <1>5 DEF CloudIInv, CloudTypeOK

\* What keeps the types: a request that is replaced by a sound one.
LEMMA CloudTypeKept ==
  ASSUME CloudTypeOK, UNCHANGED sessionsMade, cookie' \in 0 .. sessionsMade,
         NEW r \in CloudRequests, NEW x, RequestOK(x, sessionsMade),
         cloudReq' = [cloudReq EXCEPT ![r] = x],
         \/ consent' = consent
         \/ \E c \in Consents : consent' = [consent EXCEPT ![c].at = "back"],
         tokens' = tokens \/ \E s, v : tokens' = [tokens EXCEPT ![s] = v],
         dropped' \in [CloudSessions -> BOOLEAN], busyAtDrop' \in [CloudSessions -> BOOLEAN]
  PROVE  CloudTypeOK'
<1> USE DEF CloudTypeOK
<1>1. /\ cloudReq' = [q \in CloudRequests |-> cloudReq'[q]]
      /\ \A q \in CloudRequests : RequestOK(cloudReq'[q], sessionsMade)
  BY DEF RequestOK
<1>2. /\ consent' \in [Consents -> [at : {"none", "open", "back"}, sid : Nat]]
      /\ \A c \in Consents : consent'[c].at = "open" => consent'[c].sid \in 1 .. sessionsMade
  OBVIOUS
<1>3. tokens' = [s \in CloudSessions |-> tokens'[s]]
  OBVIOUS
<1> HIDE DEF CloudTypeOK
<1>4. /\ sessionsMade' \in 0 .. MaxCloudSessions /\ cookie' \in 0 .. sessionsMade'
  BY DEF CloudTypeOK
<1> QED
  BY <1>1, <1>2, <1>3, <1>4 DEF CloudTypeOK

\* The request's next record keeps what the request is for.
LEMMA MovesOn ==
  ASSUME NEW made, NEW x, NEW step, RequestOK(x, made),
         x # NoCloudRequest,
         step \in {"clear", "forget"} => x.for = "disconnect", step # "refresh", step # "idle"
  PROVE  LET y == [x EXCEPT !.at = step] IN
         RequestOK(y, made) /\ y.at = step /\ y.sid = x.sid /\ y.for = x.for
<1> DEFINE y == [x EXCEPT !.at = step]
<1>1. y = [for |-> x.for, at |-> step, sid |-> x.sid, got |-> x.got, seen |-> x.seen]
  BY DEF RequestOK
<1> HIDE DEF y
<1>2. y.at = step /\ y.sid = x.sid /\ y.for = x.for /\ y.got = x.got /\ y.seen = x.seen
  BY <1>1
<1>3. RequestOK(y, made)
  BY <1>1, <1>2 DEF RequestOK
<1> QED
  BY <1>2, <1>3 DEF y

\* What keeps a disconnected session so: a request that is replaced by one that is not on
\* it, or disconnects it.
LEMMA DisconnectedKept ==
  ASSUME CloudTypeOK, NEW s \in CloudSessions, Disconnected(s),
         NEW r \in CloudRequests, NEW x, cloudReq' = [cloudReq EXCEPT ![r] = x],
         sessionsMade' = sessionsMade, tokens'[s] = Absent,
         x.sid = s => x.at \in {"clear", "forget"},
         cookie' = s =>
             /\ cookie = s
             /\ cloudReq[r].sid = s /\ cloudReq[r].at = "forget" => x.sid = s /\ x.at = "forget"
  PROVE  Disconnected(s)'
<1>1. \A q \in CloudRequests : cloudReq'[q] = IF q = r THEN x ELSE cloudReq[q]
  BY DEF CloudTypeOK
<1>2. \A q \in On(s)' : cloudReq'[q].at \in {"clear", "forget"}
  BY <1>1 DEF On, Disconnected
<1>3. ASSUME cookie' = s PROVE \E q \in On(s)' : cloudReq'[q].at = "forget"
  <2>1. PICK q \in On(s) : cloudReq[q].at = "forget"
    BY <1>3 DEF Disconnected
  <2>2. cloudReq'[q].sid = s /\ cloudReq'[q].at = "forget" /\ q \in CloudRequests
    <3>1. CASE q = r
      BY <1>1, <1>3, <2>1, <3>1 DEF On
    <3>2. CASE q # r
      BY <1>1, <2>1, <3>2 DEF On
    <3> QED
      BY <3>1, <3>2
  <2> QED
    BY <2>2 DEF On
<1>4. tokens'[s] = Absent /\ s <= sessionsMade'
  BY DEF Disconnected
<1> QED
  BY <1>2, <1>3, <1>4 DEF Disconnected

\* A request on no disconnected session goes on: no step but these changes its record.
LEMMA ElsewhereKept ==
  ASSUME CloudIInv, NEW r \in CloudRequests, NEW x, RequestOK(x, sessionsMade),
         cloudReq' = [cloudReq EXCEPT ![r] = x], UNCHANGED <<sessionsMade, cloudHistory>>,
         \/ consent' = consent
         \/ \E c \in Consents : consent' = [consent EXCEPT ![c].at = "back"],
         cloudReq[r].sid # None, cloudReq[r].at \notin {"clear", "forget"},
         x.sid \in {None, cloudReq[r].sid},
         cookie' = cookie \/ cookie' = cloudReq[r].sid,
         \/ tokens' = tokens
         \/ \E v : tokens' = [tokens EXCEPT ![cloudReq[r].sid] = v]
  PROVE  CloudIInv'
<1>1. CloudTypeOK /\ RequestOK(cloudReq[r], sessionsMade) /\ cloudReq[r].sid \in 1 .. sessionsMade
  BY DEF CloudIInv, CloudTypeOK, RequestOK, NoCloudRequest
<1>2. CloudTypeOK'
  <2>1. cookie' \in 0 .. sessionsMade
    BY <1>1 DEF CloudTypeOK
  <2>2. dropped' \in [CloudSessions -> BOOLEAN] /\ busyAtDrop' \in [CloudSessions -> BOOLEAN]
    BY <1>1 DEF CloudTypeOK, cloudHistory
  <2>3. tokens' = tokens \/ \E s, v : tokens' = [tokens EXCEPT ![s] = v]
    OBVIOUS
  <2> QED
    BY <1>1, <2>1, <2>2, <2>3, CloudTypeKept
<1>3. ASSUME NEW s \in CloudSessions, dropped'[s], ~busyAtDrop'[s] PROVE Disconnected(s)'
  <2>1. Disconnected(s)
    BY <1>3 DEF CloudIInv, cloudHistory
  <2>2. cloudReq[r].sid # s
    BY <2>1 DEF Disconnected, On
  <2>3. tokens'[s] = Absent
    BY <1>1, <2>1, <2>2 DEF Disconnected, CloudTypeOK
  <2>4. x.sid # s
    BY <2>2 DEF None, CloudSessions
  <2> QED
    BY <1>1, <2>1, <2>2, <2>3, <2>4, DisconnectedKept
<1> QED
  BY <1>2, <1>3 DEF CloudIInv

LEMMA CloudStaysSound == CloudIInv /\ [CloudNext]_cloudVars => CloudIInv'
<1> SUFFICES ASSUME CloudIInv, [CloudNext]_cloudVars PROVE CloudIInv'
  OBVIOUS
<1>0. /\ CloudTypeOK /\ \A r \in CloudRequests : RequestOK(cloudReq[r], sessionsMade)
      /\ RequestOK(NoCloudRequest, sessionsMade)
      /\ NoCloudRequest.sid = None /\ NoCloudRequest.at = "idle" /\ None = 0
      /\ sessionsMade \in Nat /\ sessionsMade <= MaxCloudSessions /\ MaxCloudSessions \in Nat
      /\ cookie \in 0 .. sessionsMade
      /\ dropped \in [CloudSessions -> BOOLEAN] /\ busyAtDrop \in [CloudSessions -> BOOLEAN]
      /\ \A s \in CloudSessions : dropped[s] /\ ~busyAtDrop[s] => Disconnected(s)
  BY CloudBoundsAssumption DEF CloudIInv, CloudTypeOK, RequestOK, NoCloudRequest, None
<1>1. ASSUME NEW r \in CloudRequests, cloudReq[r].at # "idle"
      PROVE  /\ cloudReq[r] # NoCloudRequest
             /\ cloudReq[r].sid \in 1 .. sessionsMade /\ cloudReq[r].sid \in CloudSessions
             /\ cloudReq[r].sid # None
             /\ cloudReq[r].for \in {"callback", "use", "disconnect"}
  <2>1. cloudReq[r] # NoCloudRequest /\ RequestOK(cloudReq[r], sessionsMade)
    BY <1>0, <1>1
  <2>2. cloudReq[r].sid \in 1 .. sessionsMade
    BY <2>1 DEF RequestOK
  <2>3. cloudReq[r].for \in {"callback", "use", "disconnect"}
    BY <2>1 DEF RequestOK
  <2> QED
    BY <1>0, <2>1, <2>2, <2>3 DEF CloudSessions

\* Requests that go on, away from what is disconnected.
<1>2. ASSUME NEW r \in CloudRequests, cloudReq[r].at \notin {"idle", "clear", "forget"},
             UNCHANGED <<sessionsMade, cloudHistory>>,
             \/ consent' = consent
             \/ \E c \in Consents : consent' = [consent EXCEPT ![c].at = "back"],
             cookie' = cookie \/ cookie' = cloudReq[r].sid,
             \/ tokens' = tokens
             \/ \E v : tokens' = [tokens EXCEPT ![cloudReq[r].sid] = v],
             \/ Ends(r)
             \/ \E step \in {"exchange", "merge", "store", "answer", "clear"} :
                    /\ step = "clear" => cloudReq[r].for = "disconnect"
                    /\ Goes(r, step)
             \/ \E step \in {"merge", "store"} : \E v : GoesWith(r, step, v)
      PROVE  CloudIInv'
  <2>1. CASE Ends(r)
    BY <1>0, <1>1, <1>2, <2>1, ElsewhereKept DEF Ends
  <2>2. ASSUME NEW step \in {"exchange", "merge", "store", "answer", "clear"},
               step = "clear" => cloudReq[r].for = "disconnect", Goes(r, step)
        PROVE  CloudIInv'
    <3> DEFINE x == [cloudReq[r] EXCEPT !.at = step]
    <3>1. RequestOK(x, sessionsMade) /\ x.sid = cloudReq[r].sid
      BY <1>0, <1>1, <1>2, <2>2, MovesOn
    <3>2. cloudReq' = [cloudReq EXCEPT ![r] = x]
      BY <2>2 DEF Goes
    <3> HIDE DEF x
    <3> QED
      BY <1>1, <1>2, <3>1, <3>2, ElsewhereKept
  <2>3. ASSUME NEW step \in {"merge", "store"}, NEW v, GoesWith(r, step, v)
        PROVE  CloudIInv'
    <3> DEFINE y == cloudReq[r]
               z == [y EXCEPT !.at = step]
               x == [z EXCEPT !.got = v]
    <3>1. cloudReq' = [cloudReq EXCEPT ![r] = x]
      BY <2>3 DEF GoesWith
    <3>2. RequestOK(y, sessionsMade) /\ y # NoCloudRequest
      BY <1>0, <1>1, <1>2
    <3> HIDE DEF y
    <3>3. z = [for |-> y.for, at |-> step, sid |-> y.sid, got |-> y.got, seen |-> y.seen]
      BY <3>2 DEF RequestOK
    <3> HIDE DEF z
    <3>4. x = [for |-> y.for, at |-> step, sid |-> y.sid, got |-> v, seen |-> y.seen]
      BY <3>3
    <3> HIDE DEF x
    <3>5. x.at = step /\ x.sid = y.sid /\ x.for = y.for /\ x.got = v /\ x.seen = y.seen
      BY <3>4
    <3>6. RequestOK(x, sessionsMade)
      BY <3>2, <3>4, <3>5 DEF RequestOK
    <3>7. x.sid = cloudReq[r].sid
      BY <3>5 DEF y
    <3> QED
      BY <1>1, <1>2, <3>1, <3>6, <3>7, ElsewhereKept
  <2> QED
    BY <1>2, <2>1, <2>2, <2>3
<1>3. ASSUME NEW r \in CloudRequests, ExchangeCode(r) PROVE CloudIInv'
  BY <1>2, <1>3 DEF ExchangeCode
<1>4. ASSUME NEW r \in CloudRequests, ReadExisting(r) PROVE CloudIInv'
  BY <1>2, <1>4 DEF ReadExisting
<1>5. ASSUME NEW r \in CloudRequests, StoreTokens(r) PROVE CloudIInv'
  <2>1. cloudReq[r].at = "store" /\ cloudReq[r].for \in {"callback", "use", "disconnect"}
    BY <1>1, <1>5 DEF StoreTokens
  <2>2. /\ UNCHANGED <<sessionsMade, consent, cloudHistory, cookie>>
        /\ tokens' = [tokens EXCEPT ![cloudReq[r].sid] = cloudReq[r].got]
    BY <1>5 DEF StoreTokens
  <2>3. CASE cloudReq[r].for = "callback"
    <3>1. Goes(r, "answer")
      BY <1>5, <2>3 DEF StoreTokens
    <3> QED
      BY <1>2, <2>1, <2>2, <3>1
  <2>4. CASE cloudReq[r].for = "use"
    <3>1. Ends(r)
      BY <1>5, <2>4 DEF StoreTokens
    <3> QED
      BY <1>2, <2>1, <2>2, <3>1
  <2>5. CASE cloudReq[r].for = "disconnect"
    <3>1. Goes(r, "clear")
      BY <1>5, <2>5 DEF StoreTokens
    <3> QED
      BY <1>2, <2>1, <2>2, <2>5, <3>1
  <2> QED
    BY <2>1, <2>3, <2>4, <2>5
<1>6. ASSUME NEW r \in CloudRequests, AnswerCallback(r) PROVE CloudIInv'
  BY <1>2, <1>6 DEF AnswerCallback
<1>7. ASSUME NEW r \in CloudRequests, RefreshAccess(r) PROVE CloudIInv'
  <2>1. /\ cloudReq[r].at = "refresh" /\ cloudReq[r].for \in {"use", "disconnect"}
        /\ UNCHANGED <<sessionsMade, consent, cloudHistory, cookie, tokens>>
    BY <1>0, <1>7 DEF RefreshAccess, RequestOK
  <2>2. CASE GoesWith(r, "merge", Regrant(cloudReq[r].seen))
    BY <1>2, <2>1, <2>2
  <2>3. CASE cloudReq[r].for = "use" /\ Ends(r)
    BY <1>2, <2>1, <2>3
  <2>4. CASE cloudReq[r].for = "disconnect" /\ Goes(r, "clear")
    BY <1>2, <2>1, <2>4
  <2> QED
    BY <1>7, <2>1, <2>2, <2>3, <2>4 DEF RefreshAccess

\* Requests that start on the cookie's session.
<1>8. ASSUME NEW r \in CloudRequests, NEW what \in {"callback", "use", "disconnect"},
             NEW step \in {"state", "refresh", "clear"}, NEW v,
             Starts(r, what, step, cookie, v), cookie # None,
             step = "clear" => what = "disconnect",
             step = "refresh" => what \in {"use", "disconnect"},
             UNCHANGED <<cookie, sessionsMade, tokens, dropped>>,
             \/ consent' = consent
             \/ \E c \in Consents : consent' = [consent EXCEPT ![c].at = "back"],
             busyAtDrop' \in [CloudSessions -> BOOLEAN],
             \A s \in CloudSessions : busyAtDrop[s] => busyAtDrop'[s],
             step # "clear" /\ dropped[cookie] /\ ~busyAtDrop'[cookie] => ~Disconnected(cookie)
      PROVE  CloudIInv'
  <2> DEFINE x == [for |-> what, at |-> step, sid |-> cookie, got |-> Absent, seen |-> v]
  <2>1. cloudReq[r] = NoCloudRequest /\ cloudReq' = [cloudReq EXCEPT ![r] = x]
    BY <1>8 DEF Starts
  <2>2. x.sid = cookie /\ x.at = step /\ cookie \in 1 .. sessionsMade
    BY <1>0, <1>8
  <2>3. RequestOK(x, sessionsMade)
    BY <1>8, <2>2 DEF RequestOK
  <2> HIDE DEF x
  <2>4. CloudTypeOK'
    BY <1>0, <1>8, <2>1, <2>3, CloudTypeKept
  <2>5. ASSUME NEW s \in CloudSessions, dropped'[s], ~busyAtDrop'[s] PROVE Disconnected(s)'
    <3>1. Disconnected(s)
      BY <1>0, <1>8, <2>5
    <3>2. x.sid = s => x.at \in {"clear", "forget"}
      BY <1>8, <2>2, <2>5, <3>1
    <3>3. tokens'[s] = Absent /\ cloudReq[r].at # "forget"
      BY <1>0, <1>8, <2>1, <3>1 DEF Disconnected
    <3> QED
      BY <1>0, <1>8, <2>1, <3>1, <3>2, <3>3, DisconnectedKept
  <2> QED
    BY <2>4, <2>5 DEF CloudIInv
<1>9. ASSUME NEW r \in CloudRequests, UseTokens(r) PROVE CloudIInv'
  <2>1. ~Disconnected(cookie)
    BY <1>9 DEF UseTokens, Refreshable, Disconnected, Absent
  <2>2. /\ Starts(r, "use", "refresh", cookie, tokens[cookie]) /\ cookie # None
        /\ UNCHANGED <<cookie, sessionsMade, tokens, dropped, consent, busyAtDrop>>
    BY <1>9 DEF UseTokens, cloudHistory
  <2> QED
    BY <1>0, <1>8, <2>1, <2>2
<1>10. ASSUME NEW r \in CloudRequests, Disconnect(r) PROVE CloudIInv'
  <2>1. RevokeAccess(cookie) \in {"refresh", "clear"}
    BY DEF RevokeAccess
  <2>2. RevokeAccess(cookie) # "clear" => ~Disconnected(cookie)
    BY DEF RevokeAccess, Refreshable, Disconnected, Absent
  <2>3. /\ Starts(r, "disconnect", RevokeAccess(cookie), cookie, tokens[cookie])
        /\ cookie # None
        /\ UNCHANGED <<cookie, sessionsMade, tokens, dropped, consent, busyAtDrop>>
    BY <1>10 DEF Disconnect, cloudHistory
  <2> QED
    BY <1>0, <1>8, <2>1, <2>2, <2>3
<1>11. ASSUME UNCHANGED <<cookie, sessionsMade, tokens, cloudReq, cloudHistory>>,
              \E c \in Consents : consent' = [consent EXCEPT ![c].at = "back"]
       PROVE  CloudIInv'
  <2>1. CloudTypeOK'
    BY <1>0, <1>11 DEF CloudTypeOK, cloudHistory
  <2> QED
    BY <1>0, <1>11, <2>1 DEF CloudIInv, Disconnected, On, cloudHistory
<1>12. ASSUME NEW c \in Consents, ConsentLost(c) PROVE CloudIInv'
  BY <1>11, <1>12 DEF ConsentLost, ConsumeState
<1>13. ASSUME NEW r \in CloudRequests, NEW c \in Consents, Callback(r, c) PROVE CloudIInv'
  <2> DEFINE meets == \E q \in On(cookie) : cloudReq[q].for = "disconnect"
  <2>1. /\ Starts(r, "callback", "state", cookie, [Absent EXCEPT !.access = c]) /\ cookie # None
        /\ busyAtDrop' = [busyAtDrop EXCEPT ![cookie] = @ \/ meets]
        /\ UNCHANGED <<cookie, sessionsMade, consent, tokens, dropped>>
    BY <1>13 DEF Callback
  <2>2. Disconnected(cookie) => meets
    BY <1>0 DEF Disconnected, On, RequestOK
  <2> HIDE DEF meets
  <2>3. cookie \in CloudSessions
    BY <1>0, <2>1 DEF CloudSessions
  <2>4. /\ busyAtDrop' \in [CloudSessions -> BOOLEAN]
        /\ \A t \in CloudSessions : busyAtDrop[t] => busyAtDrop'[t]
        /\ meets => busyAtDrop'[cookie]
    BY <1>0, <2>1, <2>3
  <2> QED
    BY <1>8, <2>1, <2>2, <2>4
<1>19. ASSUME NEW r \in CloudRequests, CheckState(r) PROVE CloudIInv'
  <2> DEFINE c == cloudReq[r].seen.access
  <2>1. /\ cloudReq[r].at = "state" /\ consent' = [consent EXCEPT ![c].at = "back"]
        /\ Goes(r, "exchange") \/ Ends(r)
        /\ UNCHANGED <<sessionsMade, cloudHistory, cookie, tokens>>
    BY <1>19 DEF CheckState, ConsumeState
  <2>2. c \notin Consents => consent' = consent
    BY <1>0, <2>1 DEF CloudTypeOK
  <2> HIDE DEF c
  <2> QED
    BY <1>2, <2>1, <2>2
<1>14. ASSUME NEW c \in Consents, AuthUrl(c) PROVE CloudIInv'
  <2> DEFINE s == EnsureSession
  <2>1. /\ s \in CloudSessions /\ cookie' = s
        /\ sessionsMade' = IF s > sessionsMade THEN s ELSE sessionsMade
        /\ consent' = [consent EXCEPT ![c] = [at |-> "open", sid |-> s]]
        /\ UNCHANGED <<tokens, cloudReq, cloudHistory>>
        /\ s = cookie \/ s = sessionsMade + 1
    BY <1>14 DEF AuthUrl, SaveState, EnsureSession
  <2> HIDE DEF s
  <2>2. /\ sessionsMade' \in 0 .. MaxCloudSessions /\ cookie' \in 0 .. sessionsMade'
        /\ s \in 1 .. sessionsMade' /\ sessionsMade <= sessionsMade'
        /\ sessionsMade' \in Nat
    BY <1>0, <2>1 DEF CloudSessions
  <2>3. /\ consent' \in [Consents -> [at : {"none", "open", "back"}, sid : Nat]]
        /\ \A d \in Consents : consent'[d].at = "open" => consent'[d].sid \in 1 .. sessionsMade'
    BY <1>0, <2>1, <2>2 DEF CloudTypeOK
  <2>4. \A r \in CloudRequests : RequestOK(cloudReq'[r], sessionsMade')
    BY <1>0, <2>1, <2>2 DEF RequestOK
  <2>5. CloudTypeOK'
    BY <1>0, <2>1, <2>2, <2>3, <2>4 DEF CloudTypeOK, cloudHistory
  <2>6. ASSUME NEW t \in CloudSessions, dropped'[t], ~busyAtDrop'[t] PROVE Disconnected(t)'
    <3>1. Disconnected(t)
      BY <1>0, <2>1, <2>6 DEF cloudHistory
    <3>2. cookie' = t => cookie = t
      BY <1>0, <2>1, <3>1 DEF Disconnected, CloudSessions
    <3> QED
      BY <1>0, <2>1, <2>2, <3>1, <3>2 DEF Disconnected, On, CloudSessions
  <2> QED
    BY <2>5, <2>6 DEF CloudIInv
<1>15. ASSUME NEW r \in CloudRequests, ClearTokens(r) PROVE CloudIInv'
  <2> DEFINE s == cloudReq[r].sid
             x == [cloudReq[r] EXCEPT !.at = "forget"]
  <2>1. /\ cloudReq[r].at = "clear" /\ cloudReq' = [cloudReq EXCEPT ![r] = x]
        /\ tokens' = [tokens EXCEPT ![s] = Absent] /\ dropped' = [dropped EXCEPT ![s] = TRUE]
        /\ busyAtDrop' = [busyAtDrop EXCEPT ![s] = @ \/ On(s) # {r}]
        /\ UNCHANGED <<cookie, sessionsMade, consent>>
    BY <1>15 DEF ClearTokens, Goes
  <2>2. s \in 1 .. sessionsMade /\ s \in CloudSessions /\ cloudReq[r] # NoCloudRequest
    BY <1>1, <2>1
  <2>3. cloudReq[r].for = "disconnect"
    BY <1>0, <2>1 DEF RequestOK
  <2>4. RequestOK(x, sessionsMade) /\ x.at = "forget" /\ x.sid = s
    <3>1. RequestOK(cloudReq[r], sessionsMade)
      BY <1>0
    <3> QED
      BY <2>2, <2>3, <3>1, MovesOn
  <2> HIDE DEF x
  <2>5. dropped' \in [CloudSessions -> BOOLEAN] /\ busyAtDrop' \in [CloudSessions -> BOOLEAN]
    BY <1>0, <2>1, <2>2
  <2>6. CloudTypeOK'
    BY <1>0, <2>1, <2>4, <2>5, CloudTypeKept
  <2>7. ASSUME NEW t \in CloudSessions, dropped'[t], ~busyAtDrop'[t] PROVE Disconnected(t)'
    <3>0. \A q \in CloudRequests : cloudReq'[q] = IF q = r THEN x ELSE cloudReq[q]
      BY <1>0, <2>1 DEF CloudTypeOK
    <3>1. CASE t = s
      <4>1. On(t) = {r}
        BY <1>0, <2>1, <2>2, <2>7, <3>1
      <4>2. On(t)' = {r}
        BY <2>4, <3>0, <3>1, <4>1 DEF On
      <4>3. tokens'[t] = Absent /\ cloudReq'[r].at = "forget"
        BY <1>0, <2>1, <2>2, <2>4, <3>0, <3>1 DEF CloudTypeOK
      <4>4. t <= sessionsMade'
        BY <1>0, <2>1, <2>2, <3>1
      <4> QED
        BY <4>2, <4>3, <4>4 DEF Disconnected
    <3>2. CASE t # s
      <4>1. dropped[t] /\ ~busyAtDrop[t] /\ tokens'[t] = tokens[t]
        BY <1>0, <2>1, <2>7, <3>2 DEF CloudTypeOK
      <4>2. Disconnected(t)
        BY <1>0, <4>1
      <4>3. tokens'[t] = Absent /\ x.sid # t
        BY <2>4, <3>2, <4>1, <4>2 DEF Disconnected
      <4> QED
        BY <1>0, <2>1, <3>2, <4>2, <4>3, DisconnectedKept
    <3> QED
      BY <3>1, <3>2
  <2> QED
    BY <2>6, <2>7 DEF CloudIInv
<1>16. ASSUME NEW r \in CloudRequests, ForgetCookie(r) \/ CloudRequestDies(r) PROVE CloudIInv'
  <2> DEFINE s == cloudReq[r].sid
  <2>1. /\ cloudReq' = [cloudReq EXCEPT ![r] = NoCloudRequest]
        /\ cookie' = cookie \/ cookie' = None
        /\ cookie' = None \/ CloudRequestDies(r)
        /\ UNCHANGED <<sessionsMade, consent, tokens, dropped>>
    <3>1. CASE ForgetCookie(r)
      BY <3>1 DEF ForgetCookie, Ends, cloudHistory
    <3>2. CASE CloudRequestDies(r)
      BY <3>2 DEF CloudRequestDies, Ends
    <3> QED
      BY <1>16, <3>1, <3>2
  <2>2. \/ busyAtDrop' = busyAtDrop
        \/ /\ busyAtDrop' = [busyAtDrop EXCEPT ![s] = @ \/ cloudReq[r].at = "forget"]
           /\ cloudReq[r] # NoCloudRequest
    BY <1>16 DEF ForgetCookie, CloudRequestDies, cloudHistory
  <2>3. /\ busyAtDrop' \in [CloudSessions -> BOOLEAN]
        /\ \A t \in CloudSessions : busyAtDrop[t] => busyAtDrop'[t]
    BY <1>0, <2>2
  <2>4. cookie' \in 0 .. sessionsMade
    BY <1>0, <2>1
  <2>5. CloudTypeOK'
    BY <1>0, <2>1, <2>3, <2>4, CloudTypeKept
  <2>6. ASSUME NEW t \in CloudSessions, dropped'[t], ~busyAtDrop'[t] PROVE Disconnected(t)'
    <3>1. Disconnected(t)
      BY <1>0, <2>1, <2>3, <2>6
    <3>2. tokens'[t] = Absent /\ NoCloudRequest.sid # t /\ t # None
      BY <1>0, <2>1, <3>1 DEF Disconnected, CloudSessions
    <3>3. cookie' = t => cookie = t /\ CloudRequestDies(r)
      BY <2>1, <3>2
    <3>4. CloudRequestDies(r) /\ cloudReq[r].sid = t => cloudReq[r].at # "forget"
      BY <1>0, <2>6 DEF CloudRequestDies
    <3> QED
      BY <1>0, <2>1, <3>1, <3>2, <3>3, <3>4, DisconnectedKept
  <2> QED
    BY <2>5, <2>6 DEF CloudIInv
<1>17. ASSUME NEW s \in CloudSessions, AccessExpires(s) \/ RecordLapses(s) PROVE CloudIInv'
  <2>1. /\ UNCHANGED <<cookie, sessionsMade, consent, cloudReq, cloudHistory>>
        /\ \E v : tokens' = [tokens EXCEPT ![s] = v]
        /\ tokens[s] = Absent => FALSE
    BY <1>17 DEF AccessExpires, RecordLapses, Absent
  <2>2. CloudTypeOK' /\ (\A t \in CloudSessions : t # s => tokens'[t] = tokens[t])
    BY <1>0, <2>1 DEF CloudTypeOK, cloudHistory
  <2> QED
    BY <1>0, <2>1, <2>2 DEF CloudIInv, Disconnected, On, cloudHistory
<1>18. CASE UNCHANGED cloudVars
  <2>1. CloudTypeOK'
    BY <1>0, <1>18 DEF CloudTypeOK, cloudVars, cloudHistory
  <2> QED
    BY <1>0, <1>18, <2>1 DEF CloudIInv, Disconnected, On, cloudVars, cloudHistory
<1> QED
  BY <1>3, <1>4, <1>5, <1>6, <1>7, <1>9, <1>10, <1>12, <1>13, <1>14, <1>15, <1>16, <1>17, <1>18,
     <1>19
     DEF CloudNext, CloudRequest

\* cloud.controller.ts disconnect: a session that was disconnected with nothing else under
\* way keeps no tokens and gets none again, for any number of sessions and consents.
THEOREM DisconnectsHold == CloudSpec => []DisconnectHolds
<1>1. CloudIInv => DisconnectHolds
  BY DEF CloudIInv, Disconnected, DisconnectHolds
<1> QED
  BY CloudInitiallySound, CloudStaysSound, <1>1, PTL DEF CloudSpec
=============================================================================
