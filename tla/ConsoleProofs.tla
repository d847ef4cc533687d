--------------------------- MODULE ConsoleProofs ----------------------------
(***************************************************************************)
(* Proofs about what the pages of the browser show of the server: the      *)
(* console's session and its tables (ConsoleSession, AdminTables), and the *)
(* cloud panels (CloudFiles).  For any number of refreshes, listings and   *)
(* rows, any page size and any cap.                                        *)
(***************************************************************************)
EXTENDS ConsoleSession, AdminTables, CloudFiles, FiniteSetTheorems, SequenceTheorems, TLAPS

-----------------------------------------------------------------------------
(* Sequences *)

LEMMA WithoutOne ==
    ASSUME NEW S, NEW s \in Seq(S), NEW i \in 1 .. Len(s)
    PROVE  /\ Without(s, i) \in Seq(S)
           /\ Len(Without(s, i)) = Len(s) - 1
           /\ \A j \in 1 .. Len(s) - 1 :
                  Without(s, i)[j] = IF j < i THEN s[j] ELSE s[j + 1]
<1> DEFINE front == SubSeq(s, 1, i - 1)
           back  == SubSeq(s, i + 1, Len(s))
<1>0. Len(s) \in Nat /\ i - 1 \in Int /\ i + 1 \in Int /\ \A j \in 1 .. Len(s) : s[j] \in S
  BY LenProperties, ElementOfSeq
<1>1. front \in Seq(S) /\ Len(front) = i - 1 /\ \A j \in 1 .. i - 1 : front[j] = s[j]
  <2>1. \A j \in 1 .. i - 1 : s[j] \in S
    BY <1>0
  <2> QED
    BY <1>0, <2>1, SubSeqProperties
<1>2. back \in Seq(S) /\ Len(back) = Len(s) - i
      /\ \A j \in 1 .. Len(s) - i : back[j] = s[i + j]
  <2>1. \A j \in i + 1 .. Len(s) : s[j] \in S
    BY <1>0
  <2>2. /\ back \in Seq(S)
        /\ Len(back) = IF i + 1 <= Len(s) THEN Len(s) - (i + 1) + 1 ELSE 0
        /\ \A j \in 1 .. Len(s) - (i + 1) + 1 : back[j] = s[i + 1 + j - 1]
    BY <1>0, <2>1, SubSeqProperties
  <2> QED
    BY <1>0, <2>2
<1> HIDE DEF front, back
<1>3. /\ front \o back \in Seq(S)
      /\ Len(front \o back) = Len(front) + Len(back)
      /\ \A j \in 1 .. Len(front) + Len(back) :
             (front \o back)[j] = IF j <= Len(front) THEN front[j] ELSE back[j - Len(front)]
  BY <1>1, <1>2, ConcatProperties
<1>4. Without(s, i) = front \o back
  BY DEF Without, front, back
<1> DEFINE w == front \o back
<1>5. w \in Seq(S) /\ Len(w) = Len(s) - 1
  BY <1>0, <1>1, <1>2, <1>3
<1>6. ASSUME NEW j \in 1 .. Len(s) - 1
      PROVE  w[j] = IF j < i THEN s[j] ELSE s[j + 1]
  <2>1. w[j] = IF j <= i - 1 THEN front[j] ELSE back[j - (i - 1)]
    BY <1>0, <1>1, <1>2, <1>3
  <2>2. CASE j < i
    BY <1>0, <1>1, <2>1, <2>2
  <2>3. CASE ~(j < i)
    <3>1. j - (i - 1) \in 1 .. Len(s) - i /\ i + (j - (i - 1)) = j + 1
      BY <1>0, <2>3
    <3>2. back[j - (i - 1)] = s[i + (j - (i - 1))]
      BY <1>2, <3>1
    <3> QED
      BY <1>0, <2>1, <2>3, <3>1, <3>2
  <2> QED
    BY <2>2, <2>3
<1> HIDE DEF w
<1> QED
  BY <1>4, <1>5, <1>6 DEF w

\* A function on 1 .. n is a sequence of that length.
LEMMA FunctionIsSeq ==
    ASSUME NEW S, NEW n \in Nat, NEW f \in [1 .. n -> S]
    PROVE  f \in Seq(S) /\ Len(f) = n
<1>1. f \in Seq(S)
  BY SeqDef
<1>2. Len(f) \in Nat /\ DOMAIN f = 1 .. Len(f) /\ DOMAIN f = 1 .. n
  BY <1>1, LenProperties
<1> QED
  BY <1>1, <1>2

-----------------------------------------------------------------------------
(* The console settles *)

Refreshes == [from : Pages, answer : {"none", "me", "401", "failed"}, overtaken : BOOLEAN]

SessionTypeOK ==
    /\ path \in Pages /\ going \in Pages \union {"nowhere"}
    /\ refreshes \in Seq(Refreshes)

\* Where the page will be once the router has got there.
Bound == IF going = "nowhere" THEN path ELSE going

\* An answer on its way was overtaken: landing, it will be noted as stray.
SomeOvertaken == \E i \in 1 .. Len(refreshes) : refreshes[i].overtaken

\* Nothing is on its way and the page fits the user.
Settled == refreshes = <<>> /\ ~loading /\ (user <=> Bound = "console")

\* One refresh is on its way, called where the page still is.
Settling == Len(refreshes) = 1 /\ refreshes[1].from = path /\ going = "nowhere"

\* The inductive invariant of ConsoleSettles.
SessionIInv == SessionTypeOK /\ (stray \/ SomeOvertaken \/ Settled \/ Settling)

LEMMA RefreshTyped ==
    ASSUME NEW page \in Pages
    PROVE  /\ Refresh(page) \in Refreshes /\ Refresh(page).from = page
           /\ <<Refresh(page)>> \in Seq(Refreshes)
           /\ Len(<<Refresh(page)>>) = 1 /\ <<Refresh(page)>>[1] = Refresh(page)
<1>1. Refresh(page) \in Refreshes /\ Refresh(page).from = page
  BY DEF Refresh, Refreshes
<1> HIDE DEF Refresh, Refreshes
<1> QED
  BY <1>1

LEMMA PageStarts ==
    ASSUME NEW page \in Pages, path' = page, going' = "nowhere", refreshes' = <<Refresh(page)>>
    PROVE  SessionIInv'
<1>1. SessionTypeOK'
  BY RefreshTyped DEF SessionTypeOK
<1>2. Settling'
  BY RefreshTyped DEF Settling
<1> QED
  BY <1>1, <1>2 DEF SessionIInv

\* Whatever lands overtakes what is still on its way.
LEMMA LandingOvertakes ==
    ASSUME NEW rs \in Seq(Refreshes)
    PROVE  /\ Overtaken(rs) \in Seq(Refreshes)
           /\ Len(Overtaken(rs)) = Len(rs)
           /\ \A i \in 1 .. Len(rs) : Overtaken(rs)[i].overtaken
<1>1. Len(rs) \in Nat /\ DOMAIN rs = 1 .. Len(rs) /\ \A i \in 1 .. Len(rs) : rs[i] \in Refreshes
  BY LenProperties, ElementOfSeq
<1>2. ASSUME NEW i \in 1 .. Len(rs)
      PROVE  /\ [rs[i] EXCEPT !.overtaken = TRUE] \in Refreshes
             /\ [rs[i] EXCEPT !.overtaken = TRUE].overtaken
  <2>1. rs[i] \in Refreshes
    BY <1>1
  <2> QED
    BY <2>1 DEF Refreshes
<1>3. Overtaken(rs) \in [1 .. Len(rs) -> Refreshes]
  BY <1>1, <1>2 DEF Overtaken
<1> QED
  BY <1>1, <1>2, <1>3, FunctionIsSeq DEF Overtaken

LEMMA SessionInitially == SessionInit => SessionIInv
<1> SUFFICES ASSUME SessionInit PROVE SessionIInv
  OBVIOUS
<1>1. path \in Pages /\ going = "nowhere" /\ refreshes = <<Refresh(path)>>
  BY DEF SessionInit
<1>2. SessionTypeOK /\ Settling
  BY <1>1, RefreshTyped DEF SessionTypeOK, Settling
<1> QED
  BY <1>2 DEF SessionIInv

\* A refresh that lands.
LEMMA RefreshKeepsSound ==
    ASSUME SessionIInv, NEW i \in 1 .. Len(refreshes), RefreshLands(i)
    PROVE  SessionIInv'
<1> DEFINE r == refreshes[i]
           rest == AllBut(i)
<1>1. Len(refreshes) \in Nat /\ r \in Refreshes
  BY LenProperties, ElementOfSeq DEF SessionIInv, SessionTypeOK
<1>2. /\ rest \in Seq(Refreshes) /\ Len(rest) = Len(refreshes) - 1
      /\ \A j \in 1 .. Len(refreshes) - 1 :
             rest[j] = IF j < i THEN refreshes[j] ELSE refreshes[j + 1]
  BY WithoutOne DEF AllBut, Without, SessionIInv, SessionTypeOK
<1> HIDE DEF rest
<1>3. refreshes' = Overtaken(rest) /\ path' = path
      /\ going' = (IF GoesIn(r) THEN "console" ELSE IF GoesOut(r) THEN "login" ELSE going)
  BY DEF RefreshLands, rest
<1>4. /\ refreshes' \in Seq(Refreshes) /\ Len(refreshes') = Len(refreshes) - 1
      /\ \A j \in 1 .. Len(refreshes') : refreshes'[j].overtaken
  BY <1>2, <1>3, LandingOvertakes
<1>5. SessionTypeOK'
  BY <1>3, <1>4 DEF SessionIInv, SessionTypeOK, Pages
<1>6. CASE Len(refreshes) # 1
  <2>1. Len(refreshes') \in Nat /\ 1 \in 1 .. Len(refreshes')
    BY <1>1, <1>4, <1>6
  <2>2. SomeOvertaken'
    BY <1>4, <2>1 DEF SomeOvertaken
  <2> QED
    BY <1>5, <2>2 DEF SessionIInv
<1>7. CASE Len(refreshes) = 1 /\ stray
  <2>1. stray'
    BY <1>7 DEF RefreshLands
  <2> QED
    BY <1>5, <2>1 DEF SessionIInv
<1>8. CASE Len(refreshes) = 1 /\ SomeOvertaken
  <2>1. i = 1 /\ r.overtaken
    BY <1>8 DEF SomeOvertaken
  <2>2. stray'
    BY <2>1 DEF RefreshLands
  <2> QED
    BY <1>5, <2>2 DEF SessionIInv
<1>9. CASE Settled
  BY <1>1, <1>9, EmptySeq DEF Settled
<1>10. CASE Settling
  <2>1. i = 1 /\ Len(refreshes') = 0 /\ r.from = path /\ going = "nowhere" /\ path \in Pages
    BY <1>4, <1>10 DEF Settling, SessionIInv, SessionTypeOK
  <2>2. refreshes' = <<>>
    BY <1>4, <2>1, EmptySeq
  <2>3. user' = (r.answer = "me") /\ loading' = FALSE
    BY DEF RefreshLands
  <2>4. CASE r.answer = "failed"
    <3>1. stray'
      BY <2>4 DEF RefreshLands
    <3> QED
      BY <1>5, <3>1 DEF SessionIInv
  <2>5. CASE r.answer = "me"
    <3>1. Bound' = "console"
      BY <1>3, <2>1, <2>5 DEF Bound, GoesIn, GoesOut, Pages
    <3>2. user'
      BY <2>3, <2>5
    <3> QED
      BY <1>5, <2>2, <2>3, <3>1, <3>2 DEF SessionIInv, Settled
  <2>6. CASE r.answer = "401"
    <3>1. Bound' = "login"
      BY <1>3, <2>1, <2>6 DEF Bound, GoesIn, GoesOut, Pages
    <3>2. ~user'
      BY <2>3, <2>6
    <3> QED
      BY <1>5, <2>2, <2>3, <3>1, <3>2 DEF SessionIInv, Settled
  <2>7. r.answer \in {"me", "401", "failed"}
    BY <1>1 DEF RefreshLands, Refreshes
  <2> QED
    BY <2>4, <2>5, <2>6, <2>7
<1> QED
  BY <1>6, <1>7, <1>8, <1>9, <1>10 DEF SessionIInv

\* login() or logout() lands: the user, the page it sends to, and everything overtaken.
LEMMA SignedKeepsSound ==
    ASSUME SessionIInv, SignInLands \/ SignOutLands
    PROVE  SessionIInv'
<1>1. refreshes \in Seq(Refreshes) /\ refreshes' = Overtaken(refreshes) /\ path' = path
      /\ going' \in Pages
  BY DEF SessionIInv, SessionTypeOK, SignInLands, SignOutLands, Pages
<1>2. /\ refreshes' \in Seq(Refreshes) /\ Len(refreshes') = Len(refreshes)
      /\ \A j \in 1 .. Len(refreshes') : refreshes'[j].overtaken
  BY <1>1, LandingOvertakes
<1>3. SessionTypeOK'
  BY <1>1, <1>2 DEF SessionIInv, SessionTypeOK
<1>4. Len(refreshes) \in Nat
  BY <1>1, LenProperties
<1>5. CASE refreshes # <<>>
  <2>1. 1 \in 1 .. Len(refreshes')
    BY <1>1, <1>2, <1>5, EmptySeq
  <2>2. SomeOvertaken'
    BY <1>2, <2>1 DEF SomeOvertaken
  <2> QED
    BY <1>3, <2>2 DEF SessionIInv
<1>6. CASE refreshes = <<>>
  <2>1. refreshes' = <<>> /\ Len(refreshes) = 0
    BY <1>1, <1>2, <1>6, EmptySeq
  <2>2. stray \/ Settled
    BY <2>1 DEF SessionIInv, SomeOvertaken, Settling
  <2>3. stray' = stray
    BY DEF SignInLands, SignOutLands
  <2>4. ASSUME Settled PROVE Settled'
    <3>1. CASE SignInLands
      <4>1. user' /\ ~loading' /\ Bound' = "console"
        BY <3>1 DEF SignInLands, Bound
      <4> QED
        BY <2>1, <4>1 DEF Settled
    <3>2. CASE SignOutLands
      <4>1. ~user' /\ Bound' = "login" /\ loading' = loading
        BY <3>2 DEF SignOutLands, Bound
      <4>2. ~loading
        BY <2>4 DEF Settled
      <4>3. ~loading'
        BY <4>1, <4>2
      <4> QED
        BY <2>1, <4>1, <4>3 DEF Settled
    <3> QED
      BY <3>1, <3>2
  <2> QED
    BY <1>3, <2>2, <2>3, <2>4 DEF SessionIInv
<1> QED
  BY <1>5, <1>6

\* The router gets there.
LEMMA NavigationKeepsSound ==
    ASSUME SessionIInv, Navigated
    PROVE  SessionIInv'
<1>1. /\ going \in Pages /\ path' = going /\ going' = "nowhere" /\ refreshes \in Seq(Refreshes)
      /\ Bound' = Bound /\ UNCHANGED <<user, loading, stray>>
  BY DEF Navigated, SessionIInv, SessionTypeOK, Bound
<1>2. stray \/ SomeOvertaken \/ Settled
  BY DEF SessionIInv, Navigated, Settling
<1>3. CASE going = path
  <2>1. refreshes' = refreshes
    BY <1>3 DEF Navigated
  <2>2. SessionTypeOK'
    BY <1>1, <2>1 DEF SessionTypeOK
  <2>3. SomeOvertaken => SomeOvertaken'
    BY <2>1 DEF SomeOvertaken
  <2>4. Settled => Settled'
    BY <1>1, <2>1 DEF Settled
  <2> QED
    BY <1>1, <1>2, <2>2, <2>3, <2>4 DEF SessionIInv
<1>4. CASE going # path
  <2>1. refreshes' = Append(refreshes, Refresh(going))
    BY <1>4 DEF Navigated
  <2>2. Len(refreshes) \in Nat /\ Refresh(going) \in Refreshes /\ Refresh(going).from = going
    BY <1>1, RefreshTyped, LenProperties
  <2>3. /\ refreshes' \in Seq(Refreshes) /\ Len(refreshes') = Len(refreshes) + 1
        /\ \A i \in 1 .. Len(refreshes) : refreshes'[i] = refreshes[i]
        /\ refreshes'[Len(refreshes) + 1] = Refresh(going)
    BY <1>1, <2>1, <2>2, AppendProperties
  <2>4. SessionTypeOK'
    BY <1>1, <2>3 DEF SessionTypeOK
  <2>5. SomeOvertaken => SomeOvertaken'
    BY <2>2, <2>3 DEF SomeOvertaken
  <2>6. Settled => Settling'
    BY <1>1, <2>2, <2>3, EmptySeq DEF Settled, Settling
  <2> QED
    BY <1>1, <1>2, <2>4, <2>5, <2>6 DEF SessionIInv
<1> QED
  BY <1>3, <1>4

\* The API answers a refresh: what is remembered of it stays.
LEMMA AnswerKeepsSound ==
    ASSUME SessionIInv, NEW i \in 1 .. Len(refreshes), MeAnswered(i)
    PROVE  SessionIInv'
<1>1. refreshes \in Seq(Refreshes) /\ Len(refreshes) \in Nat
      /\ \A j \in 1 .. Len(refreshes) : refreshes[j] \in Refreshes
  BY LenProperties, ElementOfSeq DEF SessionIInv, SessionTypeOK
<1>2. PICK answer \in {"me", "401", "failed"} :
          refreshes' = [refreshes EXCEPT ![i] = [@ EXCEPT !.answer = answer]]
  BY DEF MeAnswered
<1> DEFINE r == [refreshes[i] EXCEPT !.answer = answer]
<1>3. r \in Refreshes /\ r.from = refreshes[i].from /\ r.overtaken = refreshes[i].overtaken
  <2>1. refreshes[i] \in Refreshes
    BY <1>1
  <2> QED
    BY <2>1 DEF Refreshes
<1> HIDE DEF r
<1>4. refreshes' = [refreshes EXCEPT ![i] = r]
  BY <1>2 DEF r
<1>5. /\ refreshes' \in Seq(Refreshes) /\ Len(refreshes') = Len(refreshes)
      /\ \A j \in 1 .. Len(refreshes) : refreshes'[j] = IF j = i THEN r ELSE refreshes[j]
  BY <1>1, <1>3, <1>4, ExceptSeq
<1>6. UNCHANGED <<path, going, user, loading, stray>>
  BY DEF MeAnswered
<1>7. SessionTypeOK'
  BY <1>5, <1>6 DEF SessionIInv, SessionTypeOK
<1>8. SomeOvertaken => SomeOvertaken'
  BY <1>1, <1>3, <1>5 DEF SomeOvertaken
<1>9. ~Settled
  BY <1>1, EmptySeq DEF Settled
<1>10. Settling => Settling'
  BY <1>1, <1>3, <1>5, <1>6 DEF Settling
<1> QED
  BY <1>6, <1>7, <1>8, <1>9, <1>10 DEF SessionIInv

LEMMA SessionStep == SessionIInv /\ [SessionNext]_sessionVars => SessionIInv'
<1> SUFFICES ASSUME SessionIInv, [SessionNext]_sessionVars PROVE SessionIInv'
  OBVIOUS
<1>1. ASSUME UNCHANGED <<path, going, user, loading, refreshes, stray>> PROVE SessionIInv'
  BY <1>1 DEF SessionIInv, SessionTypeOK, SomeOvertaken, Settled, Settling, Bound
<1>2. ASSUME NEW i \in DOMAIN refreshes, MeAnswered(i) \/ RefreshLands(i) PROVE SessionIInv'
  <2>1. i \in 1 .. Len(refreshes)
    BY LenProperties DEF SessionIInv, SessionTypeOK
  <2> QED
    BY <1>2, <2>1, AnswerKeepsSound, RefreshKeepsSound
<1>3. CASE SignIn \/ SignInAnswered \/ SignOut \/ SignOutAnswered \/ SessionEnds
  BY <1>3, <1>1 DEF SignIn, SignInAnswered, SignOut, SignOutAnswered, SessionEnds
<1>4. CASE RequestEmailChange \/ ConfirmEmailChange
  BY <1>4, <1>1 DEF RequestEmailChange, ConfirmEmailChange
<1>5. CASE LeaveForLogin \/ Reload
  <2>1. \E page \in Pages : Loaded(page)
    BY <1>5 DEF LeaveForLogin, Reload, Pages, SessionIInv, SessionTypeOK
  <2> QED
    BY <2>1, PageStarts DEF Loaded
<1>6. CASE UNCHANGED sessionVars
  BY <1>6, <1>1 DEF sessionVars
<1> QED
  BY <1>2, <1>3, <1>4, <1>5, <1>6, SignedKeepsSound, NavigationKeepsSound DEF SessionNext

LEMMA SessionSettles == SessionIInv => ConsoleSettles
<1> SUFFICES ASSUME SessionIInv, Resting, ~stray
             PROVE  ~loading /\ (user <=> path = "console")
  BY DEF ConsoleSettles
<1>1. Len(refreshes) = 0
  BY EmptySeq DEF Resting, SessionIInv, SessionTypeOK
<1>2. Settled
  BY <1>1 DEF SessionIInv, SomeOvertaken, Settling
<1>3. Bound = path
  BY DEF Bound, Resting
<1> QED
  BY <1>2, <1>3 DEF Settled

\* With nothing under way the console shows a user, or the login page its form, however
\* many refreshes are on their way at a time.
THEOREM ConsoleAlwaysSettles == SessionSpec => []ConsoleSettles
<1> QED
  BY SessionInitially, SessionStep, SessionSettles, PTL DEF SessionSpec

-----------------------------------------------------------------------------
(* The rows on display *)

RequestOK(r) ==
    r = [query |-> r.query, by |-> r.by, resolves |-> r.resolves, read |-> r.read,
         total |-> r.total, rows |-> r.rows]

ListingsOK == listings \in Seq(RowsIn(listings)) /\ \A i \in DOMAIN listings : RequestOK(listings[i])

\* The page has one request of its own at most, and it is for the query of the address bar.
OwnFitsQuery ==
    /\ \A i, j \in DOMAIN listings : Aborted(listings[i]) /\ Aborted(listings[j]) => i = j
    /\ \A i \in DOMAIN listings : Aborted(listings[i]) => listings[i].query = query

\* The inductive invariant of RowsFitQuery.
QueryIInv == ListingsOK /\ OwnFitsQuery /\ RowsFitQuery

LEMMA SeqOfOwnElements ==
    ASSUME NEW S, NEW s \in Seq(S)
    PROVE  s \in Seq(RowsIn(s)) /\ DOMAIN s = 1 .. Len(s) /\ Len(s) \in Nat
<1>1. Len(s) \in Nat /\ DOMAIN s = 1 .. Len(s) /\ s \in [1 .. Len(s) -> S]
  BY LenProperties
<1>2. s \in [1 .. Len(s) -> RowsIn(s)]
  BY <1>1 DEF RowsIn
<1> QED
  BY <1>1, <1>2, FunctionIsSeq

\* A request that stands as it left.
LEMMA AskedOK ==
    ASSUME NEW q, NEW by
    PROVE  RequestOK(Asked(q, by)) /\ Asked(q, by).query = q /\ Asked(q, by).by = by
BY DEF Asked, RequestOK

\* The click's request, or load() that follows it.
LEMMA ResolvesOK ==
    ASSUME NEW x, RequestOK(x), NEW n
    PROVE  LET r == [x EXCEPT !.resolves = n]
           IN  RequestOK(r) /\ r.by = x.by /\ r.query = x.query
<1> DEFINE r == [x EXCEPT !.resolves = n]
<1>1. x = [query |-> x.query, by |-> x.by, resolves |-> x.resolves, read |-> x.read,
           total |-> x.total, rows |-> x.rows]
  BY DEF RequestOK
<1>2. r = [query |-> x.query, by |-> x.by, resolves |-> n, read |-> x.read,
           total |-> x.total, rows |-> x.rows]
  BY <1>1
<1> HIDE DEF r
<1>3. RequestOK(r) /\ r.by = x.by /\ r.query = x.query
  BY <1>2 DEF RequestOK
<1> QED
  BY <1>3 DEF r

\* One request is changed, and stays by whom and for what it was.
LEMMA RequestChanges ==
    ASSUME QueryIInv, NEW i \in DOMAIN listings, NEW r, RequestOK(r),
           listings' = [listings EXCEPT ![i] = r],
           r.by = listings[i].by, r.query = listings[i].query, UNCHANGED <<query, listed, landed>>
    PROVE  QueryIInv'
<1> DEFINE S == RowsIn(listings) \union {r}
<1>1. listings \in Seq(RowsIn(listings)) /\ DOMAIN listings = 1 .. Len(listings)
  BY SeqOfOwnElements DEF QueryIInv, ListingsOK
<1>2. listings \in Seq(S)
  BY <1>1, SeqMonotonic
<1>3. /\ listings' \in Seq(S) /\ Len(listings') = Len(listings)
      /\ \A j \in 1 .. Len(listings) : listings'[j] = IF j = i THEN r ELSE listings[j]
  BY <1>1, <1>2, ExceptSeq
<1>4. listings' \in Seq(RowsIn(listings')) /\ DOMAIN listings' = DOMAIN listings
  BY <1>1, <1>3, SeqOfOwnElements
<1>5. ListingsOK'
  BY <1>1, <1>3, <1>4 DEF QueryIInv, ListingsOK
<1>6. OwnFitsQuery'
  BY <1>1, <1>3, <1>4 DEF QueryIInv, OwnFitsQuery, Aborted
<1>7. RowsFitQuery'
  BY DEF QueryIInv, RowsFitQuery
<1> QED
  BY <1>5, <1>6, <1>7 DEF QueryIInv

\* A request is over, landed or not.
LEMMA RequestEnds ==
    ASSUME ListingsOK, NEW i \in DOMAIN listings
    PROVE  /\ Without(listings, i) \in Seq(RowsIn(Without(listings, i)))
           /\ DOMAIN Without(listings, i) = 1 .. Len(Without(listings, i))
           /\ \A j \in DOMAIN Without(listings, i) : \E k \in DOMAIN listings \ {i} :
                 Without(listings, i)[j] = listings[k]
           /\ OwnFitsQuery => \A j, k \in DOMAIN Without(listings, i) :
                 Aborted(Without(listings, i)[j]) /\ Aborted(Without(listings, i)[k]) => j = k
<1> DEFINE w == Without(listings, i)
<1>1. listings \in Seq(RowsIn(listings)) /\ DOMAIN listings = 1 .. Len(listings)
      /\ Len(listings) \in Nat
  BY SeqOfOwnElements DEF ListingsOK
<1>2. /\ w \in Seq(RowsIn(listings)) /\ Len(w) = Len(listings) - 1
      /\ \A j \in 1 .. Len(listings) - 1 : w[j] = IF j < i THEN listings[j] ELSE listings[j + 1]
  BY <1>1, WithoutOne
<1>3. w \in Seq(RowsIn(w)) /\ DOMAIN w = 1 .. Len(w)
  BY <1>2, SeqOfOwnElements
<1> HIDE DEF w
<1>4. ASSUME NEW j \in DOMAIN w PROVE \E k \in DOMAIN listings \ {i} : w[j] = listings[k]
  <2>1. CASE j < i
    BY <1>1, <1>2, <1>3, <2>1
  <2>2. CASE ~(j < i)
    <3>1. j + 1 \in DOMAIN listings \ {i} /\ w[j] = listings[j + 1]
      BY <1>1, <1>2, <1>3, <2>2
    <3> QED
      BY <3>1
  <2> QED
    BY <2>1, <2>2
<1>5. ASSUME OwnFitsQuery, NEW j \in DOMAIN w, NEW k \in DOMAIN w, Aborted(w[j]), Aborted(w[k])
      PROVE  j = k
  <2> DEFINE old(n) == IF n < i THEN n ELSE n + 1
  <2>1. \A n \in DOMAIN w : old(n) \in DOMAIN listings /\ w[n] = listings[old(n)]
    BY <1>1, <1>2, <1>3
  <2>2. Aborted(listings[old(j)]) /\ Aborted(listings[old(k)])
    BY <1>5, <2>1
  <2> HIDE DEF old
  <2>3. old(j) = old(k)
    BY <1>5, <2>1, <2>2 DEF OwnFitsQuery
  <2> QED
    BY <1>1, <1>2, <1>3, <2>3 DEF old
<1> QED
  BY <1>3, <1>4, <1>5 DEF w

\* A request leaves.  If the page's own, the others are none of its.
LEMMA RequestLeaves ==
    ASSUME NEW S, NEW rest \in Seq(S), \A i \in DOMAIN rest : RequestOK(rest[i]),
           NEW r, RequestOK(r), listings' = Append(rest, r),
           Aborted(r) => r.query = query' /\ \A i \in DOMAIN rest : ~Aborted(rest[i]),
           \A i, j \in DOMAIN rest : Aborted(rest[i]) /\ Aborted(rest[j]) => i = j,
           \A i \in DOMAIN rest : Aborted(rest[i]) => rest[i].query = query'
    PROVE  ListingsOK' /\ OwnFitsQuery'
<1> DEFINE T == S \union {r}
<1>1. rest \in Seq(T) /\ Len(rest) \in Nat /\ DOMAIN rest = 1 .. Len(rest)
  BY SeqMonotonic, LenProperties
<1>2. /\ listings' \in Seq(T) /\ Len(listings') = Len(rest) + 1
      /\ \A i \in 1 .. Len(rest) : listings'[i] = rest[i]
      /\ listings'[Len(rest) + 1] = r
  BY <1>1, AppendProperties
<1>3. listings' \in Seq(RowsIn(listings')) /\ DOMAIN listings' = 1 .. Len(rest) + 1
  BY <1>2, SeqOfOwnElements
<1>4. \A i \in DOMAIN listings' : i \in DOMAIN rest \/ i = Len(rest) + 1
  BY <1>1, <1>3
<1>5. ListingsOK'
  BY <1>1, <1>2, <1>3, <1>4 DEF ListingsOK
<1>6. OwnFitsQuery'
  BY <1>1, <1>2, <1>3, <1>4 DEF OwnFitsQuery, Aborted
<1> QED
  BY <1>5, <1>6

LEMMA OneRequest ==
    ASSUME listings = <<Asked(query, "page")>>
    PROVE  ListingsOK /\ OwnFitsQuery
<1> DEFINE r == Asked(query, "page")
<1>1. RequestOK(r) /\ r.query = query
  BY AskedOK
<1> HIDE DEF r
<1>2. listings = <<r>>
  BY DEF r
<1>3. listings \in Seq({r}) /\ DOMAIN listings = {1} /\ listings[1] = r
  BY <1>2
<1>4. listings \in Seq(RowsIn(listings))
  BY <1>3, SeqOfOwnElements
<1> QED
  BY <1>1, <1>3, <1>4 DEF ListingsOK, OwnFitsQuery

LEMMA QueryInitially == ListInit => QueryIInv
<1> SUFFICES ASSUME ListInit PROVE QueryIInv
  OBVIOUS
<1>1. ListingsOK /\ OwnFitsQuery
  BY OneRequest DEF ListInit
<1>2. RowsFitQuery
  BY DEF ListInit, RowsFitQuery
<1> QED
  BY <1>1, <1>2 DEF QueryIInv

\* The effect of another query.
LEMMA GoToKeepsFit ==
    ASSUME QueryIInv, NEW q, GoTo(q)
    PROVE  QueryIInv'
<1>0. /\ listings \in Seq(RowsIn(listings)) /\ \A i \in DOMAIN listings : RequestOK(listings[i])
      /\ RequestOK(Asked(q, "page")) /\ Asked(q, "page").query = query'
  BY AskedOK DEF QueryIInv, ListingsOK, GoTo
<1>1. ASSUME \A i \in DOMAIN listings : ~Aborted(listings[i]),
             listings' = Append(listings, Asked(q, "page"))
      PROVE  ListingsOK' /\ OwnFitsQuery'
  BY <1>0, <1>1, RequestLeaves
<1>2. ASSUME NEW i \in DOMAIN listings, Aborted(listings[i]),
             listings' = Append(Without(listings, i), Asked(q, "page"))
      PROVE  ListingsOK' /\ OwnFitsQuery'
  <2> DEFINE w == Without(listings, i)
  <2>1. /\ w \in Seq(RowsIn(w))
        /\ \A j \in DOMAIN w : \E k \in DOMAIN listings \ {i} : w[j] = listings[k]
    BY RequestEnds DEF QueryIInv
  <2> HIDE DEF w
  <2>2. \A j \in DOMAIN w : RequestOK(w[j]) /\ ~Aborted(w[j])
    BY <1>0, <1>2, <2>1 DEF QueryIInv, OwnFitsQuery
  <2>3. listings' = Append(w, Asked(q, "page"))
    BY <1>2 DEF w
  <2> QED
    BY <1>0, <2>1, <2>2, <2>3, RequestLeaves
<1>3. ListingsOK' /\ OwnFitsQuery'
  BY <1>1, <1>2 DEF GoTo
<1>4. RowsFitQuery'
  BY DEF GoTo, RowsFitQuery
<1> QED
  BY <1>3, <1>4 DEF QueryIInv

\* load() after a Resolve or a Retry is none of the page's own.
LEMMA ClickKeepsFit ==
    ASSUME QueryIInv, NEW r, RequestOK(r), r.by = "click", listings' = Append(listings, r),
           UNCHANGED <<query, listed, landed>>
    PROVE  QueryIInv'
<1>1. listings \in Seq(RowsIn(listings)) /\ \A i \in DOMAIN listings : RequestOK(listings[i])
  BY DEF QueryIInv, ListingsOK
<1>2. /\ \A i, j \in DOMAIN listings : Aborted(listings[i]) /\ Aborted(listings[j]) => i = j
      /\ \A i \in DOMAIN listings : Aborted(listings[i]) => listings[i].query = query'
      /\ ~Aborted(r)
  BY DEF QueryIInv, OwnFitsQuery, Aborted
<1>3. ListingsOK' /\ OwnFitsQuery'
  BY <1>1, <1>2, RequestLeaves
<1>4. RowsFitQuery'
  BY DEF QueryIInv, RowsFitQuery
<1> QED
  BY <1>3, <1>4 DEF QueryIInv

LEMMA ActsKeepFit ==
    ASSUME QueryIInv, PageActs
    PROVE  QueryIInv'
<1>1. ASSUME NEW filter \in Filters, SetFilter(filter) PROVE QueryIInv'
  BY <1>1, GoToKeepsFit DEF SetFilter
<1>2. ASSUME NEW page \in 1 .. MaxRows, TurnPage(page) PROVE QueryIInv'
  BY <1>2, GoToKeepsFit DEF TurnPage
<1>3. ASSUME NEW id, Resolve(id) PROVE QueryIInv'
  <2> DEFINE r == [Asked(query, "click") EXCEPT !.resolves = id]
  <2>1. RequestOK(r) /\ r.by = "click"
    <3> DEFINE x == Asked(query, "click")
    <3>1. RequestOK(x) /\ x.by = "click"
      BY AskedOK
    <3> HIDE DEF x
    <3>2. LET y == [x EXCEPT !.resolves = id] IN RequestOK(y) /\ y.by = x.by
      BY <3>1, ResolvesOK
    <3> QED
      BY <3>1, <3>2 DEF x
  <2>2. listings' = Append(listings, r) /\ UNCHANGED <<query, listed, landed>>
    BY <1>3 DEF Resolve
  <2> HIDE DEF r
  <2> QED
    BY <2>1, <2>2, ClickKeepsFit
<1>4. CASE Retry
  <2>1. UNCHANGED <<query, listed, landed>>
    BY <1>4 DEF Retry
  <2>2. CASE listings' = Append(listings, Asked(query, "click"))
    BY <2>1, <2>2, AskedOK, ClickKeepsFit
  <2>3. CASE listings' = <<Asked(query, "page")>>
    <3> DEFINE r == Asked(query, "page")
    <3>1. RequestOK(r) /\ r.query = query'
      BY <2>1, AskedOK
    <3> HIDE DEF r
    <3>2. listings' = <<r>>
      BY <2>3 DEF r
    <3>3. listings' \in Seq({r}) /\ DOMAIN listings' = {1} /\ listings'[1] = r
      BY <3>2
    <3>4. listings' \in Seq(RowsIn(listings'))
      BY <3>3, SeqOfOwnElements
    <3>5. ListingsOK' /\ OwnFitsQuery'
      BY <3>1, <3>3, <3>4 DEF ListingsOK, OwnFitsQuery
    <3>6. RowsFitQuery'
      BY <2>1 DEF QueryIInv, RowsFitQuery
    <3> QED
      BY <3>5, <3>6 DEF QueryIInv
  <2> QED
    BY <1>4, <2>2, <2>3 DEF Retry
<1> QED
  BY <1>1, <1>2, <1>3, <1>4 DEF PageActs

LEMMA ListingsKeepFit ==
    ASSUME QueryIInv, ListingSteps
    PROVE  QueryIInv'
<1>0. \A i \in DOMAIN listings : RequestOK(listings[i])
  BY DEF QueryIInv, ListingsOK
<1>1. ASSUME NEW i \in DOMAIN listings, ReadRows(i) PROVE QueryIInv'
  <2> DEFINE q == listings[i].query
             r == [query |-> q, by |-> listings[i].by, resolves |-> NoRow, read |-> TRUE,
                   total |-> CountOf(q.filter), rows |-> RowsOfPage(q)]
  <2>1. RequestOK(r) /\ r.by = listings[i].by /\ r.query = listings[i].query
    BY DEF RequestOK
  <2>2. listings' = [listings EXCEPT ![i] = r] /\ UNCHANGED <<query, listed, landed>>
    BY <1>1 DEF ReadRows
  <2> HIDE DEF r
  <2> QED
    BY <2>1, <2>2, RequestChanges
<1>2. ASSUME NEW i \in DOMAIN listings, Resolved(i) PROVE QueryIInv'
  <2> DEFINE r == [listings[i] EXCEPT !.resolves = NoRow]
  <2>1. RequestOK(r) /\ r.by = listings[i].by /\ r.query = listings[i].query
    <3> DEFINE x == listings[i]
    <3>1. RequestOK(x)
      BY <1>0
    <3> HIDE DEF x
    <3>2. LET y == [x EXCEPT !.resolves = NoRow]
          IN  RequestOK(y) /\ y.by = x.by /\ y.query = x.query
      BY <3>1, ResolvesOK
    <3> QED
      BY <3>2 DEF x
  <2>2. listings' = [listings EXCEPT ![i] = r] /\ UNCHANGED <<query, listed, landed>>
    BY <1>2 DEF Resolved
  <2> HIDE DEF r
  <2> QED
    BY <2>1, <2>2, RequestChanges
<1>3. ASSUME NEW i \in DOMAIN listings, listings' = Without(listings, i), query' = query
      PROVE  ListingsOK' /\ OwnFitsQuery'
  <2>1. /\ listings' \in Seq(RowsIn(listings'))
        /\ \A j \in DOMAIN listings' : \E k \in DOMAIN listings : listings'[j] = listings[k]
        /\ \A j, k \in DOMAIN listings' : Aborted(listings'[j]) /\ Aborted(listings'[k]) => j = k
    BY <1>3, RequestEnds DEF QueryIInv
  <2>2. ListingsOK'
    BY <1>0, <2>1 DEF ListingsOK
  <2>3. \A j \in DOMAIN listings' : Aborted(listings'[j]) => listings'[j].query = query'
    BY <1>3, <2>1 DEF QueryIInv, OwnFitsQuery
  <2> QED
    BY <2>1, <2>2, <2>3 DEF OwnFitsQuery, Aborted
<1>4. ASSUME NEW i \in DOMAIN listings, ListingFails(i) PROVE QueryIInv'
  <2>1. ListingsOK' /\ OwnFitsQuery'
    BY <1>3, <1>4 DEF ListingFails
  <2>2. RowsFitQuery'
    BY <1>4 DEF ListingFails, QueryIInv, RowsFitQuery
  <2> QED
    BY <2>1, <2>2 DEF QueryIInv
<1>5. ASSUME NEW i \in DOMAIN listings, Listed(i) PROVE QueryIInv'
  <2>1. ListingsOK' /\ OwnFitsQuery'
    BY <1>3, <1>5 DEF Listed
  <2>2. listed'.by = listings[i].by /\ listed'.query = listings[i].query /\ query' = query
    BY <1>5 DEF Listed
  <2>3. RowsFitQuery'
    BY <2>2 DEF QueryIInv, OwnFitsQuery, Aborted, RowsFitQuery
  <2> QED
    BY <2>1, <2>3 DEF QueryIInv
<1> QED
  BY <1>1, <1>2, <1>4, <1>5 DEF ListingSteps

LEMMA QueryStep == QueryIInv /\ [ListNext]_listVars => QueryIInv'
<1> SUFFICES ASSUME QueryIInv, [ListNext]_listVars PROVE QueryIInv'
  OBVIOUS
<1>1. ASSUME UNCHANGED <<query, listings, listed, landed>> PROVE QueryIInv'
  BY <1>1 DEF QueryIInv, ListingsOK, OwnFitsQuery, RowsFitQuery
<1>2. CASE RowsChange
  BY <1>1, <1>2 DEF RowsChange, RowWritten, SeenAgain, ChangedElsewhere
<1>3. CASE ExportSteps
  BY <1>1, <1>3
     DEF ExportSteps, Export, ExportCounts, ExportReads, ExportDelivered, ExportEnds
<1>4. CASE UNCHANGED listVars
  BY <1>1, <1>4 DEF listVars
<1> QED
  BY <1>2, <1>3, <1>4, ActsKeepFit, ListingsKeepFit DEF ListNext

\* The rows on display are those of the query in the address bar, once the page's own
\* request for it has landed, in whatever order any number of requests land.
THEOREM TablesFitQuery == ListSpec => []RowsFitQuery
<1>1. QueryIInv => RowsFitQuery
  BY DEF QueryIInv
<1> QED
  BY QueryInitially, QueryStep, <1>1, PTL DEF ListSpec

-----------------------------------------------------------------------------
(* The export and its note *)

Rows == [id : Nat, mark : Marks]

\* Between its two reads an export has counted all rows but those written since.
CountHolds ==
    exported.stage = "counted" =>
        exported.total \in Nat /\ CountOf(exported.filter) <= exported.total + written

\* What was answered tells whether it is cut.
AnswerTellsCut ==
    exported.stage \in {"answered", "delivered"} =>
        /\ exported = [stage |-> exported.stage, truncated |-> exported.truncated,
                       missing |-> exported.missing]
        /\ ~exported.truncated => exported.missing <= written

\* The inductive invariant of ExportTellsCut.
ExportIInv == tableRows \in Seq(Rows) /\ written \in Nat /\ CountHolds /\ AnswerTellsCut

LEMMA CountIsNat ==
    ASSUME tableRows \in Seq(Rows), NEW filter
    PROVE  /\ IsFiniteSet(RowsIn(tableRows))
           /\ IsFiniteSet({row \in RowsIn(tableRows) : Matches(filter, row)})
           /\ CountOf(filter) \in Nat
<1>1. DOMAIN tableRows = 1 .. Len(tableRows) /\ Len(tableRows) \in Nat
  BY LenProperties
<1>2. IsFiniteSet(1 .. Len(tableRows))
  BY <1>1, FS_Interval
<1>3. tableRows \in [1 .. Len(tableRows) -> RowsIn(tableRows)]
  BY <1>1, LenProperties DEF RowsIn
<1>4. tableRows \in Surjection(1 .. Len(tableRows), RowsIn(tableRows))
  BY <1>1, <1>3 DEF Surjection, RowsIn
<1>5. IsFiniteSet(RowsIn(tableRows))
  BY <1>2, <1>4, FS_Surjection
<1>6. IsFiniteSet({row \in RowsIn(tableRows) : Matches(filter, row)})
  BY <1>5, FS_Subset
<1> QED
  BY <1>5, <1>6, FS_CardinalityType DEF CountOf

\* A write brings one row more at most.
LEMMA OneRowMore ==
    ASSUME tableRows \in Seq(Rows), NEW new, RowsIn(tableRows)' \subseteq RowsIn(tableRows) \union {new},
           NEW filter
    PROVE  CountOf(filter)' <= CountOf(filter) + 1 /\ CountOf(filter)' \in Nat
<1> DEFINE A == {row \in RowsIn(tableRows) : Matches(filter, row)}
           B == {row \in RowsIn(tableRows)' : Matches(filter, row)}
<1>1. IsFiniteSet(A) /\ CountOf(filter) = Cardinality(A) /\ Cardinality(A) \in Nat
  BY CountIsNat DEF CountOf
<1>2. CountOf(filter)' = Cardinality(B)
  BY DEF CountOf, Matches
<1>3. B \in SUBSET (A \union {new})
  OBVIOUS
<1> HIDE DEF A, B
<1>4. IsFiniteSet(A \union {new}) /\ Cardinality(A \union {new}) <= Cardinality(A) + 1
      /\ Cardinality(A \union {new}) \in Nat
  <2>1. /\ IsFiniteSet(A \union {new})
        /\ Cardinality(A \union {new})
             = IF new \in A THEN Cardinality(A) ELSE Cardinality(A) + 1
    BY <1>1, FS_AddElement
  <2> QED
    BY <1>1, <2>1
<1>5. IsFiniteSet(B) /\ Cardinality(B) <= Cardinality(A \union {new})
  BY <1>3, <1>4, FS_Subset
<1>6. Cardinality(B) \in Nat
  BY <1>5, FS_CardinalityType
<1> QED
  BY <1>1, <1>2, <1>4, <1>5, <1>6

\* The rows as they are written: logged, seen again, or changed elsewhere.
LEMMA WritesAddOneRow ==
    ASSUME tableRows \in Seq(Rows), RowsChange
    PROVE  /\ tableRows' \in Seq(Rows)
           /\ \E new : RowsIn(tableRows)' \subseteq RowsIn(tableRows) \union {new}
           /\ written' = Disturbed /\ UNCHANGED exported
<1>1. DOMAIN tableRows = 1 .. Len(tableRows) /\ Len(tableRows) \in Nat
      /\ \A i \in DOMAIN tableRows : tableRows[i] \in Rows
  BY LenProperties, ElementOfSeq
<1>2. ASSUME NEW rest \in Seq(Rows), \A i \in 1 .. Len(rest) : rest[i] \in RowsIn(tableRows),
             NEW new \in Rows, tableRows' = <<new>> \o rest
      PROVE  tableRows' \in Seq(Rows) /\ RowsIn(tableRows)' \subseteq RowsIn(tableRows) \union {new}
  <2>1. <<new>> \in Seq(Rows) /\ Len(<<new>>) = 1 /\ <<new>>[1] = new
    OBVIOUS
  <2>2. /\ tableRows' \in Seq(Rows) /\ Len(tableRows') = 1 + Len(rest)
        /\ \A i \in 1 .. 1 + Len(rest) : tableRows'[i] = IF i <= 1 THEN <<new>>[i] ELSE rest[i - 1]
    BY <1>2, <2>1, ConcatProperties
  <2>3. DOMAIN tableRows' = 1 .. 1 + Len(rest) /\ Len(rest) \in Nat
    BY <2>2, LenProperties
  <2>4. \A i \in DOMAIN tableRows' : tableRows'[i] = new \/ tableRows'[i] \in RowsIn(tableRows)
    BY <1>2, <2>1, <2>2, <2>3
  <2> QED
    BY <2>2, <2>4 DEF RowsIn
<1>3. ASSUME NEW mark \in Marks, RowWritten(mark)
      PROVE  tableRows' \in Seq(Rows) /\ \E new : RowsIn(tableRows)' \subseteq RowsIn(tableRows) \union {new}
  <2> DEFINE new == [id |-> NextRowId, mark |-> mark]
  <2>1. new \in Rows
    BY <1>1 DEF NextRowId, Rows
  <2>2. \A i \in 1 .. Len(tableRows) : tableRows[i] \in RowsIn(tableRows)
    BY <1>1 DEF RowsIn
  <2>3. tableRows' = <<new>> \o tableRows
    BY <1>3 DEF RowWritten
  <2> HIDE DEF new
  <2> QED
    BY <1>2, <2>1, <2>2, <2>3
<1>4. ASSUME NEW i \in DOMAIN tableRows, SeenAgain(i)
      PROVE  tableRows' \in Seq(Rows) /\ \E new : RowsIn(tableRows)' \subseteq RowsIn(tableRows) \union {new}
  <2> DEFINE new == [tableRows[i] EXCEPT !.mark = "OPEN"]
             rest == Without(tableRows, i)
  <2>1. new \in Rows
    <3>1. tableRows[i] \in Rows
      BY <1>1
    <3> QED
      BY <3>1 DEF Rows, Marks
  <2>2. /\ rest \in Seq(Rows) /\ Len(rest) = Len(tableRows) - 1
        /\ \A j \in 1 .. Len(tableRows) - 1 :
               rest[j] = IF j < i THEN tableRows[j] ELSE tableRows[j + 1]
    BY <1>1, WithoutOne
  <2>3. tableRows' = <<new>> \o rest
    BY <1>4 DEF SeenAgain
  <2> HIDE DEF new, rest
  <2>4. \A j \in 1 .. Len(rest) : rest[j] \in RowsIn(tableRows)
    BY <1>1, <2>2 DEF RowsIn
  <2> QED
    BY <1>2, <2>1, <2>2, <2>3, <2>4
<1>5. ASSUME NEW i \in DOMAIN tableRows, ChangedElsewhere(i)
      PROVE  tableRows' \in Seq(Rows) /\ \E new : RowsIn(tableRows)' \subseteq RowsIn(tableRows) \union {new}
  <2>1. PICK mark \in Marks : tableRows' = [tableRows EXCEPT ![i] = [@ EXCEPT !.mark = mark]]
    BY <1>5 DEF ChangedElsewhere
  <2> DEFINE new == [tableRows[i] EXCEPT !.mark = mark]
  <2>2. new \in Rows
    <3>1. tableRows[i] \in Rows
      BY <1>1
    <3> QED
      BY <3>1 DEF Rows
  <2>3. tableRows' = [tableRows EXCEPT ![i] = new]
    BY <2>1
  <2> HIDE DEF new
  <2>4. tableRows' \in Seq(Rows) /\ DOMAIN tableRows' = DOMAIN tableRows
        /\ \A j \in DOMAIN tableRows : tableRows'[j] = IF j = i THEN new ELSE tableRows[j]
    BY <1>1, <2>2, <2>3, ExceptSeq
  <2> QED
    BY <2>4 DEF RowsIn
<1>6. written' = Disturbed /\ UNCHANGED exported
  BY DEF RowsChange, RowWritten, SeenAgain, ChangedElsewhere
<1> QED
  BY <1>3, <1>4, <1>5, <1>6 DEF RowsChange

LEMMA ExportInitially == ListInit => ExportIInv
<1> SUFFICES ASSUME ListInit PROVE ExportIInv
  OBVIOUS
<1>1. tableRows \in Seq(Rows) /\ written \in Nat
  BY EmptySeq DEF ListInit
<1>2. exported.stage = "none"
  BY DEF ListInit, NoExport
<1> QED
  BY <1>1, <1>2 DEF ExportIInv, CountHolds, AnswerTellsCut

\* Rows change while the export is read, or when it is none of its business.
LEMMA RowsKeepTelling ==
    ASSUME ExportIInv, RowsChange
    PROVE  ExportIInv'
<1>1. PICK new : RowsIn(tableRows)' \subseteq RowsIn(tableRows) \union {new}
  BY WritesAddOneRow DEF ExportIInv
<1>2. tableRows' \in Seq(Rows) /\ written' = Disturbed /\ exported' = exported /\ written' \in Nat
  BY WritesAddOneRow DEF ExportIInv, Disturbed
<1>3. CountHolds'
  <2>1. PICK filter : filter = exported.filter
    OBVIOUS
  <2>2. ASSUME exported.stage = "counted"
        PROVE  exported.total \in Nat /\ CountOf(filter)' <= exported.total + written'
    <3>1. exported.total \in Nat /\ CountOf(filter) <= exported.total + written
      BY <2>1, <2>2 DEF ExportIInv, CountHolds
    <3>2. written' = written + 1
      BY <1>2, <2>2 DEF Disturbed, Reading
    <3>3. CountOf(filter) \in Nat
      BY CountIsNat DEF ExportIInv
    <3>4. CountOf(filter)' <= CountOf(filter) + 1 /\ CountOf(filter)' \in Nat
      BY <1>1, OneRowMore DEF ExportIInv
    <3> QED
      BY <3>1, <3>2, <3>3, <3>4 DEF ExportIInv
  <2>3. CountOf(exported.filter)' = CountOf(filter)'
    BY <1>2, <2>1 DEF CountOf
  <2> QED
    BY <1>2, <2>2, <2>3 DEF CountHolds
<1>4. AnswerTellsCut'
  BY <1>2 DEF ExportIInv, AnswerTellsCut, Disturbed, Reading
<1> QED
  BY <1>2, <1>3, <1>4 DEF ExportIInv

\* The steps of the export itself.
LEMMA ExportKeepsTelling ==
    ASSUME ExportIInv, ExportSteps
    PROVE  ExportIInv'
<1>1. tableRows' = tableRows /\ tableRows \in Seq(Rows) /\ written \in Nat /\ written' \in Nat
  BY DEF ExportIInv, ExportSteps, Export, ExportCounts, ExportReads, ExportDelivered, ExportEnds
<1>2. CASE Export \/ ExportEnds
  <2>1. exported'.stage \in {"asked", "none"}
    BY <1>2 DEF Export, ExportEnds, NoExport
  <2> QED
    BY <1>1, <2>1 DEF ExportIInv, CountHolds, AnswerTellsCut
<1>3. CASE ExportCounts
  <2>1. PICK filter : filter = exported.filter
    OBVIOUS
  <2>2. exported' = [stage |-> "counted", filter |-> filter, total |-> CountOf(filter)]
        /\ written' = written
    BY <1>3, <2>1 DEF ExportCounts
  <2>3. exported'.filter = filter /\ exported'.total = CountOf(filter)
        /\ exported'.stage = "counted"
    BY <2>2
  <2>4. CountOf(filter) \in Nat
    BY <1>1, CountIsNat
  <2>5. CountOf(exported.filter)' = CountOf(filter)
    BY <1>1, <2>3 DEF CountOf
  <2>6. CountHolds'
    BY <1>1, <2>2, <2>3, <2>4, <2>5 DEF CountHolds
  <2>7. AnswerTellsCut'
    BY <2>3 DEF AnswerTellsCut
  <2> QED
    BY <1>1, <2>6, <2>7 DEF ExportIInv
<1>4. CASE ExportReads
  <2> DEFINE matching == CountOf(exported.filter)
             rows     == Least(matching, EXPORT_CAP)
  <2>1. /\ exported' = [stage |-> "answered", truncated |-> IsCut(exported.total, rows),
                        missing |-> matching - rows]
        /\ written' = written
    BY <1>4 DEF ExportReads
  <2>2. matching \in Nat /\ exported.total \in Nat /\ matching <= exported.total + written
    BY <1>1, <1>4, CountIsNat DEF ExportReads, ExportIInv, CountHolds
  <2> HIDE DEF matching
  <2>3. rows \in Int
    BY <2>2, TablesAssumption DEF Least
  <2> HIDE DEF rows
  <2>4. ~IsCut(exported.total, rows) => matching - rows <= written
    BY <1>1, <2>2, <2>3 DEF IsCut
  <2>5. /\ exported'.stage = "answered" /\ exported'.missing = matching - rows
        /\ exported'.truncated = IsCut(exported.total, rows)
        /\ exported' = [stage |-> exported'.stage, truncated |-> exported'.truncated,
                        missing |-> exported'.missing]
    BY <2>1
  <2>6. AnswerTellsCut'
    BY <2>1, <2>4, <2>5 DEF AnswerTellsCut
  <2>7. CountHolds'
    BY <2>5 DEF CountHolds
  <2> QED
    BY <1>1, <2>6, <2>7 DEF ExportIInv
<1>5. CASE ExportDelivered
  <2> DEFINE e == exported
  <2>1. /\ e = [stage |-> "answered", truncated |-> e.truncated, missing |-> e.missing]
        /\ ~e.truncated => e.missing <= written
    BY <1>5 DEF ExportDelivered, ExportIInv, AnswerTellsCut
  <2>2. exported' = [e EXCEPT !.stage = "delivered"] /\ written' = written
    BY <1>5 DEF ExportDelivered
  <2> HIDE DEF e
  <2>3. exported' = [stage |-> "delivered", truncated |-> e.truncated, missing |-> e.missing]
    BY <2>1, <2>2
  <2>4. exported'.stage = "delivered" /\ exported'.truncated = e.truncated
        /\ exported'.missing = e.missing
    BY <2>3
  <2>5. AnswerTellsCut'
    BY <2>1, <2>2, <2>3, <2>4 DEF AnswerTellsCut
  <2>6. CountHolds'
    BY <2>4 DEF CountHolds
  <2> QED
    BY <1>1, <2>5, <2>6 DEF ExportIInv
<1> QED
  BY <1>2, <1>3, <1>4, <1>5 DEF ExportSteps

\* While there is no export.
LEMMA NothingToTell ==
    ASSUME ExportIInv, exported = NoExport, PageActs \/ ListingSteps
    PROVE  ExportIInv'
<1>1. exported' = exported /\ exported.stage = "none"
  BY DEF PageActs, SetFilter, TurnPage, GoTo, Resolve, Retry, ListingSteps, ReadRows, Listed,
         ListingFails, Resolved, NoExport
<1>2. CASE UNCHANGED <<tableRows, written>>
  BY <1>1, <1>2 DEF ExportIInv, CountHolds, AnswerTellsCut
<1>3. ASSUME NEW i \in DOMAIN listings, Resolved(i) PROVE ExportIInv'
  <2>1. DOMAIN tableRows = 1 .. Len(tableRows) /\ Len(tableRows) \in Nat
        /\ \A n \in DOMAIN tableRows : tableRows[n] \in Rows
    BY LenProperties, ElementOfSeq DEF ExportIInv
  <2>2. ASSUME NEW row \in Rows PROVE [row EXCEPT !.mark = "RESOLVED"] \in Rows
    BY DEF Rows, Marks
  <2>3. tableRows' \in [1 .. Len(tableRows) -> Rows]
    BY <1>3, <2>1, <2>2 DEF Resolved
  <2>4. tableRows' \in Seq(Rows)
    BY <2>1, <2>3, FunctionIsSeq
  <2>5. written' \in Nat
    BY <1>3 DEF Resolved, Disturbed, ExportIInv
  <2> QED
    BY <1>1, <2>4, <2>5 DEF ExportIInv, CountHolds, AnswerTellsCut
<1>4. PageActs => UNCHANGED <<tableRows, written>>
  BY DEF PageActs, SetFilter, TurnPage, GoTo, Resolve, Retry
<1>5. ListingSteps => UNCHANGED <<tableRows, written>> \/ \E i \in DOMAIN listings : Resolved(i)
  BY DEF ListingSteps, ReadRows, Listed, ListingFails
<1> QED
  BY <1>2, <1>3, <1>4, <1>5

LEMMA ExportStep == ExportIInv /\ [ListNext]_listVars => ExportIInv'
<1> SUFFICES ASSUME ExportIInv, [ListNext]_listVars PROVE ExportIInv'
  OBVIOUS
<1>1. CASE UNCHANGED listVars
  BY <1>1 DEF listVars, ExportIInv, CountHolds, AnswerTellsCut, CountOf
<1> QED
  BY <1>1, RowsKeepTelling, ExportKeepsTelling, NothingToTell DEF ListNext

\* An export that does not say that it is cut lacks no more rows than were written while
\* it was read, for any cap and however many rows there are.
THEOREM ExportsTellCut == ListSpec => []ExportTellsCut
<1>1. ExportIInv => ExportTellsCut
  BY DEF ExportIInv, AnswerTellsCut, ExportTellsCut
<1> QED
  BY ExportInitially, ExportStep, <1>1, PTL DEF ListSpec

-----------------------------------------------------------------------------
(* What crosses to and from the providers *)

\* The inductive invariant of CrossesAsPdf: the files at both ends have a size.
CrossIInv ==
    /\ store \in Stores
    /\ remote.size \in Int /\ own.size \in Int
    /\ CrossesAsPdf

LEMMA FilesHaveSizes == \A f \in RemoteFiles \union LocalFiles : f.size \in Int
<1> DEFINE large   == [Paper EXCEPT !.size = CLOUD_CAP + 1]
           foreign == [Paper EXCEPT !.magic = FALSE]
           unnamed == [Paper EXCEPT !.named = FALSE]
           outside == [unnamed EXCEPT !.inside = FALSE]
<1>1. Paper.size = CLOUD_CAP /\ large.size = CLOUD_CAP + 1 /\ foreign.size = CLOUD_CAP
  BY DEF Paper
<1>2. "size" \in DOMAIN unnamed /\ unnamed.size = CLOUD_CAP
  BY DEF Paper
<1>3. RemoteFiles \union LocalFiles = {Paper, large, foreign, outside}
  BY DEF RemoteFiles, LocalFiles, Unfit
<1> HIDE DEF unnamed
<1>4. outside.size = CLOUD_CAP
  BY <1>2
<1> HIDE DEF large, foreign, outside
<1> QED
  BY <1>1, <1>3, <1>4, CapAssumption

\* What an export takes is a PDF within the cap.
LEMMA UploadsArePdf ==
    ASSUME store \in Stores, NEW f, f.size \in Int, Uploads(f)
    PROVE  f.magic /\ f.size \in 1 .. CLOUD_CAP /\ remote' \in {remote, f}
<1>1. UploadPasses(f) /\ remote' \in {remote, f}
  BY DEF Uploads, DriveUpload, DropboxUpload, OneDriveUpload, Stores
<1>2. f.magic /\ f.size \in 1 .. CLOUD_CAP
  BY <1>1, CapAssumption DEF UploadPasses, IsPdfMagic, WithinCap
<1> QED
  BY <1>1, <1>2

LEMMA CrossInitially == CloudFilesInit => CrossIInv
<1> SUFFICES ASSUME CloudFilesInit PROVE CrossIInv
  OBVIOUS
<1>1. remote \in RemoteFiles \union {Paper} /\ own \in LocalFiles \union {Paper}
  BY DEF CloudFilesInit
<1>2. remote.size \in Int /\ own.size \in Int
  BY <1>1, FilesHaveSizes DEF RemoteFiles
<1> QED
  BY <1>2 DEF CloudFilesInit, CrossIInv, CrossesAsPdf

LEMMA CrossStep == CrossIInv /\ [CloudFilesNext]_cfVars => CrossIInv'
<1> SUFFICES ASSUME CrossIInv, [CloudFilesNext]_cfVars PROVE CrossIInv'
  OBVIOUS
<1>0. ASSUME UNCHANGED <<store, remote, own>>, received' \subseteq received,
             taken' \subseteq taken
      PROVE  CrossIInv'
  BY <1>0 DEF CrossIInv, CrossesAsPdf
<1>1. CASE Click \/ TicksConsent \/ DriveRetry \/ GenericRetry
  <2>1. UNCHANGED <<store, remote, own, received, taken>>
    BY <1>1 DEF Click, TicksConsent, DriveRetry, GenericRetry, Connect, DriveDisconnect,
                GenericDisconnect, Import, Pick, ExportOwn, ListAgain, AsksConsent, Environment
  <2> QED
    BY <2>1, <1>0
<1>2. CASE StatusAnswered \/ ButtonStatus \/ ButtonClick \/ LinkLost
  <2>1. UNCHANGED <<store, remote, own, received, taken>>
    BY <1>2 DEF StatusAnswered, ButtonStatus, ButtonClick, LinkLost, Environment, ExportOwn
  <2> QED
    BY <2>1, <1>0
<1>3. CASE \E op \in {"status", "list", "import", "export"} : ListAnswered(op)
  <2>1. UNCHANGED <<store, remote, own, received, taken>>
    BY <1>3 DEF ListAnswered, Environment
  <2> QED
    BY <2>1, <1>0
<1>4. CASE ConnectAnswered \/ DisconnectAnswered
  <2>1. UNCHANGED <<store, remote, own>> /\ received' \subseteq received /\ taken' \subseteq taken
    BY <1>4 DEF ConnectAnswered, DisconnectAnswered, PageLoads, Environment
  <2> QED
    BY <2>1, <1>0
<1>5. CASE ImportReadsMeta \/ ImportFails \/ PickerLoads \/ Picked \/ PickerFails
  <2>1. UNCHANGED <<store, remote, own, received, taken>>
    BY <1>5 DEF ImportReadsMeta, ImportFails, PickerLoads, Picked, PickerFails, Environment
  <2> QED
    BY <2>1, <1>0
<1>6. CASE ImportAnswered
  <2>1. remote.magic /\ remote.size \in 1 .. CLOUD_CAP
    BY <1>6, CapAssumption DEF ImportAnswered, WithinCap, IsPdfMagic, CrossIInv
  <2>2. UNCHANGED <<store, remote, own, taken>> /\ received' = {remote}
    BY <1>6 DEF ImportAnswered, Environment
  <2> QED
    BY <2>1, <2>2 DEF CrossIInv, CrossesAsPdf
<1>7. CASE ExportAnswered \/ ButtonAnswered
  <2>1. UNCHANGED <<store, own, received>>
    BY <1>7 DEF ExportAnswered, ButtonAnswered
  <2>2. \/ Uploads(own) /\ taken' = {own}
        \/ UNCHANGED <<taken, remote>>
    BY <1>7 DEF ExportAnswered, ButtonAnswered
  <2>3. CASE Uploads(own) /\ taken' = {own}
    <3>1. own.magic /\ own.size \in 1 .. CLOUD_CAP /\ remote' \in {remote, own}
      BY <2>3, UploadsArePdf DEF CrossIInv
    <3> QED
      BY <2>1, <2>3, <3>1 DEF CrossIInv, CrossesAsPdf
  <2>4. CASE UNCHANGED <<taken, remote>>
    BY <2>1, <2>4, <1>0
  <2> QED
    BY <2>2, <2>3, <2>4
<1>8. CASE RemoteReplaced \/ LocalReplaced
  <2>1. UNCHANGED <<store, received, taken>>
    BY <1>8 DEF RemoteReplaced, LocalReplaced
  <2>2. remote' \in {remote} \union RemoteFiles /\ own' \in {own} \union LocalFiles
    BY <1>8 DEF RemoteReplaced, LocalReplaced, RemoteFiles
  <2> QED
    BY <2>1, <2>2, FilesHaveSizes DEF CrossIInv, CrossesAsPdf
<1>9. CASE UNCHANGED cfVars
  BY <1>9, <1>0 DEF cfVars
<1> QED
  BY <1>1, <1>2, <1>3, <1>4, <1>5, <1>6, <1>7, <1>8, <1>9 DEF CloudFilesNext, PanelAnswers

\* For any cap, what the panels import and the providers take is a PDF by its own bytes
\* and within the cap, though the file is replaced between the two reads of an import.
THEOREM CloudFilesCrossAsPdf == CloudFilesSpec => []CrossesAsPdf
<1>1. CrossIInv => CrossesAsPdf
  BY DEF CrossIInv
<1> QED
  BY CrossInitially, CrossStep, <1>1, PTL DEF CloudFilesSpec

-----------------------------------------------------------------------------
(* What Retry of a cloud panel repeats *)

RunningOK == running \in [Operations -> {"idle", "asked", "content", "listing"}]

\* Of the operations that set busy one at most is under way.
OneUnderWay == ~beside => \A op1, op2 \in UnderWay : op1 = op2

\* What Retry would repeat is not another crossing than the one under way.
RetryIsOwn ==
    ~beside => \A op \in UnderWay \ {"disconnect"} :
                   lastAction \in {"import", "export"} => lastAction = op

\* The button has no Retry and no Picker.
ButtonIsPlain ==
    /\ store = "button" => lastAction \notin {"import", "export"}
    /\ running["picker"] # "idle" => store = "drive"

\* The inductive invariant of RetryRepeatsFailure.
RetryIInv ==
    RunningOK /\ OneUnderWay /\ RetryIsOwn /\ ButtonIsPlain /\ RetryRepeatsFailure

LEMMA RetryInitially == CloudFilesInit => RetryIInv
<1> SUFFICES ASSUME CloudFilesInit PROVE RetryIInv
  OBVIOUS
<1>1. running = [[op \in Operations |-> "idle"] EXCEPT !["status"] = "asked"]
  BY DEF CloudFilesInit, Quiet
<1>2. RunningOK /\ UnderWay = {} /\ running["picker"] = "idle"
  BY <1>1 DEF RunningOK, UnderWay, Operations, Exclusive
<1>3. lastAction = "none"
  BY DEF CloudFilesInit
<1> QED
  BY <1>2, <1>3 DEF RetryIInv, OneUnderWay, RetryIsOwn, ButtonIsPlain, RetryRepeatsFailure

\* An operation that begins is alone, or it is noted that it is not.
LEMMA BeginsAlone ==
    ASSUME RetryIInv, NEW op \in Exclusive, Begins(op)
    PROVE  /\ RunningOK' /\ OneUnderWay'
           /\ running'["picker"] # "idle" => op = "picker" \/ running["picker"] # "idle"
           /\ ~beside' => ~beside /\ UnderWay = {} /\ UnderWay' = {op}
<1>1. op \in Operations /\ running' = [running EXCEPT ![op] = "asked"]
  BY DEF Begins, Exclusive, Operations
<1>2. RunningOK' /\ (running'["picker"] # "idle" => op = "picker" \/ running["picker"] # "idle")
  BY <1>1 DEF RetryIInv, RunningOK, Operations
<1>3. ASSUME ~beside' PROVE ~beside /\ UnderWay = {}
  BY <1>3 DEF Begins
<1>4. ASSUME ~beside' PROVE UnderWay' = {op}
  BY <1>1, <1>3, <1>4 DEF UnderWay, RetryIInv, RunningOK, Exclusive, Operations
<1> QED
  BY <1>2, <1>3, <1>4 DEF OneUnderWay

\* Of an operation that begins, or takes over from another, Retry is its own.
LEMMA BeginsOwnRetry ==
    ASSUME RetryIInv, NEW op \in Exclusive, Begins(op), store' = store,
           \/ shown' = "none" /\ lastAction' \in {op, "none"}
           \/ op = "disconnect" /\ shown' \in {shown, "none"} /\ lastAction' = lastAction,
           store = "button" => lastAction' \notin {"import", "export"},
           op = "picker" => store = "drive"
    PROVE  RetryIInv'
<1>1. RunningOK' /\ OneUnderWay'
  BY BeginsAlone
<1>2. ButtonIsPlain'
  BY BeginsAlone DEF RetryIInv, ButtonIsPlain
<1>3. RetryIsOwn'
  BY BeginsAlone DEF RetryIsOwn
<1>4. RetryRepeatsFailure'
  BY BeginsAlone DEF RetryIInv, RetryRepeatsFailure
<1> QED
  BY <1>1, <1>2, <1>3, <1>4 DEF RetryIInv

\* Operations end, or go on to their listing: nothing new is under way.
LEMMA NothingBegins ==
    ASSUME RetryIInv, RunningOK', UNCHANGED <<store, beside>>,
           \A op \in Operations : running[op] = "idle" => running'[op] = "idle" \/ op \notin Exclusive,
           \/ lastAction' = lastAction
           \/ lastAction' \notin {"import", "export"},
           ~beside /\ shown' # "none" /\ lastAction' \in {"import", "export"} => shown' = lastAction'
    PROVE  RetryIInv'
<1>1. UnderWay' \subseteq UnderWay
  BY DEF UnderWay, Exclusive, Operations
<1>2. OneUnderWay' /\ RetryIsOwn'
  BY <1>1 DEF RetryIInv, OneUnderWay, RetryIsOwn
<1>3. ButtonIsPlain'
  BY DEF RetryIInv, ButtonIsPlain, Operations, Exclusive
<1>4. RetryRepeatsFailure'
  BY DEF RetryRepeatsFailure
<1> QED
  BY <1>2, <1>3, <1>4 DEF RetryIInv

\* Nothing that Retry looks at changes.
LEMMA RetryRests ==
    ASSUME RetryIInv, UNCHANGED <<store, running, lastAction, shown, beside>>
    PROVE  RetryIInv'
<1>1. RunningOK' /\ UnderWay' = UnderWay
  BY DEF RetryIInv, RunningOK, UnderWay
<1> QED
  BY <1>1 DEF RetryIInv, OneUnderWay, RetryIsOwn, ButtonIsPlain, RetryRepeatsFailure

LEMMA RunningStays ==
    ASSUME RunningOK, NEW op \in Operations, Finishes(op) \/ Listing(op)
    PROVE  /\ RunningOK'
           /\ \A o \in Operations : o # op => running'[o] = running[o]
           /\ Finishes(op) => running'[op] = "idle"
BY DEF RunningOK, Finishes, Listing

\* What the user starts.
LEMMA UserKeepsRetry ==
    ASSUME RetryIInv,
           \/ Click \/ TicksConsent \/ DriveRetry \/ GenericRetry \/ ButtonClick
    PROVE  RetryIInv'
<1> USE DEF Exclusive, Clears, Environment
<1>1. ASSUME Connect PROVE RetryIInv'
  BY <1>1, BeginsOwnRetry DEF Connect
<1>2. ASSUME DriveDisconnect \/ GenericDisconnect PROVE RetryIInv'
  <2>1. Begins("disconnect") /\ store' = store /\ shown' \in {shown, "none"}
        /\ lastAction' = lastAction
    BY <1>2 DEF DriveDisconnect, GenericDisconnect
  <2> QED
    BY <2>1, BeginsOwnRetry DEF RetryIInv, ButtonIsPlain
<1>3. ASSUME Import, store # "button" PROVE RetryIInv'
  BY <1>3, BeginsOwnRetry DEF Import
<1>4. ASSUME Pick PROVE RetryIInv'
  BY <1>4, BeginsOwnRetry DEF Pick
<1>5. ASSUME ExportOwn PROVE RetryIInv'
  <2>1. Begins("export") /\ store' = store /\ shown' = "none"
        /\ lastAction' = IF store = "button" THEN "none" ELSE "export"
    BY <1>5 DEF ExportOwn
  <2> QED
    BY <2>1, BeginsOwnRetry
<1>6. ASSUME ListAgain PROVE RetryIInv'
  <2>1. Listing("list") /\ UNCHANGED <<store, beside, lastAction>> /\ shown' = "none"
    BY <1>6 DEF ListAgain
  <2>2. RunningOK' /\ \A o \in Operations : o # "list" => running'[o] = running[o]
    BY <2>1, RunningStays DEF RetryIInv, Operations
  <2> QED
    BY <2>1, <2>2, NothingBegins
<1>7. ASSUME lastAction = "export", AsksConsent PROVE RetryIInv'
  <2>1. UNCHANGED <<store, running, lastAction, beside>> /\ shown' = lastAction'
    BY <1>7 DEF AsksConsent, Shows
  <2> QED
    BY <2>1, NothingBegins DEF RetryIInv, RunningOK
<1>8. CASE Click
  <2>1. store # "button"
    BY <1>8 DEF Click, Panels
  <2> QED
    BY <1>8, <2>1, <1>1, <1>2, <1>3, <1>4, <1>5 DEF Click
<1>9. CASE TicksConsent
  BY <1>9, RetryRests DEF TicksConsent
<1>10. CASE DriveRetry
  <2>1. store # "button"
    BY <1>10 DEF DriveRetry
  <2> QED
    BY <1>10, <2>1, <1>1, <1>2, <1>3, <1>4, <1>5, <1>6, <1>7 DEF DriveRetry
<1>11. CASE GenericRetry
  <2>1. store # "button"
    BY <1>11 DEF GenericRetry
  <2>2. CASE /\ lastAction = "disconnect" /\ Begins("disconnect") /\ Clears
             /\ store' = store /\ lastAction' = lastAction
    BY <2>1, <2>2, BeginsOwnRetry
  <2> QED
    BY <1>11, <2>1, <2>2, <1>1, <1>3, <1>5, <1>6, <1>7 DEF GenericRetry
<1>12. CASE ButtonClick
  <2>1. CASE Begins("connect") /\ Clears /\ store' = store /\ lastAction' = lastAction
    <3>1. store = "button"
      BY <1>12 DEF ButtonClick
    <3>2. RunningOK' /\ OneUnderWay' /\ ButtonIsPlain'
      BY <2>1, <3>1, BeginsAlone DEF RetryIInv, ButtonIsPlain
    <3>3. RetryIsOwn' /\ RetryRepeatsFailure'
      BY <2>1, <3>1 DEF RetryIInv, ButtonIsPlain, RetryIsOwn, RetryRepeatsFailure
    <3> QED
      BY <3>2, <3>3 DEF RetryIInv
  <2> QED
    BY <1>12, <2>1, <1>5 DEF ButtonClick
<1> QED
  BY <1>8, <1>9, <1>10, <1>11, <1>12

\* An operation that throws.
LEMMA FailureKeepsRetry ==
    ASSUME RetryIInv, NEW op \in Exclusive \ {"disconnect"}, running[op] # "idle", Fails(op),
           UNCHANGED <<store, lastAction, beside>>
    PROVE  RetryIInv'
<1>1. op \in Operations /\ Finishes(op) /\ shown' = op
  BY DEF Fails, Shows, Exclusive, Operations
<1>2. RunningOK' /\ running'[op] = "idle" /\ \A o \in Operations : o # op => running'[o] = running[o]
  BY <1>1, RunningStays DEF RetryIInv
<1>3. ~beside => (lastAction \in {"import", "export"} => lastAction = op)
  BY DEF RetryIInv, RetryIsOwn, UnderWay
<1> QED
  BY <1>1, <1>2, <1>3, NothingBegins

\* What the API answers.
LEMMA AnswersKeepRetry ==
    ASSUME RetryIInv, PanelAnswers
    PROVE  RetryIInv'
<1> USE DEF Environment
<1>1. CASE StatusAnswered
  <2>1. Finishes("status") \/ Listing("status")
    BY <1>1 DEF StatusAnswered
  <2>2. RunningOK' /\ \A o \in Operations : o # "status" => running'[o] = running[o]
    BY <2>1, RunningStays DEF RetryIInv, Operations
  <2>3. UNCHANGED <<shown, lastAction>> \/ lastAction' = "connect"
    BY <1>1 DEF StatusAnswered
  <2>4. UNCHANGED <<store, beside>>
    BY <1>1 DEF StatusAnswered
  <2> QED
    BY <2>2, <2>3, <2>4, NothingBegins DEF Exclusive, RetryIInv, RetryRepeatsFailure
<1>2. ASSUME NEW op \in {"status", "list", "import", "export"}, ListAnswered(op)
      PROVE  RetryIInv'
  <2>1. Finishes(op) /\ op \in Operations
    BY <1>2 DEF ListAnswered, Operations
  <2>2. RunningOK' /\ running'[op] = "idle"
        /\ \A o \in Operations : o # op => running'[o] = running[o]
    BY <2>1, RunningStays DEF RetryIInv
  <2>3. UNCHANGED <<shown, lastAction>> \/ lastAction' = "list"
    BY <1>2 DEF ListAnswered, ListFails
  <2>4. UNCHANGED <<store, beside>>
    BY <1>2 DEF ListAnswered
  <2> QED
    BY <2>2, <2>3, <2>4, NothingBegins DEF RetryIInv, RetryRepeatsFailure
<1>3. CASE ConnectAnswered
  <2>1. CASE PageLoads
    <3>1. running' = [[op \in Operations |-> "idle"] EXCEPT !["status"] = "asked"]
      BY <2>1 DEF PageLoads, Quiet
    <3>2. RunningOK' /\ UnderWay' = {} /\ running'["picker"] = "idle"
      BY <3>1 DEF RunningOK, UnderWay, Operations, Exclusive
    <3>3. lastAction' = "none"
      BY <2>1 DEF PageLoads
    <3> QED
      BY <3>2, <3>3
         DEF RetryIInv, OneUnderWay, RetryIsOwn, ButtonIsPlain, RetryRepeatsFailure
  <2>2. CASE Fails("connect") /\ UNCHANGED <<store, lastAction, beside>>
    BY <1>3, <2>2, FailureKeepsRetry DEF ConnectAnswered, Exclusive
  <2> QED
    BY <1>3, <2>1, <2>2 DEF ConnectAnswered
<1>4. CASE DisconnectAnswered
  <2>1. Finishes("disconnect") /\ UNCHANGED <<store, beside>>
    BY <1>4 DEF DisconnectAnswered, Fails
  <2>2. RunningOK' /\ running'["disconnect"] = "idle"
        /\ \A o \in Operations : o # "disconnect" => running'[o] = running[o]
    BY <2>1, RunningStays DEF RetryIInv, Operations
  <2>3. UNCHANGED <<shown, lastAction>> \/ lastAction' = "disconnect"
    BY <1>4 DEF DisconnectAnswered
  <2> QED
    BY <2>1, <2>2, <2>3, NothingBegins DEF RetryIInv, RetryRepeatsFailure
<1>5. CASE ImportReadsMeta
  <2>1. running' = [running EXCEPT !["import"] = "content"] /\ running["import"] = "asked"
    BY <1>5 DEF ImportReadsMeta
  <2>2. RunningOK' /\ \A o \in Operations : running[o] = "idle" => running'[o] = "idle"
    BY <2>1 DEF RetryIInv, RunningOK
  <2>3. UNCHANGED <<store, beside, shown, lastAction>>
    BY <1>5 DEF ImportReadsMeta
  <2> QED
    BY <2>2, <2>3, NothingBegins DEF RetryIInv, RetryRepeatsFailure
<1>6. CASE ImportAnswered
  <2>1. Finishes("import") \/ Listing("import")
    BY <1>6 DEF ImportAnswered
  <2>2. RunningOK' /\ \A o \in Operations : o # "import" => running'[o] = running[o]
    BY <2>1, RunningStays DEF RetryIInv, Operations
  <2>3. UNCHANGED <<store, beside, shown, lastAction>> /\ running["import"] = "content"
    BY <1>6 DEF ImportAnswered
  <2> QED
    BY <2>2, <2>3, NothingBegins DEF RetryIInv, RetryRepeatsFailure
<1>7. CASE ImportFails
  BY <1>7, FailureKeepsRetry DEF ImportFails, Exclusive
<1>8. CASE ExportAnswered
  <2>1. CASE Fails("export") /\ UNCHANGED <<store, lastAction, beside>>
    BY <1>8, <2>1, FailureKeepsRetry DEF ExportAnswered, Exclusive
  <2>2. CASE Listing("export") /\ UNCHANGED <<store, shown, lastAction, beside>>
    <3>1. RunningOK' /\ \A o \in Operations : o # "export" => running'[o] = running[o]
      BY <2>2, RunningStays DEF RetryIInv, Operations
    <3>2. running["export"] = "asked"
      BY <1>8 DEF ExportAnswered
    <3> QED
      BY <2>2, <3>1, <3>2, NothingBegins DEF RetryIInv, RetryRepeatsFailure
  <2> QED
    BY <1>8, <2>1, <2>2 DEF ExportAnswered
<1>9. CASE PickerLoads
  <2>1. running' = [running EXCEPT !["picker"] = "content"] /\ running["picker"] = "asked"
    BY <1>9 DEF PickerLoads
  <2>2. RunningOK' /\ \A o \in Operations : running[o] = "idle" => running'[o] = "idle"
    BY <2>1 DEF RetryIInv, RunningOK
  <2>3. UNCHANGED <<store, beside, shown, lastAction>>
    BY <1>9 DEF PickerLoads
  <2> QED
    BY <2>2, <2>3, NothingBegins DEF RetryIInv, RetryRepeatsFailure
<1>10. CASE Picked
  <2>1. CASE Finishes("picker") /\ UNCHANGED <<shown, lastAction>>
    <3>1. RunningOK' /\ running'["picker"] = "idle"
          /\ \A o \in Operations : o # "picker" => running'[o] = running[o]
      BY <2>1, RunningStays DEF RetryIInv, Operations
    <3>2. UNCHANGED <<store, beside>>
      BY <1>10 DEF Picked
    <3> QED
      BY <2>1, <3>1, <3>2, NothingBegins DEF RetryIInv, RetryRepeatsFailure
  <2>2. CASE /\ running' = [[running EXCEPT !["picker"] = "idle"] EXCEPT !["import"] = "asked"]
             /\ shown' = "none" /\ lastAction' = "import"
    <3>1. UNCHANGED <<store, beside>> /\ running["picker"] = "content" /\ store = "drive"
      BY <1>10 DEF Picked, RetryIInv, ButtonIsPlain
    <3>2. running'["picker"] = "idle" /\ running'["import"] = "asked"
          /\ \A o \in Operations \ {"picker", "import"} : running'[o] = running[o]
      BY <2>2 DEF RetryIInv, RunningOK, Operations
    <3>3. RunningOK'
      BY <2>2 DEF RetryIInv, RunningOK, Operations
    <3>4. ~beside => UnderWay = {"picker"}
      BY <3>1 DEF RetryIInv, OneUnderWay, UnderWay, Exclusive
    <3>5. ~beside' => UnderWay' = {"import"}
      BY <3>1, <3>2, <3>4 DEF UnderWay, Exclusive, Operations
    <3>6. OneUnderWay' /\ RetryIsOwn' /\ ButtonIsPlain' /\ RetryRepeatsFailure'
      BY <2>2, <3>1, <3>2, <3>5
         DEF OneUnderWay, RetryIsOwn, ButtonIsPlain, RetryRepeatsFailure
    <3> QED
      BY <3>3, <3>6 DEF RetryIInv
  <2> QED
    BY <1>10, <2>1, <2>2 DEF Picked, Clears
<1>11. CASE PickerFails
  BY <1>11, FailureKeepsRetry DEF PickerFails, Exclusive
<1> QED
  BY <1>1, <1>2, <1>3, <1>4, <1>5, <1>6, <1>7, <1>8, <1>9, <1>10, <1>11 DEF PanelAnswers

LEMMA RetryStep == RetryIInv /\ [CloudFilesNext]_cfVars => RetryIInv'
<1> SUFFICES ASSUME RetryIInv, [CloudFilesNext]_cfVars PROVE RetryIInv'
  OBVIOUS
<1>1. CASE ButtonStatus
  <2>1. Finishes("status") /\ UNCHANGED <<store, beside, shown, lastAction>>
    BY <1>1 DEF ButtonStatus, Environment
  <2>2. RunningOK' /\ \A o \in Operations : o # "status" => running'[o] = running[o]
    BY <2>1, RunningStays DEF RetryIInv, Operations
  <2> QED
    BY <2>1, <2>2, NothingBegins DEF Exclusive, RetryIInv, RetryRepeatsFailure
<1>2. CASE ButtonAnswered
  <2>1. Finishes("export") /\ UNCHANGED <<store, beside, lastAction>> /\ store = "button"
    BY <1>2 DEF ButtonAnswered
  <2>2. RunningOK' /\ running'["export"] = "idle"
        /\ \A o \in Operations : o # "export" => running'[o] = running[o]
    BY <2>1, RunningStays DEF RetryIInv, Operations
  <2>3. lastAction' \notin {"import", "export"}
    BY <2>1 DEF RetryIInv, ButtonIsPlain
  <2> QED
    BY <2>1, <2>2, <2>3, NothingBegins
<1>3. CASE RemoteReplaced \/ LocalReplaced \/ LinkLost
  BY <1>3, RetryRests DEF RemoteReplaced, LocalReplaced, LinkLost
<1>4. CASE UNCHANGED cfVars
  BY <1>4, RetryRests DEF cfVars
<1> QED
  BY <1>1, <1>2, <1>3, <1>4, UserKeepsRetry, AnswersKeepRetry DEF CloudFilesNext

\* Retry beside an error repeats the operation that failed and never one that went
\* through, unless two operations were started beside each other.
THEOREM CloudRetryRepeatsFailure == CloudFilesSpec => []RetryRepeatsFailure
<1>1. RetryIInv => RetryRepeatsFailure
  BY DEF RetryIInv
<1> QED
  BY RetryInitially, RetryStep, <1>1, PTL DEF CloudFilesSpec
=============================================================================
