----------------------------- MODULE PageProofs -----------------------------
(***************************************************************************)
(* No page of the workspace is lost or doubled (PageList), for any files,  *)
(* any number of pages, and any edits and uploads.                         *)
(***************************************************************************)
EXTENDS PageList, SequenceTheorems, FiniteSetTheorems, FunctionTheorems, TLAPS

\* The sequence has every element of the set once, and no other.
Lists(s, S) ==
    /\ s \in Seq(S)
    /\ ToSet(s) = S
    /\ \A i, j \in 1 .. Len(s) : s[i] = s[j] => i = j

-----------------------------------------------------------------------------
(* Lemmas on lists *)

\* A function on 1 .. n is a sequence of that length.
LEMMA FunctionIsSeq ==
    ASSUME NEW S, NEW n \in Nat, NEW f \in [1 .. n -> S]
    PROVE  f \in Seq(S) /\ Len(f) = n
<1>1. f \in Seq(S)
  BY SeqDef
<1>2. Len(f) \in Nat /\ DOMAIN f = 1 .. Len(f) /\ DOMAIN f = 1 .. n
  BY <1>1, LenProperties
<1> QED
  BY <1>1, <1>2

LEMMA Elements ==
    ASSUME NEW s, NEW S, Lists(s, S)
    PROVE  /\ Len(s) \in Nat /\ DOMAIN s = 1 .. Len(s)
           /\ \A i \in 1 .. Len(s) : s[i] \in S
           /\ \A p \in S : \E i \in 1 .. Len(s) : s[i] = p
           /\ s \in [1 .. Len(s) -> S]
<1>1. Len(s) \in Nat /\ DOMAIN s = 1 .. Len(s) /\ s \in [1 .. Len(s) -> S]
  BY LenProperties DEF Lists
<1> QED
  BY <1>1 DEF Lists, ToSet

LEMMA InOrderLists ==
    ASSUME NEW S, S \subseteq Nat, IsFiniteSet(S)
    PROVE  Lists(InOrder(S), S) /\ Len(InOrder(S)) = Cardinality(S)
<1> DEFINE n == Cardinality(S)
           upTo(i) == {j \in S : j <= i}
           rank == [i \in S |-> Cardinality(upTo(i))]
<1>1. n \in Nat /\ IsFiniteSet(1 .. n) /\ Cardinality(1 .. n) = n
  <2>1. n \in Nat
    BY FS_CardinalityType
  <2> HIDE DEF n
  <2> QED
    BY <2>1, FS_Interval
<1>2. ASSUME NEW i \in S PROVE IsFiniteSet(upTo(i)) /\ Cardinality(upTo(i)) \in 1 .. n
  <2>1. upTo(i) \in SUBSET S /\ i \in upTo(i)
    OBVIOUS
  <2>2. IsFiniteSet(upTo(i)) /\ Cardinality(upTo(i)) <= n
    BY <2>1, FS_Subset
  <2>3. Cardinality(upTo(i)) \in Nat /\ Cardinality(upTo(i)) # 0
    BY <2>1, <2>2, FS_CardinalityType, FS_EmptySet
  <2> QED
    BY <1>1, <2>2, <2>3
<1>3. ASSUME NEW i \in S, NEW k \in S, i < k PROVE Cardinality(upTo(i)) # Cardinality(upTo(k))
  <2>1. i \in Nat /\ k \in Nat /\ \A j \in S : j \in Nat
    OBVIOUS
  <2>2. k \in upTo(k) /\ k \notin upTo(i)
    BY <1>3, <2>1
  <2>3. \A j \in S : j <= i => j <= k
    BY <1>3, <2>1
  <2>4. upTo(i) \in SUBSET upTo(k)
    BY <2>3
  <2> QED
    BY <1>2, <2>2, <2>4, FS_Subset
<1>4. rank \in Injection(S, 1 .. n)
  <2>1. rank \in [S -> 1 .. n]
    BY <1>2
  <2>2. ASSUME NEW i \in S, NEW k \in S, rank[i] = rank[k] PROVE i = k
    BY <1>3, <2>2
  <2> QED
    BY <2>1, <2>2 DEF Injection, IsInjective
<1>5. rank \in Surjection(S, 1 .. n)
  BY <1>1, <1>4, FS_Injection
<1>6. \A k \in 1 .. n : \E i \in S : Cardinality(upTo(i)) = k
  BY <1>5 DEF Surjection
<1>7. /\ InOrder(S) \in [1 .. n -> S]
      /\ \A k \in 1 .. n : Cardinality(upTo(InOrder(S)[k])) = k
  BY <1>6 DEF InOrder
<1>8. \A i, k \in S : Cardinality(upTo(i)) = Cardinality(upTo(k)) => i = k
  BY <1>3
<1>9. InOrder(S) \in Seq(S) /\ Len(InOrder(S)) = n
  BY <1>1, <1>7, FunctionIsSeq
<1>10. ToSet(InOrder(S)) = S
  <2>1. ASSUME NEW i \in S PROVE \E k \in 1 .. n : InOrder(S)[k] = i
    BY <1>2, <1>7, <1>8
  <2>2. DOMAIN InOrder(S) = 1 .. n
    BY <1>7
  <2> QED
    BY <1>7, <2>1, <2>2 DEF ToSet
<1> QED
  BY <1>7, <1>9, <1>10 DEF Lists

\* A filtered list keeps the elements asked for, if those are in it once.
LEMMA OnlyLists ==
    ASSUME NEW T, NEW s \in Seq(T), NEW P,
           \A i, j \in 1 .. Len(s) : s[i] = s[j] /\ s[i] \in P => i = j
    PROVE  Lists(Only(s, P), ToSet(s) \intersect P)
<1> DEFINE K == {i \in DOMAIN s : s[i] \in P}
           at == InOrder(K)
<1>1. DOMAIN s = 1 .. Len(s) /\ Len(s) \in Nat
  BY LenProperties
<1>2. K \subseteq Nat /\ IsFiniteSet(K)
  <2>1. K \in SUBSET (1 .. Len(s)) /\ 1 .. Len(s) \subseteq Nat
    BY <1>1
  <2>2. IsFiniteSet(1 .. Len(s))
    BY <1>1, FS_Interval
  <2> QED
    BY <2>1, <2>2, FS_Subset
<1>3. Lists(at, K)
  BY <1>2, InOrderLists
<1>4. Only(s, P) = [k \in DOMAIN at |-> s[at[k]]]
  BY DEF Only
<1> HIDE DEF at
<1>5. /\ Len(at) \in Nat /\ DOMAIN at = 1 .. Len(at)
      /\ \A k \in 1 .. Len(at) : at[k] \in K
      /\ \A i \in K : \E k \in 1 .. Len(at) : at[k] = i
  BY <1>3, Elements
<1>6. \A k \in 1 .. Len(at) : s[at[k]] \in ToSet(s) \intersect P
  BY <1>5 DEF ToSet
<1>7. Only(s, P) \in [1 .. Len(at) -> ToSet(s) \intersect P]
  BY <1>4, <1>5, <1>6
<1>8. Only(s, P) \in Seq(ToSet(s) \intersect P) /\ Len(Only(s, P)) = Len(at)
  BY <1>5, <1>7, FunctionIsSeq
<1>9. ToSet(Only(s, P)) = ToSet(s) \intersect P
  <2>1. ASSUME NEW p \in ToSet(s) \intersect P PROVE \E k \in 1 .. Len(at) : s[at[k]] = p
    <3>1. PICK i \in DOMAIN s : s[i] = p
      BY DEF ToSet
    <3> QED
      BY <1>5, <3>1
  <2>2. ToSet(Only(s, P)) = {s[at[k]] : k \in 1 .. Len(at)}
    BY <1>4, <1>5 DEF ToSet
  <2> QED
    BY <1>6, <2>1, <2>2
<1>10. ASSUME NEW k \in 1 .. Len(at), NEW m \in 1 .. Len(at), s[at[k]] = s[at[m]] PROVE k = m
  <2>1. at[k] \in 1 .. Len(s) /\ at[m] \in 1 .. Len(s) /\ s[at[k]] \in P
    BY <1>1, <1>5
  <2>2. at[k] = at[m]
    BY <1>10, <2>1
  <2> QED
    BY <1>3, <2>2 DEF Lists
<1> QED
  BY <1>4, <1>5, <1>8, <1>9, <1>10 DEF Lists

LEMMA FilterLists ==
    ASSUME NEW s, NEW S, Lists(s, S), NEW P
    PROVE  Lists(Only(s, P), S \intersect P) /\ Lists(Without(s, P), S \ P)
<1>1. s \in Seq(S) /\ ToSet(s) = S
  BY DEF Lists
<1>2. Lists(Only(s, P), S \intersect P)
  BY <1>1, OnlyLists DEF Lists
<1>3. Lists(Only(s, S \ P), S \intersect (S \ P))
  BY <1>1, OnlyLists DEF Lists
<1>4. S \intersect (S \ P) = S \ P
  OBVIOUS
<1> QED
  BY <1>1, <1>2, <1>3, <1>4 DEF Without

LEMMA ConcatLists ==
    ASSUME NEW s, NEW S, Lists(s, S), NEW t, NEW T, Lists(t, T), S \intersect T = {}
    PROVE  Lists(s \o t, S \union T)
<1> DEFINE n == Len(s)
           m == Len(t)
<1>1. n \in Nat /\ m \in Nat /\ s \in Seq(S \union T) /\ t \in Seq(S \union T)
  BY Elements, FunctionIsSeq
<1>2. /\ s \o t \in Seq(S \union T)
      /\ Len(s \o t) = n + m
      /\ \A i \in 1 .. n + m : (s \o t)[i] = IF i <= n THEN s[i] ELSE t[i - n]
  BY <1>1, ConcatProperties
<1>3. DOMAIN (s \o t) = 1 .. n + m
  BY <1>2, LenProperties
<1> HIDE DEF n, m
<1>4. \A i \in 1 .. n + m : \/ i \in 1 .. n /\ (s \o t)[i] = s[i]
                            \/ i - n \in 1 .. m /\ (s \o t)[i] = t[i - n]
  BY <1>1, <1>2
<1>5. /\ \A i \in 1 .. n : s[i] \in S
      /\ \A i \in 1 .. m : t[i] \in T
      /\ \A p \in S : \E i \in 1 .. n : s[i] = p
      /\ \A p \in T : \E i \in 1 .. m : t[i] = p
  BY Elements DEF n, m
<1>6. ToSet(s \o t) = S \union T
  <2>1. ASSUME NEW p \in S PROVE \E i \in 1 .. n + m : (s \o t)[i] = p
    <3>1. PICK i \in 1 .. n : s[i] = p
      BY <1>5
    <3>2. i \in 1 .. n + m /\ i <= n
      BY <1>1
    <3> QED
      BY <1>2, <3>1, <3>2
  <2>2. ASSUME NEW p \in T PROVE \E i \in 1 .. n + m : (s \o t)[i] = p
    <3>1. PICK i \in 1 .. m : t[i] = p
      BY <1>5
    <3>2. i + n \in 1 .. n + m /\ ~(i + n <= n) /\ (i + n) - n = i
      BY <1>1
    <3> QED
      BY <1>2, <3>1, <3>2
  <2>3. ToSet(s \o t) = {(s \o t)[i] : i \in 1 .. n + m}
    BY <1>3 DEF ToSet
  <2>4. \A i \in 1 .. n + m : (s \o t)[i] \in S \union T
    BY <1>4, <1>5
  <2> DEFINE u == s \o t
             k == n + m
  <2>5. /\ \A p \in S \union T : \E i \in 1 .. k : u[i] = p
        /\ ToSet(u) = {u[i] : i \in 1 .. k}
        /\ \A i \in 1 .. k : u[i] \in S \union T
    BY <2>1, <2>2, <2>3, <2>4
  <2> HIDE DEF u, k
  <2>6. ToSet(u) = S \union T
    BY <2>5
  <2> QED
    BY <2>6 DEF u
<1>7. ASSUME NEW i \in 1 .. n + m, NEW j \in 1 .. n + m, (s \o t)[i] = (s \o t)[j]
      PROVE  i = j
  <2>1. CASE i \in 1 .. n /\ j \in 1 .. n
    <3>1. s[i] = s[j]
      BY <1>1, <1>2, <1>7, <2>1
    <3> QED
      BY <2>1, <3>1 DEF Lists, n
  <2>2. CASE i - n \in 1 .. m /\ j - n \in 1 .. m
    <3>1. t[i - n] = t[j - n]
      BY <1>1, <1>2, <1>7, <2>2
    <3>2. i - n = j - n
      BY <2>2, <3>1 DEF Lists, m
    <3> QED
      BY <1>1, <3>2
  <2> QED
    BY <1>4, <1>5, <1>7, <2>1, <2>2
<1> QED
  BY <1>2, <1>6, <1>7 DEF Lists

\* A list cut in two.
LEMMA CutLists ==
    ASSUME NEW s, NEW S, Lists(s, S), NEW i \in 0 .. Len(s)
    PROVE  \E F \in SUBSET S : /\ Lists(SubSeq(s, 1, i), F)
                               /\ Lists(SubSeq(s, i + 1, Len(s)), S \ F)
<1> DEFINE n == Len(s)
           front == SubSeq(s, 1, i)
           back  == SubSeq(s, i + 1, n)
           F == {s[j] : j \in 1 .. i}
           B == {s[j] : j \in i + 1 .. n}
<1>1. n \in Nat /\ (\A j \in 1 .. n : s[j] \in S) /\ (\A p \in S : \E j \in 1 .. n : s[j] = p)
  BY Elements
<1>2. \A j, k \in 1 .. n : s[j] = s[k] => j = k
  BY DEF Lists
<1>3. F \subseteq S /\ B = S \ F
  <2>1. \A j \in 1 .. i : j \in 1 .. n
    BY <1>1
  <2>2. \A j \in i + 1 .. n : j \in 1 .. n /\ j \notin 1 .. i
    BY <1>1
  <2>3. \A j \in 1 .. n : j \in 1 .. i \/ j \in i + 1 .. n
    BY <1>1
  <2> QED
    BY <1>1, <1>2, <2>1, <2>2, <2>3
<1>4. front \in Seq(F) /\ Len(front) = i /\ \A j \in 1 .. i : front[j] = s[j]
  <2>1. \A j \in 1 .. i : s[j] \in F
    OBVIOUS
  <2>2. 1 \in Int /\ i \in Int /\ i \in Nat
    BY <1>1
  <2> HIDE DEF F
  <2>3. /\ front \in Seq(F) /\ Len(front) = IF 1 <= i THEN i - 1 + 1 ELSE 0
        /\ \A j \in 1 .. i - 1 + 1 : front[j] = s[1 + j - 1]
    BY <2>1, <2>2, SubSeqProperties
  <2>4. (\A j \in 1 .. i : 1 + j - 1 = j) /\ i - 1 + 1 = i
    BY <2>2
  <2> HIDE DEF front
  <2> QED
    BY <2>2, <2>3, <2>4
<1>5. back \in Seq(B) /\ Len(back) = n - i /\ \A j \in 1 .. n - i : back[j] = s[i + j]
  <2>1. \A j \in i + 1 .. n : s[j] \in B
    OBVIOUS
  <2>2. i + 1 \in Int /\ n \in Int /\ i \in Nat /\ i <= n
    BY <1>1
  <2> HIDE DEF B, n
  <2>3. /\ back \in Seq(B)
        /\ Len(back) = IF i + 1 <= n THEN n - (i + 1) + 1 ELSE 0
        /\ \A j \in 1 .. n - (i + 1) + 1 : back[j] = s[(i + 1) + j - 1]
    BY <2>1, <2>2, SubSeqProperties
  <2>4. /\ \A j \in 1 .. n - i : (i + 1) + j - 1 = i + j
        /\ n - (i + 1) + 1 = n - i
    BY <2>2
  <2> HIDE DEF back
  <2> QED
    BY <2>2, <2>3, <2>4
<1>6. Lists(front, F)
  <2>1. DOMAIN front = 1 .. i
    BY <1>4, LenProperties
  <2>2. ToSet(front) = F
    BY <1>4, <2>1 DEF ToSet
  <2>3. \A j, k \in 1 .. i : s[j] = s[k] => j = k
    BY <1>1, <1>2
  <2> HIDE DEF front, F
  <2> QED
    BY <1>4, <2>2, <2>3 DEF Lists
<1>7. Lists(back, B)
  <2>1. DOMAIN back = 1 .. n - i
    BY <1>5, LenProperties
  <2>2. \A j \in 1 .. n - i : i + j \in i + 1 .. n /\ i + j \in 1 .. n
    BY <1>1
  <2>3. \A j \in i + 1 .. n : j - i \in 1 .. n - i /\ i + (j - i) = j
    BY <1>1
  <2>4. ToSet(back) = B
    <3>1. ToSet(back) = {back[j] : j \in 1 .. n - i}
      BY <2>1 DEF ToSet
    <3>2. \A j \in 1 .. n - i : back[j] \in B
      BY <1>5, <2>2
    <3>3. ASSUME NEW j \in i + 1 .. n PROVE \E k \in 1 .. n - i : back[k] = s[j]
      BY <1>5, <2>3
    <3> HIDE DEF back
    <3> QED
      BY <3>1, <3>2, <3>3
  <2>5. ASSUME NEW j \in 1 .. n - i, NEW k \in 1 .. n - i, back[j] = back[k] PROVE j = k
    <3>1. i + j = i + k
      BY <1>2, <1>5, <2>2, <2>5
    <3> QED
      BY <1>1, <3>1
  <2> HIDE DEF back, B
  <2> QED
    BY <1>5, <2>4, <2>5 DEF Lists
<1> QED
  BY <1>3, <1>6, <1>7

LEMMA SpliceLists ==
    ASSUME NEW s, NEW S, Lists(s, S), NEW t, NEW T, Lists(t, T), S \intersect T = {},
           NEW i \in 0 .. Len(s)
    PROVE  Lists(Splice(s, i, t), S \union T)
<1>1. PICK F \in SUBSET S : /\ Lists(SubSeq(s, 1, i), F)
                            /\ Lists(SubSeq(s, i + 1, Len(s)), S \ F)
  BY CutLists
<1>2. Lists(SubSeq(s, 1, i) \o t, F \union T)
  BY <1>1, ConcatLists
<1>3. Lists((SubSeq(s, 1, i) \o t) \o SubSeq(s, i + 1, Len(s)), (F \union T) \union (S \ F))
  BY <1>1, <1>2, ConcatLists
<1>4. (F \union T) \union (S \ F) = S \union T
  OBVIOUS
<1> QED
  BY <1>3, <1>4 DEF Splice

LEMMA IndexExists ==
    ASSUME NEW s, NEW S, Lists(s, S), NEW p \in S
    PROVE  IndexIn(s, p) \in 1 .. Len(s) /\ s[IndexIn(s, p)] = p
BY Elements DEF IndexIn

LEMMA PutLists ==
    ASSUME NEW s, NEW S, Lists(s, S), NEW t, NEW T, Lists(t, T), S \intersect T = {},
           NEW p \in S, NEW side
    PROVE  Lists(PutBeside(s, p, side, t), S \union T)
<1>1. IndexIn(s, p) \in 1 .. Len(s) /\ Len(s) \in Nat
  BY IndexExists, Elements
<1>2. (IF side = "before" THEN IndexIn(s, p) - 1 ELSE IndexIn(s, p)) \in 0 .. Len(s)
  BY <1>1
<1> QED
  BY <1>2, SpliceLists DEF PutBeside

LEMMA SingleLists == ASSUME NEW p PROVE Lists(<<p>>, {p})
BY DEF Lists, ToSet

LEMMA LengthOfList ==
    ASSUME NEW s, NEW S, Lists(s, S)
    PROVE  IsFiniteSet(S) /\ Cardinality(S) = Len(s)
<1>1. Len(s) \in Nat /\ s \in [1 .. Len(s) -> S]
  BY Elements
<1>2. IsFiniteSet(1 .. Len(s)) /\ Cardinality(1 .. Len(s)) = Len(s)
  BY <1>1, FS_Interval
<1>3. s \in Injection(1 .. Len(s), S)
  BY <1>1 DEF Lists, Injection, IsInjective
<1>4. s \in Surjection(1 .. Len(s), S)
  BY <1>1, Elements DEF Surjection
<1>5. ExistsBijection(1 .. Len(s), S)
  BY <1>3, <1>4 DEF ExistsBijection, Bijection
<1> QED
  BY <1>2, <1>5, FS_Bijection

-----------------------------------------------------------------------------
(* What the handlers make of a list *)

LEMMA TogetherLists ==
    ASSUME NEW s, NEW S, Lists(s, S), NEW target \in 1 .. Len(s)
    PROVE  Lists(MovedTogether(s, target), S)
<1> DEFINE rest == Without(s, selection)
           at == IF s[target] \in selection THEN target - 1 ELSE IndexIn(rest, s[target]) - 1
           place == IF at > Len(rest) THEN Len(rest) ELSE at
<1>1. Lists(rest, S \ selection) /\ Lists(Only(s, selection), S \intersect selection)
  BY FilterLists
<1>2. s[target] \in S /\ target \in Nat \ {0} /\ Len(rest) \in Nat
  BY <1>1, Elements
<1>3. s[target] \notin selection => IndexIn(rest, s[target]) \in 1 .. Len(rest)
  BY <1>1, <1>2, IndexExists
<1> HIDE DEF rest
<1>4. at \in Nat
  BY <1>2, <1>3
<1> HIDE DEF at
<1>5. place \in 0 .. Len(rest)
  BY <1>2, <1>4
<1> HIDE DEF place
<1>6. Lists(Splice(rest, place, Only(s, selection)),
            (S \ selection) \union (S \intersect selection))
  BY <1>1, <1>5, SpliceLists
<1>7. (S \ selection) \union (S \intersect selection) = S
  OBVIOUS
<1>8. MovedTogether(s, target) = Splice(rest, place, Only(s, selection))
  BY DEF MovedTogether, place, at, rest
<1> QED
  BY <1>6, <1>7, <1>8

LEMMA AloneLists ==
    ASSUME NEW s, NEW S, Lists(s, S), NEW source \in 1 .. Len(s), NEW target \in 1 .. Len(s)
    PROVE  Lists(MovedAlone(s, source, target), S)
<1> DEFINE p == s[source]
           rest == Without(s, {p})
<1>1. p \in S /\ Len(s) \in Nat
  BY Elements
<1>2. Lists(rest, S \ {p}) /\ Lists(<<p>>, {p})
  BY FilterLists, SingleLists
<1>3. Len(rest) = Len(s) - 1
  <2>1. IsFiniteSet(S) /\ Cardinality(S) = Len(s) /\ Cardinality(S \ {p}) = Len(rest)
    BY <1>2, LengthOfList
  <2> QED
    BY <1>1, <2>1, FS_RemoveElement
<1> HIDE DEF p, rest
<1>4. target - 1 \in 0 .. Len(rest)
  BY <1>1, <1>3
<1>5. Lists(Splice(rest, target - 1, <<p>>), (S \ {p}) \union {p})
  BY <1>2, <1>4, SpliceLists
<1>6. (S \ {p}) \union {p} = S
  BY <1>1
<1> QED
  BY <1>5, <1>6 DEF MovedAlone, p, rest

LEMMA MovedLists ==
    ASSUME NEW s, NEW S, Lists(s, S), NEW p, NEW target \in Nat \ {0}
    PROVE  Lists(Moved(s, p, target), S)
<1>1. CASE p \in ToSet(s) /\ target <= Len(s)
  <2>1. IndexIn(s, p) \in 1 .. Len(s)
    BY <1>1, IndexExists DEF Lists
  <2>2. target \in 1 .. Len(s)
    BY <1>1, Elements
  <2> QED
    BY <1>1, <2>1, <2>2, AloneLists DEF Moved
<1>2. CASE ~(p \in ToSet(s) /\ target <= Len(s))
  BY <1>2 DEF Moved
<1> QED
  BY <1>1, <1>2

LEMMA SelectedLists ==
    ASSUME NEW s, NEW S, Lists(s, S), NEW target \in Nat
    PROVE  Lists(SelectedAt(s, target), S)
<1> DEFINE rest == Without(s, selection)
           place == IF target > Len(rest) THEN Len(rest) ELSE target
<1>1. Lists(rest, S \ selection) /\ Lists(Only(s, selection), S \intersect selection)
  BY FilterLists
<1>2. Len(rest) \in Nat
  BY <1>1, Elements
<1> HIDE DEF rest
<1>3. place \in 0 .. Len(rest)
  BY <1>2
<1> HIDE DEF place
<1>4. Lists(Splice(rest, place, Only(s, selection)),
            (S \ selection) \union (S \intersect selection))
  BY <1>1, <1>3, SpliceLists
<1>5. (S \ selection) \union (S \intersect selection) = S
  OBVIOUS
<1>6. SelectedAt(s, target) = Splice(rest, place, Only(s, selection))
  BY DEF SelectedAt, place, rest
<1> QED
  BY <1>4, <1>5, <1>6

\* copyOf gives each page of P a page that is new, and none to the others.
Copying(copyOf, P, S) ==
    /\ copyOf \in [Pages -> Nat]
    /\ \A p \in Pages : IF p \in P THEN copyOf[p] \in Pages \ S ELSE copyOf[p] = NoPage
    /\ \A p, q \in P \intersect Pages : copyOf[p] = copyOf[q] => p = q

LEMMA CopiedLists ==
    ASSUME NEW s, NEW S, Lists(s, S), S \subseteq Pages, NEW P, NEW T, S \subseteq T,
           NEW copyOf, Copying(copyOf, P, T)
    PROVE  Lists(Copied(s, copyOf), S \union {copyOf[p] : p \in S \intersect P})
<1> DEFINE n == Len(s)
           doubled == [k \in 1 .. 2 * n |->
                          IF k % 2 = 1 THEN s[(k + 1) \div 2] ELSE copyOf[s[k \div 2]]]
           d == doubled
           N == {copyOf[p] : p \in S \intersect P}
<1>1. /\ n \in Nat /\ (\A i \in 1 .. n : s[i] \in S) /\ \A p \in S : \E i \in 1 .. n : s[i] = p
  BY Elements
<1>2. \A i, j \in 1 .. n : s[i] = s[j] => i = j
  BY DEF Lists
<1> HIDE DEF n
<1>3. \A i \in 1 .. n : /\ 2 * i - 1 \in 1 .. 2 * n /\ 2 * i \in 1 .. 2 * n
                        /\ (2 * i - 1) % 2 = 1 /\ (2 * i) % 2 # 1
                        /\ ((2 * i - 1) + 1) \div 2 = i /\ (2 * i) \div 2 = i
  BY <1>1
<1>4. \A k \in 1 .. 2 * n : \E i \in 1 .. n : k = 2 * i - 1 \/ k = 2 * i
  <2> SUFFICES ASSUME NEW k \in 1 .. 2 * n
               PROVE  \E i \in 1 .. n : k = 2 * i - 1 \/ k = 2 * i
    OBVIOUS
  <2>1. (k + 1) \div 2 \in 1 .. n
    BY <1>1
  <2>2. k = 2 * ((k + 1) \div 2) - 1 \/ k = 2 * ((k + 1) \div 2)
    BY <1>1
  <2> QED
    BY <2>1, <2>2
<1>5. \A i \in 1 .. n : d[2 * i - 1] = s[i] /\ d[2 * i] = copyOf[s[i]]
  BY <1>3
<1> HIDE DEF doubled
<1>6. \A p \in S : p \in Pages /\ copyOf[p] \in Nat
  BY DEF Copying
<1>7. d \in Seq(Nat) /\ Len(d) = 2 * n /\ DOMAIN d = 1 .. 2 * n
  <2>1. DOMAIN d = 1 .. 2 * n
    BY DEF doubled
  <2>2. \A p \in Pages : p \in Nat
    BY FilePagesAssumption DEF Pages
  <2>3. ASSUME NEW k \in 1 .. 2 * n PROVE d[k] \in Nat
    <3>1. PICK i \in 1 .. n : k = 2 * i - 1 \/ k = 2 * i
      BY <1>4
    <3>2. s[i] \in S /\ s[i] \in Nat /\ copyOf[s[i]] \in Nat
      BY <1>1, <1>6, <2>2
    <3> QED
      BY <1>5, <3>1, <3>2
  <2>4. d \in [1 .. 2 * n -> Nat]
    BY <2>1, <2>3 DEF doubled
  <2>5. 2 * n \in Nat
    BY <1>1
  <2> QED
    BY <2>1, <2>4, <2>5, FunctionIsSeq
<1>8. \A i \in 1 .. n : /\ d[2 * i - 1] \in S
                        /\ d[2 * i] \in Pages =>
                              s[i] \in P /\ d[2 * i] = copyOf[s[i]] /\ d[2 * i] \notin S
  <2> SUFFICES ASSUME NEW i \in 1 .. n
               PROVE  /\ s[i] \in S
                      /\ copyOf[s[i]] \in Pages => s[i] \in P /\ copyOf[s[i]] \notin S
    BY <1>5
  <2>1. s[i] \in S /\ s[i] \in Pages /\ NoPage \notin Pages
    <3>1. s[i] \in S /\ s[i] \in Pages
      BY <1>1, <1>6
    <3>2. NoPage \notin Pages
      BY FilePagesAssumption DEF Pages, NoPage
    <3> QED
      BY <3>1, <3>2
  <2> QED
    BY <2>1 DEF Copying
<1>9. ToSet(d) \intersect Pages = S \union N
  <2>1. ToSet(d) = {d[k] : k \in 1 .. 2 * n}
    BY <1>7 DEF ToSet
  <2>2. ASSUME NEW k \in 1 .. 2 * n, d[k] \in Pages PROVE d[k] \in S \union N
    <3>1. PICK i \in 1 .. n : k = 2 * i - 1 \/ k = 2 * i
      BY <1>4
    <3>2. CASE k = 2 * i - 1
      BY <1>8, <3>2
    <3>3. CASE k = 2 * i
      <4>1. s[i] \in S \intersect P /\ d[k] = copyOf[s[i]]
        BY <1>1, <1>8, <2>2, <3>3
      <4> QED
        BY <4>1
    <3> QED
      BY <3>1, <3>2, <3>3
  <2>3. ASSUME NEW p \in S PROVE p \in Pages /\ \E k \in 1 .. 2 * n : d[k] = p
    BY <1>1, <1>3, <1>5, <1>6
  <2>4. ASSUME NEW p \in S \intersect P
        PROVE  copyOf[p] \in Pages /\ \E k \in 1 .. 2 * n : d[k] = copyOf[p]
    BY <1>1, <1>3, <1>5, <1>6 DEF Copying
  <2> QED
    BY <2>1, <2>2, <2>3, <2>4
<1>10. ASSUME NEW k \in 1 .. 2 * n, NEW m \in 1 .. 2 * n, d[k] = d[m], d[k] \in Pages
       PROVE  k = m
  <2>1. PICK i \in 1 .. n : k = 2 * i - 1 \/ k = 2 * i
    BY <1>4
  <2>2. PICK j \in 1 .. n : m = 2 * j - 1 \/ m = 2 * j
    BY <1>4
  <2>3. CASE k = 2 * i - 1 /\ m = 2 * j - 1
    BY <1>2, <1>5, <1>10, <2>3
  <2>4. CASE k = 2 * i /\ m = 2 * j
    <3>1. s[i] \in P /\ s[j] \in P /\ s[i] \in Pages /\ s[j] \in Pages
          /\ copyOf[s[i]] = copyOf[s[j]]
      BY <1>1, <1>6, <1>8, <1>10, <2>4
    <3>2. s[i] = s[j]
      BY <3>1 DEF Copying
    <3> QED
      BY <1>2, <2>4, <3>2
  <2>5. ~(k = 2 * i - 1 /\ m = 2 * j) /\ ~(k = 2 * i /\ m = 2 * j - 1)
    BY <1>8, <1>10
  <2> QED
    BY <2>1, <2>2, <2>3, <2>4, <2>5
<1>11. Lists(Only(d, Pages), ToSet(d) \intersect Pages)
  <2> HIDE DEF d
  <2> QED
    BY <1>7, <1>10, OnlyLists
<1>12. Copied(s, copyOf) = Only(d, Pages)
  BY DEF Copied, doubled, n
<1> QED
  BY <1>9, <1>11, <1>12

LEMMA MadePages == \A n : Made(n) \subseteq Fresh /\ Made(n) \subseteq Pages /\ Made(n) \subseteq Nat
                          /\ IsFiniteSet(Made(n))
<1> SUFFICES ASSUME NEW n
             PROVE  /\ Made(n) \subseteq Fresh /\ Made(n) \subseteq Pages /\ Made(n) \subseteq Nat
                    /\ IsFiniteSet(Made(n))
  OBVIOUS
<1>1. Made(n) \subseteq Fresh /\ Fresh \subseteq Pages
  BY DEF Made, Fresh
<1>2. Pages \subseteq Nat /\ IsFiniteSet(Pages)
  BY FilePagesAssumption, FS_Interval DEF Pages
<1> QED
  BY <1>1, <1>2, FS_Subset

-----------------------------------------------------------------------------
(* The inductive invariant *)

\* The pages shown are pages on the list, the pages on the list are kept, and pages that
\* are kept were made of something.
ListsFit ==
    /\ Lists(pages, ToSet(pages)) /\ Lists(shown, ToSet(shown))
    /\ ToSet(shown) \subseteq ToSet(pages) /\ ToSet(pages) \subseteq kept
    /\ staleDrop \/ ToSet(pages) = kept
    /\ kept \subseteq Pages
    /\ \A p \in kept : origin[p] # Unmade

OriginsFit == \A p \in ToSet(pages) : origin[p] \in fileStore \union {BlankPage}

\* Only pages that are shown are selected.
SelectionFits == selection \subseteq ToSet(shown) /\ lastSelected \in Nat

PreviewFits ==
    /\ viewing \in Nat
    /\ screen \in [loading : BOOLEAN, picture : Nat, rendering : SUBSET Nat]
    /\ viewing = NoPage \/ screen.loading \/ screen.picture = viewing

\* The inductive invariant of PagesKept.
PageIInv == ListsFit /\ OriginsFit /\ SelectionFits /\ PreviewFits

LEMMA EmptyLists == Lists(<<>>, {}) /\ ToSet(<<>>) = {}
<1>1. ToSet(<<>>) = {}
  BY DEF ToSet
<1> QED
  BY <1>1, EmptySeq DEF Lists

LEMMA PagesInitially == PageInit => PageIInv
<1> SUFFICES ASSUME PageInit PROVE PageIInv
  OBVIOUS
<1>1. ListsFit
  BY EmptyLists DEF PageInit, ListsFit
<1>2. OriginsFit /\ SelectionFits
  BY EmptyLists DEF PageInit, OriginsFit, SelectionFits
<1>3. PreviewFits
  BY DEF PageInit, PreviewFits, NotShowing, NoPage
<1> QED
  BY <1>1, <1>2, <1>3 DEF PageIInv

\* What is to be shown of a step: the pages listed and shown after it, and the rest.
LEMMA ListsKeep ==
    ASSUME NEW S, NEW V, Lists(pages', S), Lists(shown', V),
           V \subseteq S, S \subseteq kept', staleDrop' \/ S = kept', kept' \subseteq Pages,
           \A p \in kept' : origin'[p] # Unmade,
           \A p \in S : origin'[p] \in fileStore' \union {BlankPage},
           selection' \subseteq V, lastSelected' \in Nat, PreviewFits'
    PROVE  PageIInv'
<1>1. ToSet(pages') = S /\ ToSet(shown') = V
  BY DEF Lists
<1> QED
  BY <1>1 DEF PageIInv, ListsFit, OriginsFit, SelectionFits

\* The facts of the invariant, with names for the pages listed and shown.
LEMMA ListedNow ==
    ASSUME PageIInv
    PROVE  /\ Lists(pages, ToSet(pages)) /\ Lists(shown, ToSet(shown))
           /\ ToSet(shown) \subseteq ToSet(pages) /\ ToSet(pages) \subseteq kept
           /\ ToSet(shown) \subseteq kept
           /\ staleDrop \/ ToSet(pages) = kept
           /\ kept \subseteq Pages /\ Pages \subseteq Nat
           /\ \A p \in kept : origin[p] # Unmade
           /\ \A p \in ToSet(pages) : origin[p] \in fileStore \union {BlankPage}
           /\ selection \subseteq ToSet(shown) /\ lastSelected \in Nat
           /\ PreviewFits
<1>1. Pages \subseteq Nat
  BY FilePagesAssumption DEF Pages
<1> QED
  BY <1>1 DEF PageIInv, ListsFit, OriginsFit, SelectionFits

\* New pages are none of those kept.
LEMMA NewPages ==
    ASSUME PageIInv, NEW n
    PROVE  /\ Made(n) \intersect kept = {}
           /\ Made(n) \intersect ToSet(pages) = {} /\ Made(n) \intersect ToSet(shown) = {}
           /\ Lists(InOrder(Made(n)), Made(n))
           /\ Made(n) \subseteq Pages
<1>1. Made(n) \intersect kept = {}
  BY ListedNow, MadePages DEF Fresh
<1>2. Lists(InOrder(Made(n)), Made(n)) /\ Made(n) \subseteq Pages
  BY MadePages, InOrderLists
<1> QED
  BY <1>1, <1>2, ListedNow

-----------------------------------------------------------------------------
(* Steps *)

LEMMA StartOverKeepsPages == ASSUME PageIInv, StartOver PROVE PageIInv'
<1>1. /\ pages' = <<>> /\ shown' = <<>> /\ fileStore' = {} /\ kept' = {}
      /\ selection' = {} /\ lastSelected' = 0 /\ viewing' = NoPage /\ screen' = NotShowing
  BY DEF StartOver
<1>2. PreviewFits'
  BY <1>1 DEF PreviewFits, NotShowing, NoPage
<1> QED
  BY <1>1, <1>2, EmptyLists, ListsKeep

LEMMA UploadKeepsPages ==
    ASSUME PageIInv, NEW f \in PdfFiles, FinishUpload(f)
    PROVE  PageIInv'
<1> DEFINE new == Made(FilePages[f])
           S == ToSet(pages)
           target == upload[f].target
<1>1. /\ Lists(pages, S) /\ Lists(shown, ToSet(shown))
      /\ ToSet(shown) \subseteq S /\ S \subseteq kept
      /\ staleDrop \/ S = kept
      /\ kept \subseteq Pages /\ Pages \subseteq Nat
      /\ \A p \in kept : origin[p] # Unmade
      /\ \A p \in S : origin[p] \in fileStore \union {BlankPage}
      /\ selection \subseteq ToSet(shown) /\ lastSelected \in Nat
  BY ListedNow
<1>2. new \intersect kept = {} /\ S \intersect new = {} /\ Lists(InOrder(new), new) /\ new \subseteq Pages
  BY NewPages
<1>3. /\ pages' = IF target.page \in S THEN PutBeside(pages, target.page, target.side, InOrder(new))
                  ELSE pages \o InOrder(new)
      /\ kept' = kept \union new /\ fileStore' = fileStore \union {f}
      /\ origin' = [p \in Pages |-> IF p \in new THEN f ELSE origin[p]]
      /\ UNCHANGED <<shown, selection, lastSelected, viewing, staleDrop>>
      /\ screen' = IF viewing = NoPage THEN screen ELSE Rendering(viewing)
  BY DEF FinishUpload, picked
<1> HIDE DEF new, S, target
<1>4. Lists(pages', S \union new)
  <2>1. CASE target.page \in S
    BY <1>1, <1>2, <1>3, <2>1, PutLists
  <2>2. CASE target.page \notin S
    BY <1>1, <1>2, <1>3, <2>2, ConcatLists
  <2> QED
    BY <2>1, <2>2
<1>5. Lists(shown', ToSet(shown))
  BY <1>1, <1>3
<1>6. \A p \in kept' : origin'[p] # Unmade
  BY <1>1, <1>2, <1>3, FilePagesAssumption
<1>7. \A p \in S \union new : origin'[p] \in fileStore' \union {BlankPage}
  BY <1>1, <1>2, <1>3
<1>8. PreviewFits'
  <2>1. PreviewFits /\ viewing \in Nat
    BY ListedNow DEF PreviewFits
  <2>2. CASE viewing = NoPage
    BY <1>3, <2>1, <2>2 DEF PreviewFits
  <2>3. CASE viewing # NoPage
    <3>1. viewing' = viewing /\ screen' = Rendering(viewing)
      BY <1>3, <2>3
    <3> QED
      BY <2>1, <3>1 DEF PreviewFits, Rendering, NoPage
  <2> QED
    BY <2>2, <2>3
<1>9. /\ ToSet(shown) \subseteq S \union new /\ S \union new \subseteq kept'
      /\ staleDrop' \/ S \union new = kept'
      /\ kept' \subseteq Pages
      /\ selection' \subseteq ToSet(shown) /\ lastSelected' \in Nat
  BY <1>1, <1>2, <1>3
<1> QED
  BY <1>4, <1>5, <1>6, <1>7, <1>8, <1>9, ListsKeep

\* The list is left alone, or its last state rendered.
LEMMA StillKeepsPages ==
    ASSUME PageIInv, UNCHANGED <<pages, origin, fileStore, kept, staleDrop>>,
           shown' \in {shown, pages}, selection' \subseteq ToSet(shown), lastSelected' \in Nat,
           PreviewFits'
    PROVE  PageIInv'
<1>1. PICK V : Lists(shown', V) /\ ToSet(shown) \subseteq V /\ V \subseteq ToSet(pages)
  BY ListedNow
<1> QED
  BY <1>1, ListedNow, ListsKeep

LEMMA SelectionKeepsPages ==
    ASSUME PageIInv,
           \/ \E p \in ToSet(shown) : SelectPage(p) \/ SelectRange(p)
           \/ SelectAll \/ DeselectAll
    PROVE  PageIInv'
<1>1. ASSUME NEW p \in ToSet(shown), SelectPage(p) PROVE PageIInv'
  <2>1. IndexIn(shown, p) \in Nat
    BY ListedNow, IndexExists, Elements
  <2>2. selection' \subseteq ToSet(shown) /\ lastSelected' \in Nat
    BY <1>1, <2>1, ListedNow DEF SelectPage
  <2>3. /\ UNCHANGED <<pages, origin, fileStore, kept, staleDrop>>
        /\ UNCHANGED <<shown, viewing, screen>>
    BY <1>1 DEF SelectPage, viewed
  <2>4. PreviewFits'
    BY <2>3, ListedNow DEF PreviewFits
  <2> QED
    BY <2>2, <2>3, <2>4, StillKeepsPages
<1>2. ASSUME NEW p \in ToSet(shown), SelectRange(p) PROVE PageIInv'
  <2>1. CASE lastSelected <= Len(shown)
    <3> DEFINE i == IndexIn(shown, p)
               between == (lastSelected .. i) \union (i .. lastSelected)
    <3>1. lastSelected \in Nat \ {0} /\ i \in 1 .. Len(shown) /\ Len(shown) \in Nat
          /\ \A j \in 1 .. Len(shown) : shown[j] \in ToSet(shown)
      BY <1>2, ListedNow, IndexExists, Elements DEF SelectRange
    <3>2. selection' = selection \union {shown[j] : j \in between}
      BY <1>2, <2>1 DEF SelectRange
    <3> HIDE DEF i
    <3>3. \A j \in between : j \in 1 .. Len(shown)
      BY <2>1, <3>1
    <3>4. selection' \subseteq ToSet(shown)
      BY <3>1, <3>2, <3>3, ListedNow
    <3>5. UNCHANGED <<pages, shown, origin, fileStore, kept, staleDrop, lastSelected,
                      viewing, screen>>
      BY <1>2, <2>1 DEF SelectRange, viewed
    <3>6. PreviewFits'
      BY <3>5, ListedNow DEF PreviewFits
    <3> QED
      BY <3>4, <3>5, <3>6, ListedNow, StillKeepsPages
  <2>2. CASE ~(lastSelected <= Len(shown))
    BY <1>2, <2>2, StartOverKeepsPages DEF SelectRange
  <2> QED
    BY <2>1, <2>2
<1>3. ASSUME NEW P \in SUBSET ToSet(shown), SelectOnly(P) PROVE PageIInv'
  <2>1. /\ selection' = P
        /\ UNCHANGED <<pages, shown, origin, fileStore, kept, staleDrop, lastSelected,
                       viewing, screen>>
    BY <1>3 DEF SelectOnly, viewed
  <2>2. PreviewFits'
    BY <2>1, ListedNow DEF PreviewFits
  <2> QED
    BY <2>1, <2>2, ListedNow, StillKeepsPages
<1> QED
  BY <1>1, <1>2, <1>3 DEF SelectAll, DeselectAll

LEMMA PreviewKeepsPages ==
    ASSUME PageIInv,
           \/ \E p \in ToSet(shown) : OpenPreview(p)
           \/ PreviewOffers
           \/ \E p \in Pages : PreviewLands(p)
    PROVE  PageIInv'
<1>0. /\ PreviewFits /\ Pages \subseteq Nat /\ ToSet(shown) \subseteq Nat
      /\ selection \subseteq ToSet(shown) /\ lastSelected \in Nat
  BY ListedNow
<1>1. UNCHANGED <<pages, shown, origin, fileStore, kept, staleDrop, selection, lastSelected>>
  BY DEF OpenPreview, PreviewOffers, Navigate, ClosePreview, PreviewLands, picked
<1>2. ASSUME NEW p \in Nat, viewing' = p, screen' = Rendering(p) PROVE PreviewFits'
  BY <1>0, <1>2 DEF PreviewFits, Rendering, NoPage
<1>3. PreviewFits'
  <2>1. ASSUME NEW p \in ToSet(shown), OpenPreview(p) PROVE PreviewFits'
    BY <1>0, <1>2, <2>1 DEF OpenPreview
  <2>2. ASSUME NEW step \in {-1, 1}, Navigate(IndexIn(shown, viewing) + step)
        PROVE  PreviewFits'
    <3>1. PICK i \in 1 .. Len(shown) : viewing' = shown[i] /\ screen' = Rendering(shown[i])
      BY <2>2 DEF Navigate
    <3>2. shown[i] \in Nat
      BY <1>0, Elements, ListedNow
    <3> QED
      BY <1>2, <3>1, <3>2
  <2>3. CASE ClosePreview
    BY <2>3 DEF ClosePreview, PreviewFits, NotShowing, NoPage
  <2>4. ASSUME NEW p \in Pages, PreviewLands(p) PROVE PreviewFits'
    <3>1. p \in Nat /\ viewing' = viewing
      BY <1>0, <2>4 DEF PreviewLands
    <3>2. CASE p = viewing
      BY <1>0, <2>4, <3>1, <3>2 DEF PreviewLands, IsMounted, PreviewFits
    <3>3. CASE p # viewing
      BY <1>0, <2>4, <3>1, <3>3 DEF PreviewLands, IsMounted, PreviewFits
    <3> QED
      BY <3>2, <3>3
  <2> QED
    BY <2>1, <2>2, <2>3, <2>4 DEF PreviewOffers
<1> QED
  BY <1>0, <1>1, <1>3, StillKeepsPages

LEMMA OrderKeepsPages ==
    ASSUME PageIInv,
           \/ \E source, target \in 1 .. Len(shown) : DropCard(source, target)
           \/ \E p, target \in Nat \ {0} : MovePageTo(p, target)
           \/ \E target \in Nat : MoveSelectedTo(target)
    PROVE  PageIInv'
<1> DEFINE S == ToSet(pages)
           V == ToSet(shown)
<1>1. /\ Lists(pages, S) /\ Lists(shown, V) /\ V \subseteq S /\ S \subseteq kept
      /\ staleDrop \/ S = kept
      /\ kept \subseteq Pages
      /\ \A p \in kept : origin[p] # Unmade
      /\ \A p \in S : origin[p] \in fileStore \union {BlankPage}
      /\ selection \subseteq V /\ lastSelected \in Nat
  BY ListedNow
<1>2. /\ UNCHANGED <<origin, fileStore, kept, selection, lastSelected, viewing, screen>>
  BY DEF DropCard, MovePageTo, MoveSelectedTo, picked, viewed
<1>3. PreviewFits'
  BY <1>2, ListedNow DEF PreviewFits
<1>4. ASSUME NEW source \in 1 .. Len(shown), NEW target \in 1 .. Len(shown),
             DropCard(source, target)
      PROVE  PageIInv'
  <2>1. Lists(pages', V) /\ Lists(shown', V)
    BY <1>1, <1>4, TogetherLists, AloneLists DEF DropCard
  <2>2. staleDrop' = (staleDrop \/ shown # pages)
    BY <1>4 DEF DropCard
  <2>3. staleDrop' \/ V = kept
    BY <1>1, <2>2
  <2> HIDE DEF S, V
  <2>4. V \subseteq kept' /\ (staleDrop' \/ V = kept') /\ kept' \subseteq Pages
    BY <1>1, <1>2, <2>3
  <2>5. \A p \in kept' : origin'[p] # Unmade
    BY <1>1, <1>2
  <2>6. \A p \in V : origin'[p] \in fileStore' \union {BlankPage}
    BY <1>1, <1>2
  <2> QED
    BY <1>1, <1>2, <1>3, <2>1, <2>4, <2>5, <2>6, ListsKeep
<1>5. ASSUME Lists(pages', S), Lists(shown', V), staleDrop' = staleDrop PROVE PageIInv'
  BY <1>1, <1>2, <1>3, <1>5, ListsKeep
<1>6. ASSUME NEW p \in Nat \ {0}, NEW target \in Nat \ {0}, MovePageTo(p, target)
      PROVE  PageIInv'
  BY <1>1, <1>5, <1>6, MovedLists DEF MovePageTo
<1>7. ASSUME NEW target \in Nat, MoveSelectedTo(target) PROVE PageIInv'
  BY <1>1, <1>5, <1>7, SelectedLists DEF MoveSelectedTo
<1> QED
  BY <1>4, <1>6, <1>7

LEMMA DeletionKeepsPages ==
    ASSUME PageIInv, NEW P, Delete(P), fileStore' \subseteq fileStore,
           \A p \in Pages \ P : origin[p] \in fileStore => origin[p] \in fileStore',
           UNCHANGED <<origin, lastSelected, viewing, screen, staleDrop>>
    PROVE  PageIInv'
<1> DEFINE S == ToSet(pages)
           V == ToSet(shown)
<1>1. /\ Lists(pages, S) /\ Lists(shown, V) /\ V \subseteq S /\ S \subseteq kept
      /\ staleDrop \/ S = kept
      /\ kept \subseteq Pages
      /\ \A p \in kept : origin[p] # Unmade
      /\ \A p \in S : origin[p] \in fileStore \union {BlankPage}
      /\ selection \subseteq V /\ lastSelected \in Nat
  BY ListedNow
<1>2. Lists(pages', S \ P) /\ Lists(shown', V \ P)
  BY <1>1, FilterLists DEF Delete
<1>3. selection' = selection \ P /\ kept' = kept \ P
  BY DEF Delete
<1>4. PreviewFits'
  BY ListedNow DEF PreviewFits
<1> HIDE DEF S, V
<1>5. \A p \in S \ P : origin'[p] \in fileStore' \union {BlankPage}
  BY <1>1
<1>6. /\ V \ P \subseteq S \ P /\ S \ P \subseteq kept' /\ (staleDrop' \/ S \ P = kept')
      /\ kept' \subseteq Pages /\ selection' \subseteq V \ P /\ lastSelected' \in Nat
      /\ \A p \in kept' : origin'[p] # Unmade
  BY <1>1, <1>3
<1> QED
  BY <1>2, <1>4, <1>5, <1>6, ListsKeep

LEMMA DeletesKeepPages ==
    ASSUME PageIInv,
           (\E P : DeletePages(P)) \/ (\E f : RemoveFile(f)) \/ ClearAll
    PROVE  PageIInv'
<1>1. ASSUME NEW P, DeletePages(P) PROVE PageIInv'
  BY <1>1, DeletionKeepsPages DEF DeletePages, viewed
<1>2. ASSUME NEW f, RemoveFile(f) PROVE PageIInv'
  <2> DEFINE P == {p \in Pages : origin[p] = f}
  <2>1. /\ Delete(P) /\ fileStore' = fileStore \ {f}
        /\ UNCHANGED <<origin, lastSelected, viewing, screen, staleDrop>>
    BY <1>2 DEF RemoveFile, viewed
  <2>2. \A p \in Pages \ P : origin[p] \in fileStore => origin[p] \in fileStore'
    BY <2>1
  <2> HIDE DEF P
  <2> QED
    BY <2>1, <2>2, DeletionKeepsPages
<1>3. CASE ClearAll
  <2>1. /\ Delete(Pages) /\ fileStore' = {} /\ Pages \ Pages = {}
        /\ UNCHANGED <<origin, lastSelected, viewing, screen, staleDrop>>
    BY <1>3 DEF ClearAll, viewed
  <2> QED
    BY <2>1, DeletionKeepsPages
<1> QED
  BY <1>1, <1>2, <1>3

LEMMA BlankKeepsPages ==
    ASSUME PageIInv,
           \/ AddBlankPage
           \/ \E p \in ToSet(shown), side \in {"before", "after"} : InsertBlankPage(p, side)
    PROVE  PageIInv'
<1> DEFINE S == ToSet(pages)
           V == ToSet(shown)
           new == Made(1)
<1>1. /\ Lists(pages, S) /\ Lists(shown, V) /\ V \subseteq S /\ S \subseteq kept
      /\ staleDrop \/ S = kept
      /\ kept \subseteq Pages
      /\ \A p \in kept : origin[p] # Unmade
      /\ \A p \in S : origin[p] \in fileStore \union {BlankPage}
      /\ selection \subseteq V /\ lastSelected \in Nat
  BY ListedNow
<1>2. /\ new \intersect kept = {} /\ S \intersect new = {} /\ V \intersect new = {}
      /\ Lists(InOrder(new), new) /\ new \subseteq Pages
  BY NewPages
<1>3. /\ origin' = [q \in Pages |-> IF q \in new THEN BlankPage ELSE origin[q]]
      /\ kept' = kept \union new
      /\ UNCHANGED <<fileStore, selection, lastSelected, viewing, screen, staleDrop>>
  BY DEF AddBlankPage, InsertBlankPage, MakeBlank, picked, viewed
<1>4. PreviewFits'
  BY <1>3, ListedNow DEF PreviewFits
<1> HIDE DEF S, V, new
<1>5. Lists(pages', S \union new) /\ Lists(shown', V \union new)
  <2>1. CASE AddBlankPage
    BY <1>1, <1>2, <2>1, ConcatLists DEF AddBlankPage, new
  <2>2. ASSUME NEW p \in V, NEW side \in {"before", "after"}, InsertBlankPage(p, side)
        PROVE  Lists(pages', S \union new) /\ Lists(shown', V \union new)
    BY <1>1, <1>2, <2>2, PutLists DEF InsertBlankPage, new
  <2> QED
    BY <2>1, <2>2 DEF V
<1>6. \A p \in kept' : origin'[p] # Unmade
  BY <1>1, <1>2, <1>3 DEF BlankPage, Unmade
<1>7. \A p \in S \union new : origin'[p] \in fileStore' \union {BlankPage}
  BY <1>1, <1>2, <1>3
<1>8. /\ V \union new \subseteq S \union new /\ S \union new \subseteq kept'
      /\ (staleDrop' \/ S \union new = kept') /\ kept' \subseteq Pages
      /\ selection' \subseteq V \union new /\ lastSelected' \in Nat
  BY <1>1, <1>2, <1>3
<1> QED
  BY <1>4, <1>5, <1>6, <1>7, <1>8, ListsKeep

\* The n-th of the originals is given the n-th of the copies.
LEMMA CopiesFit ==
    ASSUME NEW s, NEW P, Lists(s, P), P \subseteq Pages,
           NEW t, NEW C, Lists(t, C), Cardinality(C) = Cardinality(P),
           NEW T, C \intersect T = {}, C \subseteq Pages,
           NEW copyOf,
           copyOf = [p \in Pages |-> IF p \in P THEN t[IndexIn(s, p)] ELSE NoPage]
    PROVE  Copying(copyOf, P, T) /\ C = {copyOf[p] : p \in P}
<1>1. Len(s) = Len(t) /\ Len(s) \in Nat
  BY LengthOfList, Elements
<1>2. \A p \in P : IndexIn(s, p) \in 1 .. Len(t) /\ s[IndexIn(s, p)] = p
  BY <1>1, IndexExists
<1>3. \A p \in P : p \in Pages /\ copyOf[p] = t[IndexIn(s, p)] /\ copyOf[p] \in C
  BY <1>2, Elements
<1>4. Pages \subseteq Nat /\ NoPage \in Nat
  BY FilePagesAssumption DEF Pages, NoPage
<1>5. \A p \in Pages \ P : copyOf[p] = NoPage
  OBVIOUS
<1>6. \A p \in Pages : copyOf[p] \in Nat
  BY <1>3, <1>4, <1>5
<1>7. copyOf \in [Pages -> Nat]
  BY <1>6
<1>8. ASSUME NEW p \in P, NEW q \in P, copyOf[p] = copyOf[q] PROVE p = q
  <2>1. IndexIn(s, p) = IndexIn(s, q)
    BY <1>2, <1>3, <1>8 DEF Lists
  <2> QED
    BY <1>2, <2>1
<1>9. Copying(copyOf, P, T)
  <2>1. \A p \in Pages : IF p \in P THEN copyOf[p] \in Pages \ T ELSE copyOf[p] = NoPage
    BY <1>3, <1>5
  <2> QED
    BY <1>7, <1>8, <2>1 DEF Copying
<1>10. ASSUME NEW q \in C PROVE \E p \in P : copyOf[p] = q
  <2>1. PICK i \in 1 .. Len(t) : t[i] = q
    BY Elements
  <2>2. s[i] \in P
    BY <1>1, Elements
  <2>3. IndexIn(s, s[i]) = i
    BY <1>1, <1>2, <2>2 DEF Lists
  <2> QED
    BY <1>3, <2>1, <2>2, <2>3
<1> QED
  BY <1>3, <1>9, <1>10

LEMMA CopiesKeepPages ==
    ASSUME PageIInv, NEW P, Duplicate(P)
    PROVE  PageIInv'
<1> DEFINE S == ToSet(pages)
           V == ToSet(shown)
           C == Made(Cardinality(P))
           s == Only(pages, P)
           t == InOrder(C)
           copyOf == [p \in Pages |-> IF p \in P THEN t[IndexIn(s, p)] ELSE NoPage]
           more(Q) == {copyOf[p] : p \in Q \intersect P}
<1>1. /\ Lists(pages, S) /\ Lists(shown, V) /\ V \subseteq S /\ S \subseteq kept
      /\ staleDrop \/ S = kept
      /\ kept \subseteq Pages
      /\ \A p \in kept : origin[p] # Unmade
      /\ \A p \in S : origin[p] \in fileStore \union {BlankPage}
      /\ selection \subseteq V /\ lastSelected \in Nat
  BY ListedNow
<1>2. C \intersect kept = {} /\ C \intersect S = {} /\ Lists(t, C) /\ C \subseteq Pages
  BY NewPages
<1>3. /\ Cardinality(C) = Cardinality(P) /\ P \subseteq S
      /\ pages' = Copied(pages, copyOf) /\ shown' = Copied(shown, copyOf)
      /\ origin' = [q \in Pages |-> IF q \in C THEN origin[CHOOSE p \in P : copyOf[p] = q]
                                    ELSE origin[q]]
      /\ kept' = kept \union C
      /\ UNCHANGED <<fileStore, selection, lastSelected, viewing, screen, staleDrop>>
  BY DEF Duplicate, picked, viewed
<1>4. PreviewFits'
  BY <1>3, ListedNow DEF PreviewFits
<1>5. Lists(s, P)
  <2>1. Lists(s, S \intersect P)
    BY <1>1, FilterLists
  <2>2. S \intersect P = P
    BY <1>3
  <2> QED
    BY <2>1, <2>2
<1> HIDE DEF S, V, C, s, t
<1>6. Copying(copyOf, P, S) /\ C = {copyOf[p] : p \in P}
  <2>1. P \subseteq Pages
    BY <1>1, <1>3
  <2> HIDE DEF copyOf
  <2>2. copyOf = [p \in Pages |-> IF p \in P THEN t[IndexIn(s, p)] ELSE NoPage]
    BY DEF copyOf
  <2>3. /\ Lists(s, P) /\ Lists(t, C) /\ Cardinality(C) = Cardinality(P)
        /\ C \intersect S = {} /\ C \subseteq Pages
    BY <1>2, <1>3, <1>5
  <2>4. \A c : c = [p \in Pages |-> IF p \in P THEN t[IndexIn(s, p)] ELSE NoPage] =>
                Copying(c, P, S) /\ C = {c[p] : p \in P}
    BY <2>1, <2>3, CopiesFit
  <2> QED
    BY <2>2, <2>4
<1> HIDE DEF copyOf
<1>7. Lists(pages', S \union more(S)) /\ Lists(shown', V \union more(V))
  <2>1. S \subseteq Pages /\ V \subseteq Pages
    BY <1>1
  <2>2. Lists(pages, S) /\ Lists(shown, V) /\ V \subseteq S /\ Copying(copyOf, P, S)
    BY <1>1, <1>6
  <2>3. ASSUME NEW q, NEW Q, Lists(q, Q), Q \subseteq Pages, Q \subseteq S
        PROVE  Lists(Copied(q, copyOf), Q \union more(Q))
    <3>1. Copying(copyOf, P, S)
      BY <2>2
    <3>2. Lists(Copied(q, copyOf), Q \union {copyOf[p] : p \in Q \intersect P})
      BY <2>3, <3>1, CopiedLists
    <3> QED
      BY <3>2
  <2> HIDE DEF more
  <2>4. /\ Lists(Copied(pages, copyOf), S \union more(S))
        /\ Lists(Copied(shown, copyOf), V \union more(V))
    BY <2>1, <2>2, <2>3
  <2>5. pages' = Copied(pages, copyOf) /\ shown' = Copied(shown, copyOf)
    BY <1>3
  <2> QED
    BY <2>4, <2>5
<1>8. more(S) = C /\ more(V) \subseteq C
  BY <1>3, <1>6
<1>9. \A q \in C : (CHOOSE p \in P : copyOf[p] = q) \in P
  BY <1>6
<1>10. \A q \in C : \E p \in S : origin'[q] = origin[p]
  BY <1>2, <1>3, <1>9
<1>11. \A q \in kept : origin'[q] = origin[q]
  BY <1>1, <1>2, <1>3
<1>12. \A q \in kept' : origin'[q] # Unmade
  BY <1>1, <1>3, <1>10, <1>11
<1>13. \A q \in S \union more(S) : origin'[q] \in fileStore' \union {BlankPage}
  BY <1>1, <1>3, <1>8, <1>10, <1>11
<1>14. /\ V \union more(V) \subseteq S \union more(S) /\ S \union more(S) \subseteq kept'
       /\ (staleDrop' \/ S \union more(S) = kept') /\ kept' \subseteq Pages
       /\ selection' \subseteq V \union more(V) /\ lastSelected' \in Nat
  BY <1>1, <1>2, <1>3, <1>8
<1> HIDE DEF more
<1> QED
  BY <1>4, <1>7, <1>12, <1>13, <1>14, ListsKeep

LEMMA PagesStep == PageIInv /\ [PageNext]_pageVars => PageIInv'
<1> SUFFICES ASSUME PageIInv, [PageNext]_pageVars PROVE PageIInv'
  OBVIOUS
<1>0. ToSet(shown) \subseteq Pages /\ Pages \subseteq Nat \ {0}
  BY ListedNow, FilePagesAssumption DEF Pages
<1>1. ASSUME NEW p \in ToSet(shown),
             CardOffers(p) \/ CardMoves(p) \/ CardInserts(p) \/ CardKeys(p)
      PROVE  PageIInv'
  <2>1. IndexIn(shown, p) \in 1 .. Len(shown) /\ Len(shown) \in Nat /\ p \in Nat \ {0}
    BY <1>0, ListedNow, IndexExists, Elements
  <2>2. CASE CardOffers(p)
    <3>1. CASE OpenPreview(p)
      BY <3>1, PreviewKeepsPages
    <3>2. CASE SelectPage(p) \/ SelectRange(p)
      BY <3>2, SelectionKeepsPages
    <3>3. CASE DeletePage(p)
      BY <3>3, DeletesKeepPages DEF DeletePage
    <3>4. CASE DuplicatePage(p)
      BY <3>4, CopiesKeepPages DEF DuplicatePage
    <3>5. CASE \E target \in 1 .. Len(shown) : DropCard(IndexIn(shown, p), target)
      BY <2>1, <3>5, OrderKeepsPages
    <3> QED
      BY <2>2, <3>1, <3>2, <3>3, <3>4, <3>5 DEF CardOffers
  <2>3. CASE CardMoves(p)
    <3>1. PICK target \in 1 .. Len(shown) : MovePageTo(p, target)
      BY <2>3 DEF CardMoves
    <3> QED
      BY <2>1, <3>1, OrderKeepsPages
  <2>4. CASE CardInserts(p)
    <3>1. PICK side \in {"before", "after"} : InsertBlankPage(p, side) \/ InsertImage(p, side)
      BY <2>4 DEF CardInserts
    <3>2. CASE InsertImage(p, side)
      <4>1. UNCHANGED <<pages, shown, origin, fileStore, kept, staleDrop, selection,
                        lastSelected, viewing, screen>>
        BY <3>2 DEF InsertImage, picked, viewed
      <4>2. PreviewFits'
        BY <4>1, ListedNow DEF PreviewFits
      <4> QED
        BY <4>1, <4>2, ListedNow, StillKeepsPages
    <3> QED
      BY <3>1, <3>2, BlankKeepsPages
  <2>5. CASE CardKeys(p)
    <3>1. CASE SelectPage(p) \/ SelectRange(p)
      BY <3>1, SelectionKeepsPages
    <3>2. CASE DeletePage(p)
      BY <3>2, DeletesKeepPages DEF DeletePage
    <3>3. ASSUME NEW step \in {-1, 1}, IndexIn(shown, p) + step \in 1 .. Len(shown),
                 MovePageTo(p, IndexIn(shown, p) + step)
          PROVE  PageIInv'
      <4>1. PICK target \in Nat \ {0} : MovePageTo(p, target)
        BY <2>1, <3>3
      <4> QED
        BY <2>1, <4>1, OrderKeepsPages
    <3> QED
      BY <2>5, <3>1, <3>2, <3>3 DEF CardKeys
  <2> QED
    BY <1>1, <2>2, <2>3, <2>4, <2>5
<1>2. CASE BulkOffers
  <2>1. CASE SelectAll \/ DeselectAll
    BY <2>1, SelectionKeepsPages
  <2>2. CASE DuplicateSelected
    BY <2>2, CopiesKeepPages DEF DuplicateSelected
  <2>3. CASE DeleteSelected
    BY <2>3, DeletesKeepPages DEF DeleteSelected
  <2>4. ASSUME NEW target \in 1 .. Len(shown), MoveSelectedTo(target - 1) PROVE PageIInv'
    <3>1. Len(shown) \in Nat
      BY ListedNow, Elements
    <3>2. target - 1 \in Nat
      BY <3>1
    <3> QED
      BY <2>4, <3>2, OrderKeepsPages
  <2>5. CASE ToolOffers
    BY <2>5, StartOverKeepsPages DEF ToolOffers, OpenTool, OpenPage
  <2> QED
    BY <1>2, <2>1, <2>2, <2>3, <2>4, <2>5 DEF BulkOffers
<1>3. ASSUME UNCHANGED <<pages, shown, origin, fileStore, kept, staleDrop, selection,
                         lastSelected, viewing, screen>>
      PROVE  PageIInv'
  <2>1. PreviewFits'
    BY <1>3, ListedNow DEF PreviewFits
  <2> QED
    BY <1>3, <2>1, ListedNow, StillKeepsPages
<1>4. CASE SidebarOffers
  <2>1. ASSUME NEW f \in PdfFiles, Pick(f) PROVE PageIInv'
    BY <1>3, <2>1 DEF Pick, picked, viewed
  <2>2. ASSUME NEW f \in PdfFiles, RemoveFile(f) PROVE PageIInv'
    BY <2>2, DeletesKeepPages
  <2>3. CASE AddBlankPage
    BY <2>3, BlankKeepsPages
  <2>4. CASE ClearAll
    BY <2>4, DeletesKeepPages
  <2> QED
    BY <1>4, <2>1, <2>2, <2>3, <2>4 DEF SidebarOffers
<1>5. CASE HeaderOffers
  <2>1. CASE SelectAll
    BY <2>1, SelectionKeepsPages
  <2>2. CASE ClearAll
    BY <2>2, DeletesKeepPages
  <2>3. CASE OpenPage
    BY <2>3, StartOverKeepsPages DEF OpenPage
  <2> QED
    BY <1>5, <2>1, <2>2, <2>3 DEF HeaderOffers
<1>6. CASE PreviewOffers \/ \E p \in Pages : PreviewLands(p)
  BY <1>6, PreviewKeepsPages
<1>7. ASSUME NEW f \in PdfFiles, FinishUpload(f) PROVE PageIInv'
  BY <1>7, UploadKeepsPages
<1>8. ASSUME NEW f \in PdfFiles, RefuseFile(f) PROVE PageIInv'
  BY <1>3, <1>8 DEF RefuseFile, picked, viewed
<1>9. CASE Render
  <2>1. /\ shown' = pages
        /\ UNCHANGED <<pages, origin, fileStore, kept, staleDrop, selection, lastSelected,
                       viewing, screen>>
    BY <1>9 DEF Render, picked, viewed
  <2>2. PreviewFits'
    BY <2>1, ListedNow DEF PreviewFits
  <2> QED
    BY <2>1, <2>2, ListedNow, StillKeepsPages
<1>10. CASE UNCHANGED pageVars
  BY <1>3, <1>10 DEF pageVars, picked, viewed
<1> QED
  BY <1>1, <1>2, <1>4, <1>5, <1>6, <1>7, <1>8, <1>9, <1>10 DEF PageNext

\* WorkspaceApp.tsx: for any files and any number of pages, no page is lost or doubled by
\* uploads, drags, moves, copies, blanks and deletions in any order, but by cards dropped
\* before an upload is shown; pages have their bytes, the selection is of pages on the list,
\* and a preview shows the page it is of.
THEOREM NoPageIsLost == PageSpec => []PagesKept
<1>1. PageIInv => PagesKept
  <2> SUFFICES ASSUME PageIInv PROVE PagesKept
    OBVIOUS
  <2>1. IsInjective(pages)
    BY ListedNow, Elements DEF Lists, IsInjective
  <2> QED
    BY <2>1, ListedNow DEF PagesKept, PreviewFits
<1> QED
  BY <1>1, PagesInitially, PagesStep, PTL DEF PageSpec
=============================================================================
