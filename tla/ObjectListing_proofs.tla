------------------------- MODULE ObjectListing_proofs -------------------------
(***************************************************************************)
(* Proofs about ObjectListing, for every bucket, page size, limit and      *)
(* every number of changes: its types and its three safety invariants.     *)
(***************************************************************************)
EXTENDS ObjectListing, FiniteSetTheorems, TLAPS

\* Before a page the keys listed are those up to the token, of the kept ones all,
\* and the limit is still to be reached.
PageInv ==
    pc = "page" =>
        /\ outcome = "none"
        /\ \A i \in DOMAIN results : results[i] <= token
        /\ \A k \in kept : k <= token => k \in Listed
        /\ limit = 0 => Len(results) = 0
        /\ limit > 0 => Len(results) < limit

IInv == TypeOK /\ PageInv /\ InOrderOnce /\ KeptAreListed /\ CutAtTheEnd

-----------------------------------------------------------------------------
(* Pages. *)

\* What a sequence is with the beginning of another one behind it.
LEMMA Appended ==
    ASSUME NEW s \in Seq(Keys), NEW t \in Seq(Keys), NEW m \in 0 .. Len(t),
           NEW r, r = s \o SubSeq(t, 1, m)
    PROVE  /\ r \in Seq(Keys) /\ Len(r) = Len(s) + m
           /\ \A i \in 1 .. Len(s) : r[i] = s[i]
           /\ \A i \in 1 .. m : r[Len(s) + i] = t[i]
<1>1. SubSeq(t, 1, m) \in Seq(Keys) /\ Len(SubSeq(t, 1, m)) = m
      /\ \A i \in 1 .. m : SubSeq(t, 1, m)[i] = t[i]
  OBVIOUS
<1> QED
  BY <1>1

\* A page holds the keys behind the token, in order.
LEMMA ItemsFacts ==
    ASSUME TypeOK, NEW items \in InOrder(PageKeys(token))
    PROVE  /\ items \in Seq(Keys) /\ DOMAIN items = 1 .. Len(items)
           /\ \A i \in 1 .. Len(items) : token < items[i] /\ items[i] <= token + PageSize
           /\ \A i, j \in 1 .. Len(items) : i < j => items[i] < items[j]
           /\ \A k \in bucket : token < k /\ k <= token + PageSize =>
                 \E i \in 1 .. Len(items) : items[i] = k
<1> DEFINE S == PageKeys(token)
           n == Cardinality(S)
<1>1. S \subseteq Keys
  BY DEF TypeOK, PageKeys
<1>2. IsFiniteSet(Keys)
  BY ListingAssumption, FS_Interval DEF Keys
<1>3. n \in Nat
  BY <1>1, <1>2, FS_Subset, FS_CardinalityType
<1>4. items \in [1 .. n -> S] /\ DOMAIN items = 1 .. n
  BY DEF InOrder
<1>5. items \in Seq(Keys) /\ Len(items) = n
  BY <1>1, <1>3, <1>4
<1> QED
  BY <1>4, <1>5 DEF InOrder, PageKeys

\* How many keys of a page are appended.
LEMMA RoomFacts ==
    ASSUME TypeOK, PageInv, pc = "page", NEW n \in Nat, NEW m,
           m = IF n < Room(n) THEN n ELSE Room(n)
    PROVE  /\ m \in 0 .. n
           /\ ~Full(n) => m = n /\ (limit = 0 => Len(results) + m = 0)
                                /\ (limit > 0 => Len(results) + m < limit)
           /\ Full(n) => /\ limit # NoLimit /\ m > 0
                         /\ limit > 0 => Len(results) + m = limit
                         /\ ~(Len(results) + m < limit)
<1>1. Len(results) \in Nat /\ limit \in Nat \cup {NoLimit}
  BY LimitAssumption DEF TypeOK
<1> QED
  BY <1>1 DEF PageInv, Room, Full, NoLimit

-----------------------------------------------------------------------------
(* The steps. *)

\* A page keeps the order, and leaves out no kept key before the last one.
LEMMA PageKeeps ==
    ASSUME IInv, Page
    PROVE  IInv'
<1>1. PICK items \in InOrder(PageKeys(token)) :
         LET n == Len(items)
         IN  /\ results' = results \o SubSeq(items, 1, IF n < Room(n) THEN n ELSE Room(n))
             /\ \/ /\ Full(n) \/ LastPage(token)
                   /\ pc' = "done"
                   /\ outcome' = "listed"
                   /\ UNCHANGED token
                \/ /\ ~Full(n) /\ ~LastPage(token)
                   /\ token' = NextToken(token)
                   /\ UNCHANGED <<pc, outcome>>
  BY DEF Page
<1> DEFINE n == Len(items)
           m == IF n < Room(n) THEN n ELSE Room(n)
<1>2. pc = "page" /\ UNCHANGED <<limit, bucket, kept, changes>> /\ TypeOK /\ PageInv
  BY DEF Page, IInv
<1>3. items \in Seq(Keys) /\ n \in Nat /\ m \in 0 .. n
  BY <1>2, ItemsFacts, RoomFacts
<1>4. /\ results' \in Seq(Keys) /\ Len(results') = Len(results) + m
      /\ \A i \in 1 .. Len(results) : results'[i] = results[i]
      /\ \A i \in 1 .. m : results'[Len(results) + i] = items[i]
  <2>1. results' = results \o SubSeq(items, 1, m) /\ results \in Seq(Keys)
    BY <1>1, <1>2 DEF TypeOK
  <2> HIDE DEF m
  <2> QED
    BY <1>3, <2>1, Appended
<1> DEFINE old == Len(results)
<1>5. old \in Nat /\ DOMAIN results = 1 .. old /\ DOMAIN results' = 1 .. old + m
      /\ token \in Nat /\ PageSize \in Nat /\ limit \in Int
      /\ kept \subseteq bucket /\ bucket \subseteq Int
  BY <1>2, <1>3, <1>4, ListingAssumption, LimitAssumption DEF TypeOK, Keys, NoLimit
<1>6. /\ m > 0 /\ Full(n) => limit # NoLimit
      /\ ~Full(n) => m = n /\ (limit = 0 => old + m = 0) /\ (limit > 0 => old + m < limit)
      /\ Full(n) => /\ limit # NoLimit /\ m > 0 /\ ~(old + m < limit)
                    /\ limit > 0 => old + m = limit
  BY <1>2, <1>3, RoomFacts
<1> HIDE DEF n, m, old
<1>7. \A i \in 1 .. n : items[i] \in Int /\ token < items[i] /\ items[i] <= token + PageSize
  <2>1. \A i \in 1 .. n : token < items[i] /\ items[i] <= token + PageSize
    BY <1>2, ItemsFacts DEF n
  <2>2. \A i \in 1 .. n : items[i] \in Keys
    BY <1>3 DEF n
  <2> QED
    BY <2>1, <2>2 DEF Keys
<1>8. \A i, j \in 1 .. n : i < j => items[i] < items[j]
  BY <1>2, ItemsFacts DEF n
<1>9. \A i \in 1 .. old : results[i] \in Int /\ results[i] <= token
  <2>1. \A i \in 1 .. old : results[i] <= token
    BY <1>2, <1>5 DEF PageInv
  <2>2. \A i \in 1 .. old : results[i] \in Keys
    BY <1>2 DEF TypeOK, old
  <2> QED
    BY <2>1, <2>2 DEF Keys
<1>10. \A i \in 1 .. old + m :
          \/ i \in 1 .. old /\ results'[i] = results[i]
          \/ i - old \in 1 .. m /\ i > old /\ results'[i] = items[i - old]
  <2> TAKE i \in 1 .. old + m
  <2>1. CASE i <= old
    BY <1>4, <1>5, <2>1 DEF old
  <2>2. CASE i > old
    <3>1. i - old \in 1 .. m /\ old + (i - old) = i
      BY <1>3, <1>5, <2>2
    <3> QED
      BY <1>4, <2>2, <3>1 DEF old
  <2> QED
    BY <1>5, <2>1, <2>2
<1>11. InOrderOnce'
  <2> SUFFICES ASSUME NEW i \in 1 .. old + m, NEW j \in 1 .. old + m, i < j
               PROVE  results'[i] < results'[j]
    BY <1>5 DEF InOrderOnce
  <2>1. CASE j \in 1 .. old /\ results'[j] = results[j]
    <3>1. i \in 1 .. old /\ results'[i] = results[i]
      BY <1>5, <1>10, <2>1
    <3> QED
      BY <1>5, <2>1, <3>1 DEF IInv, InOrderOnce
  <2>2. CASE j - old \in 1 .. m /\ j > old /\ results'[j] = items[j - old]
    <3>1. j - old \in 1 .. n
      BY <1>3, <1>5, <2>2
    <3>2. CASE i \in 1 .. old /\ results'[i] = results[i]
      BY <1>5, <1>7, <1>9, <2>2, <3>1, <3>2
    <3>3. CASE i - old \in 1 .. m /\ i > old /\ results'[i] = items[i - old]
      <4>1. i - old \in 1 .. n /\ i - old < j - old
        BY <1>3, <1>5, <3>3
      <4> QED
        BY <1>8, <2>2, <3>1, <3>3, <4>1
    <3> QED
      BY <1>10, <3>2, <3>3
  <2> QED
    BY <1>10, <2>1, <2>2
<1>12. \A k \in Listed : k \in Listed'
  BY <1>4, <1>5, <1>3 DEF Listed, old
<1>13. \A i \in 1 .. m : items[i] \in Listed'
  <2> TAKE i \in 1 .. m
  <2>1. results'[old + i] = items[i] /\ old + i \in DOMAIN results'
    BY <1>4, <1>5, <1>3 DEF old
  <2> QED
    BY <2>1 DEF Listed
<1>14. \A k \in kept : k <= token + PageSize =>
          k \in Listed' \/ \E i \in 1 .. n : i > m /\ items[i] = k
  <2> SUFFICES ASSUME NEW k \in kept, k <= token + PageSize
               PROVE  k \in Listed' \/ \E i \in 1 .. n : i > m /\ items[i] = k
    OBVIOUS
  <2>1. CASE k <= token
    BY <1>2, <1>12, <2>1 DEF PageInv
  <2>2. CASE token < k
    <3>1. PICK i \in 1 .. n : items[i] = k
      BY <1>2, <1>5, <2>2, ItemsFacts DEF n
    <3> QED
      BY <1>3, <1>13, <3>1
  <2> QED
    BY <1>5, <2>1, <2>2
<1>15. ~Full(n) => \A k \in kept : k <= token + PageSize => k \in Listed'
  BY <1>3, <1>6, <1>14
<1>16. LastPage(token) => \A k \in kept : k <= token + PageSize
  BY <1>5 DEF LastPage, IsTruncated
<1>17. CASE pc' = "done" /\ outcome' = "listed" /\ UNCHANGED token
            /\ (Full(n) \/ LastPage(token))
  <2>1. TypeOK' /\ PageInv'
    BY <1>2, <1>4, <1>17 DEF TypeOK, PageInv
  <2>2. limit > 0 => Len(results') <= limit
    BY <1>4, <1>5, <1>6, <1>3 DEF old
  <2>3. CASE ~Full(n)
    <3>1. kept \subseteq Listed'
      BY <1>15, <1>16, <1>17, <2>3
    <3> QED
      BY <1>2, <1>11, <2>1, <2>2, <3>1 DEF IInv, KeptAreListed, CutAtTheEnd
  <2>4. CASE Full(n)
    <3>1. KeptAreListed'
      BY <1>2, <1>4, <1>6, <2>4 DEF KeptAreListed, old
    <3>2. results'[Len(results')] = items[m] /\ m \in 1 .. n
      BY <1>3, <1>4, <1>6, <2>4 DEF old
    <3>3. ASSUME NEW k \in kept, k < items[m] PROVE k \in Listed'
      <4>1. k <= token + PageSize
        BY <1>5, <1>7, <3>2, <3>3
      <4>2. \A i \in 1 .. n : i > m => items[i] # k
        BY <1>5, <1>7, <1>8, <3>2, <3>3
      <4> QED
        BY <1>14, <4>1, <4>2
    <3> QED
      BY <1>2, <1>11, <2>1, <2>2, <3>1, <3>2, <3>3 DEF IInv, CutAtTheEnd
  <2> QED
    BY <2>3, <2>4
<1>18. CASE token' = token + PageSize /\ UNCHANGED <<pc, outcome>>
            /\ ~Full(n) /\ ~LastPage(token)
  <2>1. TypeOK'
    <3>1. PICK k \in bucket : k > token + PageSize
      BY <1>18 DEF LastPage, IsTruncated
    <3>2. k \in 1 .. MaxKey
      BY <1>2, <3>1 DEF TypeOK, Keys
    <3> QED
      BY <1>2, <1>4, <1>5, <1>18, <3>1, <3>2, ListingAssumption DEF TypeOK
  <2>2. \A i \in DOMAIN results' : results'[i] <= token'
    <3> TAKE i \in DOMAIN results'
    <3>1. CASE i \in 1 .. old /\ results'[i] = results[i]
      BY <1>5, <1>9, <1>18, <3>1
    <3>2. CASE i - old \in 1 .. m /\ i > old /\ results'[i] = items[i - old]
      <4>1. i - old \in 1 .. n
        BY <1>3, <3>2
      <4> QED
        BY <1>7, <1>18, <3>2, <4>1
    <3> QED
      BY <1>5, <1>10, <3>1, <3>2
  <2>3. PageInv'
    BY <1>2, <1>4, <1>6, <1>15, <1>18, <2>2 DEF PageInv, old
  <2>4. KeptAreListed' /\ CutAtTheEnd'
    BY <1>2, <1>4, <1>5, <1>6, <1>18 DEF PageInv, KeptAreListed, CutAtTheEnd, old
  <2> QED
    BY <1>11, <2>1, <2>3, <2>4 DEF IInv
<1> QED
  BY <1>1, <1>17, <1>18 DEF NextToken, n

-----------------------------------------------------------------------------
(* The theorems. *)

\* The invariant holds of every listing.
THEOREM Invariance == Spec => []IInv
<1>1. Init => IInv
  <2> SUFFICES ASSUME Init PROVE IInv
    OBVIOUS
  <2>1. results = <<>> /\ results \in Seq(Keys) /\ Len(results) = 0 /\ DOMAIN results = {}
    BY DEF Init
  <2>2. TypeOK
    BY <2>1, ListingAssumption DEF Init, TypeOK
  <2>3. PageInv
    BY <2>1, LimitAssumption, ListingAssumption DEF Init, PageInv, Keys, NoLimit
  <2> QED
    BY <2>1, <2>2, <2>3, LimitAssumption
    DEF Init, IInv, InOrderOnce, KeptAreListed, CutAtTheEnd, NoLimit
<1>2. IInv /\ [Next]_vars => IInv'
  <2> SUFFICES ASSUME IInv, [Next]_vars PROVE IInv'
    OBVIOUS
  <2>1. CASE Page
    BY <2>1, PageKeeps
  <2>2. CASE PageFails
    BY <2>2 DEF PageFails, IInv, TypeOK, PageInv, InOrderOnce, KeptAreListed, CutAtTheEnd, Listed
  <2>3. CASE Change
    <3>1. /\ pc = "page" /\ changes' \in 0 .. MaxChanges
          /\ kept' \subseteq kept /\ kept' \subseteq bucket' /\ bucket' \subseteq Keys
          /\ UNCHANGED <<limit, pc, token, results, outcome>>
      BY <2>3, ListingAssumption DEF Change, IInv, TypeOK
    <3> QED
      BY <3>1 DEF IInv, TypeOK, PageInv, InOrderOnce, KeptAreListed, CutAtTheEnd, Listed
  <2>4. CASE UNCHANGED vars
    BY <2>4 DEF vars, IInv, TypeOK, PageInv, InOrderOnce, KeptAreListed, CutAtTheEnd, Listed
  <2> QED
    BY <2>1, <2>2, <2>3, <2>4 DEF Next
<1> QED
  BY <1>1, <1>2, PTL DEF Spec

\* The variables stay in their types.
THEOREM TypeCorrect == Spec => []TypeOK
  BY Invariance, PTL DEF IInv

\* Keys come in order and once, whatever other clients do between the pages.
THEOREM OrderedOnce == Spec => []InOrderOnce
  BY Invariance, PTL DEF IInv

\* A listing that is not cut short holds every key that stayed.
THEOREM NoneIsMissed == Spec => []KeptAreListed
  BY Invariance, PTL DEF IInv

\* A positive limit is a cap, and cuts the listing at its end only.
THEOREM LimitCutsTheEnd == Spec => []CutAtTheEnd
  BY Invariance, PTL DEF IInv
=============================================================================
