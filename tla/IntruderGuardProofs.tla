------------------------ MODULE IntruderGuardProofs ------------------------
(***************************************************************************)
(* Proofs about IntruderGuard, for every configuration, cooldown, window   *)
(* and budget: the siren is never left alone, uploads keep their distance  *)
(* and their quota, and an hour hears of one intrusion more than the quota *)
(* at most.                                                                *)
(***************************************************************************)
EXTENDS IntruderGuard, NaturalsInduction, WellFoundedInduction, SequenceTheorems, TLAPS

-----------------------------------------------------------------------------
(* Ages.                                                                   *)

\* A set of numbers has a least one.
LEMMA Least ==
    ASSUME NEW s \in SUBSET Nat, s # {}
    PROVE  Min(s) \in s /\ \A i \in s : Min(s) <= i
<1> DEFINE Less == {z \in Nat \X Nat : z[1] < z[2]}
<1>1. IsWellFoundedOn(Less, Nat)
  BY NatLessThanWellFounded DEF OpToRel
<1>2. PICK x \in s : \A y \in s : <<y, x>> \notin Less
  BY <1>1, WFMin
<1>3. ASSUME NEW y \in s PROVE x <= y
  <2>1. <<y, x>> \in Nat \X Nat /\ <<y, x>>[1] = y /\ <<y, x>>[2] = x
    OBVIOUS
  <2>2. ~(y < x)
    BY <1>2, <2>1
  <2>3. QED
    BY <2>2
<1>4. QED
  BY <1>3 DEF Min

\* What is left of a deque is its end, from the first element that is kept.
LEMMA Rest ==
    ASSUME NEW S, NEW ages \in Seq(S), NEW kept \in SUBSET DOMAIN ages
    PROVE  \E d \in 0 .. Len(ages) :
               /\ From(ages, kept) \in Seq(S)
               /\ Len(From(ages, kept)) = Len(ages) - d
               /\ \A i \in 1 .. Len(ages) - d : From(ages, kept)[i] = ages[i + d]
               /\ d < Len(ages) => d + 1 \in kept
               /\ \A i \in kept : i > d
<1>1. Len(ages) \in Nat /\ DOMAIN ages = 1 .. Len(ages)
  BY LenProperties
<1>2. CASE kept = {}
  <2>1. From(ages, kept) = <<>>
    BY <1>2 DEF From
  <2>2. Len(ages) \in 0 .. Len(ages) /\ Len(ages) - Len(ages) = 0
    BY <1>1
  <2>3. From(ages, kept) \in Seq(S) /\ Len(From(ages, kept)) = Len(ages) - Len(ages)
    BY <2>1, <2>2
  <2>4. \A i \in 1 .. Len(ages) - Len(ages) : From(ages, kept)[i] = ages[i + Len(ages)]
    BY <2>2
  <2>5. ~(Len(ages) < Len(ages)) /\ \A i \in kept : i > Len(ages)
    BY <1>1, <1>2
  <2> WITNESS Len(ages) \in 0 .. Len(ages)
  <2>6. QED
    BY <2>3, <2>4, <2>5
<1>3. CASE kept # {}
  <2> DEFINE m == Min(kept)
  <2>1. m \in kept /\ \A i \in kept : m <= i
    BY <1>1, <1>3, Least
  <2>2. From(ages, kept) = SubSeq(ages, m, Len(ages))
    BY <1>3 DEF From
  <2>3. m \in 1 .. Len(ages)
    BY <1>1, <2>1
  <2> HIDE DEF m
  <2>4. \A i \in m .. Len(ages) : ages[i] \in S
    BY <1>1, <2>3, ElementOfSeq
  <2>5. /\ SubSeq(ages, m, Len(ages)) \in Seq(S)
        /\ Len(SubSeq(ages, m, Len(ages))) = Len(ages) - m + 1
        /\ \A i \in 1 .. Len(ages) - m + 1 : SubSeq(ages, m, Len(ages))[i] = ages[m + i - 1]
    BY <1>1, <2>3, <2>4, SubSeqProperties
  <2> DEFINE d == m - 1
  <2>6. d \in 0 .. Len(ages) /\ Len(ages) - m + 1 = Len(ages) - d /\ d + 1 = m
    BY <1>1, <2>3
  <2>7. \A i \in 1 .. Len(ages) - d : From(ages, kept)[i] = ages[i + d]
    <3>1. ASSUME NEW i \in 1 .. Len(ages) - d PROVE i \in 1 .. Len(ages) - m + 1 /\ m + i - 1 = i + d
      BY <1>1, <2>3
    <3>2. QED
      BY <2>2, <2>5, <3>1
  <2>8. \A i \in kept : i > d
    BY <1>1, <2>1, <2>3
  <2>9. QED
    BY <2>1, <2>2, <2>5, <2>6, <2>7, <2>8
<1>4. QED
  BY <1>2, <1>3

Age == 0 .. Window + 1

\* A unit of time later, everything is older, and what left the hour stays out of it.
LEMMA GrownOlder ==
    ASSUME NEW ages \in Seq(Age)
    PROVE  /\ Older(ages) \in Seq(Age)
           /\ Len(Older(ages)) = Len(ages)
           /\ \A i \in 1 .. Len(ages) :
                  Older(ages)[i] = IF ages[i] > Window THEN ages[i] ELSE ages[i] + 1
<1>1. Len(ages) \in Nat /\ DOMAIN ages = 1 .. Len(ages)
  BY LenProperties
<1>2. \A i \in 1 .. Len(ages) : (IF ages[i] > Window THEN ages[i] ELSE ages[i] + 1) \in Age
  <2>1. ASSUME NEW i \in 1 .. Len(ages) PROVE ages[i] \in Age
    BY <1>1, ElementOfSeq
  <2>2. QED
    BY <2>1, TimeAssumption DEF Age
<1>3. Older(ages) = [i \in 1 .. Len(ages) |-> IF ages[i] > Window THEN ages[i] ELSE ages[i] + 1]
  BY <1>1 DEF Older
<1>4. QED
  BY <1>1, <1>2, <1>3

-----------------------------------------------------------------------------
(* The quota.                                                              *)

Ages == AgeOK(uploads) /\ AgeOK(rung)

Quota == Spaced /\ InBudget /\ Answered /\ Recent

LEMMA Lengths ==
    ASSUME Ages
    PROVE  /\ Len(uploads) \in Nat /\ DOMAIN uploads = 1 .. Len(uploads)
           /\ Len(rung) \in Nat /\ DOMAIN rung = 1 .. Len(rung)
           /\ \A i \in 1 .. Len(uploads) : uploads[i] \in Age
           /\ \A i \in 1 .. Len(rung) : rung[i] \in Age
           /\ uploads \in Seq(Age) /\ rung \in Seq(Age)
BY LenProperties, ElementOfSeq DEF Ages, AgeOK, Age

\* Uploads are counted one after the other.
LEMMA Sorted ==
    ASSUME Ages, Spaced, NEW i \in 1 .. Len(uploads), NEW j \in 1 .. Len(uploads), i <= j
    PROVE  uploads[j] <= uploads[i]
<1>1. uploads[i] \in Age /\ uploads[j] \in Age
  BY Lengths
<1>2. CASE i = j
  BY <1>1, <1>2, TimeAssumption DEF Age
<1>3. CASE i # j
  <2>1. uploads[i] >= uploads[j] + Cooldown \/ uploads[i] > Window
    BY <1>3, Lengths DEF Spaced
  <2>2. QED
    BY <1>1, <2>1, TimeAssumption DEF Age
<1>4. QED
  BY <1>2, <1>3

\* The uploads counted after the alerts of the last hour were counted in that hour.
LEMMA InHour ==
    ASSUME Ages, Quota, NEW j \in 1 .. Len(rung), NextUpload(j) <= Len(uploads)
    PROVE  /\ NextUpload(j) \in 1 .. Len(uploads)
           /\ uploads[NextUpload(j)] <= rung[j]
           /\ uploads[NextUpload(j)] <= Window
<1> DEFINE m == Len(uploads)
           n == Len(rung)
           c == IF Pending THEN 0 ELSE 1
<1>1. m \in Nat /\ n \in Nat /\ c \in {0, 1} /\ 1 \in 1 .. n
  BY Lengths
<1>2. NextUpload(j) = m - (n - j) + c /\ NextUpload(1) = m - (n - 1) + c
  BY DEF NextUpload
<1>3. NextUpload(j) \in Int /\ NextUpload(1) \in Int /\ NextUpload(1) <= NextUpload(j)
  <2> HIDE DEF m, n, c
  <2>1. QED
    BY <1>1, <1>2
<1>4. NextUpload(1) <= m /\ NextUpload(j) <= m
  <2>1. NextUpload(j) <= m
    OBVIOUS
  <2> HIDE DEF m, n, c
  <2>2. QED
    BY <1>1, <1>3, <2>1
<1>5. /\ NextUpload(1) >= 1 /\ uploads[NextUpload(1)] <= rung[1]
      /\ NextUpload(j) >= 1 /\ uploads[NextUpload(j)] <= rung[j]
  BY <1>1, <1>4, Lengths DEF Quota, Answered
<1>6. NextUpload(1) \in 1 .. m /\ NextUpload(j) \in 1 .. m
  <2> HIDE DEF m, n, c
  <2>1. QED
    BY <1>1, <1>3, <1>4, <1>5
<1>7. uploads[NextUpload(j)] <= uploads[NextUpload(1)]
  BY <1>3, <1>6, Sorted DEF Quota
<1>8. rung[1] <= Window
  BY <1>1, Lengths DEF Quota, Recent
<1>9. /\ uploads[NextUpload(j)] \in Int /\ uploads[NextUpload(1)] \in Int
      /\ rung[1] \in Int
  BY <1>1, <1>6, Lengths, TimeAssumption DEF Age
<1>10. uploads[NextUpload(j)] <= Window
  BY <1>5, <1>7, <1>8, <1>9, TimeAssumption
<1>11. QED
  BY <1>5, <1>6, <1>10

\* An alert that is not sent leaves an upload too many, which is on the safe side.
LEMMA QuotaRests ==
    ASSUME Ages, Quota, uploads' = uploads, rung' = rung, Pending' => Pending
    PROVE  Ages' /\ Quota'
<1>1. Ages' /\ Spaced' /\ InBudget' /\ Recent'
  BY DEF Ages, AgeOK, Quota, Spaced, InBudget, Recent
<1>2. ASSUME NEW j \in 1 .. Len(rung), NextUpload(j)' <= Len(uploads)
      PROVE  NextUpload(j)' >= 1 /\ uploads[NextUpload(j)'] <= rung[j]
  <2> DEFINE m == Len(uploads)
             n == Len(rung)
             k == NextUpload(j)
             q == NextUpload(j)'
  <2>1. m \in Nat /\ n \in Nat
    BY Lengths
  <2>2. k = m - (n - j) + (IF Pending THEN 0 ELSE 1) /\ q = m - (n - j) + (IF Pending' THEN 0 ELSE 1)
    BY DEF NextUpload
  <2>3. q <= m
    BY <1>2
  <2> HIDE DEF m, n, k, q
  <2>4. k \in Int /\ q \in Int /\ k <= q /\ k <= m
    BY <2>1, <2>2, <2>3
  <2>5. k \in 1 .. m /\ uploads[k] <= rung[j]
    BY <2>4, InHour DEF k, m
  <2>6. q \in 1 .. m
    BY <2>1, <2>3, <2>4, <2>5
  <2>7. uploads[q] <= uploads[k]
    BY <2>4, <2>5, <2>6, Sorted DEF Quota, m
  <2>8. uploads[q] \in Int /\ uploads[k] \in Int /\ rung[j] \in Int
    BY <2>5, <2>6, Lengths, TimeAssumption DEF Age, m
  <2>9. QED
    BY <2>5, <2>6, <2>7, <2>8 DEF q
<1>3. Answered'
  BY <1>2, Lengths DEF Answered
<1>4. QED
  BY <1>1, <1>3 DEF Quota

\* What _should_upload leaves of the deque.
LEMMA Left ==
    ASSUME Ages
    PROVE  \E d \in 0 .. Len(uploads) :
               /\ Pruned \in Seq(Age)
               /\ Len(Pruned) = Len(uploads) - d
               /\ \A i \in 1 .. Len(uploads) - d : Pruned[i] = uploads[i + d]
               /\ \A i \in 1 .. Len(uploads) : uploads[i] <= Window => i > d
<1> DEFINE kept == {i \in DOMAIN uploads : InWindow(uploads[i])}
<1>1. kept \in SUBSET DOMAIN uploads /\ uploads \in Seq(Age) /\ Pruned = From(uploads, kept)
  BY Lengths DEF Pruned
<1>2. \A i \in 1 .. Len(uploads) : uploads[i] <= Window => i \in kept
  BY Lengths DEF InWindow
<1> HIDE DEF kept
<1>3. PICK d \in 0 .. Len(uploads) :
         /\ From(uploads, kept) \in Seq(Age)
         /\ Len(From(uploads, kept)) = Len(uploads) - d
         /\ \A i \in 1 .. Len(uploads) - d : From(uploads, kept)[i] = uploads[i + d]
         /\ \A i \in kept : i > d
  BY <1>1, Rest
<1>4. QED
  BY <1>1, <1>2, <1>3

\* Suppressed: the old ones leave the deque.
LEMMA QuotaPrunes ==
    ASSUME Ages, Quota, uploads' = Pruned, rung' = rung, ~Pending, ~Pending'
    PROVE  Ages' /\ Quota'
<1>1. PICK d \in 0 .. Len(uploads) :
          /\ Pruned \in Seq(Age)
          /\ Len(Pruned) = Len(uploads) - d
          /\ \A i \in 1 .. Len(uploads) - d : Pruned[i] = uploads[i + d]
          /\ \A i \in 1 .. Len(uploads) : uploads[i] <= Window => i > d
  BY Left
<1> DEFINE m == Len(uploads)
           n == Len(rung)
<1>2. /\ m \in Nat /\ n \in Nat /\ d \in 0 .. m /\ Len(uploads') = m - d
      /\ DOMAIN uploads' = 1 .. m - d
  BY <1>1, Lengths, LenProperties
<1>3. \A i \in 1 .. m - d : uploads'[i] = uploads[i + d] /\ i + d \in 1 .. m
  <2>1. \A i \in 1 .. m - d : i + d \in 1 .. m
    <3> HIDE DEF m
    <3>1. QED
      BY <1>2
  <2>2. QED
    BY <1>1, <2>1
<1>4. Ages'
  BY <1>1 DEF Ages, AgeOK, Age
<1>5. Spaced'
  <2> SUFFICES ASSUME NEW i \in 1 .. m - d, NEW j \in 1 .. m - d, i < j
               PROVE  uploads'[i] >= uploads'[j] + Cooldown \/ uploads'[i] > Window
    BY <1>2 DEF Spaced
  <2>1. i + d < j + d
    BY <1>2
  <2>2. QED
    BY <1>3, <2>1, Lengths DEF Quota, Spaced
<1>6. InBudget'
  <2> SUFFICES ASSUME NEW i \in 1 .. m - d, uploads'[i] <= Window
               PROVE  m - d - i < Budget
    BY <1>2 DEF InBudget
  <2>1. m - (i + d) < Budget
    BY <1>3, Lengths DEF Quota, InBudget
  <2> HIDE DEF m
  <2>2. QED
    BY <1>2, <2>1, CountAssumption
<1>7. ASSUME NEW j \in 1 .. n, NextUpload(j)' <= m - d
      PROVE  NextUpload(j)' >= 1 /\ uploads'[NextUpload(j)'] <= rung[j]
  <2> DEFINE k == NextUpload(j)
             q == NextUpload(j)'
  <2>1. k = m - (n - j) + 1 /\ q = m - d - (n - j) + 1
    BY <1>2 DEF NextUpload
  <2>2. q <= m - d
    BY <1>7
  <2> HIDE DEF m, n, k, q
  <2>3. k <= m /\ q = k - d
    BY <1>2, <2>1, <2>2
  <2>4. k \in 1 .. m /\ uploads[k] <= rung[j] /\ uploads[k] <= Window
    BY <2>3, InHour DEF k, m, n
  <2>5. k > d
    BY <1>1, <2>4 DEF m
  <2>6. q \in 1 .. m - d /\ q + d = k
    BY <1>2, <2>3, <2>4, <2>5
  <2>7. QED
    BY <1>3, <2>4, <2>6 DEF q
<1>8. Answered'
  BY <1>2, <1>7, Lengths DEF Answered
<1>9. QED
  BY <1>4, <1>5, <1>6, <1>8 DEF Quota, Recent

\* Detected: one more is counted, when the quota lets it.
LEMMA QuotaCounts ==
    ASSUME Ages, Quota, ShouldUpload, uploads' = Append(Pruned, 0), rung' = rung, ~Pending, Pending'
    PROVE  Ages' /\ Quota'
<1>1. PICK d \in 0 .. Len(uploads) :
          /\ Pruned \in Seq(Age)
          /\ Len(Pruned) = Len(uploads) - d
          /\ \A i \in 1 .. Len(uploads) - d : Pruned[i] = uploads[i + d]
          /\ \A i \in 1 .. Len(uploads) : uploads[i] <= Window => i > d
  BY Left
<1> DEFINE m == Len(uploads)
           n == Len(rung)
           l == m - d + 1
<1>2. m \in Nat /\ n \in Nat /\ d \in 0 .. m /\ l \in Nat /\ l >= 1 /\ l - 1 = m - d
  BY <1>1, Lengths
<1>3. /\ uploads' \in Seq(Age) /\ Len(uploads') = l /\ uploads'[l] = 0
      /\ \A i \in 1 .. l - 1 : uploads'[i] = Pruned[i]
  <2>1. 0 \in Age
    BY TimeAssumption DEF Age
  <2>2. QED
    BY <1>1, <1>2, <2>1, AppendProperties
<1>4. DOMAIN uploads' = 1 .. l
  BY <1>3, LenProperties
<1>5. \A i \in 1 .. l - 1 : uploads'[i] = uploads[i + d] /\ i + d \in 1 .. m
  <2>1. \A i \in 1 .. l - 1 : i + d \in 1 .. m
    <3> HIDE DEF m
    <3>1. QED
      BY <1>2
  <2>2. QED
    BY <1>1, <1>2, <1>3, <2>1
<1>6. Ages'
  BY <1>3 DEF Ages, AgeOK, Age
<1>7. l <= Budget
  <2>1. m - d < Budget
    BY <1>1 DEF ShouldUpload
  <2> HIDE DEF m, l
  <2>2. QED
    BY <1>2, <2>1, CountAssumption
<1> HIDE DEF l
<1>8. Spaced'
  <2> SUFFICES ASSUME NEW i \in 1 .. l, NEW j \in 1 .. l, i < j
               PROVE  uploads'[i] >= uploads'[j] + Cooldown \/ uploads'[i] > Window
    BY <1>4 DEF Spaced
  <2>1. i \in 1 .. l - 1
    BY <1>2
  <2>2. CASE j \in 1 .. l - 1
    <3>1. i + d < j + d
      BY <1>2
    <3>2. QED
      BY <1>5, <2>1, <2>2, <3>1, Lengths DEF Quota, Spaced
  <2>3. CASE j = l
    <3>1. i + d \in 1 .. m /\ m \in 1 .. m /\ i + d <= m /\ uploads # <<>>
      <4>1. i + d \in 1 .. m
        BY <1>5, <2>1
      <4>2. m \in 1 .. m /\ i + d <= m
        <5> HIDE DEF m
        <5>1. QED
          BY <1>2, <4>1
      <4>3. QED
        BY <4>1, <4>2, Lengths, EmptySeq
    <3>2. uploads[m] >= Cooldown /\ uploads[m] <= uploads[i + d]
      BY <3>1, Sorted DEF ShouldUpload, Cooled, Quota
    <3>3. uploads[m] \in Int /\ uploads[i + d] \in Int
      BY <3>1, Lengths, TimeAssumption DEF Age
    <3>4. uploads'[i] = uploads[i + d] /\ uploads'[j] = 0
      BY <1>3, <1>5, <2>1, <2>3
    <3>5. \A a, b \in Int : b >= Cooldown /\ b <= a => a >= 0 + Cooldown
      BY TimeAssumption
    <3>6. uploads[i + d] >= 0 + Cooldown
      BY <3>2, <3>3, <3>5
    <3>7. QED
      BY <3>4, <3>6
  <2>4. j \in 1 .. l - 1 \/ j = l
    <3> HIDE DEF m, n
    <3>1. QED
      BY <1>2
  <2>5. QED
    BY <2>2, <2>3, <2>4
<1>9. InBudget'
  BY <1>2, <1>3, <1>4, <1>7, CountAssumption DEF InBudget
<1>10. ASSUME NEW j \in 1 .. n, NextUpload(j)' <= l
       PROVE  NextUpload(j)' >= 1 /\ uploads'[NextUpload(j)'] <= rung[j]
  <2> DEFINE k == NextUpload(j)
             q == NextUpload(j)'
  <2>1. k = m - (n - j) + 1 /\ q = l - (n - j)
    BY <1>3 DEF NextUpload
  <2>2. CASE j = n
    <3>1. q = l
      BY <1>2, <2>1, <2>2
    <3>2. rung[j] \in Nat
      BY Lengths, TimeAssumption DEF Age
    <3>3. QED
      BY <1>2, <1>3, <3>1, <3>2
  <2>3. CASE j # n
    <3>0. m = Len(uploads)
      OBVIOUS
    <3> HIDE DEF m, n, k, q
    <3>1. k <= m /\ q = k - d
      BY <1>2, <2>1, <2>3
    <3>2. k \in 1 .. m /\ uploads[k] <= rung[j] /\ uploads[k] <= Window
      BY <3>1, InHour DEF k, m, n
    <3>3. k > d
      BY <1>1, <3>2 DEF m
    <3>4. q \in 1 .. l - 1 /\ q + d = k
      BY <1>2, <3>1, <3>2, <3>3
    <3>5. q >= 1
      BY <1>2, <3>4
    <3>a. uploads'[q] = uploads[k]
      BY <1>5, <3>4
    <3>6. QED
      BY <3>2, <3>5, <3>a DEF q
  <2>4. QED
    BY <2>2, <2>3
<1>11. Answered'
  BY <1>3, <1>10, Lengths DEF Answered
<1>12. QED
  BY <1>6, <1>8, <1>9, <1>11 DEF Quota, Recent

\* An alert: from here on the next upload is one more.
LEMMA QuotaSends ==
    ASSUME Ages, Quota, uploads' = uploads, rung' = Append(rung, 0), Pending, ~Pending'
    PROVE  Ages' /\ Quota'
<1> DEFINE m == Len(uploads)
           n == Len(rung)
<1>1. m \in Nat /\ n \in Nat
  BY Lengths
<1>2. /\ rung' \in Seq(Age) /\ Len(rung') = n + 1 /\ rung'[n + 1] = 0
      /\ \A i \in 1 .. n : rung'[i] = rung[i]
  <2>1. 0 \in Age
    BY TimeAssumption DEF Age
  <2>2. QED
    BY <2>1, Lengths, AppendProperties
<1>3. DOMAIN rung' = 1 .. n + 1
  BY <1>2, LenProperties
<1>4. Ages' /\ Spaced' /\ InBudget'
  BY <1>2 DEF Ages, AgeOK, Age, Quota, Spaced, InBudget
<1>5. ASSUME NEW j \in 1 .. n + 1, NextUpload(j)' <= m
      PROVE  NextUpload(j)' >= 1 /\ uploads[NextUpload(j)'] <= rung'[j]
  <2> DEFINE q == NextUpload(j)'
             k == NextUpload(j)
  <2>1. q = m - (n + 1 - j) + 1 /\ k = m - (n - j) + 0
    BY <1>2 DEF NextUpload
  <2>2. q <= m
    BY <1>5
  <2>0. m = Len(uploads) /\ n = Len(rung)
    OBVIOUS
  <2> HIDE DEF m, n, k, q
  <2>3. j \in 1 .. n /\ k = q
    BY <1>1, <2>1, <2>2
  <2>4. k \in 1 .. m /\ uploads[k] <= rung[j]
    BY <2>0, <2>2, <2>3, InHour DEF k
  <2>5. q >= 1
    BY <1>1, <2>3, <2>4
  <2>6. QED
    BY <1>2, <2>3, <2>4, <2>5 DEF q
<1>6. Answered'
  BY <1>3, <1>5 DEF Answered
<1>7. Recent'
  <2>1. CASE n = 0
    BY <1>2, <2>1, TimeAssumption DEF Recent
  <2>2. CASE n # 0
    <3>1. 1 \in 1 .. n /\ rung # <<>>
      BY <1>1, <2>2, Lengths
    <3>2. QED
      BY <1>2, <3>1 DEF Quota, Recent
  <2>3. QED
    BY <2>1, <2>2
<1>8. QED
  BY <1>4, <1>6, <1>7 DEF Quota

\* Growing older keeps who is older.
LEMMA OlderStays ==
    ASSUME NEW a \in Age, NEW b \in Age, NEW x, NEW y,
           x = IF a > Window THEN a ELSE a + 1, y = IF b > Window THEN b ELSE b + 1
    PROVE  /\ x \in Age /\ y \in Age
           /\ b <= a => y <= x
           /\ a >= b + Cooldown \/ a > Window => x >= y + Cooldown \/ x > Window
           /\ x <= Window => a <= Window
BY TimeAssumption DEF Age

\* Time passes; alerts of more than an hour ago are forgotten.
LEMMA QuotaAges ==
    ASSUME Ages, Quota, Tick
    PROVE  Ages' /\ Quota'
<1> DEFINE m == Len(uploads)
           n == Len(rung)
           old == Older(rung)
           kept == {i \in DOMAIN rung : Older(rung)[i] <= Window}
<1>1. m \in Nat /\ n \in Nat /\ uploads \in Seq(Age) /\ rung \in Seq(Age) /\ DOMAIN rung = 1 .. n
  BY Lengths
<1>2. /\ uploads' \in Seq(Age) /\ Len(uploads') = m
      /\ \A i \in 1 .. m : uploads'[i] = IF uploads[i] > Window THEN uploads[i] ELSE uploads[i] + 1
  BY <1>1, GrownOlder DEF Tick
<1>3. /\ old \in Seq(Age) /\ Len(old) = n
      /\ \A i \in 1 .. n : old[i] = IF rung[i] > Window THEN rung[i] ELSE rung[i] + 1
  BY <1>1, GrownOlder
<1>4. DOMAIN uploads' = 1 .. m /\ DOMAIN old = 1 .. n
  BY <1>2, <1>3, LenProperties
<1>5. rung' = From(old, kept) /\ kept \in SUBSET DOMAIN old /\ \A i \in kept : old[i] <= Window
  BY <1>1, <1>4 DEF Tick
<1> HIDE DEF kept, old
<1>6. PICK d \in 0 .. n :
         /\ rung' \in Seq(Age)
         /\ Len(rung') = n - d
         /\ \A i \in 1 .. n - d : rung'[i] = old[i + d]
         /\ d < n => d + 1 \in kept
  BY <1>3, <1>5, Rest
<1>7. DOMAIN rung' = 1 .. n - d
  BY <1>6, LenProperties
<1>8. Ages'
  BY <1>2, <1>6 DEF Ages, AgeOK, Age
<1>9. Spaced'
  <2> SUFFICES ASSUME NEW i \in 1 .. m, NEW j \in 1 .. m, i < j
               PROVE  uploads'[i] >= uploads'[j] + Cooldown \/ uploads'[i] > Window
    BY <1>4 DEF Spaced
  <2>1. uploads[i] >= uploads[j] + Cooldown \/ uploads[i] > Window
    BY Lengths DEF Quota, Spaced
  <2>2. QED
    BY <1>2, <2>1, Lengths, OlderStays
<1>10. InBudget'
  <2> SUFFICES ASSUME NEW i \in 1 .. m, uploads'[i] <= Window
               PROVE  m - i < Budget
    BY <1>2, <1>4 DEF InBudget
  <2>1. uploads[i] <= Window
    BY <1>2, Lengths, OlderStays
  <2>2. QED
    BY <2>1, Lengths DEF Quota, InBudget
<1>11. Pending' = Pending
  BY DEF Tick, Pending
<1>12. ASSUME NEW j \in 1 .. n - d, NextUpload(j)' <= m
       PROVE  NextUpload(j)' >= 1 /\ uploads'[NextUpload(j)'] <= rung'[j]
  <2> DEFINE q == NextUpload(j)'
             i == j + d
             k == NextUpload(i)
             c == IF Pending THEN 0 ELSE 1
  <2>1. q = m - (n - d - j) + c /\ k = m - (n - i) + c /\ c \in {0, 1}
    BY <1>2, <1>6, <1>11 DEF NextUpload
  <2>2. q <= m /\ m = Len(uploads) /\ n = Len(rung)
    BY <1>12
  <2>3. i \in 1 .. n /\ i = j + d
    <3> HIDE DEF m, n
    <3>1. QED
      BY <1>1
  <2> HIDE DEF m, n, k, q, i, c
  <2>4. k = q
    BY <1>1, <2>1, <2>3
  <2>5. k \in 1 .. m /\ uploads[k] <= rung[i]
    BY <2>2, <2>3, <2>4, InHour DEF k
  <2>6. uploads'[k] <= old[i]
    BY <1>2, <1>3, <2>2, <2>3, <2>5, Lengths, OlderStays
  <2>7. rung'[j] = old[i]
    BY <1>6, <2>3
  <2>8. q >= 1
    BY <1>1, <2>4, <2>5
  <2>9. QED
    BY <2>4, <2>6, <2>7, <2>8 DEF q
<1>13. Answered'
  BY <1>2, <1>7, <1>12 DEF Answered
<1>14. Recent'
  <2>1. CASE d < n
    <3>1. 1 \in 1 .. n - d /\ 1 + d = d + 1
      <4> HIDE DEF n
      <4>1. QED
        BY <1>1, <2>1
    <3>2. rung'[1] = old[d + 1] /\ old[d + 1] <= Window
      BY <1>5, <1>6, <2>1, <3>1
    <3>3. QED
      BY <3>2 DEF Recent
  <2>2. CASE ~(d < n)
    <3>1. n - d = 0
      <4> HIDE DEF n
      <4>1. QED
        BY <1>1, <2>2
    <3>2. rung' = <<>>
      BY <1>6, <3>1, EmptySeq
    <3>3. QED
      BY <3>2 DEF Recent
  <2>3. QED
    BY <2>1, <2>2
<1>15. QED
  BY <1>8, <1>9, <1>10, <1>13, <1>14 DEF Quota

-----------------------------------------------------------------------------
(* Everything else.                                                        *)

Locals == [cycles : 0 .. PollEvery - 1, verdict : {"none", "owner", "stranger"},
           long : BOOLEAN, spoiled : BOOLEAN]

Shapes ==
    /\ cfg \in Config
    /\ acct \in [armed : BOOLEAN, alert : BOOLEAN]
    /\ lock \in {"free", "ours", "other"}
    /\ pc \in Place
    /\ me \in Locals

Flags == {failed, proof, stop, playing} \subseteq BOOLEAN

LEMMA Parts == GuardInv <=> Shapes /\ Flags /\ Ages /\ SirenAttended /\ Holds /\ Quota
BY DEF GuardInv, TypeOK, Shapes, Locals, Flags, Ages, Quota

LEMMA PartsNext ==
    Shapes' /\ Flags' /\ Ages' /\ SirenAttended' /\ Holds' /\ Quota' => GuardInv'
BY Parts, PTL

\* A turn's end forgets all but the turns.
LEMMA Forgotten ==
    ASSUME Shapes
    PROVE  /\ [NewGuard EXCEPT !.cycles = me.cycles] \in Locals
           /\ [NewGuard EXCEPT !.cycles = me.cycles, !.spoiled = TRUE] \in Locals
           /\ [NewGuard EXCEPT !.cycles = me.cycles, !.verdict = "owner"] \in Locals
           /\ [NewGuard EXCEPT !.cycles = (me.cycles + 1) % PollEvery] \in Locals
           /\ NewGuard \in Locals
<1>1. me.cycles \in 0 .. PollEvery - 1 /\ 0 \in 0 .. PollEvery - 1
  BY CountAssumption DEF Shapes, Locals
<1>2. (me.cycles + 1) % PollEvery \in 0 .. PollEvery - 1
  BY <1>1, CountAssumption
<1> DEFINE c == (me.cycles + 1) % PollEvery
<1> HIDE DEF c
<1>3. [NewGuard EXCEPT !.cycles = c] = [NewGuard EXCEPT !.cycles = (me.cycles + 1) % PollEvery]
  BY DEF c
<1>4. c \in 0 .. PollEvery - 1
  BY <1>2 DEF c
<1>5. QED
  BY <1>1, <1>3, <1>4 DEF NewGuard, Locals

\* The guard starts, turns and rests.
LEMMA StartStep ==
    ASSUME Shapes, Flags, Holds, SirenAttended,
           GuardBusy \/ AcquireGuardLock \/ Baseline \/ ArmsAccount \/ LoopEnds \/
           StaysArmed \/ RemotelyDisarmed \/ Sleep
    PROVE  Shapes' /\ Flags' /\ Holds' /\ SirenAttended'
<1> USE DEF Go, Rests, Leaves, Checks, StandsDown, log, quota
<1>1. CASE GuardBusy
  <2>1. Shapes'
    BY <1>1 DEF GuardBusy, Shapes, Place
  <2>2. Flags'
    BY <1>1 DEF GuardBusy, Flags
  <2>3. Holds' /\ SirenAttended'
    BY <1>1 DEF GuardBusy, Holds, SirenAttended, Disapproved
  <2>4. QED
    BY <2>1, <2>2, <2>3
<1>2. CASE AcquireGuardLock
  <2>1. Shapes'
    BY <1>2 DEF AcquireGuardLock, Shapes, Place
  <2>2. Flags'
    BY <1>2 DEF AcquireGuardLock, Flags
  <2>3. Holds' /\ SirenAttended'
    BY <1>2 DEF AcquireGuardLock, Holds, SirenAttended, Disapproved
  <2>4. QED
    BY <2>1, <2>2, <2>3
<1>3. CASE Baseline
  <2>1. Shapes'
    BY <1>3 DEF Baseline, Shapes, Place
  <2>2. Flags'
    BY <1>3 DEF Baseline, Flags
  <2>3. Holds' /\ SirenAttended'
    BY <1>3 DEF Baseline, Holds, SirenAttended, Disapproved
  <2>4. QED
    BY <2>1, <2>2, <2>3
<1>4. CASE ArmsAccount
  <2>1. Shapes'
    BY <1>4 DEF ArmsAccount, Shapes, Place
  <2>2. Flags'
    BY <1>4 DEF ArmsAccount, Flags
  <2>3. Holds' /\ SirenAttended'
    BY <1>4 DEF ArmsAccount, Holds, SirenAttended, Disapproved
  <2>4. QED
    BY <2>1, <2>2, <2>3
<1>5. CASE LoopEnds
  <2>1. Shapes'
    BY <1>5, Forgotten DEF LoopEnds, Shapes, Place
  <2>2. Flags'
    BY <1>5 DEF LoopEnds, Flags
  <2>3. Holds' /\ SirenAttended'
    BY <1>5 DEF LoopEnds, Holds, SirenAttended, Disapproved
  <2>4. QED
    BY <2>1, <2>2, <2>3
<1>6. CASE StaysArmed
  <2>1. Shapes'
    BY <1>6, Forgotten DEF StaysArmed, Shapes, Place
  <2>2. Flags'
    BY <1>6 DEF StaysArmed, Flags
  <2>3. Holds' /\ SirenAttended'
    BY <1>6 DEF StaysArmed, Holds, SirenAttended, Disapproved
  <2>4. QED
    BY <2>1, <2>2, <2>3
<1>7. CASE RemotelyDisarmed
  <2>1. Shapes'
    BY <1>7, Forgotten DEF RemotelyDisarmed, Shapes, Place
  <2>2. Flags'
    BY <1>7 DEF RemotelyDisarmed, Flags
  <2>3. Holds' /\ SirenAttended'
    BY <1>7 DEF RemotelyDisarmed, Holds, SirenAttended, Disapproved
  <2>4. QED
    BY <2>1, <2>2, <2>3
<1>8. CASE Sleep
  <2>1. Shapes'
    BY <1>8 DEF Sleep, Shapes, Place
  <2>2. Flags'
    BY <1>8 DEF Sleep, Flags
  <2>3. Holds' /\ SirenAttended'
    BY <1>8 DEF Sleep, Holds, SirenAttended, Disapproved
  <2>4. QED
    BY <2>1, <2>2, <2>3
<1>9. QED
  BY <1>1, <1>2, <1>3, <1>4, <1>5, <1>6, <1>7, <1>8

\* It looks at the log, and takes the photo.
LEMMA CheckStep ==
    ASSUME Shapes, Flags, Holds, SirenAttended,
           NothingNew \/ Suppressed \/ Detected \/ NoCamera \/ FirstFrame \/ BurstDone \/
           NoFrame \/ AskAgain \/ FaceVerdict \/ OwnerStandsDown \/ Photo \/ LoopError
    PROVE  Shapes' /\ Flags' /\ Holds' /\ SirenAttended'
<1> USE DEF Go, Rests, Leaves, Checks, StandsDown, log, quota
<1>1. CASE NothingNew
  <2>1. Shapes'
    BY <1>1, Forgotten DEF NothingNew, Shapes, Place
  <2>2. Flags'
    BY <1>1 DEF NothingNew, Flags
  <2>3. Holds' /\ SirenAttended'
    BY <1>1 DEF NothingNew, Holds, SirenAttended, Disapproved
  <2>4. QED
    BY <2>1, <2>2, <2>3
<1>2. CASE Suppressed
  <2>1. Shapes'
    BY <1>2, Forgotten DEF Suppressed, Shapes, Place
  <2>2. Flags'
    BY <1>2 DEF Suppressed, Flags
  <2>3. Holds' /\ SirenAttended'
    BY <1>2 DEF Suppressed, Holds, SirenAttended, Disapproved
  <2>4. QED
    BY <2>1, <2>2, <2>3
<1>3. CASE Detected
  <2>1. Shapes'
    BY <1>3 DEF Detected, Shapes, Place
  <2>2. Flags'
    BY <1>3 DEF Detected, Flags
  <2>3. Holds' /\ SirenAttended'
    BY <1>3 DEF Detected, Holds, SirenAttended, Disapproved
  <2>4. QED
    BY <2>1, <2>2, <2>3
<1>4. CASE NoCamera
  <2>1. Shapes'
    BY <1>4 DEF NoCamera, Shapes, Place
  <2>2. Flags'
    BY <1>4 DEF NoCamera, Flags
  <2>3. Holds' /\ SirenAttended'
    BY <1>4 DEF NoCamera, Holds, SirenAttended, Disapproved
  <2>4. QED
    BY <2>1, <2>2, <2>3
<1>5. CASE FirstFrame
  <2>1. Shapes'
    BY <1>5 DEF FirstFrame, Shapes, Place
  <2>2. Flags'
    BY <1>5 DEF FirstFrame, Flags
  <2>3. Holds' /\ SirenAttended'
    BY <1>5 DEF FirstFrame, Holds, SirenAttended, Disapproved
  <2>4. QED
    BY <2>1, <2>2, <2>3
<1>6. CASE BurstDone
  <2>1. Shapes'
    BY <1>6 DEF BurstDone, Shapes, Place
  <2>2. Flags'
    BY <1>6 DEF BurstDone, Flags
  <2>3. Holds' /\ SirenAttended'
    BY <1>6 DEF BurstDone, Holds, SirenAttended, Disapproved
  <2>4. QED
    BY <2>1, <2>2, <2>3
<1>7. CASE NoFrame
  <2>1. Shapes'
    BY <1>7 DEF NoFrame, Shapes, Place
  <2>2. Flags'
    BY <1>7 DEF NoFrame, Flags
  <2>3. Holds' /\ SirenAttended'
    BY <1>7 DEF NoFrame, Holds, SirenAttended, Disapproved
  <2>4. QED
    BY <2>1, <2>2, <2>3
<1>8. CASE AskAgain
  <2>1. Shapes'
    BY <1>8 DEF AskAgain, Shapes, Place
  <2>2. Flags'
    BY <1>8 DEF AskAgain, Flags
  <2>3. Holds' /\ SirenAttended'
    BY <1>8 DEF AskAgain, Holds, SirenAttended, Disapproved
  <2>4. QED
    BY <2>1, <2>2, <2>3
<1>9. CASE FaceVerdict
  <2>1. Shapes'
    BY <1>9 DEF FaceVerdict, Shapes, Place, Locals
  <2>2. Flags'
    BY <1>9 DEF FaceVerdict, Flags
  <2>3. Holds' /\ SirenAttended'
    BY <1>9 DEF FaceVerdict, Holds, SirenAttended, Disapproved
  <2>4. QED
    BY <2>1, <2>2, <2>3
<1>10. CASE OwnerStandsDown
  <2>1. Shapes'
    BY <1>10, Forgotten DEF OwnerStandsDown, Shapes, Place
  <2>2. Flags'
    BY <1>10 DEF OwnerStandsDown, Flags
  <2>3. Holds' /\ SirenAttended'
    BY <1>10 DEF OwnerStandsDown, Holds, SirenAttended, Disapproved
  <2>4. QED
    BY <2>1, <2>2, <2>3
<1>11. CASE Photo
  <2>1. Shapes'
    BY <1>11 DEF Photo, Shapes, Place
  <2>2. Flags'
    BY <1>11 DEF Photo, Flags
  <2>3. Holds' /\ SirenAttended'
    BY <1>11 DEF Photo, Holds, SirenAttended, Disapproved
  <2>4. QED
    BY <2>1, <2>2, <2>3
<1>12. CASE LoopError
  <2>1. Shapes'
    BY <1>12, Forgotten DEF LoopError, Shapes, Place
  <2>2. Flags'
    BY <1>12 DEF LoopError, Flags
  <2>3. Holds' /\ SirenAttended'
    BY <1>12 DEF LoopError, Holds, SirenAttended, Disapproved
  <2>4. QED
    BY <2>1, <2>2, <2>3
<1>13. QED
  BY <1>1, <1>2, <1>3, <1>4, <1>5, <1>6, <1>7, <1>8, <1>9, <1>10, <1>11, <1>12

\* It alerts, and attends its siren.
LEMMA AlertStep ==
    ASSUME Shapes, Flags, Holds, SirenAttended,
           NoRelay \/ SendAlert \/ SendAlertAgain \/ Quiet \/ Siren \/ SirenOver \/
           SirenGoesOn \/ OwnerSignedIn \/ NobodySignedIn \/ RelayStandsDown \/ RelayKeepsOn
           \/ PollFails
    PROVE  Shapes' /\ Flags' /\ Holds' /\ SirenAttended'
<1> USE DEF Go, Rests, Leaves, Checks, StandsDown, log, quota
<1>1. CASE NoRelay
  <2>1. Shapes'
    BY <1>1 DEF NoRelay, Shapes, Place
  <2>2. Flags'
    BY <1>1 DEF NoRelay, Flags
  <2>3. Holds' /\ SirenAttended'
    BY <1>1 DEF NoRelay, Holds, SirenAttended, Disapproved
  <2>4. QED
    BY <2>1, <2>2, <2>3
<1>2. CASE SendAlert
  <2>1. Shapes'
    BY <1>2 DEF SendAlert, Shapes, Place, AlertUp
  <2>2. Flags'
    BY <1>2 DEF SendAlert, Flags
  <2>3. Holds' /\ SirenAttended'
    BY <1>2 DEF SendAlert, Holds, SirenAttended, Disapproved
  <2>4. QED
    BY <2>1, <2>2, <2>3
<1>3. CASE SendAlertAgain
  <2>1. Shapes'
    BY <1>3 DEF SendAlertAgain, Shapes, Place, AlertUp
  <2>2. Flags'
    BY <1>3 DEF SendAlertAgain, Flags
  <2>3. Holds' /\ SirenAttended'
    BY <1>3 DEF SendAlertAgain, Holds, SirenAttended, Disapproved
  <2>4. QED
    BY <2>1, <2>2, <2>3
<1>4. CASE Quiet
  <2>1. Shapes'
    BY <1>4, Forgotten DEF Quiet, Shapes, Place
  <2>2. Flags'
    BY <1>4 DEF Quiet, Flags
  <2>3. Holds' /\ SirenAttended'
    BY <1>4 DEF Quiet, Holds, SirenAttended, Disapproved
  <2>4. QED
    BY <2>1, <2>2, <2>3
<1>5. CASE Siren
  <2>1. Shapes'
    BY <1>5 DEF Siren, Shapes, Place
  <2>2. Flags'
    BY <1>5 DEF Siren, Flags
  <2>3. Holds' /\ SirenAttended'
    BY <1>5 DEF Siren, Holds, SirenAttended, Disapproved
  <2>4. QED
    BY <2>1, <2>2, <2>3
<1>6. CASE SirenOver
  <2>1. Shapes'
    BY <1>6, Forgotten DEF SirenOver, Shapes, Place
  <2>2. Flags'
    BY <1>6 DEF SirenOver, Flags
  <2>3. Holds' /\ SirenAttended'
    BY <1>6 DEF SirenOver, Holds, SirenAttended, Disapproved
  <2>4. QED
    BY <2>1, <2>2, <2>3
<1>7. CASE SirenGoesOn
  <2>1. Shapes'
    BY <1>7 DEF SirenGoesOn, Shapes, Place
  <2>2. Flags'
    BY <1>7 DEF SirenGoesOn, Flags
  <2>3. Holds' /\ SirenAttended'
    BY <1>7 DEF SirenGoesOn, Holds, SirenAttended, Disapproved
  <2>4. QED
    BY <2>1, <2>2, <2>3
<1>8. CASE OwnerSignedIn
  <2>1. Shapes'
    BY <1>8, Forgotten DEF OwnerSignedIn, Shapes, Place
  <2>2. Flags'
    BY <1>8 DEF OwnerSignedIn, Flags
  <2>3. Holds' /\ SirenAttended'
    BY <1>8 DEF OwnerSignedIn, Holds, SirenAttended, Disapproved
  <2>4. QED
    BY <2>1, <2>2, <2>3
<1>9. CASE NobodySignedIn
  <2>1. Shapes'
    BY <1>9 DEF NobodySignedIn, Shapes, Place
  <2>2. Flags'
    BY <1>9 DEF NobodySignedIn, Flags
  <2>3. Holds' /\ SirenAttended'
    BY <1>9 DEF NobodySignedIn, Holds, SirenAttended, Disapproved
  <2>4. QED
    BY <2>1, <2>2, <2>3
<1>10. CASE RelayStandsDown
  <2>1. Shapes'
    BY <1>10, Forgotten DEF RelayStandsDown, Shapes, Place
  <2>2. Flags'
    BY <1>10 DEF RelayStandsDown, Flags
  <2>3. Holds' /\ SirenAttended'
    BY <1>10 DEF RelayStandsDown, Holds, SirenAttended, Disapproved
  <2>4. QED
    BY <2>1, <2>2, <2>3
<1>11. CASE RelayKeepsOn
  <2>1. Shapes'
    BY <1>11 DEF RelayKeepsOn, Shapes, Place
  <2>2. Flags'
    BY <1>11 DEF RelayKeepsOn, Flags
  <2>3. Holds' /\ SirenAttended'
    BY <1>11 DEF RelayKeepsOn, Holds, SirenAttended, Disapproved
  <2>4. QED
    BY <2>1, <2>2, <2>3
<1>12. CASE PollFails
  <2>1. Shapes'
    BY <1>12 DEF PollFails, Shapes, Place
  <2>2. Flags'
    BY <1>12 DEF PollFails, Flags
  <2>3. Holds' /\ SirenAttended'
    BY <1>12 DEF PollFails, Holds, SirenAttended, Disapproved
  <2>4. QED
    BY <2>1, <2>2, <2>3
<1>13. QED
  BY <1>1, <1>2, <1>3, <1>4, <1>5, <1>6, <1>7, <1>8, <1>9, <1>10, <1>11, <1>12

\* Whoever else acts.
LEMMA OutsideStep ==
    ASSUME Shapes, Flags, Holds, SirenAttended,
           Disarm \/ Interrupt \/ LogonFails \/ LogonSucceeds \/ ArmAccount \/ DisarmAccount
           \/ ClearAlert \/ Tick \/ SirenAges
    PROVE  Shapes' /\ Flags' /\ Holds' /\ SirenAttended'
<1> USE DEF Go, Rests, Leaves, Checks, StandsDown, log, quota
<1>1. CASE Disarm
  <2>1. Shapes'
    BY <1>1 DEF Disarm, Shapes, Place
  <2>2. Flags'
    BY <1>1 DEF Disarm, Flags
  <2>3. Holds' /\ SirenAttended'
    BY <1>1 DEF Disarm, Holds, SirenAttended, Disapproved
  <2>4. QED
    BY <2>1, <2>2, <2>3
<1>2. CASE Interrupt
  <2>1. Shapes'
    BY <1>2, Forgotten DEF Interrupt, Shapes, Place
  <2>2. Flags'
    BY <1>2 DEF Interrupt, Flags
  <2>3. Holds' /\ SirenAttended'
    BY <1>2 DEF Interrupt, Holds, SirenAttended, Disapproved
  <2>4. QED
    BY <2>1, <2>2, <2>3
<1>3. CASE LogonFails
  <2>1. Shapes'
    BY <1>3 DEF LogonFails, Shapes, Place
  <2>2. Flags'
    BY <1>3 DEF LogonFails, Flags
  <2>3. Holds' /\ SirenAttended'
    BY <1>3 DEF LogonFails, Holds, SirenAttended, Disapproved
  <2>4. QED
    BY <2>1, <2>2, <2>3
<1>4. CASE LogonSucceeds
  <2>1. Shapes'
    BY <1>4 DEF LogonSucceeds, Shapes, Place
  <2>2. Flags'
    BY <1>4 DEF LogonSucceeds, Flags
  <2>3. Holds' /\ SirenAttended'
    BY <1>4 DEF LogonSucceeds, Holds, SirenAttended, Disapproved
  <2>4. QED
    BY <2>1, <2>2, <2>3
<1>5. CASE ArmAccount
  <2>1. Shapes'
    BY <1>5 DEF ArmAccount, Shapes, Place
  <2>2. Flags'
    BY <1>5 DEF ArmAccount, Flags
  <2>3. Holds' /\ SirenAttended'
    BY <1>5 DEF ArmAccount, Holds, SirenAttended, Disapproved
  <2>4. QED
    BY <2>1, <2>2, <2>3
<1>6. CASE DisarmAccount
  <2>1. Shapes'
    BY <1>6 DEF DisarmAccount, Shapes, Place
  <2>2. Flags'
    BY <1>6 DEF DisarmAccount, Flags
  <2>3. Holds' /\ SirenAttended'
    BY <1>6 DEF DisarmAccount, Holds, SirenAttended, Disapproved
  <2>4. QED
    BY <2>1, <2>2, <2>3
<1>7. CASE ClearAlert
  <2>1. Shapes'
    BY <1>7 DEF ClearAlert, Shapes, Place
  <2>2. Flags'
    BY <1>7 DEF ClearAlert, Flags
  <2>3. Holds' /\ SirenAttended'
    BY <1>7 DEF ClearAlert, Holds, SirenAttended, Disapproved
  <2>4. QED
    BY <2>1, <2>2, <2>3
<1>8. CASE Tick
  <2>1. Shapes'
    BY <1>8 DEF Tick, Shapes, Place
  <2>2. Flags'
    BY <1>8 DEF Tick, Flags
  <2>3. Holds' /\ SirenAttended'
    BY <1>8 DEF Tick, Holds, SirenAttended, Disapproved
  <2>4. QED
    BY <2>1, <2>2, <2>3
<1>9. CASE SirenAges
  <2>1. Shapes'
    BY <1>9 DEF SirenAges, Shapes, Place, Locals
  <2>2. Flags'
    BY <1>9 DEF SirenAges, Flags
  <2>3. me'.verdict = me.verdict
    BY <1>9 DEF SirenAges, Shapes, Locals
  <2>4. Holds' /\ SirenAttended'
    BY <1>9, <2>3 DEF SirenAges, Holds, SirenAttended, Disapproved
  <2>5. QED
    BY <2>1, <2>2, <2>4
<1>10. QED
  BY <1>1, <1>2, <1>3, <1>4, <1>5, <1>6, <1>7, <1>8, <1>9

\* The quota over all of them.
LEMMA QuotaStep ==
    ASSUME Shapes, Ages, Quota, Next
    PROVE  Ages' /\ Quota'
<1> USE DEF Go, Rests, Leaves, Checks, StandsDown, quota, Pending
<1>1. CASE Tick
  BY <1>1, QuotaAges
<1>2. CASE Detected
  BY <1>2, QuotaCounts DEF Detected
<1>3. CASE SendAlert
  BY <1>3, QuotaSends DEF SendAlert
<1>4. CASE Suppressed
  <2>1. CASE Cooled
    BY <1>4, <2>1, QuotaPrunes DEF Suppressed
  <2>2. CASE ~Cooled
    BY <1>4, <2>2, QuotaRests DEF Suppressed
  <2>3. QED
    BY <2>1, <2>2
<1>5. CASE \/ GuardBusy \/ AcquireGuardLock \/ Baseline \/ ArmsAccount \/ LoopEnds \/ StaysArmed
           \/ RemotelyDisarmed \/ Sleep \/ NothingNew
  BY <1>5, QuotaRests DEF GuardBusy, AcquireGuardLock, Baseline, ArmsAccount, LoopEnds,
     StaysArmed, RemotelyDisarmed, Sleep, NothingNew
<1>6. CASE \/ NoCamera \/ FirstFrame \/ BurstDone \/ NoFrame \/ AskAgain \/ FaceVerdict
           \/ OwnerStandsDown \/ Photo \/ LoopError \/ NoRelay \/ SendAlertAgain
  BY <1>6, QuotaRests DEF NoCamera, FirstFrame, BurstDone, NoFrame, AskAgain, FaceVerdict,
     OwnerStandsDown, Photo, LoopError, NoRelay, SendAlertAgain
<1>7. CASE \/ Quiet \/ Siren \/ SirenOver \/ SirenGoesOn \/ OwnerSignedIn \/ NobodySignedIn
           \/ RelayStandsDown \/ RelayKeepsOn \/ PollFails
  BY <1>7, QuotaRests DEF Quiet, Siren, SirenOver, SirenGoesOn, OwnerSignedIn, NobodySignedIn,
     RelayStandsDown, RelayKeepsOn, PollFails
<1>8. CASE \/ Disarm \/ Interrupt \/ LogonFails \/ LogonSucceeds \/ ArmAccount \/ DisarmAccount
           \/ ClearAlert \/ SirenAges
  BY <1>8, QuotaRests DEF Disarm, Interrupt, LogonFails, LogonSucceeds, ArmAccount,
     DisarmAccount, ClearAlert, SirenAges
<1>9. QED
  BY <1>1, <1>2, <1>3, <1>4, <1>5, <1>6, <1>7, <1>8 DEF Next, Loop, Environment

LEMMA Stutters ==
    ASSUME GuardInv, UNCHANGED vars
    PROVE  GuardInv'
<1>1. /\ cfg' = cfg /\ acct' = acct /\ failed' = failed /\ proof' = proof /\ lock' = lock
      /\ pc' = pc /\ me' = me /\ stop' = stop /\ playing' = playing
      /\ uploads' = uploads /\ rung' = rung
  BY DEF vars, log, quota
<1>2. Shapes' /\ Flags' /\ Ages'
  BY <1>1, Parts DEF Shapes, Flags, Ages, AgeOK
<1>3. SirenAttended' /\ Holds' /\ Spaced' /\ InBudget' /\ Recent'
  BY <1>1, Parts DEF SirenAttended, Holds, Disapproved, Quota, Spaced, InBudget, Recent
<1>4. Ages' /\ Quota'
  BY <1>1, Parts, QuotaRests DEF Pending
<1>5. QED
  BY <1>2, <1>3, <1>4, PartsNext

LEMMA Starts ==
    ASSUME Init
    PROVE  GuardInv
<1>1. Shapes
  <2>1. /\ cfg \in Configs /\ acct \in [armed : BOOLEAN, alert : {FALSE}]
        /\ lock \in {"free", "other"} /\ pc = "start" /\ me = NewGuard
    BY DEF Init
  <2>2. acct \in [armed : BOOLEAN, alert : BOOLEAN]
    BY <2>1
  <2>3. NewGuard \in Locals
    BY CountAssumption DEF Locals, NewGuard
  <2>4. QED
    BY <2>1, <2>2, <2>3, ConfigAssumption DEF Shapes, Place
<1>2. Flags
  BY DEF Init, Flags
<1>3. Ages
  BY DEF Init, Ages, AgeOK
<1>4. SirenAttended /\ Holds
  BY DEF Init, SirenAttended, Holds
<1>5. Quota
  BY DEF Init, Quota, Spaced, InBudget, Answered, Recent
<1>6. QED
  BY <1>1, <1>2, <1>3, <1>4, <1>5, Parts

\* The guard's siren is attended, its lock held, its uploads apart and within the quota, and
\* every alert goes out before the next upload is counted (_check_once, _should_upload).
THEOREM Guarded == Spec => []GuardInv
<1>1. Init => GuardInv
  BY Starts
<1>2. GuardInv /\ [Next]_vars => GuardInv'
  <2> SUFFICES ASSUME GuardInv, [Next]_vars PROVE GuardInv'
    OBVIOUS
  <2>1. Shapes /\ Flags /\ Ages /\ SirenAttended /\ Holds /\ Quota
    BY Parts
  <2>2. CASE Next
    <3>1. Shapes' /\ Flags' /\ Holds' /\ SirenAttended'
      BY <2>1, <2>2, StartStep, CheckStep, AlertStep, OutsideStep DEF Next, Loop, Environment
    <3>2. Ages' /\ Quota'
      BY <2>1, <2>2, QuotaStep
    <3>3. QED
      BY <3>1, <3>2, PartsNext
  <2>3. CASE UNCHANGED vars
    BY <2>3, Stutters
  <2>4. QED
    BY <2>2, <2>3
<1>3. QED
  BY <1>1, <1>2, PTL DEF Spec

\* The relay hears of one intrusion more than the budget in an hour, at most: all but the
\* first of its alerts have an upload of that hour.
THEOREM Capped == Spec => []AlertsCapped
<1>1. GuardInv => AlertsCapped
  <2> SUFFICES ASSUME GuardInv PROVE Len(rung) <= Budget + 1
    BY DEF AlertsCapped
  <2>1. Ages /\ Quota
    BY Parts
  <2> DEFINE m == Len(uploads)
             n == Len(rung)
             k == NextUpload(1)
             c == IF Pending THEN 0 ELSE 1
  <2>2. m \in Nat /\ n \in Nat /\ c \in {0, 1} /\ k = m - (n - 1) + c
    BY <2>1, Lengths DEF NextUpload
  <2>3. CASE n <= 1
    <3> HIDE DEF m, k, c
    <3>1. n <= Budget + 1
      <4> HIDE DEF n
      <4>1. QED
        BY <2>2, <2>3, CountAssumption
    <3>2. QED
      BY <3>1
  <2>4. CASE n > 1
    <3>0. m = Len(uploads) /\ n = Len(rung)
      OBVIOUS
    <3> HIDE DEF m, n, k, c
    <3>1. 1 \in 1 .. n /\ k <= m
      BY <2>2, <2>4
    <3>2. k \in 1 .. m /\ uploads[k] <= Window
      BY <2>1, <3>0, <3>1, InHour DEF k
    <3>3. m - k < Budget
      BY <2>1, <3>0, <3>2, Lengths DEF Quota, InBudget
    <3>4. n <= Budget + 1
      BY <2>2, <3>2, <3>3, CountAssumption
    <3>5. QED
      BY <3>0, <3>4
  <2>5. QED
    BY <2>2, <2>3, <2>4
<1>2. QED
  BY <1>1, Guarded, PTL
=============================================================================
