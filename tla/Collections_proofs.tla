------------------------- MODULE Collections_proofs -------------------------
(***************************************************************************)
(* Induction over the natural numbers in the form of a set that is closed  *)
(* under successors, and what it gives for lists, sums and finite sets.      *)
(***************************************************************************)
EXTENDS Collections, SequencesExt, WellFoundedInduction, FiniteSetTheorems, TLAPS

(* The order of the natural numbers as a relation. *)
Smaller == {ss \in Nat \X Nat : ss[1] < ss[2]}

LEMMA SmallerIsWellFounded == IsWellFoundedOn(Smaller, Nat)
  BY NatLessThanWellFounded DEF OpToRel, Smaller

(* Every set of natural numbers has a least one. *)
LEMMA LeastNumber ==
  ASSUME NEW S, S \subseteq Nat, S # {}
  PROVE  \E n \in S : \A m \in S : n <= m
<1>1. PICK n \in S : \A m \in S : <<m, n>> \notin Smaller
  BY SmallerIsWellFounded, WFMin
<1>2. \A m \in S : ~ (m < n)
  BY <1>1 DEF Smaller
<1> QED BY <1>2

(* And every set of numbers up to a bound has a greatest one.              *)
LEMMA GreatestNumber ==
  ASSUME NEW n \in Nat, NEW S, S \subseteq 1 .. n, S # {}
  PROVE  \E i \in S : \A j \in S : j <= i
<1> DEFINE Above == {n - j : j \in S}
<1>1. Above \subseteq Nat /\ Above # {}
  <2>1. \A j \in S : j \in 1 .. n
    OBVIOUS
  <2>2. \A j \in S : n - j \in Nat
    BY <2>1
  <2> QED BY <2>2
<1>2. PICK d \in Above : \A e \in Above : d <= e
  BY <1>1, LeastNumber
<1>3. PICK i \in S : d = n - i
  OBVIOUS
<1>4. \A j \in S : n - i <= n - j
  BY <1>2, <1>3
<1> QED BY <1>4

(* Induction: a set with 0 and with the successor of each of its numbers   *)
(* holds them all.                                                         *)
LEMMA Induction ==
  ASSUME NEW S, 0 \in S, \A n \in Nat : n \in S => n + 1 \in S
  PROVE  Nat \subseteq S
<1> SUFFICES ASSUME Nat \ S # {} PROVE FALSE
  OBVIOUS
<1>1. PICK n \in Nat \ S : \A m \in Nat \ S : n <= m
  BY LeastNumber
<1>2. n # 0 /\ n - 1 \in Nat
  BY <1>1
<1>3. n - 1 \in S
  BY <1>1, <1>2
<1> QED BY <1>1, <1>2, <1>3

-----------------------------------------------------------------------------
(* The recursion of Among is well defined on every initial segment. *)
Keeping(s, S, kept, n) ==
  kept = [i \in 0 .. n |->
            IF i = 0 THEN <<>>
            ELSE IF s[i] \in S THEN Append(kept[i - 1], s[i]) ELSE kept[i - 1]]

LEMMA KeepingExists ==
  ASSUME NEW s, NEW S, NEW n \in Nat
  PROVE  \E kept : Keeping(s, S, kept, n)
<1> DEFINE Good == {m \in Nat : \E kept : Keeping(s, S, kept, m)}
<1>1. 0 \in Good
  <2>1. Keeping(s, S, [i \in 0 .. 0 |-> <<>>], 0)
    BY DEF Keeping
  <2> QED BY <2>1
<1>2. ASSUME NEW m \in Nat, m \in Good PROVE m + 1 \in Good
  <2>1. PICK kept : Keeping(s, S, kept, m)
    BY <1>2
  <2> DEFINE more == [i \in 0 .. m + 1 |->
                        IF i <= m THEN kept[i]
                        ELSE IF s[i] \in S THEN Append(kept[i - 1], s[i]) ELSE kept[i - 1]]
  <2>2. \A i \in 0 .. m : kept[i] = IF i = 0 THEN <<>>
                                    ELSE IF s[i] \in S THEN Append(kept[i - 1], s[i])
                                    ELSE kept[i - 1]
    BY <2>1 DEF Keeping
  <2>3. \A i \in 0 .. m : more[i] = kept[i]
    OBVIOUS
  <2>4. more[m + 1] = IF s[m + 1] \in S THEN Append(more[m], s[m + 1]) ELSE more[m]
    BY <2>3
  <2> HIDE DEF more
  <2>5. \A i \in 0 .. m + 1 : more[i] = IF i = 0 THEN <<>>
                                        ELSE IF s[i] \in S THEN Append(more[i - 1], s[i])
                                        ELSE more[i - 1]
    <3> TAKE i \in 0 .. m + 1
    <3>1. CASE i = m + 1
      BY <3>1, <2>4
    <3>2. CASE i \in 0 .. m
      <4>1. i = 0 \/ i - 1 \in 0 .. m
        BY <3>2
      <4> QED BY <3>2, <4>1, <2>2, <2>3
    <3> QED BY <3>1, <3>2
  <2>6. Keeping(s, S, more, m + 1)
    <3>1. more = [i \in 0 .. m + 1 |-> more[i]]
      BY DEF more
    <3> QED BY <3>1, <2>5 DEF Keeping
  <2> QED BY <2>6
<1> HIDE DEF Good
<1>3. Nat \subseteq Good
  BY <1>1, <1>2, Induction
<1> QED BY <1>3 DEF Good

LEMMA AmongUnfolds ==
  ASSUME NEW T, NEW s \in Seq(T), NEW S
  PROVE  \E kept : Among(s, S) = kept[Len(s)] /\ Keeping(s, S, kept, Len(s))
<1> DEFINE kept == CHOOSE kept : Keeping(s, S, kept, Len(s))
<1>1. Keeping(s, S, kept, Len(s))
  BY KeepingExists
<1>2. Among(s, S) = kept[Len(s)]
  BY DEF Among, Keeping
<1> QED BY <1>1, <1>2

(* What is kept and where it comes from: at[k] is the place of the k-th    *)
(* element that is kept.                                                   *)
Places(s, S, n, found, at) ==
  /\ at \in [1 .. Len(found) -> 1 .. n]
  /\ \A k \in 1 .. Len(found) : found[k] = s[at[k]] /\ s[at[k]] \in S
  /\ \A k, l \in 1 .. Len(found) : k < l => at[k] < at[l]
  /\ \A i \in 1 .. n : s[i] \in S => \E k \in 1 .. Len(found) : at[k] = i

LEMMA AmongPlaces ==
  ASSUME NEW T, NEW s \in Seq(T), NEW S
  PROVE  /\ Among(s, S) \in Seq(T)
         /\ \E at : Places(s, S, Len(s), Among(s, S), at)
<1>1. PICK kept : Among(s, S) = kept[Len(s)] /\ Keeping(s, S, kept, Len(s))
  BY AmongUnfolds
<1>2. kept[0] = <<>> /\ \A n \in Nat : n + 1 <= Len(s) =>
        kept[n + 1] = IF s[n + 1] \in S THEN Append(kept[n], s[n + 1]) ELSE kept[n]
  <2>1. Len(s) \in Nat
    OBVIOUS
  <2>2. \A i \in 0 .. Len(s) : kept[i] = IF i = 0 THEN <<>>
                                         ELSE IF s[i] \in S THEN Append(kept[i - 1], s[i])
                                         ELSE kept[i - 1]
    BY <1>1 DEF Keeping
  <2>3. ASSUME NEW n \in Nat, n + 1 <= Len(s)
        PROVE  kept[n + 1] = IF s[n + 1] \in S THEN Append(kept[n], s[n + 1]) ELSE kept[n]
    <3>1. n + 1 \in 0 .. Len(s) /\ n + 1 # 0 /\ n + 1 - 1 = n
      BY <2>1, <2>3
    <3> QED BY <2>2, <3>1
  <2>4. 0 \in 0 .. Len(s)
    BY <2>1
  <2>5. kept[0] = <<>>
    BY <2>2, <2>4
  <2> QED BY <2>3, <2>5
<1> DEFINE Good == {n \in Nat : n <= Len(s) => /\ kept[n] \in Seq(T)
                                            /\ \E at : Places(s, S, n, kept[n], at)}
<1>3. 0 \in Good
  <2>1. kept[0] \in Seq(T) /\ Len(kept[0]) = 0
    BY <1>2
  <2>2. Places(s, S, 0, kept[0], [k \in 1 .. 0 |-> 0])
    BY <2>1 DEF Places
  <2> QED BY <2>1, <2>2
<1>4. ASSUME NEW n \in Nat, n \in Good PROVE n + 1 \in Good
  <2> SUFFICES ASSUME n + 1 <= Len(s)
               PROVE  /\ kept[n + 1] \in Seq(T)
                      /\ \E at : Places(s, S, n + 1, kept[n + 1], at)
    OBVIOUS
  <2>1. kept[n] \in Seq(T) /\ n + 1 \in 1 .. Len(s) /\ s[n + 1] \in T
    BY <1>4
  <2>2. PICK at : Places(s, S, n, kept[n], at)
    BY <1>4
  <2>3. CASE s[n + 1] \notin S
    <3>1. kept[n + 1] = kept[n]
      BY <1>2, <2>1, <2>3
    <3>2. Places(s, S, n + 1, kept[n], at)
      BY <2>1, <2>2, <2>3 DEF Places
    <3> QED BY <2>1, <3>1, <3>2
  <2>4. CASE s[n + 1] \in S
    <3> DEFINE len  == Len(kept[n])
               more == [k \in 1 .. len + 1 |-> IF k = len + 1 THEN n + 1 ELSE at[k]]
    <3>1. kept[n + 1] = Append(kept[n], s[n + 1])
      BY <1>2, <2>1, <2>4
    <3>2. /\ kept[n + 1] \in Seq(T) /\ Len(kept[n + 1]) = len + 1
          /\ kept[n + 1][len + 1] = s[n + 1]
          /\ \A k \in 1 .. len : kept[n + 1][k] = kept[n][k]
      BY <2>1, <3>1
    <3>3. len \in Nat
      BY <2>1
    <3>4. more[len + 1] = n + 1 /\ \A k \in 1 .. len : more[k] = at[k] /\ at[k] \in 1 .. n
      BY <2>2, <3>3 DEF Places
    <3>5. more \in [1 .. len + 1 -> 1 .. n + 1]
      BY <2>2, <3>3, <3>4 DEF Places
    <3> HIDE DEF more, len
    <3>6. \A k \in 1 .. len + 1 : kept[n + 1][k] = s[more[k]] /\ s[more[k]] \in S
      <4> TAKE k \in 1 .. len + 1
      <4>1. CASE k = len + 1
        BY <2>4, <3>2, <3>4, <4>1
      <4>2. CASE k \in 1 .. len
        BY <2>2, <3>2, <3>4, <4>2 DEF Places, len
      <4> QED BY <3>3, <4>1, <4>2
    <3>7. \A k, l \in 1 .. len + 1 : k < l => more[k] < more[l]
      <4> SUFFICES ASSUME NEW k \in 1 .. len + 1, NEW l \in 1 .. len + 1, k < l
                   PROVE  more[k] < more[l]
        OBVIOUS
      <4>1. k \in 1 .. len /\ more[k] = at[k] /\ at[k] \in 1 .. n
        BY <3>3, <3>4
      <4>2. CASE l = len + 1
        BY <3>4, <4>1, <4>2
      <4>3. CASE l \in 1 .. len
        BY <2>2, <3>4, <4>1, <4>3 DEF Places, len
      <4> QED BY <3>3, <4>2, <4>3
    <3>8. \A i \in 1 .. n + 1 : s[i] \in S => \E k \in 1 .. len + 1 : more[k] = i
      <4> SUFFICES ASSUME NEW i \in 1 .. n + 1, s[i] \in S
                   PROVE  \E k \in 1 .. len + 1 : more[k] = i
        OBVIOUS
      <4>1. CASE i = n + 1
        BY <3>3, <3>4, <4>1
      <4>2. CASE i \in 1 .. n
        <5>1. PICK k \in 1 .. len : at[k] = i
          BY <2>2, <4>2 DEF Places, len
        <5> QED BY <3>3, <3>4, <5>1
      <4> QED BY <4>1, <4>2
    <3>9. Places(s, S, n + 1, kept[n + 1], more)
      BY <3>2, <3>5, <3>6, <3>7, <3>8 DEF Places
    <3> QED BY <3>2, <3>9
  <2> QED BY <2>3, <2>4
<1> HIDE DEF Good
<1>5. Len(s) \in Good
  BY <1>3, <1>4, Induction
<1> QED BY <1>1, <1>5 DEF Good

(* The first element that is kept is the first one in the set. *)
LEMMA AmongHead ==
  ASSUME NEW T, NEW s \in Seq(T), NEW S, Among(s, S) # <<>>
  PROVE  \E i \in DOMAIN s : /\ s[i] = Head(Among(s, S)) /\ s[i] \in S
                            /\ \A j \in DOMAIN s : s[j] \in S => i <= j
<1> DEFINE found == Among(s, S)
<1>1. found \in Seq(T) /\ found # <<>> /\ DOMAIN s = 1 .. Len(s)
  BY AmongPlaces
<1>2. PICK at : Places(s, S, Len(s), found, at)
  BY AmongPlaces
<1> HIDE DEF found
<1>3. 1 \in 1 .. Len(found) /\ Head(found) = found[1]
  BY <1>1
<1>4. at[1] \in 1 .. Len(s) /\ s[at[1]] = Head(found) /\ s[at[1]] \in S
  BY <1>2, <1>3 DEF Places
<1>5. ASSUME NEW j \in 1 .. Len(s), s[j] \in S PROVE at[1] <= j
  <2>1. PICK k \in 1 .. Len(found) : at[k] = j
    BY <1>2, <1>5 DEF Places
  <2>2. CASE k = 1
    BY <1>4, <2>1, <2>2
  <2>3. CASE 1 < k
    BY <1>2, <1>3, <1>4, <2>1, <2>3 DEF Places
  <2> QED BY <2>2, <2>3
<1> QED BY <1>1, <1>4, <1>5 DEF found
-----------------------------------------------------------------------------
(* A sequence is a list of the elements it has. *)
LEMMA ListOf ==
  ASSUME NEW T, NEW s \in Seq(T)
  PROVE  /\ IsList(s) /\ Range(s) \subseteq T
         /\ DOMAIN s = 1 .. Len(s) /\ Len(s) \in Nat
         /\ \A i \in DOMAIN s : s[i] \in Range(s)
         /\ \A x \in Range(s) : \E i \in DOMAIN s : s[i] = x
<1>1. DOMAIN s = 1 .. Len(s) /\ Len(s) \in Nat /\ \A i \in DOMAIN s : s[i] \in T
  OBVIOUS
<1>2. Range(s) \subseteq T /\ \A i \in DOMAIN s : s[i] \in Range(s)
  BY <1>1 DEF Range
<1>3. s \in Seq(Range(s))
  BY <1>1, <1>2
<1> QED BY <1>1, <1>2, <1>3 DEF IsList, Range

(* Of a list, one entry for each place is a list.                          *)
LEMMA ListAlong ==
  ASSUME NEW s, IsList(s), NEW found, found = [i \in DOMAIN s |-> found[i]]
  PROVE  /\ IsList(found) /\ DOMAIN found = DOMAIN s
         /\ \A x \in Range(found) : \E i \in DOMAIN s : found[i] = x
<1>1. DOMAIN s = 1 .. Len(s) /\ Len(s) \in Nat
  BY ListOf DEF IsList
<1>2. DOMAIN found = 1 .. Len(s)
  BY <1>1
<1> DEFINE T == {found[i] : i \in 1 .. Len(s)}
<1>3. \A i \in 1 .. Len(s) : found[i] \in T
  OBVIOUS
<1> HIDE DEF T
<1>4. found \in Seq(T)
  BY <1>1, <1>3
<1> QED BY <1>1, <1>2, <1>4, ListOf DEF T

LEMMA EndsOfList ==
  ASSUME NEW s, IsList(s), s # <<>>
  PROVE  /\ Head(s) \in Range(s) /\ IsList(Tail(s)) /\ Range(Tail(s)) \subseteq Range(s)
         /\ \A x \in Range(s) : x = Head(s) \/ x \in Range(Tail(s))
<1>1. s \in Seq(Range(s)) /\ Head(s) \in Range(s) /\ Tail(s) \in Seq(Range(s))
  BY DEF IsList
<1>2. Head(s) = s[1] /\ Len(Tail(s)) = Len(s) - 1 /\ Len(s) \in Nat \ {0}
      /\ \A i \in 1 .. Len(s) - 1 : Tail(s)[i] = s[i + 1]
  BY <1>1
<1>3. ASSUME NEW x \in Range(s) PROVE x = Head(s) \/ x \in Range(Tail(s))
  <2>1. PICK i \in 1 .. Len(s) : s[i] = x
    BY <1>1, ListOf
  <2>2. CASE i = 1
    BY <1>2, <2>1, <2>2
  <2>3. CASE i # 1
    <3>1. i - 1 \in 1 .. Len(s) - 1 /\ i - 1 + 1 = i
      BY <1>2, <2>1, <2>3
    <3>2. Tail(s)[i - 1] = x /\ i - 1 \in DOMAIN Tail(s)
      BY <1>1, <1>2, <2>1, <3>1
    <3> QED BY <3>2 DEF Range
  <2> QED BY <2>2, <2>3
<1> QED BY <1>1, <1>3, ListOf

(* The end of a list after its first d elements. *)
IsEnd(part, all, d) ==
  /\ IsList(part) /\ IsList(all) /\ d \in Nat /\ d + Len(part) = Len(all)
  /\ \A i \in 1 .. Len(part) : part[i] = all[d + i]

LEMMA WholeIsEnd ==
  ASSUME NEW all, IsList(all)
  PROVE  IsEnd(all, all, 0)
<1>1. all \in Seq(Range(all)) /\ Len(all) \in Nat
  BY DEF IsList
<1> QED BY <1>1 DEF IsEnd

LEMMA EndLengths ==
  ASSUME NEW part, NEW all, NEW d, IsEnd(part, all, d)
  PROVE  Len(part) \in Nat /\ Len(all) \in Nat /\ d = Len(all) - Len(part)
<1>1. part \in Seq(Range(part)) /\ all \in Seq(Range(all)) /\ d \in Nat
      /\ d + Len(part) = Len(all)
  BY DEF IsEnd, IsList
<1> QED BY <1>1

LEMMA EndHasRest ==
  ASSUME NEW part, NEW all, NEW d, IsEnd(part, all, d)
  PROVE  \A i \in d + 1 .. Len(all) : all[i] \in Range(part)
<1>1. part \in Seq(Range(part)) /\ all \in Seq(Range(all)) /\ d \in Nat
      /\ d + Len(part) = Len(all) /\ \A i \in 1 .. Len(part) : part[i] = all[d + i]
  BY DEF IsEnd, IsList
<1>2. Len(part) \in Nat /\ Len(all) \in Nat
  BY <1>1
<1> TAKE i \in d + 1 .. Len(all)
<1>3. i - d \in 1 .. Len(part) /\ d + (i - d) = i
  BY <1>1, <1>2
<1>4. part[i - d] = all[i]
  BY <1>1, <1>3
<1> QED BY <1>1, <1>3, <1>4

LEMMA EndAdvances ==
  ASSUME NEW part, NEW all, NEW d, IsEnd(part, all, d), part # <<>>
  PROVE  /\ d \in Nat /\ Len(all) \in Nat /\ d + 1 \in 1 .. Len(all)
         /\ Head(part) = all[d + 1] /\ Head(part) \in Range(all)
         /\ IsEnd(Tail(part), all, d + 1)
<1>1. /\ part \in Seq(Range(part)) /\ all \in Seq(Range(all)) /\ d \in Nat
      /\ d + Len(part) = Len(all) /\ \A i \in 1 .. Len(part) : part[i] = all[d + i]
  BY DEF IsEnd, IsList
<1>2. Len(part) \in Nat \ {0} /\ Len(all) \in Nat /\ d + 1 \in 1 .. Len(all)
  BY <1>1
<1>3. Head(part) = part[1] /\ part[1] = all[d + 1]
  BY <1>1, <1>2
<1>4. /\ IsList(Tail(part)) /\ Len(Tail(part)) = Len(part) - 1
      /\ \A i \in 1 .. Len(part) - 1 : Tail(part)[i] = part[i + 1]
  BY <1>1, <1>2, EndsOfList DEF IsList
<1>5. \A i \in 1 .. Len(Tail(part)) : Tail(part)[i] = all[d + 1 + i]
  <2> TAKE i \in 1 .. Len(Tail(part))
  <2>1. i + 1 \in 1 .. Len(part) /\ d + (i + 1) = d + 1 + i /\ Tail(part)[i] = part[i + 1]
    BY <1>1, <1>2, <1>4
  <2> QED BY <1>1, <2>1
<1>6. d + 1 + Len(Tail(part)) = Len(all) /\ d + 1 \in Nat
  BY <1>1, <1>2, <1>4
<1>7. IsEnd(Tail(part), all, d + 1)
  BY <1>1, <1>4, <1>5, <1>6 DEF IsEnd, IsList
<1> QED BY <1>1, <1>2, <1>3, <1>7, ListOf

LEMMA ListsTogether ==
  ASSUME NEW s, NEW t, IsList(s), IsList(t)
  PROVE  IsList(s \o t) /\ Range(s \o t) = Range(s) \cup Range(t)
<1> DEFINE T == Range(s) \cup Range(t)
<1>1. s \in Seq(T) /\ t \in Seq(T) /\ s \o t \in Seq(T)
  BY DEF IsList
<1>2. Range(s \o t) \subseteq T
  BY <1>1, ListOf
<1>3. ASSUME NEW x \in T PROVE x \in Range(s \o t)
  <2>1. CASE x \in Range(s)
    <3>1. PICK i \in 1 .. Len(s) : s[i] = x
      BY <1>1, <2>1, ListOf
    <3>2. i \in DOMAIN (s \o t) /\ (s \o t)[i] = x
      BY <1>1, <3>1
    <3> QED BY <3>2 DEF Range
  <2>2. CASE x \in Range(t)
    <3>1. PICK i \in 1 .. Len(t) : t[i] = x
      BY <1>1, <2>2, ListOf
    <3>2. Len(s) + i \in DOMAIN (s \o t) /\ (s \o t)[Len(s) + i] = x
      BY <1>1, <3>1
    <3> QED BY <3>2 DEF Range
  <2> QED BY <2>1, <2>2
<1> QED BY <1>1, <1>2, <1>3, ListOf

LEMMA OneMore ==
  ASSUME NEW s, NEW x, IsList(s)
  PROVE  IsList(Append(s, x)) /\ Range(Append(s, x)) = Range(s) \cup {x}
<1>1. Append(s, x) = s \o <<x>>
  BY DEF IsList
<1>2. IsList(<<x>>) /\ Range(<<x>>) = {x}
  BY DEF IsList, Range
<1> QED BY <1>1, <1>2, ListsTogether

(* A list comprehension has the elements of the list that are in the set.  *)
LEMMA AmongRange ==
  ASSUME NEW s, IsList(s), NEW S
  PROVE  IsList(Among(s, S)) /\ Range(Among(s, S)) = Range(s) \cap S
<1> DEFINE found == Among(s, S)
           T     == Range(s)
<1>1. s \in Seq(T)
  BY DEF IsList
<1> HIDE DEF T
<1>2. found \in Seq(T) /\ DOMAIN found = 1 .. Len(found) /\ DOMAIN s = 1 .. Len(s)
  BY <1>1, AmongPlaces
<1>3. PICK at : Places(s, S, Len(s), found, at)
  BY <1>1, AmongPlaces
<1> HIDE DEF found
<1>4. ASSUME NEW x \in Range(found) PROVE x \in Range(s) \cap S
  <2>1. PICK k \in 1 .. Len(found) : found[k] = x
    BY <1>2 DEF Range
  <2>2. at[k] \in 1 .. Len(s) /\ found[k] = s[at[k]] /\ s[at[k]] \in S
    BY <1>3, <2>1 DEF Places
  <2> QED BY <1>2, <2>1, <2>2 DEF Range
<1>5. ASSUME NEW x \in Range(s) \cap S PROVE x \in Range(found)
  <2>1. PICK i \in 1 .. Len(s) : s[i] = x
    BY <1>2 DEF Range
  <2>2. PICK k \in 1 .. Len(found) : at[k] = i
    BY <1>3, <2>1 DEF Places
  <2>3. found[k] = x
    BY <1>3, <2>1, <2>2 DEF Places
  <2> QED BY <1>2, <2>2, <2>3 DEF Range
<1>6. IsList(found)
  BY <1>2, ListOf
<1> QED BY <1>4, <1>5, <1>6 DEF found

(* What FlattenSeq makes of lists has the elements of the lists.           *)
Flattening(seqs, flat, n) ==
  flat = [i \in 1 .. n |-> IF i = 1 THEN seqs[i] ELSE flat[i - 1] \o seqs[i]]

LEMMA FlatteningExists ==
  ASSUME NEW seqs, NEW n \in Nat
  PROVE  \E flat : Flattening(seqs, flat, n)
<1> DEFINE Good == {m \in Nat : \E flat : Flattening(seqs, flat, m)}
<1>1. 0 \in Good
  <2>1. Flattening(seqs, [i \in 1 .. 0 |-> <<>>], 0)
    BY DEF Flattening
  <2> QED BY <2>1
<1>2. ASSUME NEW m \in Nat, m \in Good PROVE m + 1 \in Good
  <2>1. PICK flat : Flattening(seqs, flat, m)
    BY <1>2
  <2> DEFINE more == [i \in 1 .. m + 1 |->
                        IF i <= m THEN flat[i] ELSE IF i = 1 THEN seqs[i] ELSE flat[i - 1] \o seqs[i]]
  <2>2. \A i \in 1 .. m : flat[i] = IF i = 1 THEN seqs[i] ELSE flat[i - 1] \o seqs[i]
    BY <2>1 DEF Flattening
  <2>3. \A i \in 1 .. m : more[i] = flat[i]
    OBVIOUS
  <2>4. more[m + 1] = IF m + 1 = 1 THEN seqs[m + 1] ELSE more[m] \o seqs[m + 1]
    BY <2>3
  <2>5. more = [i \in 1 .. m + 1 |-> more[i]]
    OBVIOUS
  <2> HIDE DEF more
  <2>6. \A i \in 1 .. m + 1 : more[i] = IF i = 1 THEN seqs[i] ELSE more[i - 1] \o seqs[i]
    <3> TAKE i \in 1 .. m + 1
    <3>1. CASE i = m + 1
      BY <3>1, <2>4
    <3>2. CASE i \in 1 .. m
      <4>1. i = 1 \/ i - 1 \in 1 .. m
        BY <3>2
      <4> QED BY <3>2, <4>1, <2>2, <2>3
    <3> QED BY <3>1, <3>2
  <2>7. Flattening(seqs, more, m + 1)
    BY <2>5, <2>6 DEF Flattening
  <2> QED BY <2>7
<1> HIDE DEF Good
<1>3. Nat \subseteq Good
  BY <1>1, <1>2, Induction
<1> QED BY <1>3 DEF Good

LEMMA FlattenRange ==
  ASSUME NEW seqs, IsList(seqs), \A i \in DOMAIN seqs : IsList(seqs[i])
  PROVE  /\ IsList(FlattenSeq(seqs))
         /\ \A x \in Range(FlattenSeq(seqs)) : \E i \in DOMAIN seqs : x \in Range(seqs[i])
         /\ \A i \in DOMAIN seqs : Range(seqs[i]) \subseteq Range(FlattenSeq(seqs))
<1>1. seqs \in Seq(Range(seqs)) /\ Len(seqs) \in Nat /\ DOMAIN seqs = 1 .. Len(seqs)
  BY DEF IsList
<1>2. CASE Len(seqs) = 0
  <2>1. seqs = <<>> /\ FlattenSeq(seqs) = seqs
    BY <1>1, <1>2 DEF FlattenSeq
  <2> QED BY <1>1, <1>2, <2>1 DEF Range
<1>3. CASE Len(seqs) # 0
  <2> DEFINE flat == CHOOSE flat : Flattening(seqs, flat, Len(seqs))
             Good == {n \in Nat : n \in 1 .. Len(seqs) =>
                        /\ IsList(flat[n])
                        /\ Range(flat[n]) = UNION {Range(seqs[i]) : i \in 1 .. n}}
  <2>1. Flattening(seqs, flat, Len(seqs))
    BY <1>1, FlatteningExists
  <2>2. FlattenSeq(seqs) = flat[Len(seqs)]
    BY <1>3 DEF FlattenSeq, Flattening
  <2> HIDE DEF flat
  <2>3. \A i \in 1 .. Len(seqs) : flat[i] = IF i = 1 THEN seqs[i] ELSE flat[i - 1] \o seqs[i]
    BY <2>1 DEF Flattening
  <2>4. 0 \in Good
    OBVIOUS
  <2>5. ASSUME NEW n \in Nat, n \in Good PROVE n + 1 \in Good
    <3> SUFFICES ASSUME n + 1 \in 1 .. Len(seqs)
                 PROVE  /\ IsList(flat[n + 1])
                        /\ Range(flat[n + 1]) = UNION {Range(seqs[i]) : i \in 1 .. n + 1}
      OBVIOUS
    <3>1. CASE n = 0
      <4>1. flat[n + 1] = seqs[1] /\ 1 \in DOMAIN seqs
        BY <1>1, <2>3, <3>1
      <4>2. 1 .. n + 1 = {1}
        BY <3>1
      <4> QED BY <4>1, <4>2
    <3>2. CASE n # 0
      <4>1. n \in 1 .. Len(seqs)
        BY <1>1, <3>2
      <4>2. IsList(flat[n]) /\ Range(flat[n]) = UNION {Range(seqs[i]) : i \in 1 .. n}
        BY <2>5, <4>1
      <4>3. flat[n + 1] = flat[n] \o seqs[n + 1]
        <5>1. n + 1 # 1 /\ n + 1 - 1 = n
          BY <3>2
        <5>2. \A i \in 1 .. Len(seqs) : i # 1 => flat[i] = flat[i - 1] \o seqs[i]
          BY <2>3
        <5>3. ASSUME NEW i \in 1 .. Len(seqs), i = n + 1 PROVE flat[i] = flat[n] \o seqs[i]
          <6>1. i - 1 = n /\ i # 1
            BY <5>1, <5>3
          <6>2. flat[i] = flat[i - 1] \o seqs[i]
            BY <5>2, <6>1
          <6> QED BY <6>1, <6>2
        <5> QED BY <5>3
      <4>4. IsList(seqs[n + 1])
        BY <1>1
      <4>5. IsList(flat[n + 1]) /\ Range(flat[n + 1]) = Range(flat[n]) \cup Range(seqs[n + 1])
        BY <4>2, <4>3, <4>4, ListsTogether
      <4>6. 1 .. n + 1 = (1 .. n) \cup {n + 1}
        OBVIOUS
      <4>7. UNION {Range(seqs[i]) : i \in 1 .. n + 1}
              = (UNION {Range(seqs[i]) : i \in 1 .. n}) \cup Range(seqs[n + 1])
        BY <4>6, Zenon
      <4> QED BY <4>2, <4>5, <4>7
    <3> QED BY <3>1, <3>2
  <2> HIDE DEF Good
  <2>6. Len(seqs) \in Good
    BY <1>1, <2>4, <2>5, Induction
  <2>7. IsList(flat[Len(seqs)])
        /\ Range(flat[Len(seqs)]) = UNION {Range(seqs[i]) : i \in 1 .. Len(seqs)}
    BY <1>1, <1>3, <2>6 DEF Good
  <2> QED BY <1>1, <2>2, <2>7
<1> QED BY <1>2, <1>3

-----------------------------------------------------------------------------
(* The sum of a list. *)
Summing(s, sums, n) ==
  sums = [i \in 0 .. n |-> IF i = 0 THEN 0 ELSE sums[i - 1] + s[i]]

LEMMA SummingExists ==
  ASSUME NEW s, NEW n \in Nat
  PROVE  \E sums : Summing(s, sums, n)
<1> DEFINE Good == {m \in Nat : \E sums : Summing(s, sums, m)}
<1>1. 0 \in Good
  <2>1. Summing(s, [i \in 0 .. 0 |-> 0], 0)
    BY DEF Summing
  <2> QED BY <2>1
<1>2. ASSUME NEW m \in Nat, m \in Good PROVE m + 1 \in Good
  <2>1. PICK sums : Summing(s, sums, m)
    BY <1>2
  <2> DEFINE more == [i \in 0 .. m + 1 |-> IF i <= m THEN sums[i] ELSE sums[i - 1] + s[i]]
  <2>2. \A i \in 0 .. m : sums[i] = IF i = 0 THEN 0 ELSE sums[i - 1] + s[i]
    BY <2>1 DEF Summing
  <2>3. \A i \in 0 .. m : more[i] = sums[i]
    OBVIOUS
  <2>4. more[m + 1] = more[m] + s[m + 1]
    BY <2>3
  <2> HIDE DEF more
  <2>5. \A i \in 0 .. m + 1 : more[i] = IF i = 0 THEN 0 ELSE more[i - 1] + s[i]
    <3> TAKE i \in 0 .. m + 1
    <3>1. CASE i = m + 1
      BY <3>1, <2>4
    <3>2. CASE i \in 0 .. m
      <4>1. i = 0 \/ i - 1 \in 0 .. m
        BY <3>2
      <4> QED BY <3>2, <4>1, <2>2, <2>3
    <3> QED BY <3>1, <3>2
  <2>6. Summing(s, more, m + 1)
    <3>1. more = [i \in 0 .. m + 1 |-> more[i]]
      BY DEF more
    <3> QED BY <3>1, <2>5 DEF Summing
  <2> QED BY <2>6
<1> HIDE DEF Good
<1>3. Nat \subseteq Good
  BY <1>1, <1>2, Induction
<1> QED BY <1>3 DEF Good

LEMMA TotalUnfolds ==
  ASSUME NEW T, NEW s \in Seq(T)
  PROVE  \E sums : Total(s) = sums[Len(s)] /\ Summing(s, sums, Len(s))
<1> DEFINE sums == CHOOSE sums : Summing(s, sums, Len(s))
<1>1. Summing(s, sums, Len(s))
  BY SummingExists
<1>2. Total(s) = sums[Len(s)]
  BY DEF Total, Summing
<1> QED BY <1>1, <1>2

LEMMA TotalOfNone == Total(<<>>) = 0
<1>1. <<>> \in Seq({}) /\ Len(<<>>) = 0
  OBVIOUS
<1>2. PICK sums : Total(<<>>) = sums[Len(<<>>)] /\ Summing(<<>>, sums, Len(<<>>))
  BY <1>1, TotalUnfolds
<1>3. sums[0] = 0
  BY <1>1, <1>2 DEF Summing
<1> QED BY <1>1, <1>2, <1>3

(* One element more is one more to add. *)
LEMMA TotalOfMore ==
  ASSUME NEW n \in Nat, NEW s \in [1 .. n -> Int], NEW more \in [1 .. n + 1 -> Int],
         \A i \in 1 .. n : more[i] = s[i]
  PROVE  Total(s) \in Int /\ Total(more) = Total(s) + more[n + 1]
<1>1. s \in Seq(Int) /\ Len(s) = n /\ more \in Seq(Int) /\ Len(more) = n + 1
  OBVIOUS
<1>2. PICK a : Total(s) = a[n] /\ Summing(s, a, n)
  BY <1>1, TotalUnfolds
<1>3. PICK b : Total(more) = b[n + 1] /\ Summing(more, b, n + 1)
  BY <1>1, TotalUnfolds
<1>4. a[0] = 0 /\ \A i \in 1 .. n : a[i] = a[i - 1] + s[i]
  BY <1>2 DEF Summing
<1>5. b[0] = 0 /\ \A i \in 1 .. n + 1 : b[i] = b[i - 1] + more[i]
  BY <1>3 DEF Summing
<1> DEFINE Good == {m \in Nat : m <= n => a[m] \in Int /\ b[m] = a[m]}
<1>6. 0 \in Good
  BY <1>4, <1>5
<1>7. ASSUME NEW m \in Nat, m \in Good PROVE m + 1 \in Good
  <2> SUFFICES ASSUME m + 1 <= n PROVE a[m + 1] \in Int /\ b[m + 1] = a[m + 1]
    OBVIOUS
  <2>1. m + 1 \in 1 .. n /\ m + 1 \in 1 .. n + 1 /\ m + 1 - 1 = m /\ m <= n
    OBVIOUS
  <2>2. a[m + 1] = a[m] + s[m + 1] /\ b[m + 1] = b[m] + more[m + 1]
    BY <1>4, <1>5, <2>1
  <2>3. s[m + 1] \in Int /\ more[m + 1] = s[m + 1]
    BY <2>1
  <2>4. a[m] \in Int /\ b[m] = a[m]
    BY <1>7, <2>1
  <2> QED BY <2>2, <2>3, <2>4
<1> HIDE DEF Good
<1>8. n \in Good
  BY <1>6, <1>7, Induction
<1>9. a[n] \in Int /\ b[n] = a[n]
  BY <1>8 DEF Good
<1>10. b[n + 1] = b[n] + more[n + 1]
  BY <1>5
<1> QED BY <1>2, <1>3, <1>9, <1>10

LEMMA SummingIs ==
  ASSUME NEW s, NEW a, NEW n \in Nat, Summing(s, a, n)
  PROVE  a[0] = 0 /\ \A i \in 1 .. n : a[i] = a[i - 1] + s[i]
BY DEF Summing

(* The list t is the list s, but d more at k. *)
ChangedAt(s, t, n, k, d) ==
  /\ n \in Nat /\ s \in [1 .. n -> Int] /\ t \in [1 .. n -> Int]
  /\ k \in 1 .. n /\ d \in Int /\ t[k] = s[k] + d
  /\ \A i \in 1 .. n : i # k => t[i] = s[i]

(* Changing one element changes the sum by as much. *)
LEMMA TotalOfChange ==
  ASSUME NEW n, NEW s, NEW t, NEW k, NEW d, ChangedAt(s, t, n, k, d)
  PROVE  Total(t) = Total(s) + d
<1>0. /\ n \in Nat /\ s \in [1 .. n -> Int] /\ t \in [1 .. n -> Int]
      /\ k \in 1 .. n /\ d \in Int /\ t[k] = s[k] + d
      /\ \A i \in 1 .. n : i # k => t[i] = s[i]
  BY DEF ChangedAt
<1>1. s \in Seq(Int) /\ Len(s) = n /\ t \in Seq(Int) /\ Len(t) = n
  BY <1>0
<1>2. PICK a : Total(s) = a[n] /\ Summing(s, a, n)
  BY <1>1, TotalUnfolds
<1>3. PICK b : Total(t) = b[n] /\ Summing(t, b, n)
  BY <1>1, TotalUnfolds
<1>4. a[0] = 0 /\ \A i \in 1 .. n : a[i] = a[i - 1] + s[i]
  BY <1>0, <1>2, SummingIs
<1>5. b[0] = 0 /\ \A i \in 1 .. n : b[i] = b[i - 1] + t[i]
  BY <1>0, <1>3, SummingIs
<1> DEFINE Good == {m \in Nat : m <= n =>
                      a[m] \in Int /\ b[m] = IF m < k THEN a[m] ELSE a[m] + d}
<1>6. 0 \in Good
  BY <1>0, <1>4, <1>5
<1>7. ASSUME NEW m \in Nat, m \in Good PROVE m + 1 \in Good
  <2> SUFFICES ASSUME m + 1 <= n
               PROVE  a[m + 1] \in Int
                      /\ b[m + 1] = IF m + 1 < k THEN a[m + 1] ELSE a[m + 1] + d
    OBVIOUS
  <2>1. m + 1 \in 1 .. n /\ m + 1 - 1 = m /\ m <= n
    BY <1>0
  <2>2. a[m + 1] = a[m] + s[m + 1] /\ b[m + 1] = b[m] + t[m + 1]
    BY <1>4, <1>5, <2>1
  <2>3. s[m + 1] \in Int /\ t[m + 1] = IF m + 1 = k THEN s[m + 1] + d ELSE s[m + 1]
    BY <1>0, <2>1
  <2>4. a[m] \in Int /\ b[m] = IF m < k THEN a[m] ELSE a[m] + d
    BY <1>7, <2>1
  <2>5. k \in Int /\ d \in Int
    BY <1>0
  <2>6. CASE m + 1 < k
    BY <2>2, <2>3, <2>4, <2>5, <2>6
  <2>7. CASE m + 1 = k
    BY <2>2, <2>3, <2>4, <2>5, <2>7
  <2>8. CASE k < m + 1
    BY <2>2, <2>3, <2>4, <2>5, <2>8
  <2> QED BY <2>5, <2>6, <2>7, <2>8
<1> HIDE DEF Good
<1>8. n \in Good
  BY <1>0, <1>6, <1>7, Induction
<1>9. a[n] \in Int /\ b[n] = a[n] + d
  BY <1>0, <1>8 DEF Good
<1> QED BY <1>2, <1>3, <1>9

LEMMA TotalOfZeros ==
  ASSUME NEW n \in Nat, NEW s \in [1 .. n -> Int], \A i \in 1 .. n : s[i] = 0
  PROVE  Total(s) = 0
<1>1. s \in Seq(Int) /\ Len(s) = n
  OBVIOUS
<1>2. PICK a : Total(s) = a[n] /\ Summing(s, a, n)
  BY <1>1, TotalUnfolds
<1>3. a[0] = 0 /\ \A i \in 1 .. n : a[i] = a[i - 1] + s[i]
  BY <1>2, SummingIs
<1> DEFINE Good == {m \in Nat : m <= n => a[m] = 0}
<1>4. 0 \in Good
  BY <1>3
<1>5. ASSUME NEW m \in Nat, m \in Good PROVE m + 1 \in Good
  <2> SUFFICES ASSUME m + 1 <= n PROVE a[m + 1] = 0
    OBVIOUS
  <2>1. m + 1 \in 1 .. n /\ m + 1 - 1 = m /\ m <= n
    OBVIOUS
  <2> QED BY <1>3, <1>5, <2>1
<1> HIDE DEF Good
<1>6. n \in Good
  BY <1>4, <1>5, Induction
<1> QED BY <1>2, <1>6 DEF Good

(* Smaller elements have a smaller sum.                                    *)
LEMMA TotalOfLess ==
  ASSUME NEW n \in Nat, NEW s \in [1 .. n -> Int], NEW t \in [1 .. n -> Int],
         \A i \in 1 .. n : t[i] <= s[i]
  PROVE  Total(s) \in Int /\ Total(t) \in Int /\ Total(t) <= Total(s)
<1>1. s \in Seq(Int) /\ Len(s) = n /\ t \in Seq(Int) /\ Len(t) = n
  OBVIOUS
<1>2. PICK a : Total(s) = a[n] /\ Summing(s, a, n)
  BY <1>1, TotalUnfolds
<1>3. PICK b : Total(t) = b[n] /\ Summing(t, b, n)
  BY <1>1, TotalUnfolds
<1>4. a[0] = 0 /\ \A i \in 1 .. n : a[i] = a[i - 1] + s[i]
  BY <1>2, SummingIs
<1>5. b[0] = 0 /\ \A i \in 1 .. n : b[i] = b[i - 1] + t[i]
  BY <1>3, SummingIs
<1> DEFINE Good == {m \in Nat : m <= n => a[m] \in Int /\ b[m] \in Int /\ b[m] <= a[m]}
<1>6. 0 \in Good
  BY <1>4, <1>5
<1>7. ASSUME NEW m \in Nat, m \in Good PROVE m + 1 \in Good
  <2> SUFFICES ASSUME m + 1 <= n
               PROVE  a[m + 1] \in Int /\ b[m + 1] \in Int /\ b[m + 1] <= a[m + 1]
    OBVIOUS
  <2>1. m + 1 \in 1 .. n /\ m + 1 - 1 = m /\ m <= n
    OBVIOUS
  <2>2. a[m + 1] = a[m] + s[m + 1] /\ b[m + 1] = b[m] + t[m + 1]
    BY <1>4, <1>5, <2>1
  <2>3. s[m + 1] \in Int /\ t[m + 1] \in Int /\ t[m + 1] <= s[m + 1]
    BY <2>1
  <2>4. a[m] \in Int /\ b[m] \in Int /\ b[m] <= a[m]
    BY <1>7, <2>1
  <2> QED BY <2>2, <2>3, <2>4
<1> HIDE DEF Good
<1>8. n \in Good
  BY <1>6, <1>7, Induction
<1>9. a[n] \in Int /\ b[n] \in Int /\ b[n] <= a[n]
  BY <1>8 DEF Good
<1> QED BY <1>2, <1>3, <1>9

(* A list from which something was dropped is shorter.                     *)
LEMMA AmongIsShorter ==
  ASSUME NEW s, IsList(s), NEW S
  PROVE  Len(Among(s, S)) \in Nat /\ (Among(s, S) # s => Len(Among(s, S)) < Len(s))
<1> DEFINE T == Range(s)
<1>1. s \in Seq(T) /\ Len(s) \in Nat
  BY DEF IsList
<1>2. PICK kept : Among(s, S) = kept[Len(s)] /\ Keeping(s, S, kept, Len(s))
  BY <1>1, AmongUnfolds
<1>3. \A i \in 0 .. Len(s) : kept[i] = IF i = 0 THEN <<>>
                                       ELSE IF s[i] \in S THEN Append(kept[i - 1], s[i])
                                       ELSE kept[i - 1]
  BY <1>2 DEF Keeping
<1> HIDE DEF T
<1> DEFINE Good == {n \in Nat : n <= Len(s) =>
                      /\ kept[n] \in Seq(T) /\ Len(kept[n]) <= n
                      /\ Len(kept[n]) = n => kept[n] = SubSeq(s, 1, n)}
<1>4. 0 \in Good
  <2>1. kept[0] = <<>> /\ SubSeq(s, 1, 0) = <<>>
    BY <1>1, <1>3
  <2>2. <<>> \in Seq(T) /\ Len(<<>>) = 0
    OBVIOUS
  <2>3. kept[0] \in Seq(T) /\ Len(kept[0]) <= 0 /\ kept[0] = SubSeq(s, 1, 0)
    BY <2>1, <2>2
  <2> QED BY <2>3
<1>5. ASSUME NEW n \in Nat, n \in Good PROVE n + 1 \in Good
  <2> SUFFICES ASSUME n + 1 <= Len(s)
               PROVE  /\ kept[n + 1] \in Seq(T) /\ Len(kept[n + 1]) <= n + 1
                      /\ Len(kept[n + 1]) = n + 1 => kept[n + 1] = SubSeq(s, 1, n + 1)
    OBVIOUS
  <2>1. n <= Len(s) /\ n + 1 \in 0 .. Len(s) /\ n + 1 # 0 /\ n + 1 - 1 = n
    BY <1>1
  <2>2. /\ kept[n] \in Seq(T) /\ Len(kept[n]) <= n
        /\ Len(kept[n]) = n => kept[n] = SubSeq(s, 1, n)
    BY <1>5, <2>1
  <2>3. kept[n + 1] = IF s[n + 1] \in S THEN Append(kept[n], s[n + 1]) ELSE kept[n]
    BY <1>3, <2>1
  <2>4. s[n + 1] \in T
    BY <1>1, <2>1
  <2>5. CASE s[n + 1] \notin S
    BY <2>2, <2>3, <2>5
  <2>6. CASE s[n + 1] \in S
    <3>1. kept[n + 1] = Append(kept[n], s[n + 1])
      BY <2>3, <2>6
    <3>2. kept[n + 1] \in Seq(T) /\ Len(kept[n + 1]) = Len(kept[n]) + 1
      BY <2>2, <2>4, <3>1
    <3>3. ASSUME Len(kept[n]) = n PROVE kept[n + 1] = SubSeq(s, 1, n + 1)
      <4>1. kept[n + 1] = Append(SubSeq(s, 1, n), s[n + 1])
        BY <2>2, <3>1, <3>3
      <4>2. Append(SubSeq(s, 1, n), s[n + 1]) = SubSeq(s, 1, n + 1)
        BY <1>1, <2>1
      <4> QED BY <4>1, <4>2
    <3>4. Len(kept[n]) \in Nat
      BY <2>2
    <3> QED BY <2>2, <3>2, <3>3, <3>4
  <2> QED BY <2>5, <2>6
<1> HIDE DEF Good
<1>6. Len(s) \in Good
  BY <1>1, <1>4, <1>5, Induction
<1>7. /\ kept[Len(s)] \in Seq(T) /\ Len(kept[Len(s)]) <= Len(s)
      /\ Len(kept[Len(s)]) = Len(s) => kept[Len(s)] = SubSeq(s, 1, Len(s))
  BY <1>1, <1>6 DEF Good
<1>8. SubSeq(s, 1, Len(s)) = s
  BY <1>1
<1> QED BY <1>1, <1>2, <1>7, <1>8

-----------------------------------------------------------------------------
(* A finite set as a list names each of its elements once. *)
LEMMA SetAsList ==
  ASSUME NEW S, IsFiniteSet(S)
  PROVE  /\ Cardinality(S) \in Nat
         /\ SetToSeq(S) \in [1 .. Cardinality(S) -> S]
         /\ \A i, j \in 1 .. Cardinality(S) : SetToSeq(S)[i] = SetToSeq(S)[j] => i = j
         /\ \A x \in S : \E i \in 1 .. Cardinality(S) : SetToSeq(S)[i] = x
<1> DEFINE n == Cardinality(S)
           g == SetToSeq(S)
<1>1. n \in Nat /\ ExistsBijection(1 .. n, S)
  BY FS_CardinalityType
<1>2. PICK f \in [1 .. n -> S] : IsInjective(f) /\ \A t \in S : \E i \in 1 .. n : f[i] = t
  BY <1>1 DEF ExistsBijection, Bijection, Injection, Surjection
<1>3. g \in [1 .. n -> S] /\ IsInjective(g)
  BY <1>2 DEF SetToSeq
<1> HIDE DEF g
<1>4. g \in Injection(1 .. n, S)
  BY <1>3 DEF Injection
<1>5. IsFiniteSet(1 .. n) /\ Cardinality(1 .. n) = n
  <2>1. 1 \in Int /\ n \in Int
    BY <1>1
  <2>2. Cardinality(1 .. n) = IF 1 <= n THEN n - 1 + 1 ELSE 0
    BY <2>1, FS_Interval
  <2> QED BY <1>1, <2>1, <2>2, FS_Interval
<1>6. g \in Surjection(1 .. n, S)
  BY <1>4, <1>5, FS_Injection
<1>7. \A x \in S : \E i \in 1 .. n : g[i] = x
  BY <1>6 DEF Surjection
<1>8. \A i, j \in 1 .. n : g[i] = g[j] => i = j
  BY <1>3 DEF IsInjective
<1> QED BY <1>1, <1>3, <1>7, <1>8 DEF g

LEMMA ListOfSet ==
  ASSUME NEW S, IsFiniteSet(S)
  PROVE  IsList(SetToSeq(S)) /\ Range(SetToSeq(S)) = S
<1> DEFINE n == Cardinality(S)
           g == SetToSeq(S)
<1>1. n \in Nat /\ g \in [1 .. n -> S] /\ \A x \in S : \E i \in 1 .. n : g[i] = x
  BY SetAsList
<1> HIDE DEF g
<1>2. g \in Seq(S) /\ DOMAIN g = 1 .. n
  BY <1>1
<1>3. IsList(g) /\ Range(g) \subseteq S
  BY <1>2, ListOf
<1> QED BY <1>1, <1>2, <1>3 DEF g, Range

LEMMA TwoAreTwo ==
  ASSUME NEW a, NEW b, a # b
  PROVE  Cardinality({a} \cup {b}) = 2
<1>1. IsFiniteSet({a}) /\ Cardinality({a}) = 1
  BY FS_Singleton
<1>2. b \notin {a}
  OBVIOUS
<1>3. Cardinality({a} \cup {b}) = Cardinality({a}) + 1
  BY <1>1, <1>2, FS_AddElement
<1> QED BY <1>1, <1>3

-----------------------------------------------------------------------------
(* No two elements of a list, of its tail, of what is left of it.          *)
LEMMA AmongSource ==
  ASSUME NEW s, IsList(s), NEW S
  PROVE  \E at \in [DOMAIN Among(s, S) -> DOMAIN s] :
           /\ \A k \in DOMAIN Among(s, S) : Among(s, S)[k] = s[at[k]]
           /\ \A k, l \in DOMAIN Among(s, S) : at[k] = at[l] => k = l
<1> DEFINE T     == Range(s)
           found == Among(s, S)
<1>1. s \in Seq(T) /\ DOMAIN s = 1 .. Len(s) /\ Len(s) \in Nat
  BY ListOf DEF IsList
<1> HIDE DEF T
<1>2. found \in Seq(T) /\ \E at : Places(s, S, Len(s), found, at)
  BY <1>1, AmongPlaces
<1>3. DOMAIN found = 1 .. Len(found) /\ Len(found) \in Nat
  BY <1>2, ListOf
<1>4. PICK at : Places(s, S, Len(s), found, at)
  BY <1>2
<1> HIDE DEF found
<1>5. at \in [DOMAIN found -> DOMAIN s] /\ \A k \in DOMAIN found : found[k] = s[at[k]]
  BY <1>1, <1>3, <1>4 DEF Places
<1>6. ASSUME NEW k \in DOMAIN found, NEW l \in DOMAIN found, at[k] = at[l] PROVE k = l
  <2>1. ~ k < l /\ ~ l < k
    <3>1. at[k] \in Int /\ at[l] \in Int
      BY <1>1, <1>5
    <3>2. (k < l => at[k] < at[l]) /\ (l < k => at[l] < at[k])
      BY <1>3, <1>4 DEF Places
    <3> QED BY <1>6, <3>1, <3>2
  <2> QED BY <1>3, <2>1
<1>7. \E b \in [DOMAIN found -> DOMAIN s] :
        /\ \A k \in DOMAIN found : found[k] = s[b[k]]
        /\ \A k, l \in DOMAIN found : b[k] = b[l] => k = l
  BY <1>5, <1>6
<1> QED BY <1>7 DEF found

LEMMA TailPlaces ==
  ASSUME NEW s, IsList(s), s # <<>>
  PROVE  /\ 1 \in DOMAIN s /\ Head(s) = s[1]
         /\ \A i \in DOMAIN Tail(s) : i + 1 \in DOMAIN s /\ i + 1 # 1 /\ Tail(s)[i] = s[i + 1]
         /\ \A i, j \in DOMAIN Tail(s) : i + 1 = j + 1 => i = j
<1> DEFINE T == Range(s)
<1>1. s \in Seq(T)
  BY DEF IsList
<1> HIDE DEF T
<1>2. /\ Tail(s) \in Seq(T) /\ Len(Tail(s)) = Len(s) - 1 /\ Len(s) \in Nat \ {0}
      /\ Head(s) = s[1] /\ \A i \in 1 .. Len(s) - 1 : Tail(s)[i] = s[i + 1]
  BY <1>1
<1>3. DOMAIN s = 1 .. Len(s) /\ DOMAIN Tail(s) = 1 .. Len(s) - 1
  BY <1>1, <1>2
<1> QED BY <1>2, <1>3

LEMMA AppendPlaces ==
  ASSUME NEW s, IsList(s), NEW x
  PROVE  \E n : /\ n \notin DOMAIN s /\ DOMAIN Append(s, x) = DOMAIN s \cup {n}
                /\ Append(s, x)[n] = x /\ \A i \in DOMAIN s : Append(s, x)[i] = s[i]
<1> DEFINE T == Range(s) \cup {x}
<1>1. s \in Seq(T) /\ x \in T
  BY DEF IsList
<1> HIDE DEF T
<1>2. /\ Append(s, x) \in Seq(T) /\ Len(Append(s, x)) = Len(s) + 1 /\ Len(s) \in Nat
      /\ Append(s, x)[Len(s) + 1] = x /\ \A i \in 1 .. Len(s) : Append(s, x)[i] = s[i]
  BY <1>1
<1>3. DOMAIN s = 1 .. Len(s) /\ DOMAIN Append(s, x) = 1 .. Len(s) + 1
  BY <1>1, <1>2
<1>4. Len(s) + 1 \notin DOMAIN s /\ DOMAIN Append(s, x) = DOMAIN s \cup {Len(s) + 1}
  BY <1>2, <1>3
<1> QED BY <1>2, <1>3, <1>4

-----------------------------------------------------------------------------
(* How many there are.  A set and its image under a renaming.              *)
LEMMA RenamedCount ==
  ASSUME NEW S, IsFiniteSet(S), NEW T, NEW f \in [S -> T],
         \A x, y \in S : f[x] = f[y] => x = y, \A t \in T : \E x \in S : f[x] = t
  PROVE  IsFiniteSet(T) /\ Cardinality(T) = Cardinality(S)
<1>1. f \in Bijection(S, T)
  BY DEF Bijection, Injection, Surjection, IsInjective
<1> QED BY <1>1, FS_Bijection DEF ExistsBijection

(* The places of a list with elements of S.                                *)
PlacesIn(s, S) == {i \in DOMAIN s : s[i] \in S}

LEMMA PlacesAreFinite ==
  ASSUME NEW s, IsList(s), NEW P, P \subseteq DOMAIN s
  PROVE  IsFiniteSet(P) /\ Cardinality(P) \in Nat /\ Cardinality(P) <= Len(s)
<1>1. DOMAIN s = 1 .. Len(s) /\ Len(s) \in Nat
  BY ListOf DEF IsList
<1>2. IsFiniteSet(1 .. Len(s)) /\ Cardinality(1 .. Len(s)) = Len(s)
  BY <1>1, FS_Interval
<1> QED BY <1>1, <1>2, FS_Subset, FS_CardinalityType

(* What is left of a list is as long as there are places in the set; and   *)
(* so is what is left of that.                                             *)
LEMMA AmongCounts ==
  ASSUME NEW s, IsList(s), NEW S
  PROVE  /\ Len(Among(s, S)) = Cardinality(PlacesIn(s, S))
         /\ \A S2 : Cardinality(PlacesIn(Among(s, S), S2)) = Cardinality(PlacesIn(s, S \cap S2))
<1> DEFINE T     == Range(s)
           found == Among(s, S)
<1>1. s \in Seq(T) /\ DOMAIN s = 1 .. Len(s) /\ Len(s) \in Nat
  BY ListOf DEF IsList
<1> HIDE DEF T
<1>2. found \in Seq(T) /\ \E at : Places(s, S, Len(s), found, at)
  BY <1>1, AmongPlaces
<1>3. DOMAIN found = 1 .. Len(found) /\ Len(found) \in Nat
  BY <1>2, ListOf
<1>4. PICK at : Places(s, S, Len(s), found, at)
  BY <1>2
<1> HIDE DEF found
<1>5. /\ at \in [1 .. Len(found) -> 1 .. Len(s)]
      /\ \A k \in 1 .. Len(found) : found[k] = s[at[k]] /\ s[at[k]] \in S
      /\ \A i \in 1 .. Len(s) : s[i] \in S => \E k \in 1 .. Len(found) : at[k] = i
  BY <1>4 DEF Places
<1>6. \A k, l \in 1 .. Len(found) : at[k] = at[l] => k = l
  <2> SUFFICES ASSUME NEW k \in 1 .. Len(found), NEW l \in 1 .. Len(found), at[k] = at[l]
               PROVE  k = l
    OBVIOUS
  <2>1. at[k] \in Int /\ at[l] \in Int
    BY <1>5
  <2>2. (k < l => at[k] < at[l]) /\ (l < k => at[l] < at[k])
    BY <1>4 DEF Places
  <2> QED BY <2>1, <2>2
<1> DEFINE K(S3) == {k \in 1 .. Len(found) : found[k] \in S3}
           I(S3) == {i \in 1 .. Len(s) : s[i] \in S /\ s[i] \in S3}
<1>7. ASSUME NEW S3 PROVE Cardinality(K(S3)) = Cardinality(I(S3))
  <2> DEFINE f == [k \in K(S3) |-> at[k]]
  <2>1. \A k \in K(S3) : k \in 1 .. Len(found)
    OBVIOUS
  <2>2. f \in [K(S3) -> I(S3)]
    BY <1>5
  <2>3. \A x, y \in K(S3) : f[x] = f[y] => x = y
    BY <1>6, <2>1
  <2>4. \A t \in I(S3) : \E x \in K(S3) : f[x] = t
    BY <1>5
  <2>5. IsFiniteSet(K(S3))
    <3>1. IsFiniteSet(1 .. Len(found))
      BY <1>3, FS_Interval
    <3> QED BY <2>1, <3>1, FS_Subset
  <2> HIDE DEF f, K, I
  <2> QED BY <2>2, <2>3, <2>4, <2>5, RenamedCount
<1>8. Len(found) = Cardinality(1 .. Len(found))
  <2>1. 1 \in Int /\ Len(found) \in Int
    BY <1>3
  <2>2. Cardinality(1 .. Len(found)) = IF 1 > Len(found) THEN 0 ELSE Len(found) - 1 + 1
    BY <2>1, FS_Interval
  <2> QED BY <1>3, <2>2
<1>9. 1 .. Len(found) = K(S)
  BY <1>5
<1>10. Cardinality(K(S)) = Cardinality(I(S)) /\ \A S2 : Cardinality(K(S2)) = Cardinality(I(S2))
  BY <1>7
<1>11. I(S) = PlacesIn(s, S)
  BY <1>1 DEF PlacesIn
<1>12. ASSUME NEW S2 PROVE K(S2) = PlacesIn(found, S2) /\ I(S2) = PlacesIn(s, S \cap S2)
  BY <1>1, <1>3 DEF PlacesIn
<1> HIDE DEF K, I
<1> QED BY <1>8, <1>9, <1>10, <1>11, <1>12 DEF found

(* One list after another: the places in a set.                            *)
LEMMA JoinedCounts ==
  ASSUME NEW s, IsList(s), NEW t, IsList(t), NEW S
  PROVE  Cardinality(PlacesIn(s \o t, S))
           = Cardinality(PlacesIn(s, S)) + Cardinality(PlacesIn(t, S))
<1> DEFINE T == Range(s) \cup Range(t)
           m == Len(s)
           A == {i \in DOMAIN s : s[i] \in S}
           B == {i \in DOMAIN t : t[i] \in S}
           C == {i \in m + 1 .. m + Len(t) : t[i - m] \in S}
<1>1. s \in Seq(T) /\ t \in Seq(T)
  BY DEF IsList
<1> HIDE DEF T
<1>2. /\ m \in Nat /\ Len(t) \in Nat /\ DOMAIN s = 1 .. m /\ DOMAIN t = 1 .. Len(t)
      /\ DOMAIN (s \o t) = 1 .. m + Len(t)
      /\ \A i \in 1 .. m + Len(t) : (s \o t)[i] = IF i <= m THEN s[i] ELSE t[i - m]
  BY <1>1
<1> HIDE DEF m
<1>3. PlacesIn(s \o t, S) = A \cup C
  <2>1. ASSUME NEW i \in 1 .. m + Len(t)
        PROVE  (s \o t)[i] \in S <=> i \in A \cup C
    <3>1. CASE i <= m
      <4>1. i \in 1 .. m /\ i \notin m + 1 .. m + Len(t) /\ (s \o t)[i] = s[i]
        BY <1>2, <3>1
      <4> QED BY <1>2, <4>1
    <3>2. CASE ~ i <= m
      <4>1. i \notin 1 .. m /\ i \in m + 1 .. m + Len(t) /\ (s \o t)[i] = t[i - m]
        BY <1>2, <3>2
      <4> QED BY <1>2, <4>1
    <3> QED BY <3>1, <3>2
  <2>2. A \cup C \subseteq 1 .. m + Len(t)
    BY <1>2
  <2> QED BY <1>2, <2>1, <2>2 DEF PlacesIn
<1>4. IsFiniteSet(A) /\ IsFiniteSet(B)
  BY PlacesAreFinite
<1>5. IsFiniteSet(C) /\ Cardinality(C) = Cardinality(B)
  <2> DEFINE f == [i \in B |-> m + i]
  <2>0. \A i \in B : i \in 1 .. Len(t) /\ t[i] \in S
    BY <1>2
  <2>1. f \in [B -> C]
    <3>1. \A i \in B : m + i \in m + 1 .. m + Len(t) /\ m + i - m = i
      BY <1>2, <2>0
    <3>2. \A i \in B : m + i \in C
      <4> TAKE i \in B
      <4>1. \A c \in m + 1 .. m + Len(t) : t[c - m] \in S => c \in C
        OBVIOUS
      <4>2. ASSUME NEW c, c = m + i PROVE c \in C
        <5>1. c \in m + 1 .. m + Len(t) /\ c - m = i /\ t[i] \in S
          <6>1. i \in 1 .. Len(t) /\ t[i] \in S
            BY <2>0
          <6> HIDE DEF B, C
          <6> QED BY <1>2, <4>2, <6>1
        <5>2. t[c - m] \in S
          BY <5>1
        <5> HIDE DEF C
        <5> QED BY <4>1, <5>1, <5>2
      <4> QED BY <4>2
    <3> QED BY <3>2
  <2>2. \A x, y \in B : f[x] = f[y] => x = y
    BY <1>2, <2>0
  <2>3. \A c \in C : \E x \in B : f[x] = c
    <3> TAKE c \in C
    <3>1. c - m \in 1 .. Len(t) /\ m + (c - m) = c /\ t[c - m] \in S
      BY <1>2
    <3>2. c - m \in B
      BY <1>2, <3>1
    <3> QED BY <3>1, <3>2
  <2> HIDE DEF f, C
  <2> QED BY <1>4, <2>1, <2>2, <2>3, RenamedCount
<1>6. A \cap C = {}
  BY <1>2
<1> HIDE DEF A, B, C
<1>7. Cardinality(A \cup C) = Cardinality(A) + Cardinality(C)
  <2>1. Cardinality(A \cup C) = Cardinality(A) + Cardinality(C) - Cardinality({})
    BY <1>4, <1>5, <1>6, FS_Union
  <2> QED BY <1>4, <1>5, <2>1, FS_EmptySet, FS_CardinalityType
<1> QED BY <1>3, <1>5, <1>7 DEF A, B, PlacesIn

(* The steps of Among.                                                     *)
LEMMA KeepingIs ==
  ASSUME NEW s, NEW S, NEW kept, NEW n \in Nat, Keeping(s, S, kept, n)
  PROVE  /\ kept[0] = <<>>
         /\ \A i \in Nat : i + 1 <= n =>
              kept[i + 1] = IF s[i + 1] \in S THEN Append(kept[i], s[i + 1]) ELSE kept[i]
<1>1. \A i \in 0 .. n : kept[i] = IF i = 0 THEN <<>>
                                  ELSE IF s[i] \in S THEN Append(kept[i - 1], s[i]) ELSE kept[i - 1]
  BY DEF Keeping
<1>2. 0 \in 0 .. n
  OBVIOUS
<1>3. ASSUME NEW i \in Nat, i + 1 <= n
      PROVE  kept[i + 1] = IF s[i + 1] \in S THEN Append(kept[i], s[i + 1]) ELSE kept[i]
  <2>1. i + 1 \in 0 .. n /\ i + 1 # 0 /\ i + 1 - 1 = i
    BY <1>3
  <2> QED BY <1>1, <2>1
<1> QED BY <1>1, <1>2, <1>3

(* What is left of two lists.                                              *)
LEMMA AmongJoined ==
  ASSUME NEW s, IsList(s), NEW t, IsList(t), NEW S
  PROVE  Among(s \o t, S) = Among(s, S) \o Among(t, S)
<1> DEFINE T == Range(s) \cup Range(t)
           u == s \o t
           m == Len(s)
           l == Len(t)
<1>1. s \in Seq(T) /\ t \in Seq(T) /\ u \in Seq(T)
  BY DEF IsList
<1> HIDE DEF T
<1>2. /\ m \in Nat /\ l \in Nat /\ Len(u) = m + l
      /\ \A i \in 1 .. m : u[i] = s[i] /\ s[i] \in T
      /\ \A i \in 1 .. l : u[m + i] = t[i] /\ t[i] \in T
  BY <1>1
<1>3. PICK a : Among(s, S) = a[m] /\ Keeping(s, S, a, m)
  BY <1>1, AmongUnfolds
<1>4. PICK b : Among(t, S) = b[l] /\ Keeping(t, S, b, l)
  BY <1>1, AmongUnfolds
<1>5. PICK c : Among(u, S) = c[m + l] /\ Keeping(u, S, c, m + l)
  BY <1>1, <1>2, AmongUnfolds
<1> HIDE DEF u, m, l
<1>6. a[0] = <<>> /\ \A i \in Nat : i + 1 <= m =>
        a[i + 1] = IF s[i + 1] \in S THEN Append(a[i], s[i + 1]) ELSE a[i]
  BY <1>2, <1>3, KeepingIs
<1>7. b[0] = <<>> /\ \A i \in Nat : i + 1 <= l =>
        b[i + 1] = IF t[i + 1] \in S THEN Append(b[i], t[i + 1]) ELSE b[i]
  BY <1>2, <1>4, KeepingIs
<1>8. c[0] = <<>> /\ \A i \in Nat : i + 1 <= m + l =>
        c[i + 1] = IF u[i + 1] \in S THEN Append(c[i], u[i + 1]) ELSE c[i]
  BY <1>2, <1>5, KeepingIs
<1> DEFINE First == {n \in Nat : n <= m => a[n] \in Seq(T) /\ c[n] = a[n]}
<1>9. 0 \in First
  <2>1. <<>> \in Seq(T)
    OBVIOUS
  <2> QED BY <1>6, <1>8, <2>1
<1>10. ASSUME NEW n \in Nat, n \in First PROVE n + 1 \in First
  <2> SUFFICES ASSUME n + 1 <= m PROVE a[n + 1] \in Seq(T) /\ c[n + 1] = a[n + 1]
    OBVIOUS
  <2>1. n <= m /\ n + 1 \in 1 .. m /\ n + 1 <= m + l
    BY <1>2
  <2>2. a[n] \in Seq(T) /\ c[n] = a[n] /\ u[n + 1] = s[n + 1] /\ s[n + 1] \in T
    BY <1>2, <1>10, <2>1
  <2>3. a[n + 1] = IF s[n + 1] \in S THEN Append(a[n], s[n + 1]) ELSE a[n]
    BY <1>6
  <2>4. c[n + 1] = IF u[n + 1] \in S THEN Append(c[n], u[n + 1]) ELSE c[n]
    BY <1>8, <2>1
  <2> QED BY <2>2, <2>3, <2>4
<1> HIDE DEF First
<1>11. m \in First
  BY <1>2, <1>9, <1>10, Induction
<1>12. a[m] \in Seq(T) /\ c[m] = a[m]
  BY <1>2, <1>11 DEF First
<1> DEFINE d == [n \in 0 .. l |-> c[m + n]]
<1>13. d[0] = a[m] /\ d[l] = c[m + l]
  <2>1. m + 0 = m /\ 0 \in 0 .. l /\ l \in 0 .. l
    BY <1>2
  <2> QED BY <1>12, <2>1
<1>14. ASSUME NEW n \in Nat, n + 1 <= l
       PROVE  d[n + 1] = IF t[n + 1] \in S THEN Append(d[n], t[n + 1]) ELSE d[n]
  <2>1. /\ n + 1 \in 1 .. l /\ m + n \in Nat /\ m + n + 1 <= m + l
        /\ n \in 0 .. l /\ n + 1 \in 0 .. l /\ m + (n + 1) = m + n + 1
    BY <1>2, <1>14
  <2>2. d[n] = c[m + n] /\ d[n + 1] = c[m + n + 1]
    BY <2>1
  <2>3. u[m + n + 1] = t[n + 1]
    <3>1. u[m + (n + 1)] = t[n + 1]
      BY <1>2, <2>1
    <3> QED BY <2>1, <3>1
  <2> HIDE DEF d
  <2>4. c[m + n + 1] = IF u[m + n + 1] \in S THEN Append(c[m + n], u[m + n + 1]) ELSE c[m + n]
    BY <1>8, <2>1
  <2> QED BY <2>2, <2>3, <2>4
<1> HIDE DEF d
<1> DEFINE Holds(n) == n <= l => b[n] \in Seq(T) /\ d[n] = a[m] \o b[n]
           Second   == {n \in Nat : Holds(n)}
<1>15. Holds(0)
  <2>1. a[m] \o <<>> = a[m] /\ <<>> \in Seq(T)
    BY <1>12
  <2> QED BY <1>7, <1>13, <2>1
<1>16. ASSUME NEW n \in Nat, Holds(n) PROVE Holds(n + 1)
  <2> SUFFICES ASSUME n + 1 <= l PROVE b[n + 1] \in Seq(T) /\ d[n + 1] = a[m] \o b[n + 1]
    BY Zenon
  <2>1. n <= l /\ n + 1 \in 1 .. l
    BY <1>2
  <2>2. b[n] \in Seq(T) /\ d[n] = a[m] \o b[n] /\ t[n + 1] \in T
    BY <1>2, <1>16, <2>1
  <2>3. b[n + 1] = IF t[n + 1] \in S THEN Append(b[n], t[n + 1]) ELSE b[n]
    BY <1>7
  <2>4. d[n + 1] = IF t[n + 1] \in S THEN Append(d[n], t[n + 1]) ELSE d[n]
    BY <1>14
  <2> HIDE DEF Holds
  <2>5. Append(a[m] \o b[n], t[n + 1]) = a[m] \o Append(b[n], t[n + 1])
        /\ Append(b[n], t[n + 1]) \in Seq(T)
    <3>1. ASSUME NEW v \in Seq(T), NEW w \in Seq(T), NEW x \in T
          PROVE  Append(v \o w, x) = v \o Append(w, x) /\ Append(w, x) \in Seq(T)
      OBVIOUS
    <3> QED BY <1>12, <2>2, <3>1
  <2> QED BY <2>2, <2>3, <2>4, <2>5
<1> HIDE DEF Holds
<1>17. 0 \in Second /\ \A n \in Nat : n \in Second => n + 1 \in Second
  BY <1>15, <1>16
<1> HIDE DEF Second
<1>18. l \in Second
  BY <1>2, <1>17, Induction
<1>19. d[l] = a[m] \o b[l]
  <2>1. Holds(l) /\ l <= l
    BY <1>2, <1>18 DEF Second
  <2> QED BY <2>1 DEF Holds
<1> QED BY <1>3, <1>4, <1>5, <1>13, <1>19 DEF u

(* Nothing or all is left.                                                 *)
LEMMA AmongAllOrNone ==
  ASSUME NEW s, IsList(s), NEW S
  PROVE  /\ Range(s) \cap S = {} => Among(s, S) = <<>>
         /\ Range(s) \subseteq S => Among(s, S) = s
<1>1. IsList(Among(s, S)) /\ Range(Among(s, S)) = Range(s) \cap S
  BY AmongRange
<1>2. ASSUME Range(s) \cap S = {} PROVE Among(s, S) = <<>>
  <2>1. Among(s, S) \in Seq({})
    BY <1>1, <1>2 DEF IsList
  <2> QED BY <2>1
<1>3. ASSUME Range(s) \subseteq S PROVE Among(s, S) = s
  <2>1. DOMAIN s = 1 .. Len(s) /\ Len(s) \in Nat /\ \A i \in DOMAIN s : s[i] \in Range(s)
    BY ListOf DEF IsList
  <2>2. {i \in DOMAIN s : s[i] \in S} = 1 .. Len(s)
    BY <1>3, <2>1
  <2>3. Len(Among(s, S)) = Cardinality(1 .. Len(s))
    <3>1. Len(Among(s, S)) = Cardinality(PlacesIn(s, S))
      BY AmongCounts
    <3> QED BY <2>2, <3>1 DEF PlacesIn
  <2>4. Cardinality(1 .. Len(s)) = IF 1 > Len(s) THEN 0 ELSE Len(s) - 1 + 1
    BY <2>1, FS_Interval
  <2>5. ~ Len(Among(s, S)) < Len(s)
    BY <2>1, <2>3, <2>4
  <2> QED BY <2>5, AmongIsShorter
<1> QED BY <1>2, <1>3

(* Only what the set says of the list's elements matters.                  *)
LEMMA AmongAlike ==
  ASSUME NEW s, IsList(s), NEW S, NEW S2, Range(s) \cap S = Range(s) \cap S2
  PROVE  Among(s, S) = Among(s, S2)
<1>1. \A i \in 1 .. Len(s) : s[i] \in Range(s)
  BY ListOf DEF IsList
<1>2. \A i \in 0 .. Len(s) : i # 0 => (s[i] \in S <=> s[i] \in S2)
  BY <1>1
<1>3. s \in Seq(Range(s)) /\ Len(s) \in Nat
  BY DEF IsList
<1>4. PICK a : Among(s, S) = a[Len(s)] /\ Keeping(s, S, a, Len(s))
  BY <1>3, AmongUnfolds
<1>5. PICK b : Among(s, S2) = b[Len(s)] /\ Keeping(s, S2, b, Len(s))
  BY <1>3, AmongUnfolds
<1>6. a[0] = <<>> /\ \A i \in Nat : i + 1 <= Len(s) =>
        a[i + 1] = IF s[i + 1] \in S THEN Append(a[i], s[i + 1]) ELSE a[i]
  BY <1>3, <1>4, KeepingIs
<1>7. b[0] = <<>> /\ \A i \in Nat : i + 1 <= Len(s) =>
        b[i + 1] = IF s[i + 1] \in S2 THEN Append(b[i], s[i + 1]) ELSE b[i]
  BY <1>3, <1>5, KeepingIs
<1> DEFINE Good == {n \in Nat : n <= Len(s) => a[n] = b[n]}
<1>8. 0 \in Good
  BY <1>6, <1>7
<1>9. ASSUME NEW n \in Nat, n \in Good PROVE n + 1 \in Good
  <2> SUFFICES ASSUME n + 1 <= Len(s) PROVE a[n + 1] = b[n + 1]
    OBVIOUS
  <2>1. n <= Len(s) /\ n + 1 \in 1 .. Len(s)
    BY <1>3
  <2>2. a[n] = b[n] /\ (s[n + 1] \in S <=> s[n + 1] \in S2)
    BY <1>1, <1>9, <2>1
  <2> QED BY <1>6, <1>7, <2>2
<1> HIDE DEF Good
<1>10. Len(s) \in Good
  BY <1>3, <1>8, <1>9, Induction
<1> QED BY <1>3, <1>4, <1>5, <1>10 DEF Good

(* FlattenSeq adds one list after the other.                               *)
LEMMA FlattenSteps ==
  ASSUME NEW seqs, IsList(seqs), \A i \in DOMAIN seqs : IsList(seqs[i])
  PROVE  \E flat : /\ flat[0] = <<>> /\ FlattenSeq(seqs) = flat[Len(seqs)]
                   /\ \A n \in 0 .. Len(seqs) : IsList(flat[n])
                   /\ \A n \in Nat : n + 1 <= Len(seqs) => flat[n + 1] = flat[n] \o seqs[n + 1]
<1>1. seqs \in Seq(Range(seqs)) /\ Len(seqs) \in Nat /\ DOMAIN seqs = 1 .. Len(seqs)
  BY DEF IsList
<1>2. CASE Len(seqs) = 0
  <2> DEFINE flat == [n \in 0 .. 0 |-> <<>>]
  <2>1. seqs = <<>> /\ FlattenSeq(seqs) = seqs
    BY <1>1, <1>2 DEF FlattenSeq
  <2>2. IsList(<<>>)
    BY DEF IsList, Range
  <2>3. /\ flat[0] = <<>> /\ FlattenSeq(seqs) = flat[Len(seqs)]
        /\ \A n \in 0 .. Len(seqs) : IsList(flat[n])
    BY <1>2, <2>1, <2>2
  <2>4. \A n \in Nat : ~ n + 1 <= Len(seqs)
    BY <1>2
  <2> HIDE DEF flat
  <2> QED BY <2>3, <2>4
<1>3. CASE Len(seqs) # 0
  <2> DEFINE g    == CHOOSE flat : Flattening(seqs, flat, Len(seqs))
             flat == [n \in 0 .. Len(seqs) |-> IF n = 0 THEN <<>> ELSE g[n]]
  <2>1. Flattening(seqs, g, Len(seqs))
    BY <1>1, FlatteningExists
  <2>2. FlattenSeq(seqs) = g[Len(seqs)]
    BY <1>3 DEF FlattenSeq, Flattening
  <2> HIDE DEF g
  <2>3. \A i \in 1 .. Len(seqs) : g[i] = IF i = 1 THEN seqs[i] ELSE g[i - 1] \o seqs[i]
    BY <2>1 DEF Flattening
  <2>4. flat[0] = <<>> /\ \A n \in 1 .. Len(seqs) : flat[n] = g[n]
    BY <1>1
  <2> HIDE DEF flat
  <2>5. ASSUME NEW n \in Nat, n + 1 <= Len(seqs) PROVE flat[n + 1] = flat[n] \o seqs[n + 1]
    <3>1. n + 1 \in 1 .. Len(seqs) /\ IsList(seqs[n + 1])
      BY <1>1, <2>5
    <3>2. flat[n + 1] = IF n + 1 = 1 THEN seqs[n + 1] ELSE g[n + 1 - 1] \o seqs[n + 1]
      BY <2>3, <2>4, <3>1
    <3>3. CASE n = 0
      <4>1. flat[n] = <<>> /\ flat[n + 1] = seqs[n + 1]
        BY <2>4, <3>2, <3>3
      <4>2. <<>> \o seqs[n + 1] = seqs[n + 1]
        BY <3>1 DEF IsList
      <4> QED BY <4>1, <4>2
    <3>4. CASE n # 0
      <4>1. n \in 1 .. Len(seqs) /\ n + 1 # 1 /\ n + 1 - 1 = n
        BY <1>1, <2>5, <3>4
      <4>2. flat[n] = g[n]
        BY <2>4, <4>1
      <4> QED BY <3>2, <4>1, <4>2
    <3> QED BY <3>3, <3>4
  <2> DEFINE Good == {n \in Nat : n <= Len(seqs) => IsList(flat[n])}
  <2>6. 0 \in Good
    <3>1. IsList(<<>>)
      BY DEF IsList, Range
    <3> QED BY <2>4, <3>1
  <2>7. ASSUME NEW n \in Nat, n \in Good PROVE n + 1 \in Good
    <3> SUFFICES ASSUME n + 1 <= Len(seqs) PROVE IsList(flat[n + 1])
      OBVIOUS
    <3>1. n <= Len(seqs) /\ n + 1 \in 1 .. Len(seqs)
      BY <1>1
    <3>2. IsList(flat[n]) /\ IsList(seqs[n + 1])
      BY <1>1, <2>7, <3>1
    <3> QED BY <2>5, <3>2, ListsTogether
  <2> HIDE DEF Good
  <2>8. Nat \subseteq Good
    BY <2>6, <2>7, Induction
  <2>9. \A n \in 0 .. Len(seqs) : IsList(flat[n])
    BY <1>1, <2>8 DEF Good
  <2>10. Len(seqs) \in 1 .. Len(seqs)
    BY <1>1, <1>3
  <2>11. FlattenSeq(seqs) = flat[Len(seqs)]
    BY <2>2, <2>4, <2>10
  <2> QED BY <2>4, <2>5, <2>9, <2>11
<1> QED BY <1>2, <1>3

-----------------------------------------------------------------------------
(* The sum of the values of a function, in whatever order.                 *)
SumOf(f) == FoldFunction(LAMBDA x, y : x + y, 0, f)

Folding(f, D, g) ==
  g = [s \in SUBSET D |->
         IF s = {} THEN 0 ELSE f[CHOOSE x \in s : TRUE] + g[s \ {CHOOSE x \in s : TRUE}]]

LEMMA FoldingExists ==
  ASSUME NEW f, NEW D, IsFiniteSet(D)
  PROVE  \E g : Folding(f, D, g)
<1> DEFINE UpTo(n)     == {s \in SUBSET D : Cardinality(s) <= n}
           Value(g, s) == IF s = {} THEN 0
                          ELSE f[CHOOSE x \in s : TRUE] + g[s \ {CHOOSE x \in s : TRUE}]
           Has(n)      == \E g : g = [s \in UpTo(n) |-> Value(g, s)]
           Good        == {n \in Nat : Has(n)}
<1>1. \A s \in SUBSET D : IsFiniteSet(s) /\ Cardinality(s) \in Nat
  BY FS_Subset, FS_CardinalityType
<1>2. ASSUME NEW s \in SUBSET D, s # {}
      PROVE  /\ s \ {CHOOSE x \in s : TRUE} \in SUBSET D
             /\ Cardinality(s \ {CHOOSE x \in s : TRUE}) = Cardinality(s) - 1
  <2>1. (CHOOSE x \in s : TRUE) \in s
    BY <1>2
  <2> QED BY <1>1, <2>1, FS_RemoveElement
<1>3. Has(0)
  <2> DEFINE g == [s \in UpTo(0) |-> 0]
  <2>1. \A s \in UpTo(0) : s = {}
    BY <1>1, FS_EmptySet
  <2>2. g = [s \in UpTo(0) |-> Value(g, s)]
    BY <2>1
  <2> QED BY <2>2
<1>4. ASSUME NEW n \in Nat, Has(n) PROVE Has(n + 1)
  <2>1. PICK g : g = [s \in UpTo(n) |-> Value(g, s)]
    BY <1>4
  <2> DEFINE more == [s \in UpTo(n + 1) |-> IF s \in UpTo(n) THEN g[s] ELSE Value(g, s)]
  <2>2. \A s \in UpTo(n) : g[s] = Value(g, s)
    BY <2>1
  <2>3. \A s \in UpTo(n) : s \in UpTo(n + 1) /\ more[s] = g[s]
    BY <1>1
  <2>4. \A s \in UpTo(n + 1) : s # {} => s \ {CHOOSE x \in s : TRUE} \in UpTo(n)
    BY <1>1, <1>2
  <2>5. {} \in UpTo(n)
    BY FS_EmptySet
  <2>6. \A s \in UpTo(n + 1) : more[s] = IF s \in UpTo(n) THEN g[s] ELSE Value(g, s)
    OBVIOUS
  <2>7. more = [s \in UpTo(n + 1) |-> more[s]]
    OBVIOUS
  <2> HIDE DEF more, UpTo
  <2>8. \A s \in UpTo(n + 1) : more[s] = Value(more, s)
    BY <2>2, <2>3, <2>4, <2>5, <2>6
  <2>9. more = [s \in UpTo(n + 1) |-> Value(more, s)]
    BY <2>7, <2>8
  <2> QED BY <2>9
<1> HIDE DEF Has
<1>5. 0 \in Good /\ \A n \in Nat : n \in Good => n + 1 \in Good
  BY <1>3, <1>4
<1>6. PICK g : g = [s \in UpTo(Cardinality(D)) |-> Value(g, s)]
  <2> HIDE DEF Good
  <2>1. Cardinality(D) \in Good
    BY <1>1, <1>5, Induction
  <2> QED BY <2>1 DEF Good, Has
<1>7. UpTo(Cardinality(D)) = SUBSET D
  BY FS_Subset
<1>8. Folding(f, D, g)
  BY <1>6, <1>7 DEF Folding
<1> QED BY <1>8

(* The sizes of disjoint sets add up to the size of their union.           *)
LEMMA SizesAddUp ==
  ASSUME NEW D, IsFiniteSet(D), NEW A, \A d \in D : IsFiniteSet(A[d]),
         \A d, e \in D : d # e => A[d] \cap A[e] = {},
         NEW f, f = [d \in D |-> Cardinality(A[d])]
  PROVE  SumOf(f) = Cardinality(UNION {A[d] : d \in D})
<1> DEFINE g       == CHOOSE g : Folding(f, D, g)
           All(s)  == UNION {A[d] : d \in s}
           Good    == {n \in Nat : \A s \in SUBSET D :
                         Cardinality(s) = n => IsFiniteSet(All(s)) /\ g[s] = Cardinality(All(s))}
<1>1. SumOf(f) = g[D]
  BY DEF SumOf, FoldFunction, FoldFunctionOnSet, MapThenFoldSet, Folding
<1>2. \A s \in SUBSET D : g[s] = IF s = {} THEN 0 ELSE f[CHOOSE x \in s : TRUE]
                                                      + g[s \ {CHOOSE x \in s : TRUE}]
  <2>1. Folding(f, D, g)
    BY FoldingExists
  <2> HIDE DEF g
  <2> QED BY <2>1 DEF Folding
<1> HIDE DEF g
<1>3. 0 \in Good
  <2>1. \A s \in SUBSET D : Cardinality(s) = 0 => s = {}
    BY FS_Subset, FS_EmptySet
  <2>2. All({}) = {} /\ g[{}] = 0
    <3>1. {} \in SUBSET D
      OBVIOUS
    <3>2. All({}) = {}
      OBVIOUS
    <3> HIDE DEF All
    <3> QED BY <1>2, <3>1, <3>2
  <2> HIDE DEF All
  <2> QED BY <2>1, <2>2, FS_EmptySet
<1>4. ASSUME NEW n \in Nat, n \in Good PROVE n + 1 \in Good
  <2> SUFFICES ASSUME NEW s \in SUBSET D, Cardinality(s) = n + 1
               PROVE  IsFiniteSet(All(s)) /\ g[s] = Cardinality(All(s))
    OBVIOUS
  <2> DEFINE d == CHOOSE x \in s : TRUE
             r == s \ {d}
  <2>1. s # {} /\ IsFiniteSet(s)
    BY FS_EmptySet, FS_Subset
  <2>2. d \in s
    BY <2>1
  <2> HIDE DEF d
  <2>3. r \in SUBSET D /\ Cardinality(r) = n
    <3>1. Cardinality(s \ {d}) = IF d \in s THEN Cardinality(s) - 1 ELSE Cardinality(s)
      BY <2>1, FS_RemoveElement
    <3> QED BY <2>2, <3>1
  <2>4. IsFiniteSet(All(r)) /\ g[r] = Cardinality(All(r))
    BY <1>4, <2>3
  <2>5. All(s) = A[d] \cup All(r) /\ A[d] \cap All(r) = {}
    <3>1. s = {d} \cup r
      BY <2>2
    <3>2. \A e \in r : A[d] \cap A[e] = {}
      BY <2>2
    <3> QED BY <3>1, <3>2
  <2>6. g[s] = Cardinality(A[d]) + g[r]
    <3>1. g[s] = f[d] + g[r]
      BY <1>2, <2>1 DEF d
    <3> QED BY <2>2, <3>1
  <2> HIDE DEF All, r
  <2>7. IsFiniteSet(A[d])
    BY <2>2
  <2>8. IsFiniteSet(All(s)) /\ Cardinality(All(s)) = Cardinality(A[d]) + Cardinality(All(r)) - 0
    <3>1. /\ IsFiniteSet(A[d] \cup All(r))
          /\ Cardinality(A[d] \cup All(r))
               = Cardinality(A[d]) + Cardinality(All(r)) - Cardinality(A[d] \cap All(r))
      BY <2>4, <2>7, FS_Union
    <3> QED BY <2>5, <3>1, FS_EmptySet
  <2>9. Cardinality(A[d]) \in Nat /\ Cardinality(All(r)) \in Nat
    BY <2>4, <2>7, FS_CardinalityType
  <2> QED BY <2>4, <2>6, <2>8, <2>9
<1> HIDE DEF Good
<1>5. Cardinality(D) \in Good
  BY <1>3, <1>4, Induction, FS_CardinalityType
<1> QED BY <1>1, <1>5 DEF Good
=============================================================================
