--------------------------- MODULE HardDiskProofs ---------------------------
(***************************************************************************)
(* What HardDisk promises for every set of blocks, partition table, drive  *)
(* geometry and error limit.                                               *)
(*                                                                         *)
(* The inductive invariant adds to Outstanding what bad_rw_intr and the    *)
(* handlers rely on across retries: only CURRENT has been begun, its       *)
(* sector has moved on with its sector count, the half already transferred *)
(* is in place, and the command at the controller is for the other one.    *)
(*                                                                         *)
(* First what add_request does to a list, for every list and request: it   *)
(* puts the request into it, keeps the others in their order and keeps the *)
(* list at most two sweeps of the head.                                    *)
(***************************************************************************)
EXTENDS HardDisk, TLAPS, SequenceTheorems, WellFoundedInduction

-----------------------------------------------------------------------------
\* A set of naturals that has an element has a least one.
LEMMA LeastNatural ==
    ASSUME NEW T \in SUBSET Nat, T # {}
    PROVE  \E x \in T : \A y \in T : x <= y
  <1>1. \E x \in T : \A y \in T : ~(<<y, x>> \in OpToRel(<, Nat))
    BY NatLessThanWellFounded, WFMin
  <1>2. PICK x \in T : \A y \in T : ~(<<y, x>> \in OpToRel(<, Nat))
    BY <1>1
  <1>3. ASSUME NEW y \in T, ~(x <= y) PROVE FALSE
    <2>1. x \in Nat /\ y \in Nat /\ y < x
      BY <1>3
    <2>2. <<y, x>> \in OpToRel(<, Nat)
      BY <2>1 DEF OpToRel
    <2> QED BY <2>2, <1>2
  <1> QED BY <1>3

\* A bounded set of naturals that has an element has a greatest one.
LEMMA GreatestNatural ==
    ASSUME NEW n \in Nat, NEW F \in SUBSET (0 .. n), F # {}
    PROVE  \E x \in F : \A y \in F : y <= x
  <1> DEFINE T == {k \in Nat : \E x \in F : k = n - x}
  <1>1. \A x \in F : x \in Int /\ n - x \in Nat
    OBVIOUS
  <1>2. T # {} /\ T \in SUBSET Nat
    BY <1>1
  <1>3. PICK k \in T : \A j \in T : k <= j
    BY <1>2, LeastNatural
  <1>4. PICK x \in F : k = n - x
    BY <1>3
  <1>5. \A y \in F : n - x <= n - y
    BY <1>1, <1>3, <1>4
  <1>6. \A y \in F : y <= x
    BY <1>1, <1>5
  <1> QED BY <1>6

\* The position add_request finds is one of the list's.
LEMMA PositionInList ==
    ASSUME NEW q, NEW r, Len(q) \in Nat \ {0}
    PROVE  ElevatorPosition(q, r) \in 1 .. Len(q)
  <1> DEFINE fits == {i \in 1 .. Len(q) - 1 : Fits(q[i], r, q[i + 1])}
  <1>1. fits \in SUBSET Nat /\ fits \subseteq 1 .. Len(q)
    OBVIOUS
  <1>2. ElevatorPosition(q, r) =
          IF fits = {} THEN Len(q) ELSE CHOOSE i \in fits : \A j \in fits : i <= j
    BY DEF ElevatorPosition
  <1> HIDE DEF fits
  <1>3. CASE fits = {}
    BY <1>2, <1>3
  <1>4. CASE fits # {}
    <2>1. \E i \in fits : \A j \in fits : i <= j
      BY <1>1, <1>4, LeastNatural
    <2>2. (CHOOSE i \in fits : \A j \in fits : i <= j) \in fits
      BY <2>1
    <2> QED BY <1>1, <1>2, <1>4, <2>2
  <1> QED BY <1>3, <1>4

\* Linking x after the i-th element keeps all others, in their order.
LEMMA Insertion ==
    ASSUME NEW S, NEW q \in Seq(S), NEW x \in S, NEW i \in 1 .. Len(q)
    PROVE  /\ InsertAfter(q, i, x) \in Seq(S)
           /\ Len(InsertAfter(q, i, x)) = Len(q) + 1
           /\ \A j \in 1 .. Len(q) + 1 :
                InsertAfter(q, i, x)[j] = IF j <= i THEN q[j] ELSE IF j = i + 1 THEN x ELSE q[j - 1]
  <1> DEFINE n == Len(q)  a == SubSeq(q, 1, i)  b == <<x>>  c == SubSeq(q, i + 1, n)
  <1>0. n \in Nat /\ i \in 1 .. n /\ \A k \in 1 .. n : q[k] \in S
    BY LenProperties, ElementOfSeq
  <1>1. a \in Seq(S) /\ Len(a) = i /\ \A k \in 1 .. i : a[k] = q[k]
    BY <1>0, SubSeqProperties
  <1>2. b \in Seq(S) /\ Len(b) = 1 /\ b[1] = x
    OBVIOUS
  <1>3. InsertAfter(q, i, x) = (a \o b) \o c
    BY DEF InsertAfter
  <1> HIDE DEF n, a, b
  <1>4. /\ c \in Seq(S)
        /\ Len(c) = IF i + 1 <= n THEN n - (i + 1) + 1 ELSE 0
        /\ \A k \in 1 .. n - (i + 1) + 1 : c[k] = q[i + 1 + k - 1]
    <2>1. \A k \in i + 1 .. n : q[k] \in S
      BY <1>0
    <2> QED BY <1>0, <2>1, SubSeqProperties
  <1> HIDE DEF c
  <1>5. c \in Seq(S) /\ Len(c) = n - i /\ \A k \in 1 .. n - i : c[k] = q[i + k]
    <2>1. \A k \in 1 .. n - i : k \in 1 .. n - (i + 1) + 1 /\ i + 1 + k - 1 = i + k
      BY <1>0
    <2>2. \A k \in 1 .. n - i : c[k] = q[i + k]
      BY <2>1, <1>4
    <2> QED BY <1>0, <1>4, <2>2
  <1>6. /\ a \o b \in Seq(S) /\ Len(a \o b) = i + 1
        /\ \A k \in 1 .. i + 1 : (a \o b)[k] = IF k <= i THEN q[k] ELSE x
    <2>1. /\ a \o b \in Seq(S) /\ Len(a \o b) = Len(a) + Len(b)
          /\ \A k \in 1 .. Len(a) + Len(b) :
                (a \o b)[k] = IF k <= Len(a) THEN a[k] ELSE b[k - Len(a)]
      BY <1>1, <1>2, ConcatProperties
    <2> QED BY <1>0, <1>1, <1>2, <2>1
  <1> DEFINE ab == a \o b  abc == ab \o c
  <1>7. /\ abc \in Seq(S) /\ Len(abc) = n + 1
        /\ \A k \in 1 .. n + 1 : abc[k] = IF k <= i + 1 THEN ab[k] ELSE c[k - (i + 1)]
    <2>1. /\ abc \in Seq(S) /\ Len(abc) = Len(ab) + Len(c)
          /\ \A k \in 1 .. Len(ab) + Len(c) :
                abc[k] = IF k <= Len(ab) THEN ab[k] ELSE c[k - Len(ab)]
      BY <1>5, <1>6, ConcatProperties
    <2> HIDE DEF abc, ab
    <2>2. Len(ab) = i + 1
      BY <1>6 DEF ab
    <2> QED BY <1>0, <1>5, <2>1, <2>2
  <1>8. \A k \in 1 .. i + 1 : ab[k] = IF k <= i THEN q[k] ELSE x
    BY <1>6
  <1>9. InsertAfter(q, i, x) = abc
    BY <1>3
  <1> HIDE DEF abc, ab
  <1>10. ASSUME NEW j \in 1 .. n + 1
         PROVE  abc[j] = IF j <= i THEN q[j] ELSE IF j = i + 1 THEN x ELSE q[j - 1]
    <2>0. j \in Int
      BY <1>0
    <2>1. CASE j <= i + 1
      <3>1. j \in 1 .. i + 1 /\ (j <= i \/ j = i + 1)
        BY <1>0, <2>0, <2>1
      <3>2. abc[j] = ab[j]
        BY <1>7, <2>1
      <3> QED BY <1>8, <3>1, <3>2
    <2>2. CASE ~(j <= i + 1)
      <3>1. j - (i + 1) \in 1 .. n - i /\ i + (j - (i + 1)) = j - 1 /\ ~(j <= i) /\ j # i + 1
        BY <1>0, <2>0, <2>2
      <3>2. c[j - (i + 1)] = q[j - 1]
        BY <1>5, <3>1
      <3> QED BY <1>7, <2>2, <3>1, <3>2
    <2> QED BY <2>1, <2>2
  <1> QED BY <1>7, <1>9, <1>10 DEF n

-----------------------------------------------------------------------------
\* The head of the list is being served; what follows it is at most two
\* sweeps, each in the order of the elevator, the first up to position d.
Sweeps(q, d) ==
    \A i, j \in DOMAIN q : i < j /\ (j <= d \/ d < i) => IN_ORDER(q[i], q[j]) \/ i = 1

TwoSweeps(q) == \E d \in 0 .. Len(q) : Sweeps(q, d)

Keyed(r) == r.cmd \in Int /\ r.dev \in Int /\ r.sector \in Int

\* IN_ORDER is transitive.
LEMMA OrderTransitive ==
    ASSUME NEW x, NEW y, NEW z, Keyed(x), Keyed(y), Keyed(z),
           IN_ORDER(x, y), IN_ORDER(y, z)
    PROVE  IN_ORDER(x, z)
  BY DEF Keyed, IN_ORDER

\* A request linked where it fits, between two others, extends a sweep.
LEMMA FittingKeepsSweeps ==
    ASSUME NEW S, NEW q \in Seq(S), NEW r \in S, \A x \in S : Keyed(x),
           NEW d \in 0 .. Len(q), Sweeps(q, d),
           NEW pos \in 1 .. Len(q) - 1, Fits(q[pos], r, q[pos + 1])
    PROVE  TwoSweeps(InsertAfter(q, pos, r))
  <1> DEFINE n == Len(q)  new == InsertAfter(q, pos, r)
             e == IF pos < d THEN d + 1 ELSE d
             old(i) == IF i <= pos THEN i ELSE i - 1
  <1>0. n \in Nat /\ DOMAIN q = 1 .. n /\ pos \in 1 .. n - 1 /\ d \in 0 .. n
        /\ \A i \in 1 .. n : q[i] \in S /\ Keyed(q[i])
    BY LenProperties, ElementOfSeq
  <1>1. /\ new \in Seq(S) /\ Len(new) = n + 1
        /\ \A j \in 1 .. n + 1 : new[j] = IF j <= pos THEN q[j] ELSE IF j = pos + 1 THEN r ELSE q[j - 1]
    <2>1. pos \in 1 .. Len(q)
      BY <1>0
    <2> QED BY <2>1, Insertion
  <1>2. DOMAIN new = 1 .. n + 1
    BY <1>1, LenProperties
  <1> HIDE DEF new, n
  <1>3. /\ \A i \in 1 .. n + 1 : i # pos + 1 => old(i) \in 1 .. n /\ new[i] = q[old(i)]
        /\ new[pos + 1] = r
        /\ \A i \in 1 .. n + 1 : i # 1 /\ i # pos + 1 => old(i) # 1
        /\ \A i, j \in 1 .. n + 1 : i # pos + 1 /\ j # pos + 1 /\ i < j => old(i) < old(j)
    BY <1>0, <1>1, SMTT(30)
  <1>4. \A i, j \in 1 .. n : i < j /\ i # 1 /\ (j <= d \/ d < i) => IN_ORDER(q[i], q[j])
    BY <1>0 DEF Sweeps
  <1>5. Keyed(r) /\ IN_ORDER(r, q[pos + 1]) /\ pos + 1 \in 1 .. n /\ pos \in 1 .. n
    BY <1>0 DEF Fits
  <1>6. pos # 1 /\ pos # d => IN_ORDER(q[pos], r)
    <2>1. pos # 1 /\ pos # d => IN_ORDER(q[pos], q[pos + 1])
      BY <1>0, <1>4, <1>5
    <2> QED BY <2>1 DEF Fits
  <1>7. ASSUME NEW i \in 1 .. n + 1, NEW j \in 1 .. n + 1, i < j, j <= e \/ e < i, i # 1
        PROVE  IN_ORDER(new[i], new[j])
    <2>1. CASE i # pos + 1 /\ j # pos + 1
      <3>1. old(j) <= d \/ d < old(i)
        BY <1>0, <1>7, <2>1
      <3>2. /\ old(i) \in 1 .. n /\ old(j) \in 1 .. n /\ old(i) < old(j) /\ old(i) # 1
            /\ new[i] = q[old(i)] /\ new[j] = q[old(j)]
        BY <1>3, <1>7, <2>1
      <3> HIDE DEF old
      <3> QED BY <1>4, <3>1, <3>2
    <2>2. CASE j = pos + 1
      <3>1. i \in 2 .. pos /\ pos # 1 /\ pos # d /\ (pos <= d \/ d < i)
        BY <1>0, <1>7, <2>2
      <3>2. i = pos \/ IN_ORDER(q[i], q[pos])
        BY <1>0, <1>4, <3>1
      <3>3. IN_ORDER(q[i], r)
        BY <1>0, <1>5, <1>6, <3>1, <3>2, OrderTransitive
      <3>4. new[i] = q[i] /\ new[j] = r
        BY <1>0, <1>1, <1>3, <2>2, <3>1
      <3> QED BY <3>3, <3>4
    <2>3. CASE i = pos + 1
      <3>1. /\ j - 1 \in pos + 1 .. n /\ pos + 1 # 1 /\ j > pos + 1
            /\ j - 1 <= d \/ d < pos + 1
        BY <1>0, <1>7, <2>3
      <3>2. j - 1 \in 1 .. n /\ (j - 1 = pos + 1 \/ IN_ORDER(q[pos + 1], q[j - 1]))
        BY <1>0, <1>4, <1>5, <3>1
      <3>3. IN_ORDER(r, q[j - 1])
        BY <1>0, <1>5, <3>2, OrderTransitive
      <3>4. new[i] = r /\ new[j] = q[j - 1]
        BY <1>0, <1>1, <2>3, <3>1
      <3> QED BY <3>3, <3>4
    <2> QED BY <2>1, <2>2, <2>3
  <1>8. Sweeps(new, e)
    BY <1>2, <1>7 DEF Sweeps
  <1>9. e \in 0 .. n + 1
    BY <1>0
  <1> HIDE DEF e
  <1> QED BY <1>1, <1>8, <1>9 DEF TwoSweeps, new

\* A request that fits nowhere goes to the end: it extends the last sweep, or
\* the list was one sweep that lies wholly behind the request.
LEMMA AppendingKeepsSweeps ==
    ASSUME NEW S, NEW q \in Seq(S), q # <<>>, NEW r \in S, \A x \in S : Keyed(x),
           NEW d \in 0 .. Len(q), Sweeps(q, d),
           \A i \in 2 .. Len(q) : IN_ORDER(q[i], r) \/ IN_ORDER(r, q[i]),
           \A i \in 1 .. Len(q) - 1 : ~Fits(q[i], r, q[i + 1])
    PROVE  TwoSweeps(InsertAfter(q, Len(q), r))
  <1> DEFINE n == Len(q)  new == InsertAfter(q, n, r)
  <1>0. /\ n \in Nat \ {0} /\ DOMAIN q = 1 .. n /\ d \in 0 .. n
        /\ \A i \in 1 .. n : q[i] \in S /\ Keyed(q[i])
        /\ \A i \in 2 .. n : IN_ORDER(q[i], r) \/ IN_ORDER(r, q[i])
        /\ \A i \in 1 .. n - 1 : ~Fits(q[i], r, q[i + 1])
    BY EmptySeq, LenProperties, ElementOfSeq
  <1>1. /\ new \in Seq(S) /\ Len(new) = n + 1
        /\ \A j \in 1 .. n + 1 : new[j] = IF j <= n THEN q[j] ELSE IF j = n + 1 THEN r ELSE q[j - 1]
    <2>1. Len(q) \in 1 .. Len(q)
      BY <1>0
    <2>2. \A i \in 1 .. Len(q) : LET l == InsertAfter(q, i, r) IN
            /\ l \in Seq(S) /\ Len(l) = Len(q) + 1
            /\ \A j \in 1 .. Len(q) + 1 :
                 l[j] = IF j <= i THEN q[j] ELSE IF j = i + 1 THEN r ELSE q[j - 1]
      BY Insertion
    <2> QED BY <2>1, <2>2
  <1>2. DOMAIN new = 1 .. n + 1
    BY <1>1, LenProperties
  <1> HIDE DEF new, n
  <1>3. /\ \A i, j \in 1 .. n : i < j /\ i # 1 /\ (j <= d \/ d < i) => IN_ORDER(q[i], q[j])
        /\ \A j \in 1 .. n : new[j] = q[j]
        /\ new[n + 1] = r /\ Keyed(r)
    BY <1>0, <1>1, SMTT(30) DEF Sweeps
  <1> DEFINE Split(e) == \A i, j \in 1 .. n + 1 :
                           i < j /\ i # 1 /\ (j <= e \/ e < i) => IN_ORDER(new[i], new[j])
  <1>4. ASSUME NEW e \in 0 .. n + 1, Split(e) PROVE TwoSweeps(new)
    <2>1. Sweeps(new, e)
      BY <1>2, <1>4 DEF Sweeps
    <2> QED BY <1>1, <2>1 DEF TwoSweeps
  <1>5. CASE n = 1
    <2>1. \A i, j \in 1 .. n + 1 : i < j => i = 1
      BY <1>5
    <2>2. Split(0) /\ 0 \in 0 .. n + 1
      BY <1>5, <2>1
    <2> HIDE DEF Split
    <2> QED BY <1>4, <2>2 DEF new, n
  <1>6. CASE n # 1 /\ IN_ORDER(q[n], r)
    <2> DEFINE e == IF d = n THEN n + 1 ELSE d
    <2>1. ASSUME NEW i \in 1 .. n + 1, NEW j \in 1 .. n + 1, i < j, i # 1, j <= e \/ e < i
          PROVE  IN_ORDER(new[i], new[j])
      <3>1. CASE j <= n
        <4>1. i \in 1 .. n /\ j \in 1 .. n /\ (j <= d \/ d < i)
          BY <1>0, <2>1, <3>1
        <4> QED BY <1>3, <2>1, <4>1
      <3>2. CASE j = n + 1
        <4>1. i \in 1 .. n /\ n \in 1 .. n /\ (n <= d \/ d < i)
          BY <1>0, <2>1, <3>2
        <4>2. i = n \/ IN_ORDER(q[i], q[n])
          BY <1>0, <1>3, <2>1, <4>1
        <4>3. IN_ORDER(q[i], r)
          BY <1>0, <1>3, <1>6, <4>1, <4>2, OrderTransitive
        <4> QED BY <1>3, <3>2, <4>1, <4>3
      <3> QED BY <1>0, <3>1, <3>2
    <2>2. e \in 0 .. n + 1
      BY <1>0
    <2> HIDE DEF e
    <2>3. Split(e)
      BY <2>1
    <2> HIDE DEF Split
    <2> QED BY <1>4, <2>2, <2>3 DEF new, n
  <1>7. CASE n # 1 /\ ~IN_ORDER(q[n], r)
    <2> DEFINE F == {k \in 2 .. n : ~IN_ORDER(r, q[k])}
    <2>1. F = {}
      <3>1. SUFFICES ASSUME F # {} PROVE FALSE
        OBVIOUS
      <3>2. F \in SUBSET (0 .. n)
        BY <1>0
      <3>3. PICK m \in F : \A k \in F : k <= m
        BY <1>0, <3>1, <3>2, GreatestNatural
      <3>4. m \in 2 .. n /\ ~IN_ORDER(r, q[m]) /\ m # n
        BY <1>0, <1>7, <3>3
      <3>5. m + 1 \in 2 .. n /\ m + 1 \notin F /\ m \in 1 .. n - 1
        BY <1>0, <3>3, <3>4
      <3>6. IN_ORDER(r, q[m + 1]) /\ ~Fits(q[m], r, q[m + 1])
        BY <1>0, <3>5
      <3> QED BY <1>0, <3>4, <3>6 DEF Fits
    <2>2. \A k \in 1 .. n - 1 : IN_ORDER(q[k], q[k + 1])
      <3>1. ASSUME NEW k \in 1 .. n - 1 PROVE IN_ORDER(q[k], q[k + 1])
        <4>1. k + 1 \in 2 .. n
          BY <1>0
        <4>2. IN_ORDER(r, q[k + 1])
          BY <2>1, <4>1
        <4> QED BY <1>0, <4>2 DEF Fits
      <3> QED BY <3>1
    <2>3. ASSUME NEW i \in 1 .. n, NEW j \in 1 .. n, i < j, i # 1
          PROVE  IN_ORDER(q[i], q[j])
      <3>1. CASE j <= d \/ d < i
        BY <1>3, <2>3, <3>1
      <3>2. CASE ~(j <= d \/ d < i)
        <4>1. /\ d \in 1 .. n - 1 /\ d \in 1 .. n /\ d + 1 \in 1 .. n /\ i <= d /\ d + 1 <= j /\ d + 1 # 1
              /\ d <= d /\ d < d + 1
          BY <1>0, <2>3, <3>2
        <4>2. i = d \/ IN_ORDER(q[i], q[d])
          BY <1>3, <2>3, <4>1
        <4>3. j = d + 1 \/ IN_ORDER(q[d + 1], q[j])
          BY <1>3, <4>1
        <4>4. IN_ORDER(q[d], q[d + 1])
          BY <2>2, <4>1
        <4>5. IN_ORDER(q[i], q[d + 1])
          BY <1>0, <4>1, <4>2, <4>4, OrderTransitive
        <4> QED BY <1>0, <4>1, <4>3, <4>5, OrderTransitive
      <3> QED BY <3>1, <3>2
    <2>4. ASSUME NEW i \in 1 .. n + 1, NEW j \in 1 .. n + 1, i < j, i # 1, j <= n \/ n < i
          PROVE  IN_ORDER(new[i], new[j])
      <3>1. i \in 1 .. n /\ j \in 1 .. n
        BY <1>0, <2>4
      <3> QED BY <1>3, <2>3, <2>4, <3>1
    <2>5. n \in 0 .. n + 1
      BY <1>0
    <2>6. Split(n)
      BY <2>4
    <2> HIDE DEF Split
    <2> QED BY <1>4, <2>5, <2>6 DEF new, n
  <1> QED BY <1>5, <1>6, <1>7

\* The elevator: wherever add_request links a request into a list of two
\* sweeps, the list is two sweeps again, so no request is passed over more
\* than once.  (Two requests behind the head are never for the same sector of
\* the same device: the cache has one buffer per block.)
THEOREM ElevatorKeepsSweeps ==
    ASSUME NEW S, NEW q \in Seq(S), q # <<>>, NEW r \in S, \A x \in S : Keyed(x),
           TwoSweeps(q),
           \A i \in 2 .. Len(q) : IN_ORDER(q[i], r) \/ IN_ORDER(r, q[i])
    PROVE  TwoSweeps(InsertAfter(q, ElevatorPosition(q, r), r))
  <1> DEFINE fits == {i \in 1 .. Len(q) - 1 : Fits(q[i], r, q[i + 1])}
             pos == ElevatorPosition(q, r)
  <1>1. pos = IF fits = {} THEN Len(q) ELSE CHOOSE i \in fits : \A j \in fits : i <= j
    BY DEF ElevatorPosition
  <1>2. PICK d \in 0 .. Len(q) : Sweeps(q, d)
    BY DEF TwoSweeps
  <1>3. CASE fits = {}
    <2>1. \A i \in 1 .. Len(q) - 1 : ~Fits(q[i], r, q[i + 1])
      BY <1>3
    <2>2. pos = Len(q)
      BY <1>1, <1>3
    <2>3. TwoSweeps(InsertAfter(q, Len(q), r))
      BY <1>2, <2>1, AppendingKeepsSweeps
    <2> QED BY <2>2, <2>3
  <1>4. CASE fits # {}
    <2>1. fits \in SUBSET Nat
      BY EmptySeq
    <2>2. \E i \in fits : \A j \in fits : i <= j
      BY <1>4, <2>1, LeastNatural
    <2>3. pos \in fits
      BY <1>1, <1>4, <2>2
    <2> HIDE DEF pos
    <2>4. pos \in 1 .. Len(q) - 1 /\ Fits(q[pos], r, q[pos + 1])
      BY <2>3
    <2>5. TwoSweeps(InsertAfter(q, pos, r))
      BY <1>2, <2>4, FittingKeepsSweeps
    <2> QED BY <2>5 DEF pos
  <1> QED BY <1>3, <1>4

\* Taking the request at the head off the list leaves two sweeps.
LEMMA TailKeepsSweeps ==
    ASSUME NEW S, NEW q \in Seq(S), q # <<>>, TwoSweeps(q)
    PROVE  TwoSweeps(Tail(q))
  <1> DEFINE n == Len(q)  t == Tail(q)
  <1>0. /\ n \in Nat \ {0} /\ DOMAIN q = 1 .. n
        /\ Len(t) = n - 1 /\ DOMAIN t = 1 .. n - 1 /\ \A i \in 1 .. n - 1 : t[i] = q[i + 1]
    BY EmptySeq, LenProperties, HeadTailProperties
  <1>1. PICK d \in 0 .. n : Sweeps(q, d)
    BY DEF TwoSweeps
  <1> HIDE DEF n, t
  <1> DEFINE e == IF d = 0 THEN 0 ELSE d - 1
  <1>2. e \in 0 .. n - 1
    BY <1>0
  <1>3. ASSUME NEW i \in 1 .. n - 1, NEW j \in 1 .. n - 1, i < j, j <= e \/ e < i
        PROVE  IN_ORDER(t[i], t[j])
    <2>1. /\ i + 1 \in DOMAIN q /\ j + 1 \in DOMAIN q /\ i + 1 < j + 1 /\ i + 1 # 1
          /\ j + 1 <= d \/ d < i + 1
      BY <1>0, <1>3
    <2>2. IN_ORDER(q[i + 1], q[j + 1])
      BY <1>1, <2>1 DEF Sweeps
    <2> QED BY <1>0, <2>2
  <1>4. Sweeps(t, e)
    BY <1>0, <1>3 DEF Sweeps
  <1> HIDE DEF e
  <1> QED BY <1>0, <1>2, <1>4 DEF TwoSweeps, t

\* The sweeps are those of the requests behind the head.
LEMMA HeadOutsideSweeps ==
    ASSUME NEW q, NEW p, Len(q) = Len(p), DOMAIN q = DOMAIN p, DOMAIN q \subseteq Nat \ {0},
           \A i \in DOMAIN q : i # 1 => p[i] = q[i], TwoSweeps(q)
    PROVE  TwoSweeps(p)
  <1>1. PICK d \in 0 .. Len(q) : Sweeps(q, d)
    BY DEF TwoSweeps
  <1>2. Sweeps(p, d)
    BY <1>1 DEF Sweeps
  <1> QED BY <1>1, <1>2 DEF TwoSweeps

-----------------------------------------------------------------------------
Cmds == {READ, WRITE}
Reqs == [cmd : Cmds, dev : Nat, sector : Nat, nr : 1 .. 2, errors : 0 .. MAX_ERRORS - 1, bh : Blocks]
Commands == [cmd : {"read", "write", "specify", "restore"}, lba : Nat, left : Nat] \cup {Quiet}

\* Types, more exactly than TypeOK.
Types ==
    /\ queue \in Seq(Reqs) /\ ctl \in Commands
    /\ do_hd \in {NULL, "read_intr", "write_intr", "recal_intr"}
    /\ reset \in BOOLEAN /\ recalibrate \in BOOLEAN /\ drv \in BOOLEAN
    /\ same \subseteq Blocks \X Halves
    /\ lock \in [Blocks -> BOOLEAN] /\ uptodate \in [Blocks -> BOOLEAN]

\* A request describes what is left of its block, and only CURRENT is begun.
Begun(q) ==
    /\ \A i \in DOMAIN q : q[i].dev = q[i].bh.dev /\ q[i].sector = q[i].bh.sector + 2 - q[i].nr
    /\ \A i \in DOMAIN q : i # 1 => q[i].nr = 2 /\ q[i].errors = 0
    /\ \A i, j \in DOMAIN q : q[i].bh = q[j].bh => i = j

\* The first half of CURRENT's block is in place once the second is next.
HalfDone == queue # <<>> /\ CURRENT.nr = 1 => <<CURRENT.bh, 1>> \in same

\* The controller transfers the half of CURRENT's block that is next.
Transfer ==
    ctl.cmd \in {"read", "write"} =>
        /\ CURRENT.cmd = (IF ctl.cmd = "read" THEN READ ELSE WRITE)
        /\ CURRENT.bh.dev \in Devs
        /\ ctl.lba = Sector(CURRENT.bh, Half) /\ ctl.left = CURRENT.nr

\* The parts of Outstanding: a command has its handler, a request its command,
\* a lock its request.
Pending ==
    /\ ctl # Quiet => /\ queue # <<>> /\ ~drv
                      /\ do_hd = CASE ctl.cmd = "read" -> "read_intr"
                                   [] ctl.cmd = "write" -> "write_intr"
                                   [] OTHER -> "recal_intr"
    /\ queue # <<>> => drv \/ ctl # Quiet

LockedIsQueued(q, l) == \A b \in Blocks : l[b] <=> \E i \in DOMAIN q : q[i].bh = b

IInv == Types /\ Pending /\ LockedIsQueued(queue, lock) /\ Begun(queue) /\ HalfDone /\ Transfer

-----------------------------------------------------------------------------
\* The quotient and the remainder of do_hd_request's divisions.
LEMMA Division ==
    ASSUME NEW x \in Nat, NEW y \in Nat \ {0}
    PROVE  x \div y \in Nat /\ x % y \in 0 .. y - 1 /\ (x \div y) * y + (x % y) = x
  OBVIOUS

\* The cylinder, head and sector that do_hd_request computes are those of the
\* block: the controller works on the sector that was meant.
LEMMA AddressOfChs ==
    ASSUME NEW x \in Nat
    PROVE  Address(Chs(x)) = x
  <1> DEFINE t == x \div Sect  c == t \div Head_  h == t % Head_  r == x % Sect
  <1>1. t \in Nat /\ r \in 0 .. Sect - 1 /\ t * Sect + r = x
    BY Division, HardDiskConstants
  <1>2. c \in Nat /\ h \in 0 .. Head_ - 1 /\ c * Head_ + h = t
    BY <1>1, Division, HardDiskConstants
  <1>3. Address(Chs(x)) = (c * Head_ + h) * Sect + (r + 1) - 1
    BY DEF Address, Chs
  <1> HIDE DEF t, c, h, r
  <1>4. Address(Chs(x)) = t * Sect + (r + 1) - 1
    BY <1>2, <1>3
  <1>5. t * Sect \in Int /\ r \in Int
    BY <1>1, HardDiskConstants
  <1> QED BY <1>1, <1>4, <1>5

\* Changing the fields of CURRENT leaves the rest of the list alone.
LEMMA ReplaceHead ==
    ASSUME NEW S, NEW q \in Seq(S), q # <<>>, NEW e
    PROVE  LET n == [q EXCEPT ![1] = e] IN
           /\ n # <<>> /\ n[1] = e /\ Head(n) = e /\ Tail(n) = Tail(q) /\ Len(n) = Len(q)
           /\ e \in S => n \in Seq(S)
           /\ DOMAIN n = DOMAIN q /\ \A i \in DOMAIN q : i # 1 => n[i] = q[i]
  <1> DEFINE n == [q EXCEPT ![1] = e]  T == S \cup {e}
  <1>0. q \in Seq(T) /\ e \in T
    BY SeqMonotonic
  <1>1. Len(q) \in Nat \ {0} /\ DOMAIN q = 1 .. Len(q) /\ 1 \in 1 .. Len(q)
    BY EmptySeq, LenProperties
  <1>2. /\ n \in Seq(T) /\ Len(n) = Len(q)
        /\ \A j \in 1 .. Len(q) : n[j] = IF j = 1 THEN e ELSE q[j]
    BY <1>0, <1>1, ExceptSeq
  <1>3. e \in S => n \in Seq(S)
    BY <1>1, ExceptSeq
  <1>4. DOMAIN n = DOMAIN q
    OBVIOUS
  <1> HIDE DEF n, T
  <1>5. n # <<>> /\ n[1] = e /\ Head(n) = e
    BY <1>1, <1>2
  <1>6. Tail(n) = Tail(q)
    <2>1. /\ Tail(n) \in Seq(T) /\ Len(Tail(n)) = Len(n) - 1
          /\ \A i \in 1 .. Len(Tail(n)) : Tail(n)[i] = n[i + 1]
      BY <1>2, <1>5, HeadTailProperties
    <2>2. /\ Tail(q) \in Seq(T) /\ Len(Tail(q)) = Len(q) - 1
          /\ \A i \in 1 .. Len(Tail(q)) : Tail(q)[i] = q[i + 1]
      BY <1>0, HeadTailProperties
    <2>3. \A i \in 1 .. Len(q) - 1 : i + 1 \in 1 .. Len(q) /\ i + 1 # 1
      BY <1>1
    <2>4. \A i \in 1 .. Len(q) - 1 : n[i + 1] = q[i + 1]
      BY <1>2, <2>3
    <2>5. Len(Tail(n)) = Len(Tail(q)) /\ \A i \in 1 .. Len(Tail(n)) : Tail(n)[i] = Tail(q)[i]
      BY <1>2, <2>1, <2>2, <2>4
    <2> QED BY <2>1, <2>2, <2>5, SeqEqual
  <1> QED BY <1>1, <1>2, <1>3, <1>4, <1>5, <1>6 DEF n

\* The exact types imply the module's own.
LEMMA TypesOK == ASSUME Types PROVE TypeOK
  <1>1. \A i \in DOMAIN queue : queue[i] \in Reqs
    BY LenProperties, ElementOfSeq DEF Types
  <1>2. \A i \in DOMAIN queue : /\ queue[i].cmd \in {READ, WRITE} /\ queue[i].bh \in Blocks
                               /\ queue[i].nr \in 1 .. 2 /\ queue[i].errors \in 0 .. MAX_ERRORS
    BY <1>1, HardDiskConstants DEF Reqs, Cmds
  <1>3. ctl.cmd \in {"none", "read", "write", "specify", "restore"}
    BY DEF Types, Commands, Quiet
  <1> QED BY <1>2, <1>3 DEF Types, TypeOK

\* CURRENT of a list that is not empty.
LEMMA CurrentIs ==
    ASSUME Types, queue # <<>>
    PROVE  /\ CURRENT = queue[1] /\ 1 \in DOMAIN queue /\ CURRENT \in Reqs
           /\ CURRENT.bh \in Blocks /\ CURRENT.nr \in 1 .. 2
           /\ CURRENT.errors \in 0 .. MAX_ERRORS - 1 /\ CURRENT.cmd \in Cmds
           /\ CURRENT.dev \in Nat /\ CURRENT.sector \in Nat
           /\ CURRENT.bh.dev \in Nat /\ CURRENT.bh.sector \in Nat
  <1>1. CURRENT = queue[1] /\ 1 \in DOMAIN queue /\ CURRENT \in Reqs
    BY EmptySeq, LenProperties, ElementOfSeq, HeadTailProperties DEF Types, CURRENT
  <1> QED BY <1>1, HardDiskConstants DEF Reqs

\* The driver starts with an empty list and nothing under way.
LEMMA InitIInv == Init => IInv
  <1> SUFFICES ASSUME Init PROVE IInv
    OBVIOUS
  <1>1. queue \in Seq(Reqs) /\ DOMAIN queue = {} /\ ctl = Quiet /\ queue = <<>> /\ ~drv
    BY EmptySeq DEF Init
  <1>2. Types
    BY <1>1 DEF Init, Types, Commands
  <1>3. Pending /\ Begun(queue) /\ HalfDone /\ Transfer
    BY <1>1 DEF Pending, Begun, HalfDone, Transfer, Quiet
  <1>4. LockedIsQueued(queue, lock)
    BY <1>1 DEF LockedIsQueued, Init
  <1> QED BY <1>2, <1>3, <1>4 DEF IInv

\* end_request takes CURRENT off the list and unlocks its buffer; the next
\* request has not been begun.
LEMMA EndRequest ==
    ASSUME IInv, queue # <<>>, queue' = Tail(queue),
           lock' = [lock EXCEPT ![CURRENT.bh] = FALSE]
    PROVE  /\ queue' \in Seq(Reqs) /\ Begun(queue') /\ lock' \in [Blocks -> BOOLEAN]
           /\ LockedIsQueued(queue', lock')
           /\ queue' # <<>> => CURRENT'.nr = 2
           /\ \A b \in Blocks : lock[b] /\ ~lock'[b] => b = CURRENT.bh
  <1> DEFINE n == Len(queue)
  <1>0. Types /\ Begun(queue) /\ LockedIsQueued(queue, lock)
    BY DEF IInv
  <1>1. /\ n \in Nat \ {0} /\ DOMAIN queue = 1 .. n
        /\ queue' \in Seq(Reqs) /\ Len(queue') = n - 1 /\ DOMAIN queue' = 1 .. n - 1
        /\ \A i \in 1 .. n - 1 : queue'[i] = queue[i + 1]
    BY <1>0, EmptySeq, LenProperties, HeadTailProperties DEF Types
  <1>2. CURRENT = queue[1] /\ CURRENT.bh \in Blocks
    BY <1>0, CurrentIs
  <1> HIDE DEF n
  <1>3. \A i \in 1 .. n - 1 : i + 1 \in DOMAIN queue /\ i + 1 # 1
    BY <1>1
  <1>4. /\ \A i \in 1 .. n - 1 : /\ queue'[i].dev = queue'[i].bh.dev
                                /\ queue'[i].sector = queue'[i].bh.sector + 2 - queue'[i].nr
                                /\ queue'[i].nr = 2 /\ queue'[i].errors = 0
    BY <1>0, <1>1, <1>3, SMTT(30) DEF Begun
  <1>5. ASSUME NEW i \in 1 .. n - 1, NEW j \in 1 .. n - 1, queue'[i].bh = queue'[j].bh
        PROVE  i = j
    <2>1. i + 1 = j + 1
      BY <1>0, <1>1, <1>3, <1>5 DEF Begun
    <2> QED BY <1>1, <2>1
  <1>6. Begun(queue')
    BY <1>1, <1>4, <1>5 DEF Begun
  <1>7. lock' \in [Blocks -> BOOLEAN] /\ \A b \in Blocks : lock'[b] <=> lock[b] /\ b # CURRENT.bh
    BY <1>0, <1>2 DEF Types
  <1>8. ASSUME NEW b \in Blocks
        PROVE  lock'[b] <=> \E i \in DOMAIN queue' : queue'[i].bh = b
    <2>1. ASSUME NEW i \in DOMAIN queue', queue'[i].bh = b PROVE lock'[b]
      <3>1. i + 1 \in DOMAIN queue /\ queue[i + 1].bh = b /\ i + 1 # 1
        BY <1>1, <1>3, <2>1
      <3>2. lock[b] /\ b # queue[1].bh
        BY <1>0, <1>1, <3>1 DEF LockedIsQueued, Begun
      <3> QED BY <1>2, <1>7, <3>2
    <2>2. ASSUME lock'[b] PROVE \E i \in DOMAIN queue' : queue'[i].bh = b
      <3>1. PICK i \in DOMAIN queue : queue[i].bh = b /\ i # 1
        BY <1>0, <1>2, <1>7, <2>2 DEF LockedIsQueued
      <3>2. i - 1 \in 1 .. n - 1 /\ (i - 1) + 1 = i
        BY <1>1, <3>1
      <3>3. queue'[i - 1] = queue[i]
        BY <1>1, <3>2
      <3> QED BY <1>1, <3>1, <3>2, <3>3
    <2> QED BY <2>1, <2>2
  <1>9. queue' # <<>> => CURRENT'.nr = 2
    <2>1. SUFFICES ASSUME queue' # <<>> PROVE CURRENT'.nr = 2
      OBVIOUS
    <2>2. Head(queue') = queue'[1] /\ 1 \in 1 .. n - 1
      BY <1>1, <2>1, EmptySeq, HeadTailProperties
    <2> QED BY <1>4, <2>2 DEF CURRENT
  <1> QED BY <1>1, <1>6, <1>7, <1>8, <1>9 DEF LockedIsQueued

\* bad_rw_intr: CURRENT has one error more, or is given up.
LEMMA BadRwIntr ==
    ASSUME IInv, queue # <<>>, bad_rw_intr
    PROVE  /\ queue' \in Seq(Reqs) /\ Begun(queue') /\ reset' \in BOOLEAN
           /\ lock' \in [Blocks -> BOOLEAN] /\ uptodate' \in [Blocks -> BOOLEAN]
           /\ LockedIsQueued(queue', lock')
           /\ queue' # <<>> /\ CURRENT'.nr = 1 => CURRENT.nr = 1 /\ CURRENT'.bh = CURRENT.bh
           /\ \A b \in Blocks : lock[b] /\ ~lock'[b] => ~uptodate'[b]
  <1> DEFINE e == [CURRENT EXCEPT !.errors = @ + 1]
             q == [queue EXCEPT ![1] = e]
  <1>0. Types /\ Begun(queue) /\ LockedIsQueued(queue, lock)
    BY DEF IInv
  <1>1. /\ CURRENT = queue[1] /\ 1 \in DOMAIN queue /\ CURRENT \in Reqs /\ CURRENT.bh \in Blocks
        /\ CURRENT.errors \in 0 .. MAX_ERRORS - 1
    BY <1>0, CurrentIs
  <1>2. [queue EXCEPT ![1].errors = @ + 1] = q
    BY <1>1
  <1>3. /\ e.errors = CURRENT.errors + 1 /\ e.bh = CURRENT.bh /\ e.nr = CURRENT.nr
        /\ e.dev = CURRENT.dev /\ e.sector = CURRENT.sector
        /\ e.errors < MAX_ERRORS => e \in Reqs
    <2>1. /\ e.errors = CURRENT.errors + 1 /\ e.bh = CURRENT.bh /\ e.nr = CURRENT.nr
          /\ e.dev = CURRENT.dev /\ e.sector = CURRENT.sector
      BY <1>1 DEF Reqs
    <2>2. CURRENT.errors + 1 < MAX_ERRORS => CURRENT.errors + 1 \in 0 .. MAX_ERRORS - 1
      BY <1>1, HardDiskConstants
    <2>3. CURRENT.errors + 1 \in 0 .. MAX_ERRORS - 1 => e \in Reqs
      BY <1>1 DEF Reqs
    <2> QED BY <2>1, <2>2, <2>3
  <1> HIDE DEF e
  <1>4. /\ q # <<>> /\ q[1] = e /\ Head(q) = e /\ Tail(q) = Tail(queue) /\ Len(q) = Len(queue)
        /\ e \in Reqs => q \in Seq(Reqs)
        /\ DOMAIN q = DOMAIN queue /\ \A i \in DOMAIN queue : i # 1 => q[i] = queue[i]
    BY <1>0, ReplaceHead DEF Types
  <1> HIDE DEF q
  <1>5. reset \in BOOLEAN
    BY <1>0 DEF Types
  <1>6. CASE q[1].errors >= MAX_ERRORS
    <2>1. /\ Ended(q, FALSE)
          /\ IF Len(q) = 1 THEN reset' \in {reset, TRUE}
             ELSE reset' = (reset \/ q[2].errors > MAX_ERRORS \div 2)
      BY <1>2, <1>6 DEF bad_rw_intr
    <2>2. /\ queue' = Tail(queue) /\ lock' = [lock EXCEPT ![CURRENT.bh] = FALSE]
          /\ uptodate' = [uptodate EXCEPT ![CURRENT.bh] = FALSE]
      BY <1>3, <1>4, <2>1 DEF Ended
    <2>3. reset' \in BOOLEAN
      BY <1>5, <2>1, Zenon
    <2>4. /\ uptodate' \in [Blocks -> BOOLEAN] /\ ~uptodate'[CURRENT.bh]
      BY <1>0, <1>1, <2>2 DEF Types
    <2> QED BY <2>2, <2>3, <2>4, EndRequest
  <1>7. CASE ~(q[1].errors >= MAX_ERRORS)
    <2>1. /\ queue' = q /\ reset' = (reset \/ q[1].errors > MAX_ERRORS \div 2)
          /\ UNCHANGED <<lock, uptodate>>
      BY <1>2, <1>7 DEF bad_rw_intr
    <2>2. reset' \in BOOLEAN
      BY <1>5, <2>1, Zenon
    <2>3. e \in Reqs
      BY <1>1, <1>3, <1>4, <1>7, HardDiskConstants
    <2>4. Begun(q)
      BY <1>0, <1>1, <1>3, <1>4 DEF Begun
    <2>5. LockedIsQueued(q, lock)
      <3>1. \A i \in DOMAIN queue : q[i].bh = queue[i].bh
        BY <1>1, <1>3, <1>4
      <3> QED BY <1>0, <1>4, <3>1 DEF LockedIsQueued
    <2>6. CURRENT'.nr = CURRENT.nr /\ CURRENT'.bh = CURRENT.bh
      BY <1>3, <1>4, <2>1 DEF CURRENT
    <2> QED BY <1>0, <1>4, <2>1, <2>2, <2>3, <2>4, <2>5, <2>6 DEF Types
  <1> QED BY <1>6, <1>7

-----------------------------------------------------------------------------
\* A request that stays at the head stays CURRENT.
LEMMA SubmitStep ==
    ASSUME IInv, NEW b \in Blocks, NEW cmd \in Cmds, Submit(b, cmd)
    PROVE  IInv'
  <1> DEFINE r == Request(cmd, b)  n == Len(queue)  pos == ElevatorPosition(queue, r)
  <1>0. /\ Types /\ Pending /\ Begun(queue) /\ LockedIsQueued(queue, lock) /\ HalfDone /\ Transfer
        /\ queue \in Seq(Reqs) /\ n \in Nat /\ DOMAIN queue = 1 .. n
    BY LenProperties DEF IInv, Types
  <1>1. /\ ~drv /\ ~lock[b] /\ lock' = [lock EXCEPT ![b] = TRUE]
        /\ same' = same \ ({b} \X Halves)
        /\ UNCHANGED <<do_hd, reset, recalibrate, ctl, uptodate>>
    BY DEF Submit
  <1>2. /\ r \in Reqs /\ r.bh = b /\ r.nr = 2 /\ r.errors = 0 /\ r.dev = r.bh.dev
        /\ r.sector = r.bh.sector + 2 - r.nr
    BY HardDiskConstants DEF Request, Reqs
  <1> HIDE DEF r
  <1>3. /\ lock' \in [Blocks -> BOOLEAN] /\ \A x \in Blocks : lock'[x] <=> lock[x] \/ x = b
        /\ same' \subseteq Blocks \X Halves
    BY <1>0, <1>1 DEF Types
  <1>4. \A i \in 1 .. n : queue[i].bh # b
    BY <1>0, <1>1 DEF LockedIsQueued
  <1>5. CASE queue = <<>>
    <2>1. queue' = <<r>> /\ drv' = TRUE
      BY <1>5 DEF Submit, r
    <2>2. queue' \in Seq(Reqs) /\ DOMAIN queue' = 1 .. 1 /\ queue'[1] = r /\ Head(queue') = r
      BY <1>2, <2>1
    <2>3. ctl = Quiet
      BY <1>0, <1>5 DEF Pending
    <2>4. Types'
      BY <1>0, <1>1, <1>3, <2>1, <2>2 DEF Types
    <2>5. Pending' /\ Transfer'
      BY <1>1, <2>1, <2>3 DEF Pending, Transfer, Quiet
    <2>6. Begun(queue')
      BY <1>2, <2>2 DEF Begun
    <2>7. HalfDone'
      BY <1>2, <2>2 DEF HalfDone, CURRENT
    <2>8. LockedIsQueued(queue', lock')
      BY <1>0, <1>2, <1>3, <1>5, <2>2 DEF LockedIsQueued
    <2> QED BY <2>4, <2>5, <2>6, <2>7, <2>8 DEF IInv
  <1>6. CASE queue # <<>>
    <2>0. queue' = InsertAfter(queue, pos, r) /\ UNCHANGED drv
      BY <1>6 DEF Submit, r
    <2>1. n \in Nat \ {0} /\ pos \in 1 .. n
      BY <1>0, <1>6, EmptySeq, PositionInList
    <2> HIDE DEF pos
    <2>2. /\ queue' \in Seq(Reqs) /\ Len(queue') = n + 1
          /\ \A j \in 1 .. n + 1 :
               queue'[j] = IF j <= pos THEN queue[j] ELSE IF j = pos + 1 THEN r ELSE queue[j - 1]
      <3>1. \A i \in 1 .. Len(queue) : LET l == InsertAfter(queue, i, r) IN
              /\ l \in Seq(Reqs) /\ Len(l) = Len(queue) + 1
              /\ \A j \in 1 .. Len(queue) + 1 :
                   l[j] = IF j <= i THEN queue[j] ELSE IF j = i + 1 THEN r ELSE queue[j - 1]
        BY <1>0, <1>2, Insertion, SMTT(30)
      <3> QED BY <2>0, <2>1, <3>1
    <2>3. DOMAIN queue' = 1 .. n + 1 /\ queue' # <<>>
      BY <2>1, <2>2, LenProperties, EmptySeq
    <2> HIDE DEF n
    <2> DEFINE old(i) == IF i <= pos THEN i ELSE i - 1
    <2>4. /\ \A i \in 1 .. n + 1 : i # pos + 1 => old(i) \in 1 .. n /\ queue'[i] = queue[old(i)]
          /\ pos + 1 \in 1 .. n + 1 /\ queue'[pos + 1] = r /\ pos + 1 # 1
          /\ \A i \in 1 .. n + 1 : i # 1 /\ i # pos + 1 => old(i) # 1
          /\ \A i, j \in 1 .. n + 1 : i # pos + 1 /\ j # pos + 1 /\ old(i) = old(j) => i = j
          /\ 1 \in 1 .. n + 1 /\ queue'[1] = queue[1]
      BY <2>1, <2>2
    <2>5. \A i \in 1 .. n : \E j \in 1 .. n + 1 : queue'[j] = queue[i]
      <3>1. ASSUME NEW i \in 1 .. n PROVE \E j \in 1 .. n + 1 : queue'[j] = queue[i]
        <4>1. CASE i <= pos
          <5>1. i \in 1 .. n + 1
            BY <2>1
          <5> QED BY <2>2, <4>1, <5>1
        <4>2. CASE ~(i <= pos)
          <5>1. i + 1 \in 1 .. n + 1 /\ ~(i + 1 <= pos) /\ i + 1 # pos + 1 /\ (i + 1) - 1 = i
            BY <2>1, <4>2
          <5>2. queue'[i + 1] = queue[i]
            BY <2>2, <5>1
          <5> QED BY <5>1, <5>2
        <4> QED BY <4>1, <4>2
      <3> QED BY <3>1
    <2> HIDE DEF old
    <2>6. CURRENT' = CURRENT /\ CURRENT.bh \in Blocks /\ CURRENT.bh # b /\ 1 \in 1 .. n
      <3>1. CURRENT = queue[1] /\ 1 \in 1 .. n /\ CURRENT.bh \in Blocks
        BY <1>0, <1>6, CurrentIs DEF n
      <3>2. CURRENT' = queue'[1]
        BY <2>2, <2>3, HeadTailProperties DEF CURRENT
      <3> QED BY <1>4, <2>4, <3>1, <3>2
    <2>7. Types'
      BY <1>0, <1>1, <1>3, <2>0, <2>2 DEF Types
    <2>8. Pending'
      BY <1>0, <1>1, <1>6, <2>0, <2>3 DEF Pending
    <2>9. Begun(queue')
      <3>1. \A i \in 1 .. n + 1 : /\ queue'[i].dev = queue'[i].bh.dev
                                 /\ queue'[i].sector = queue'[i].bh.sector + 2 - queue'[i].nr
        BY <1>0, <1>2, <2>4, SMTT(30) DEF Begun
      <3>2. \A i \in 1 .. n + 1 : i # 1 => queue'[i].nr = 2 /\ queue'[i].errors = 0
        BY <1>0, <1>2, <2>4 DEF Begun
      <3>3. \A i, j \in 1 .. n + 1 : queue'[i].bh = queue'[j].bh => i = j
        BY <1>0, <1>2, <1>4, <2>4 DEF Begun
      <3> QED BY <2>3, <3>1, <3>2, <3>3 DEF Begun
    <2>10. LockedIsQueued(queue', lock')
      <3>1. ASSUME NEW x \in Blocks, NEW i \in 1 .. n + 1, queue'[i].bh = x PROVE lock'[x]
        BY <1>0, <1>2, <1>3, <2>4, <3>1 DEF LockedIsQueued, n
      <3>2. ASSUME NEW x \in Blocks, lock'[x] PROVE \E i \in 1 .. n + 1 : queue'[i].bh = x
        <4>1. CASE x = b
          BY <1>2, <2>4, <4>1
        <4>2. CASE lock[x]
          <5>1. PICK i \in 1 .. n : queue[i].bh = x
            BY <1>0, <4>2 DEF LockedIsQueued, n
          <5> QED BY <2>5, <5>1
        <4> QED BY <1>3, <3>2, <4>1, <4>2
      <3> QED BY <2>3, <3>1, <3>2 DEF LockedIsQueued
    <2>11. HalfDone'
      BY <1>0, <1>1, <1>6, <2>6 DEF HalfDone
    <2>12. Transfer'
      BY <1>0, <1>1, <2>6 DEF Transfer, Half
    <2> QED BY <2>7, <2>8, <2>9, <2>10, <2>11, <2>12 DEF IInv
  <1> QED BY <1>5, <1>6

\* A step of do_hd_request that keeps the list and gives a command, or none.
LEMMA CommandStep ==
    ASSUME IInv, drv, UNCHANGED <<queue, same, lock, uptodate>>,
           reset' \in BOOLEAN, recalibrate' \in BOOLEAN, drv' = FALSE,
           do_hd' \in {NULL, "read_intr", "write_intr", "recal_intr"}, ctl' \in Commands,
           Pending', Transfer'
    PROVE  IInv'
  <1>1. Types'
    BY DEF IInv, Types
  <1>2. HalfDone'
    BY DEF IInv, HalfDone, CURRENT
  <1> QED BY <1>1, <1>2 DEF IInv

\* NoWork, Reset and Recalibrate.
LEMMA ControlStep ==
    ASSUME IInv, NoWork \/ Reset \/ Recalibrate
    PROVE  IInv'
  <1>0. /\ drv /\ Types /\ Pending /\ ctl = Quiet
        /\ reset \in BOOLEAN /\ recalibrate \in BOOLEAN
    BY DEF IInv, Pending, NoWork, Reset, Recalibrate, Accepted, Types
  <1>1. CASE NoWork
    <2>1. /\ UNCHANGED <<queue, same, lock, uptodate, do_hd, reset, recalibrate, ctl>>
          /\ drv' = FALSE /\ queue = <<>>
      BY <1>1 DEF NoWork
    <2>2. Pending' /\ Transfer' /\ ctl' \in Commands
      BY <1>0, <2>1 DEF Pending, Transfer, Quiet, Commands
    <2> QED BY <1>0, <2>1, <2>2, CommandStep DEF Types
  <1>2. CASE Reset \/ Recalibrate
    <2>1. /\ UNCHANGED <<queue, same, lock, uptodate>> /\ drv' = FALSE /\ queue # <<>>
          /\ do_hd' = "recal_intr"
          /\ ctl' = [cmd |-> "specify", lba |-> 0, left |-> 0]
               \/ ctl' = [cmd |-> "restore", lba |-> 0, left |-> 0]
      BY <1>2 DEF Reset, Recalibrate, Accepted, hd_out
    <2>2. reset' \in BOOLEAN /\ recalibrate' \in BOOLEAN
      BY <1>0, <1>2, Zenon DEF Reset, Recalibrate
    <2>3. ctl' \in Commands /\ ctl'.cmd \in {"specify", "restore"} /\ ctl' # Quiet
      BY <2>1 DEF Commands, Quiet
    <2>4. Pending' /\ Transfer'
      BY <2>1, <2>3 DEF Pending, Transfer
    <2> QED BY <1>0, <2>1, <2>2, <2>3, <2>4, CommandStep
  <1> QED BY <1>1, <1>2

\* The sector do_hd_request asks for is the one that is next of CURRENT.
LEMMA LbaIsNext ==
    ASSUME Types, Begun(queue), Accepted
    PROVE  Lba \in Nat /\ Lba = Sector(CURRENT.bh, Half) /\ CURRENT.bh.dev \in Devs
  <1>1. /\ CURRENT.dev \in Devs /\ CURRENT.dev = CURRENT.bh.dev
        /\ CURRENT.sector = CURRENT.bh.sector + 2 - CURRENT.nr
        /\ CURRENT.sector \in Nat /\ CURRENT.nr \in 1 .. 2 /\ CURRENT.bh.sector \in Nat
    BY CurrentIs DEF Accepted, Begun
  <1>2. start_sect[CURRENT.dev] \in Nat
    BY <1>1, HardDiskConstants
  <1>3. CURRENT.sector + start_sect[CURRENT.dev] \in Nat
    BY <1>1, <1>2
  <1>4. Lba = CURRENT.sector + start_sect[CURRENT.dev]
    BY <1>3, AddressOfChs DEF Lba
  <1> QED BY <1>1, <1>2, <1>4 DEF Sector, Half

\* WIN_READ and WIN_WRITE.
LEMMA TransferStep ==
    ASSUME IInv, Accepted, NEW c \in {"read", "write"}, NEW h \in {"read_intr", "write_intr"},
           CURRENT.cmd = (IF c = "read" THEN READ ELSE WRITE),
           h = (IF c = "read" THEN "read_intr" ELSE "write_intr"),
           hd_out(c, Lba, CURRENT.nr, h), drv' = FALSE,
           UNCHANGED <<queue, reset, recalibrate, same, lock, uptodate>>
    PROVE  IInv'
  <1>0. /\ drv /\ queue # <<>> /\ Types /\ Begun(queue)
        /\ reset' \in BOOLEAN /\ recalibrate' \in BOOLEAN
    BY DEF IInv, Accepted, Types
  <1>1. Lba \in Nat /\ Lba = Sector(CURRENT.bh, Half) /\ CURRENT.nr \in Nat /\ CURRENT.bh.dev \in Devs
    BY <1>0, LbaIsNext, CurrentIs
  <1>2. /\ ctl' = [cmd |-> c, lba |-> Lba, left |-> CURRENT.nr] /\ do_hd' = h
        /\ CURRENT' = CURRENT
    BY DEF hd_out, CURRENT
  <1>3. /\ ctl'.cmd = c /\ ctl'.lba = Lba /\ ctl'.left = CURRENT.nr
        /\ ctl' \in Commands /\ ctl' # Quiet
    BY <1>1, <1>2 DEF Commands, Quiet
  <1>4. Half' = Half
    BY <1>2 DEF Half
  <1>5. Pending'
    BY <1>0, <1>2, <1>3 DEF Pending
  <1>6. Transfer'
    BY <1>1, <1>2, <1>3, <1>4 DEF Transfer
  <1> QED BY <1>0, <1>2, <1>3, <1>5, <1>6, CommandStep

\* A step that leaves the driver in do_hd_request with no command given.
LEMMA DriverStep ==
    ASSUME IInv, drv' = TRUE, ctl' = Quiet,
           queue' \in Seq(Reqs), Begun(queue'), LockedIsQueued(queue', lock'),
           do_hd' \in {NULL, "read_intr", "write_intr", "recal_intr"},
           reset' \in BOOLEAN, recalibrate' \in BOOLEAN,
           lock' \in [Blocks -> BOOLEAN], uptodate' \in [Blocks -> BOOLEAN],
           same' \subseteq Blocks \X Halves, HalfDone'
    PROVE  IInv'
  <1>1. Types'
    BY DEF Types, Commands
  <1>2. Pending' /\ Transfer'
    BY DEF Pending, Transfer, Quiet
  <1> QED BY <1>1, <1>2 DEF IInv

\* A request beyond the end of its partition is ended.
LEMMA RejectStep ==
    ASSUME IInv, Reject
    PROVE  /\ IInv' /\ \A b \in Blocks : lock[b] /\ ~lock'[b] => ~uptodate'[b]
  <1>0. /\ drv /\ queue # <<>> /\ Types /\ Pending /\ ctl = Quiet
        /\ queue' = Tail(queue) /\ lock' = [lock EXCEPT ![CURRENT.bh] = FALSE]
        /\ uptodate' = [uptodate EXCEPT ![CURRENT.bh] = FALSE]
        /\ UNCHANGED <<do_hd, reset, recalibrate, drv, ctl, same>>
    BY DEF IInv, Reject, Pending, Ended, CURRENT
  <1>1. /\ queue' \in Seq(Reqs) /\ Begun(queue') /\ lock' \in [Blocks -> BOOLEAN]
        /\ LockedIsQueued(queue', lock')
        /\ queue' # <<>> => CURRENT'.nr = 2
        /\ \A b \in Blocks : lock[b] /\ ~lock'[b] => b = CURRENT.bh
    BY <1>0, EndRequest
  <1>2. CURRENT.bh \in Blocks
    BY <1>0, CurrentIs
  <1>3. uptodate' \in [Blocks -> BOOLEAN] /\ ~uptodate'[CURRENT.bh]
    BY <1>0, <1>2 DEF Types
  <1>4. HalfDone'
    BY <1>1 DEF HalfDone
  <1>5. drv = TRUE /\ reset \in BOOLEAN /\ recalibrate \in BOOLEAN
    BY <1>0 DEF Types
  <1>6. IInv'
    BY <1>0, <1>1, <1>3, <1>4, <1>5, DriverStep DEF Types
  <1> QED BY <1>1, <1>3, <1>6

\* A retry: the half that is done stays done.
LEMMA RetryStep ==
    ASSUME IInv, queue # <<>>, bad_rw_intr, drv' = TRUE, ctl' = Quiet,
           do_hd' \in {NULL, "read_intr", "write_intr", "recal_intr"},
           UNCHANGED <<recalibrate, same>>
    PROVE  /\ IInv' /\ \A b \in Blocks : lock[b] /\ ~lock'[b] => ~uptodate'[b]
  <1>0. Types /\ HalfDone
    BY DEF IInv
  <1>1. /\ queue' \in Seq(Reqs) /\ Begun(queue') /\ reset' \in BOOLEAN
        /\ lock' \in [Blocks -> BOOLEAN] /\ uptodate' \in [Blocks -> BOOLEAN]
        /\ LockedIsQueued(queue', lock')
        /\ queue' # <<>> /\ CURRENT'.nr = 1 => CURRENT.nr = 1 /\ CURRENT'.bh = CURRENT.bh
        /\ \A b \in Blocks : lock[b] /\ ~lock'[b] => ~uptodate'[b]
    BY BadRwIntr
  <1>2. HalfDone'
    BY <1>0, <1>1 DEF HalfDone
  <1>3. recalibrate' \in BOOLEAN /\ same' \subseteq Blocks \X Halves
    BY <1>0 DEF Types
  <1> QED BY <1>1, <1>2, <1>3, DriverStep

\* The list after a good sector that is not the last.
LEMMA FirstSector ==
    ASSUME IInv, queue # <<>>, NEW clear \in BOOLEAN, CURRENT.nr = 2,
           queue' = NextSector(queue, clear)
    PROVE  /\ queue' \in Seq(Reqs) /\ Begun(queue') /\ LockedIsQueued(queue', lock)
           /\ queue' # <<>> /\ CURRENT'.nr = 1 /\ CURRENT'.bh = CURRENT.bh /\ CURRENT'.cmd = CURRENT.cmd
  <1> DEFINE e == [queue[1] EXCEPT !.sector = @ + 1, !.nr = @ - 1, !.errors = IF clear THEN 0 ELSE @]
             q == [queue EXCEPT ![1] = e]
  <1>0. Types /\ Begun(queue) /\ LockedIsQueued(queue, lock)
    BY DEF IInv
  <1>1. /\ CURRENT = queue[1] /\ 1 \in DOMAIN queue /\ CURRENT \in Reqs
        /\ CURRENT.sector = CURRENT.bh.sector + 2 - CURRENT.nr /\ CURRENT.dev = CURRENT.bh.dev
        /\ CURRENT.sector \in Nat /\ CURRENT.bh.sector \in Nat
    BY <1>0, CurrentIs DEF Begun
  <1>2. queue' = q
    BY DEF NextSector
  <1>3. /\ e.sector = CURRENT.sector + 1 /\ e.nr = CURRENT.nr - 1 /\ e.bh = CURRENT.bh
        /\ e.dev = CURRENT.dev /\ e.cmd = CURRENT.cmd
    BY <1>1 DEF Reqs
  <1>4. e \in Reqs
    <2>1. CURRENT.sector + 1 \in Nat /\ CURRENT.nr - 1 \in 1 .. 2 /\ 0 \in 0 .. MAX_ERRORS - 1
      BY <1>1, HardDiskConstants
    <2> QED BY <1>1, <2>1 DEF Reqs
  <1> HIDE DEF e
  <1>5. /\ q # <<>> /\ q[1] = e /\ Head(q) = e /\ q \in Seq(Reqs)
        /\ DOMAIN q = DOMAIN queue /\ \A i \in DOMAIN queue : i # 1 => q[i] = queue[i]
    BY <1>0, <1>4, ReplaceHead DEF Types
  <1> HIDE DEF q
  <1>6. e.nr = 1 /\ e.sector = e.bh.sector + 2 - e.nr /\ e.dev = e.bh.dev
    BY <1>1, <1>3
  <1>7. \A i \in DOMAIN queue : q[i].bh = queue[i].bh
    BY <1>1, <1>3, <1>5
  <1>8. Begun(q)
    BY <1>0, <1>1, <1>5, <1>6, <1>7 DEF Begun
  <1>9. LockedIsQueued(q, lock)
    BY <1>0, <1>5, <1>7 DEF LockedIsQueued
  <1> QED BY <1>2, <1>3, <1>5, <1>6, <1>8, <1>9 DEF CURRENT

\* The list after the last good sector is the list without CURRENT.
LEMMA LastSector ==
    ASSUME IInv, queue # <<>>, NEW clear \in BOOLEAN
    PROVE  LET q == NextSector(queue, clear) IN
           Tail(q) = Tail(queue) /\ Head(q).bh = CURRENT.bh /\ q[1].nr = CURRENT.nr - 1
  <1> DEFINE e == [queue[1] EXCEPT !.sector = @ + 1, !.nr = @ - 1, !.errors = IF clear THEN 0 ELSE @]
  <1>0. Types
    BY DEF IInv
  <1>1. CURRENT = queue[1] /\ CURRENT \in Reqs
    BY <1>0, CurrentIs
  <1>2. NextSector(queue, clear) = [queue EXCEPT ![1] = e]
    BY DEF NextSector
  <1>3. e.bh = CURRENT.bh /\ e.nr = CURRENT.nr - 1
    BY <1>1 DEF Reqs
  <1> HIDE DEF e
  <1> QED BY <1>0, <1>2, <1>3, ReplaceHead DEF Types

\* What the handlers rely on when a sector has come or gone.
LEMMA SectorMoved ==
    ASSUME IInv, ctl.cmd \in {"read", "write"}
    PROVE  /\ Types /\ HalfDone /\ queue # <<>> /\ ~drv /\ ctl # Quiet
           /\ CURRENT.bh \in Blocks /\ CURRENT.nr \in 1 .. 2
           /\ Half = 3 - CURRENT.nr /\ Half \in Halves
           /\ ctl.lba = Sector(CURRENT.bh, Half) /\ ctl.left = CURRENT.nr /\ ctl.lba \in Nat
           /\ ctl \in [cmd : {"read", "write", "specify", "restore"}, lba : Nat, left : Nat]
  <1>0. Types /\ Pending /\ HalfDone /\ Transfer
    BY DEF IInv
  <1>1. ctl # Quiet
    BY DEF Quiet
  <1>2. ctl \in [cmd : {"read", "write", "specify", "restore"}, lba : Nat, left : Nat]
    BY <1>0, <1>1 DEF Types, Commands
  <1>3. queue # <<>> /\ ~drv
    BY <1>0, <1>1 DEF Pending
  <1>4. CURRENT.bh \in Blocks /\ CURRENT.nr \in 1 .. 2
    BY <1>0, <1>3, CurrentIs
  <1>5. Half = 3 - CURRENT.nr /\ Half \in Halves
    BY <1>4 DEF Half, Halves
  <1> QED BY <1>0, <1>1, <1>2, <1>3, <1>4, <1>5 DEF Transfer

\* The handler of a good sector, read or written, once `same' is known: the
\* command goes on with the second half, or the request ends with both in place.
LEMMA GoodSector ==
    ASSUME IInv, ctl.cmd \in {"read", "write"}, NEW clear \in BOOLEAN,
           same' \subseteq Blocks \X Halves, <<CURRENT.bh, Half>> \in same',
           \A h \in Halves : h # Half /\ <<CURRENT.bh, h>> \in same => <<CURRENT.bh, h>> \in same',
           LET q == NextSector(queue, clear) IN
             IF q[1].nr > 0
             THEN /\ queue' = q
                  /\ do_hd' = (IF ctl.cmd = "read" THEN "read_intr" ELSE "write_intr")
                  /\ ctl' = [ctl EXCEPT !.lba = @ + 1, !.left = @ - 1]
                  /\ UNCHANGED <<drv, lock, uptodate>>
             ELSE Ended(q, TRUE) /\ do_hd' = NULL /\ ctl' = Quiet /\ drv' = TRUE,
           UNCHANGED <<reset, recalibrate>>
    PROVE  /\ IInv'
           /\ \A b \in Blocks : lock[b] /\ ~lock'[b] => {b} \X Halves \subseteq same'
  <1> DEFINE q == NextSector(queue, clear)
  <1>0. /\ Types /\ HalfDone /\ Transfer /\ Pending /\ queue # <<>> /\ ~drv /\ ctl # Quiet
        /\ CURRENT.bh \in Blocks /\ CURRENT.nr \in 1 .. 2 /\ Half = 3 - CURRENT.nr
        /\ ctl.lba = Sector(CURRENT.bh, Half) /\ ctl.left = CURRENT.nr /\ ctl.lba \in Nat
        /\ ctl \in [cmd : {"read", "write", "specify", "restore"}, lba : Nat, left : Nat]
    BY SectorMoved DEF IInv
  <1>1. Tail(q) = Tail(queue) /\ Head(q).bh = CURRENT.bh /\ q[1].nr = CURRENT.nr - 1
    BY <1>0, LastSector
  <1> HIDE DEF q
  <1>2. reset' \in BOOLEAN /\ recalibrate' \in BOOLEAN
    BY <1>0 DEF Types
  <1>3. CASE CURRENT.nr = 2
    <2>1. /\ queue' = q
          /\ do_hd' = (IF ctl.cmd = "read" THEN "read_intr" ELSE "write_intr")
          /\ ctl' = [ctl EXCEPT !.lba = @ + 1, !.left = @ - 1]
          /\ UNCHANGED <<drv, lock, uptodate>>
      BY <1>1, <1>3 DEF q
    <2>2. /\ queue' \in Seq(Reqs) /\ Begun(queue') /\ LockedIsQueued(queue', lock)
          /\ queue' # <<>> /\ CURRENT'.nr = 1 /\ CURRENT'.bh = CURRENT.bh /\ CURRENT'.cmd = CURRENT.cmd
      BY <1>0, <1>3, <2>1, FirstSector DEF q
    <2>3. /\ ctl'.cmd = ctl.cmd /\ ctl'.lba = ctl.lba + 1 /\ ctl'.left = ctl.left - 1
          /\ ctl' \in Commands /\ ctl' # Quiet
      <3>1. ctl.left - 1 \in Nat /\ ctl.lba + 1 \in Nat
        BY <1>0, <1>3
      <3>2. ctl'.cmd = ctl.cmd /\ ctl'.lba = ctl.lba + 1 /\ ctl'.left = ctl.left - 1
        BY <1>0, <2>1
      <3>3. ctl' \in [cmd : {"read", "write", "specify", "restore"}, lba : Nat, left : Nat]
        BY <1>0, <2>1, <3>1
      <3>4. ctl'.cmd # Quiet.cmd
        BY <3>2 DEF Quiet
      <3> QED BY <3>2, <3>3, <3>4 DEF Commands
    <2>4. Half = 1 /\ Half' = 2
      BY <1>0, <1>3, <2>2 DEF Half
    <2>5. HalfDone'
      BY <2>2, <2>4 DEF HalfDone
    <2>6. Types'
      BY <1>0, <1>2, <2>1, <2>2, <2>3 DEF Types
    <2>7. Pending'
      BY <1>0, <2>1, <2>2, <2>3 DEF Pending
    <2>8. ctl'.lba = Sector(CURRENT'.bh, Half')
      <3>1. Sector(CURRENT.bh, 1) = start_sect[CURRENT.bh.dev] + CURRENT.bh.sector + 1 - 1
            /\ Sector(CURRENT.bh, 2) = start_sect[CURRENT.bh.dev] + CURRENT.bh.sector + 2 - 1
        BY DEF Sector
      <3>2. start_sect[CURRENT.bh.dev] \in Nat /\ CURRENT.bh.sector \in Nat
        <4>1. CURRENT.bh.dev \in Devs
          BY <1>0 DEF Transfer
        <4> QED BY <1>0, <4>1, CurrentIs, HardDiskConstants
      <3> QED BY <1>0, <2>2, <2>3, <2>4, <3>1, <3>2, SMTT(30)
    <2>9. Transfer'
      BY <1>0, <1>3, <2>2, <2>3, <2>8 DEF Transfer
    <2>10. IInv'
      BY <2>1, <2>2, <2>5, <2>6, <2>7, <2>9 DEF IInv
    <2> QED BY <2>1, <2>10
  <1>4. CASE CURRENT.nr = 1
    <2>1. Ended(q, TRUE) /\ do_hd' = NULL /\ ctl' = Quiet /\ drv' = TRUE
      <3>1. ~(q[1].nr > 0)
        BY <1>1, <1>4
      <3> QED BY <3>1, Zenon DEF q
    <2>2. /\ queue' = Tail(queue) /\ lock' = [lock EXCEPT ![CURRENT.bh] = FALSE]
          /\ uptodate' = [uptodate EXCEPT ![CURRENT.bh] = TRUE]
      BY <1>1, <2>1 DEF Ended
    <2>3. /\ queue' \in Seq(Reqs) /\ Begun(queue') /\ lock' \in [Blocks -> BOOLEAN]
          /\ LockedIsQueued(queue', lock')
          /\ queue' # <<>> => CURRENT'.nr = 2
          /\ \A b \in Blocks : lock[b] /\ ~lock'[b] => b = CURRENT.bh
      BY <1>0, <2>2, EndRequest
    <2>4. HalfDone'
      BY <2>3 DEF HalfDone
    <2>5. uptodate' \in [Blocks -> BOOLEAN]
      BY <1>0, <2>2 DEF Types
    <2>6. IInv'
      BY <1>2, <2>1, <2>3, <2>4, <2>5, DriverStep
    <2>7. <<CURRENT.bh, 1>> \in same' /\ <<CURRENT.bh, 2>> \in same'
      BY <1>0, <1>4 DEF HalfDone, Halves
    <2>8. {CURRENT.bh} \X Halves \subseteq same'
      BY <2>7 DEF Halves
    <2> QED BY <2>3, <2>6, <2>8
  <1> QED BY <1>0, <1>3, <1>4

\* read_intr puts a sector of the block into its half of the buffer.
LEMMA ReadIntrStep ==
    ASSUME IInv, ReadIntr
    PROVE  IInv' /\ \A b \in Blocks : lock[b] /\ ~lock'[b] => {b} \X Halves \subseteq same'
  <1>0. ctl.cmd = "read" /\ UNCHANGED <<reset, recalibrate>>
    BY DEF ReadIntr
  <1>1. Types /\ CURRENT.bh \in Blocks /\ Half \in Halves /\ ctl.lba = Sector(CURRENT.bh, Half)
    BY <1>0, SectorMoved
  <1>2. same' = same \cup {<<CURRENT.bh, Half>>}
    BY <1>1 DEF ReadIntr
  <1>3. /\ same' \subseteq Blocks \X Halves /\ <<CURRENT.bh, Half>> \in same'
        /\ \A h \in Halves : h # Half /\ <<CURRENT.bh, h>> \in same => <<CURRENT.bh, h>> \in same'
    BY <1>1, <1>2 DEF Types
  <1>4. LET q == NextSector(queue, TRUE) IN
          IF q[1].nr > 0
          THEN /\ queue' = q
               /\ do_hd' = (IF ctl.cmd = "read" THEN "read_intr" ELSE "write_intr")
               /\ ctl' = [ctl EXCEPT !.lba = @ + 1, !.left = @ - 1]
               /\ UNCHANGED <<drv, lock, uptodate>>
          ELSE Ended(q, TRUE) /\ do_hd' = NULL /\ ctl' = Quiet /\ drv' = TRUE
    BY <1>0, Zenon DEF ReadIntr
  <1> QED BY <1>0, <1>3, <1>4, GoodSector

\* write_intr: the half of the buffer is where it belongs, and its other half
\* has not been overwritten.
LEMMA WriteIntrStep ==
    ASSUME IInv, WriteIntr
    PROVE  IInv' /\ \A b \in Blocks : lock[b] /\ ~lock'[b] => {b} \X Halves \subseteq same'
  <1>0. ctl.cmd = "write" /\ UNCHANGED <<reset, recalibrate>>
    BY DEF WriteIntr
  <1>1. /\ Types /\ CURRENT.bh \in Blocks /\ Half \in Halves /\ ctl.lba = Sector(CURRENT.bh, Half)
        /\ Transfer /\ queue # <<>>
    BY <1>0, SectorMoved DEF IInv
  <1>2. same' = (same \ {x \in same : Sector(x[1], x[2]) = ctl.lba})
                 \cup {x \in {<<CURRENT.bh, Half>>} : Sector(x[1], x[2]) = ctl.lba}
    BY DEF WriteIntr
  <1>3. same' \subseteq Blocks \X Halves /\ <<CURRENT.bh, Half>> \in same'
    BY <1>1, <1>2 DEF Types
  <1>4. ASSUME NEW h \in Halves, h # Half PROVE Sector(CURRENT.bh, h) # ctl.lba
    <2>1. start_sect[CURRENT.bh.dev] \in Nat /\ CURRENT.bh.sector \in Nat
      <3>1. CURRENT.bh.dev \in Devs
        BY <1>0, <1>1 DEF Transfer
      <3> QED BY <1>1, <3>1, CurrentIs, HardDiskConstants
    <2> QED BY <1>1, <1>4, <2>1 DEF Sector, Halves
  <1>5. \A h \in Halves : h # Half /\ <<CURRENT.bh, h>> \in same => <<CURRENT.bh, h>> \in same'
    BY <1>2, <1>4
  <1>6. LET q == NextSector(queue, FALSE) IN
          IF q[1].nr > 0
          THEN /\ queue' = q
               /\ do_hd' = (IF ctl.cmd = "read" THEN "read_intr" ELSE "write_intr")
               /\ ctl' = [ctl EXCEPT !.lba = @ + 1, !.left = @ - 1]
               /\ UNCHANGED <<drv, lock, uptodate>>
          ELSE Ended(q, TRUE) /\ do_hd' = NULL /\ ctl' = Quiet /\ drv' = TRUE
    BY <1>0, Zenon DEF WriteIntr
  <1> QED BY <1>0, <1>3, <1>5, <1>6, GoodSector

\* Every step keeps the invariant, and a step that ends a request well has
\* both halves of its block in place.
LEMMA NextStep ==
    ASSUME IInv, Next
    PROVE  /\ IInv'
           /\ \A b \in Blocks : lock[b] /\ ~lock'[b] /\ uptodate'[b] => {b} \X Halves \subseteq same'
  <1> DEFINE Good == \A b \in Blocks : lock[b] /\ ~lock'[b] /\ uptodate'[b] => {b} \X Halves \subseteq same'
  <1>0. Types /\ Pending
    BY DEF IInv
  <1>1. ASSUME NEW b \in Blocks, NEW cmd \in {READ, WRITE}, Submit(b, cmd) PROVE IInv' /\ Good
    <2>1. IInv'
      BY <1>1, SubmitStep DEF Cmds
    <2>2. \A x \in Blocks : lock[x] => lock'[x]
      BY <1>0, <1>1 DEF Submit, Types
    <2> QED BY <2>1, <2>2
  <1>2. CASE NoWork \/ Reset \/ Recalibrate
    BY <1>2, ControlStep DEF NoWork, Reset, Recalibrate
  <1>3. CASE Reject
    BY <1>3, RejectStep
  <1>4. CASE Read
    <2>1. IInv'
      BY <1>4, TransferStep DEF Read
    <2> QED BY <1>4, <2>1 DEF Read
  <1>5. CASE Write
    <2>1. CASE /\ hd_out("write", Lba, CURRENT.nr, "write_intr") /\ drv' = FALSE
               /\ UNCHANGED <<queue, lock, uptodate, reset>>
      <3>1. IInv'
        BY <1>5, <2>1, TransferStep DEF Write, READ, WRITE
      <3> QED BY <2>1, <3>1
    <2>2. CASE bad_rw_intr /\ do_hd' = "write_intr" /\ UNCHANGED <<drv, ctl>>
      <3>1. drv = TRUE /\ ctl = Quiet /\ queue # <<>> /\ UNCHANGED <<recalibrate, same>>
        BY <1>0, <1>5 DEF Write, Accepted, Pending, Types
      <3> QED BY <2>2, <3>1, RetryStep
    <2> QED BY <1>5, <2>1, <2>2 DEF Write
  <1>6. CASE IntrError
    <2>1. queue # <<>>
      BY <1>0, <1>6 DEF IntrError, Pending
    <2> QED BY <1>6, <2>1, RetryStep DEF IntrError
  <1>7. CASE ReadIntr
    BY <1>7, ReadIntrStep
  <1>8. CASE WriteIntr
    BY <1>8, WriteIntrStep
  <1>9. CASE RecalIntr
    <2>1. /\ drv' = TRUE /\ ctl' = Quiet /\ do_hd' = NULL
          /\ UNCHANGED <<queue, reset, recalibrate, same, lock, uptodate>>
      BY <1>9 DEF RecalIntr
    <2>2. HalfDone' /\ Begun(queue') /\ LockedIsQueued(queue', lock')
      BY <2>1 DEF IInv, HalfDone, CURRENT
    <2>3. reset' \in BOOLEAN /\ recalibrate' \in BOOLEAN
      BY <1>0, <2>1 DEF Types
    <2>4. IInv'
      BY <1>0, <2>1, <2>2, <2>3, DriverStep DEF Types
    <2> QED BY <2>1, <2>4
  <1> QED BY <1>1, <1>2, <1>3, <1>4, <1>5, <1>6, <1>7, <1>8, <1>9 DEF Next, DoHdRequest, Interrupt

\* A step that changes nothing keeps the invariant.
LEMMA Stutter == ASSUME IInv, UNCHANGED vars PROVE IInv'
  BY DEF IInv, Types, Pending, LockedIsQueued, Begun, HalfDone, Transfer, CURRENT, Half, vars

\* The invariant of the driver, for every partition table and drive geometry.
THEOREM Invariant == Spec => []IInv
  <1>1. IInv /\ [Next]_vars => IInv'
    BY NextStep, Stutter
  <1> QED BY <1>1, InitIInv, PTL DEF Spec

\* No request is forgotten, no interrupt is unexpected and no command is given
\* while another is under way.
THEOREM NothingForgotten == Spec => []Outstanding
  <1>1. IInv => Outstanding
    <2> SUFFICES ASSUME IInv PROVE Outstanding
      OBVIOUS
    <2>1. TypeOK
      BY TypesOK DEF IInv
    <2> QED BY <2>1 DEF IInv, Outstanding, Pending, LockedIsQueued
  <1> QED BY <1>1, Invariant, PTL

\* A request that ends well has moved both sectors of its block, whatever
\* failed and was retried in between.
THEOREM TransfersAreWhole == Spec => Transferred
  <1> DEFINE Good == \A b \in Blocks : lock[b] /\ ~lock'[b] /\ uptodate'[b] => {b} \X Halves \subseteq same'
  <1>1. IInv /\ [Next]_vars => [Good]_vars
    BY NextStep
  <1> QED BY <1>1, Invariant, PTL DEF Spec, Transferred

-----------------------------------------------------------------------------
\* The driver changes CURRENT or takes it off the list, and nothing else of it.
LEMMA ListChange ==
    ASSUME IInv, DoHdRequest \/ Interrupt
    PROVE  \/ queue # <<>> /\ queue' = Tail(queue)
           \/ /\ Len(queue') = Len(queue) /\ DOMAIN queue' = DOMAIN queue
              /\ \A i \in DOMAIN queue : i # 1 => queue'[i] = queue[i]
  <1> DEFINE Change == \/ queue # <<>> /\ queue' = Tail(queue)
                       \/ /\ Len(queue') = Len(queue) /\ DOMAIN queue' = DOMAIN queue
                          /\ \A i \in DOMAIN queue : i # 1 => queue'[i] = queue[i]
  <1>0. Types /\ Pending
    BY DEF IInv
  <1>1. ASSUME queue # <<>>, NEW e,
               \/ queue' = [queue EXCEPT ![1] = e]
               \/ queue' = Tail([queue EXCEPT ![1] = e])
        PROVE  Change
    BY <1>0, <1>1, ReplaceHead DEF Types
  <1>2. ASSUME queue # <<>>, bad_rw_intr PROVE Change
    <2>1. [queue EXCEPT ![1].errors = @ + 1] = [queue EXCEPT ![1] = [queue[1] EXCEPT !.errors = @ + 1]]
      OBVIOUS
    <2> DEFINE q == [queue EXCEPT ![1].errors = @ + 1]
    <2>2. queue' = Tail(q) \/ queue' = q
      BY <1>2, Zenon DEF bad_rw_intr, Ended
    <2> QED BY <1>1, <1>2, <2>1, <2>2
  <1>3. ASSUME queue # <<>>, NEW clear \in BOOLEAN,
               queue' = NextSector(queue, clear) \/ queue' = Tail(NextSector(queue, clear))
        PROVE  Change
    <2>1. PICK e : NextSector(queue, clear) = [queue EXCEPT ![1] = e]
      BY DEF NextSector
    <2> QED BY <1>1, <1>3, <2>1
  <1>4. CASE NoWork \/ Reset \/ Recalibrate \/ Read \/ RecalIntr
    BY <1>4 DEF NoWork, Reset, Recalibrate, Read, RecalIntr
  <1>5. CASE Reject
    BY <1>5 DEF Reject, Ended
  <1>6. CASE Write
    BY <1>2, <1>6 DEF Write, Accepted
  <1>7. CASE IntrError
    BY <1>0, <1>2, <1>7 DEF IntrError, Pending
  <1>8. CASE ReadIntr
    <2>1. queue # <<>>
      BY <1>8, SectorMoved DEF ReadIntr
    <2>2. queue' = NextSector(queue, TRUE) \/ queue' = Tail(NextSector(queue, TRUE))
      BY <1>8, Zenon DEF ReadIntr, Ended
    <2> QED BY <1>3, <2>1, <2>2
  <1>9. CASE WriteIntr
    <2>1. queue # <<>>
      BY <1>9, SectorMoved DEF WriteIntr
    <2>2. queue' = NextSector(queue, FALSE) \/ queue' = Tail(NextSector(queue, FALSE))
      BY <1>9, Zenon DEF WriteIntr, Ended
    <2> QED BY <1>3, <2>1, <2>2
  <1> QED BY <1>4, <1>5, <1>6, <1>7, <1>8, <1>9 DEF DoHdRequest, Interrupt

\* add_request and the driver keep the list two sweeps.
LEMMA SweepStep ==
    ASSUME IInv, TwoSweeps(queue), Next
    PROVE  TwoSweeps(queue')
  <1>0. Types /\ queue \in Seq(Reqs) /\ Len(queue) \in Nat /\ DOMAIN queue = 1 .. Len(queue)
    BY LenProperties DEF IInv, Types
  <1>1. CASE DoHdRequest \/ Interrupt
    <2>1. CASE queue # <<>> /\ queue' = Tail(queue)
      BY <1>0, <2>1, TailKeepsSweeps
    <2>2. CASE /\ Len(queue') = Len(queue) /\ DOMAIN queue' = DOMAIN queue
               /\ \A i \in DOMAIN queue : i # 1 => queue'[i] = queue[i]
      <3>1. DOMAIN queue \subseteq Nat \ {0}
        BY <1>0
      <3> QED BY <2>2, <3>1, HeadOutsideSweeps
    <2> QED BY <1>1, <2>1, <2>2, ListChange
  <1>2. ASSUME NEW b \in Blocks, NEW cmd \in {READ, WRITE}, Submit(b, cmd) PROVE TwoSweeps(queue')
    <2> DEFINE r == Request(cmd, b)
    <2>1. r \in Reqs /\ r.dev = b.dev /\ r.sector = b.sector /\ r.cmd = cmd
      BY HardDiskConstants DEF Request, Reqs, Cmds
    <2>2. \A x \in Reqs : Keyed(x)
      BY DEF Reqs, Keyed, Cmds, READ, WRITE
    <2>3. CASE queue = <<>>
      <3>1. queue' = <<r>>
        BY <1>2, <2>3 DEF Submit
      <3>2. DOMAIN queue' = 1 .. 1 /\ Len(queue') = 1
        BY <3>1
      <3>3. \A i, j \in DOMAIN queue' : ~(i < j)
        BY <3>2
      <3> QED BY <3>2, <3>3 DEF TwoSweeps, Sweeps
    <2>4. CASE queue # <<>>
      <3>1. queue' = InsertAfter(queue, ElevatorPosition(queue, r), r)
        BY <1>2, <2>4 DEF Submit
      <3>2. ASSUME NEW i \in 2 .. Len(queue)
            PROVE  IN_ORDER(queue[i], r) \/ IN_ORDER(r, queue[i])
        <4>1. i \in DOMAIN queue /\ i # 1
          BY <1>0
        <4>2. /\ queue[i] \in Reqs /\ queue[i].bh \in Blocks /\ queue[i].bh # b
              /\ queue[i].dev = queue[i].bh.dev /\ queue[i].sector = queue[i].bh.sector + 2 - 2
          <5>1. queue[i] \in Reqs
            BY <1>0, <4>1, ElementOfSeq
          <5>2. lock[queue[i].bh] /\ ~lock[b]
            BY <1>2, <4>1, <5>1 DEF IInv, LockedIsQueued, Submit, Reqs
          <5> QED BY <4>1, <5>1, <5>2 DEF IInv, Begun, Reqs
        <4>3. /\ queue[i].bh \in [dev : Nat, sector : Nat] /\ b \in [dev : Nat, sector : Nat]
          BY <4>2, HardDiskConstants
        <4>4. queue[i].bh.dev # b.dev \/ queue[i].bh.sector # b.sector
          BY <4>2, <4>3
        <4>5. queue[i].dev # r.dev \/ queue[i].sector # r.sector
          BY <2>1, <4>2, <4>3, <4>4
        <4>6. Keyed(queue[i]) /\ Keyed(r)
          BY <2>1, <2>2, <4>2
        <4> HIDE DEF r
        <4> QED BY <4>5, <4>6 DEF Keyed, IN_ORDER
      <3> HIDE DEF r
      <3> QED BY <1>0, <2>1, <2>2, <2>4, <3>1, <3>2, ElevatorKeepsSweeps
    <2> QED BY <2>3, <2>4
  <1> QED BY <1>1, <1>2 DEF Next

\* The list of the hard disk is always at most two sweeps of the head behind
\* the request being served, so no request is passed over for ever.
THEOREM HeadSweeps == Spec => []OneSweep
  <1>1. Init => TwoSweeps(queue)
    <2> SUFFICES ASSUME Init PROVE TwoSweeps(queue)
      OBVIOUS
    <2>1. Len(queue) = 0 /\ DOMAIN queue = {}
      BY DEF Init
    <2> QED BY <2>1 DEF TwoSweeps, Sweeps
  <1>2. IInv /\ TwoSweeps(queue) /\ [Next]_vars => TwoSweeps(queue)'
    <2> SUFFICES ASSUME IInv, TwoSweeps(queue), [Next]_vars PROVE TwoSweeps(queue')
      OBVIOUS
    <2>1. CASE Next
      BY <2>1, SweepStep
    <2>2. CASE UNCHANGED vars
      BY <2>2 DEF vars
    <2> QED BY <2>1, <2>2
  <1>3. TwoSweeps(queue) => OneSweep
    BY DEF TwoSweeps, Sweeps, OneSweep
  <1> QED BY <1>1, <1>2, <1>3, Invariant, PTL DEF Spec
=============================================================================
