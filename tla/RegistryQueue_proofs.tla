------------------------ MODULE RegistryQueue_proofs -------------------------
(***************************************************************************)
(* The waiter registry is a first-in-first-out queue with withdrawal, for  *)
(* every number of identifiers: what RegistryQueue says, proved.           *)
(***************************************************************************)
EXTENDS RegistryQueue, WaiterRegistry_proofs

(* q lists the set S in increasing order.                                  *)
Lists(q, S) ==
    /\ q \in Seq(Nat)
    /\ \A i, j \in 1 .. Len(q) : i < j => q[i] < q[j]
    /\ S = {q[i] : i \in 1 .. Len(q)}

(* The listing stays one; identifiers registered or served are old ones.   *)
QueueInv ==
    /\ RegistryTypeOK
    /\ waiters \subseteq 1 .. (next_waiter_id - 1)
    /\ served \in Seq(1 .. (next_waiter_id - 1))
    /\ ServedOnce
    /\ Lists(InOrder(waiters), waiters)

-----------------------------------------------------------------------------
(* The order of the map.                                                   *)

(* The first n elements of a listing are n in number.                      *)
LEMMA PrefixCount ==
  ASSUME NEW S, NEW q, Lists(q, S), NEW n \in 0 .. Len(q)
  PROVE  Cardinality({q[i] : i \in 1 .. n}) = n
<1> DEFINE P == {q[i] : i \in 1 .. n}
           f == [i \in 1 .. n |-> q[i]]
<1>0. n \in Nat /\ q \in Seq(Nat) /\ Len(q) \in Nat
  BY DEF Lists
<1>1. \A i, j \in 1 .. n : f[i] = f[j] => i = j
  <2> SUFFICES ASSUME NEW i \in 1 .. n, NEW j \in 1 .. n, i # j
               PROVE  q[i] # q[j]
    OBVIOUS
  <2>1. q[i] \in Nat /\ q[j] \in Nat
    BY <1>0
  <2>2. i < j => q[i] < q[j]
    BY <1>0 DEF Lists
  <2>3. j < i => q[j] < q[i]
    BY <1>0 DEF Lists
  <2> QED
    BY <1>0, <2>1, <2>2, <2>3
<1>2. f \in Bijection(1 .. n, P)
  <2>1. f \in [1 .. n -> P]
    OBVIOUS
  <2>2. f \in Injection(1 .. n, P)
    BY <1>1, <2>1 DEF Injection, IsInjective
  <2>3. f \in Surjection(1 .. n, P)
    BY <2>1 DEF Surjection
  <2> QED
    BY <2>2, <2>3 DEF Bijection
<1>3. ExistsBijection(1 .. n, P)
  BY <1>2 DEF ExistsBijection
<1>4. IsFiniteSet(1 .. n) /\ Cardinality(1 .. n) = n
  BY <1>0, FS_Interval
<1> QED
  BY <1>3, <1>4, FS_Bijection

(* A set has one listing only, the one that InOrder computes.              *)
LEMMA OneListing ==
  ASSUME NEW S, NEW q, Lists(q, S)
  PROVE  InOrder(S) = q
<1> DEFINE Rank(x) == Cardinality({y \in S : y <= x})
<1>0. q \in Seq(Nat) /\ Len(q) \in Nat /\ q = [i \in 1 .. Len(q) |-> q[i]]
  BY DEF Lists
<1>1. Cardinality(S) = Len(q)
  <2>1. Len(q) \in 0 .. Len(q)
    BY <1>0
  <2>2. Cardinality({q[i] : i \in 1 .. Len(q)}) = Len(q)
    BY <2>1, PrefixCount
  <2> QED
    BY <2>2, Zenon DEF Lists
<1>2. \A i \in 1 .. Len(q) : Rank(q[i]) = i
  <2> SUFFICES ASSUME NEW i \in 1 .. Len(q) PROVE Rank(q[i]) = i
    OBVIOUS
  <2>1. ASSUME NEW j \in 1 .. Len(q) PROVE q[j] <= q[i] <=> j <= i
    <3>1. q[i] \in Nat /\ q[j] \in Nat
      BY <1>0
    <3>2. (j < i => q[j] < q[i]) /\ (i < j => q[i] < q[j])
      BY DEF Lists
    <3> QED
      BY <3>1, <3>2
  <2>2. {y \in S : y <= q[i]} = {q[j] : j \in 1 .. i}
    BY <1>0, <2>1 DEF Lists
  <2> QED
    BY <1>0, <2>2, PrefixCount
<1> HIDE DEF Rank
<1>3. ASSUME NEW i \in 1 .. Len(q)
      PROVE  (CHOOSE x \in S : Rank(x) = i) = q[i]
  <2>1. q[i] \in S /\ Rank(q[i]) = i
    BY <1>2 DEF Lists
  <2>2. \A x \in S : Rank(x) = i => x = q[i]
    BY <1>2 DEF Lists
  <2> QED
    BY <2>1, <2>2
<1>4. InOrder(S) = [i \in 1 .. Cardinality(S) |-> CHOOSE x \in S : Rank(x) = i]
  BY DEF InOrder, Rank
<1> QED
  BY <1>0, <1>1, <1>3, <1>4

(* Nothing registered, nothing listed.                                     *)
LEMMA EmptyListing == InOrder({}) = <<>> /\ Lists(<<>>, {})
<1>1. Lists(<<>>, {})
  BY DEF Lists
<1> QED
  BY <1>1, OneListing

(* A single waiter makes a listing of length one.                          *)
LEMMA SingleListing ==
  ASSUME NEW x \in Nat
  PROVE  InOrder({x}) = <<x>>
<1>1. Lists(<<x>>, {x})
  BY DEF Lists
<1> QED
  BY <1>1, OneListing

(* register: a key above all the others goes to the end.                   *)
LEMMA ListingAppend ==
  ASSUME NEW S, NEW q, Lists(q, S), NEW x \in Nat, \A y \in S : y < x
  PROVE  Lists(Append(q, x), S \cup {x})
<1> DEFINE r == Append(q, x)
<1>0. q \in Seq(Nat) /\ Len(q) \in Nat
  BY DEF Lists
<1>1. r \in Seq(Nat) /\ Len(r) = Len(q) + 1
  BY <1>0
<1>2. (\A i \in 1 .. Len(q) : r[i] = q[i]) /\ r[Len(q) + 1] = x
  BY <1>0
<1>3. \A i \in 1 .. Len(q) : q[i] \in S /\ q[i] < x
  BY DEF Lists
<1> HIDE DEF r
<1>4. \A i, j \in 1 .. Len(r) : i < j => r[i] < r[j]
  <2> SUFFICES ASSUME NEW i \in 1 .. Len(r), NEW j \in 1 .. Len(r), i < j
               PROVE  r[i] < r[j]
    OBVIOUS
  <2>1. CASE j = Len(q) + 1
    BY <1>0, <1>1, <1>2, <1>3, <2>1
  <2>2. CASE j # Len(q) + 1
    <3>1. i \in 1 .. (Len(q) + 1) /\ j \in 1 .. (Len(q) + 1)
      BY <1>1
    <3>2. i \in 1 .. Len(q) /\ j \in 1 .. Len(q)
      BY <1>0, <2>2, <3>1
    <3> QED
      BY <3>2, <1>2 DEF Lists
  <2> QED
    BY <2>1, <2>2
<1>5. S \cup {x} = {r[i] : i \in 1 .. Len(r)}
  <2>1. \A i \in 1 .. Len(r) : r[i] \in S \cup {x}
    <3> SUFFICES ASSUME NEW i \in 1 .. Len(r) PROVE r[i] \in S \cup {x}
      OBVIOUS
    <3>1. i \in 1 .. Len(q) \/ i = Len(q) + 1
      BY <1>0, <1>1
    <3> QED
      BY <3>1, <1>2, <1>3
  <2>2. ASSUME NEW y \in S PROVE \E i \in 1 .. Len(r) : r[i] = y
    <3>1. PICK i \in 1 .. Len(q) : q[i] = y
      BY DEF Lists
    <3> QED
      BY <3>1, <1>0, <1>1, <1>2
  <2>3. \E i \in 1 .. Len(r) : r[i] = x
    BY <1>0, <1>1, <1>2
  <2> QED
    BY <2>1, <2>2, <2>3
<1> QED
  BY <1>1, <1>4, <1>5 DEF Lists, r

(* unregister: without its i-th key the rest is listed as before.          *)
LEMMA ListingRemove ==
  ASSUME NEW S, NEW q, Lists(q, S), NEW n \in 1 .. Len(q)
  PROVE  Lists(RemoveAt(q, n), S \ {q[n]})
<1> DEFINE r == RemoveAt(q, n)
           Old(j) == IF j < n THEN j ELSE j + 1
<1>0. q \in Seq(Nat) /\ Len(q) \in Nat /\ n \in Nat
  BY DEF Lists
<1>1. r \in Seq(Nat) /\ Len(r) = Len(q) - 1
  BY <1>0, RemoveAtFacts
<1>2. \A j \in 1 .. Len(r) : r[j] = q[Old(j)]
  BY <1>0, <1>1, RemoveAtFacts
<1>3. \A j \in 1 .. Len(r) : Old(j) \in 1 .. Len(q) /\ Old(j) # n
  BY <1>0, <1>1
<1>4. \A i, j \in 1 .. Len(r) : i < j => Old(i) < Old(j)
  BY <1>0, <1>1
<1>5. \A i \in (1 .. Len(q)) \ {n} : \E j \in 1 .. Len(r) : Old(j) = i
  <2> SUFFICES ASSUME NEW i \in 1 .. Len(q), i # n
               PROVE  \E j \in 1 .. Len(r) : Old(j) = i
    OBVIOUS
  <2>1. CASE i < n
    <3>1. i \in 1 .. Len(r) /\ Old(i) = i
      BY <1>0, <1>1, <2>1
    <3> QED
      BY <3>1
  <2>2. CASE n < i
    <3>1. i - 1 \in 1 .. Len(r) /\ Old(i - 1) = i
      BY <1>0, <1>1, <2>2
    <3> QED
      BY <3>1
  <2> QED
    BY <1>0, <2>1, <2>2
<1>6. \A i, j \in 1 .. Len(q) : i # j => q[i] # q[j]
  <2> SUFFICES ASSUME NEW i \in 1 .. Len(q), NEW j \in 1 .. Len(q), i # j
               PROVE  q[i] # q[j]
    OBVIOUS
  <2>1. q[i] \in Nat /\ q[j] \in Nat
    BY <1>0
  <2>2. (i < j => q[i] < q[j]) /\ (j < i => q[j] < q[i])
    BY DEF Lists
  <2> QED
    BY <2>1, <2>2
<1> HIDE DEF r, Old
<1>7. \A i, j \in 1 .. Len(r) : i < j => r[i] < r[j]
  BY <1>2, <1>3, <1>4 DEF Lists
<1>8. S \ {q[n]} = {r[j] : j \in 1 .. Len(r)}
  <2>1. \A j \in 1 .. Len(r) : r[j] \in S \ {q[n]}
    BY <1>2, <1>3, <1>6 DEF Lists
  <2>2. ASSUME NEW y \in S \ {q[n]} PROVE \E j \in 1 .. Len(r) : r[j] = y
    <3>1. PICK i \in 1 .. Len(q) : q[i] = y
      BY DEF Lists
    <3>2. i # n
      BY <3>1
    <3>3. PICK j \in 1 .. Len(r) : Old(j) = i
      BY <3>2, <1>5
    <3> QED
      BY <3>1, <3>3, <1>2
  <2> QED
    BY <2>1, <2>2
<1> QED
  BY <1>1, <1>7, <1>8 DEF Lists, r

(* take_one: the oldest key is the first of the listing.                   *)
LEMMA OldestIsHead ==
  ASSUME NEW S, NEW q, Lists(q, S), q # <<>>
  PROVE  /\ Oldest(S) = {Head(q)}
         /\ Head(q) = q[1] /\ 1 \in 1 .. Len(q)
         /\ RemoveAt(q, 1) = Tail(q)
<1>0. q \in Seq(Nat) /\ Len(q) \in Nat /\ 1 \in 1 .. Len(q)
  BY EmptySeq DEF Lists
<1>1. Head(q) = q[1]
  BY <1>0
<1>2. \A i \in 1 .. Len(q) : q[i] \in Nat /\ q[1] <= q[i] /\ (q[i] <= q[1] => i = 1)
  <2> SUFFICES ASSUME NEW i \in 1 .. Len(q)
               PROVE  q[i] \in Nat /\ q[1] <= q[i] /\ (q[i] <= q[1] => i = 1)
    OBVIOUS
  <2>1. q[i] \in Nat /\ q[1] \in Nat
    BY <1>0
  <2>2. 1 < i => q[1] < q[i]
    BY <1>0 DEF Lists
  <2> QED
    BY <2>1, <2>2
<1>3. Oldest(S) = {q[1]}
  BY <1>0, <1>2 DEF Oldest, Lists
<1>4. RemoveAt(q, 1) = Tail(q)
  <2> DEFINE r == RemoveAt(q, 1)
             s == Tail(q)
  <2>1. r \in Seq(Nat) /\ Len(r) = Len(q) - 1
        /\ \A j \in 1 .. Len(q) - 1 : r[j] = q[IF j < 1 THEN j ELSE j + 1]
    BY <1>0, RemoveAtFacts
  <2>2. s \in Seq(Nat) /\ Len(s) = Len(q) - 1 /\ \A j \in 1 .. Len(q) - 1 : s[j] = q[j + 1]
    BY <1>0, HeadTailProperties
  <2> HIDE DEF r, s
  <2>3. ASSUME NEW j \in 1 .. Len(r) PROVE r[j] = s[j]
    <3>1. j \in 1 .. Len(q) - 1 /\ ~ (j < 1)
      BY <1>0, <2>1
    <3> QED
      BY <3>1, <2>1, <2>2
  <2>4. r = s
    BY <2>1, <2>2, <2>3, SeqEqual, Zenon
  <2> QED
    BY <2>4 DEF r, s
<1> QED
  BY <1>0, <1>1, <1>3, <1>4

-----------------------------------------------------------------------------
(* What the operations do to the map, to its listing and to the history.   *)

(* A set of identifiers lists as a sequence of identifiers.                *)
LEMMA ListingType ==
  ASSUME NEW S, NEW q, Lists(q, S)
  PROVE  q \in Seq(S) /\ Len(q) \in Nat /\ \A i \in 1 .. Len(q) : q[i] \in S
<1>1. q \in Seq(Nat) /\ Len(q) \in Nat /\ q = [i \in 1 .. Len(q) |-> q[i]]
  BY DEF Lists
<1>2. \A i \in 1 .. Len(q) : q[i] \in S
  BY DEF Lists
<1> QED
  BY <1>1, <1>2

(* What is handed out now joins what was handed out before.                *)
LEMMA ServedGrows ==
  ASSUME QueueInv, NEW q, NEW S \in SUBSET waiters, Lists(q, S),
         served' = served \o q, waiters' \subseteq waiters \ S,
         UNCHANGED next_waiter_id
  PROVE  served' \in Seq(1 .. (next_waiter_id - 1)) /\ ServedOnce'
<1> DEFINE I == 1 .. (next_waiter_id - 1)
           r == served \o q
<1>0. /\ served \in Seq(I) /\ Len(served) \in Nat
      /\ q \in Seq(I) /\ Len(q) \in Nat
  <2>1. q \in Seq(S) /\ Len(q) \in Nat /\ S \subseteq I
    BY ListingType DEF QueueInv
  <2> QED
    <3>1. q \in Seq(I)
      BY <2>1, SeqMonotonic
    <3>2. served \in Seq(I)
      BY DEF QueueInv
    <3> QED
      BY <2>1, <3>1, <3>2
<1>1. DOMAIN served = 1 .. Len(served)
  BY <1>0
<1>2. r \in Seq(I) /\ Len(r) = Len(served) + Len(q)
  <2>1. r \in Seq(I)
    BY <1>0, ConcatProperties, Zenon
  <2>2. Len(r) = Len(served) + Len(q)
    BY <1>0, ConcatProperties, Zenon
  <2> QED
    BY <2>1, <2>2
<1>3. DOMAIN r = 1 .. (Len(served) + Len(q))
  BY <1>2
<1>4. /\ \A i \in 1 .. Len(served) : r[i] = served[i]
      /\ \A i \in 1 .. Len(q) : r[Len(served) + i] = q[i]
  BY <1>0
<1>5. \A i, j \in 1 .. Len(served) : served[i] = served[j] => i = j
  BY <1>1 DEF QueueInv, ServedOnce
<1>6. \A i \in 1 .. Len(served) : served[i] \notin waiters
  BY <1>1 DEF QueueInv, ServedOnce
<1>7. \A i \in 1 .. Len(q) : q[i] \in S
  BY ListingType
<1>8. \A i, j \in 1 .. Len(q) : q[i] = q[j] => i = j
  <2> SUFFICES ASSUME NEW i \in 1 .. Len(q), NEW j \in 1 .. Len(q), i # j
               PROVE  q[i] # q[j]
    OBVIOUS
  <2>1. q[i] \in Nat /\ q[j] \in Nat
    BY DEF Lists
  <2>2. (i < j => q[i] < q[j]) /\ (j < i => q[j] < q[i])
    BY DEF Lists
  <2> QED
    BY <1>0, <2>1, <2>2
<1> HIDE DEF r
<1>9. ASSUME NEW i \in DOMAIN r
      PROVE  \/ i \in 1 .. Len(served)
             \/ \E k \in 1 .. Len(q) : i = Len(served) + k
  <2>1. CASE i > Len(served)
    <3>1. i - Len(served) \in 1 .. Len(q) /\ i = Len(served) + (i - Len(served))
      BY <1>0, <1>3, <2>1
    <3> QED
      BY <3>1
  <2>2. CASE ~ (i > Len(served))
    BY <1>0, <1>3, <2>2
  <2> QED
    BY <2>1, <2>2
<1>10. \A i \in DOMAIN r : r[i] \notin waiters'
  BY <1>4, <1>6, <1>7, <1>9
<1>11. ASSUME NEW i \in DOMAIN r, NEW j \in DOMAIN r, r[i] = r[j]
       PROVE  i = j
  <2>1. CASE i \in 1 .. Len(served) /\ j \in 1 .. Len(served)
    BY <1>4, <1>5, <1>11, <2>1
  <2>2. ASSUME NEW k \in 1 .. Len(q), i = Len(served) + k, j \in 1 .. Len(served)
        PROVE  FALSE
    BY <1>4, <1>6, <1>7, <1>11, <2>2
  <2>3. ASSUME NEW k \in 1 .. Len(q), j = Len(served) + k, i \in 1 .. Len(served)
        PROVE  FALSE
    BY <1>4, <1>6, <1>7, <1>11, <2>3
  <2>4. ASSUME NEW k \in 1 .. Len(q), i = Len(served) + k,
               NEW m \in 1 .. Len(q), j = Len(served) + m
        PROVE  i = j
    <3>1. q[k] = q[m]
      BY <1>4, <1>11, <2>4
    <3>2. k = m
      BY <1>8, <3>1
    <3> QED
      BY <2>4, <3>2
  <2> QED
    BY <1>9, <2>1, <2>2, <2>3, <2>4
<1>12. served' = r
  BY DEF r
<1> QED
  BY <1>2, <1>10, <1>11, <1>12 DEF ServedOnce

(* register adds a key above all the others: one more in the queue.        *)
LEMMA RegisterStep ==
  ASSUME QueueInv, DoRegister
  PROVE  QueueInv' /\ Fifo!Enqueue
<1> USE MaxWaiterIdAssumption
<1> DEFINE n == next_waiter_id
           q == InOrder(waiters)
<1>1. /\ n \in 1 .. MaxWaiterId /\ n # MaxWaiterId /\ n \in Nat
      /\ next_waiter_id' = n + 1
      /\ waiters' = waiters \cup {n}
      /\ served' = served
  BY DEF DoRegister, Register, Exhausted, QueueInv, RegistryTypeOK
<1>2. waiters \subseteq 1 .. (n - 1) /\ Lists(q, waiters)
  BY DEF QueueInv
<1>3. Lists(Append(q, n), waiters \cup {n})
  <2>1. \A y \in waiters : y < n
    BY <1>1, <1>2
  <2> QED
    BY <1>1, <1>2, <2>1, ListingAppend
<1>4. InOrder(waiters \cup {n}) = Append(q, n)
  BY <1>3, OneListing
<1>5. InOrder(waiters') = Append(q, n)
  BY <1>1, <1>4
<1>6. RegistryTypeOK' /\ (waiters \subseteq 1 .. (next_waiter_id - 1))'
  BY <1>1, <1>2 DEF RegistryTypeOK, WaiterIds, QueueInv
<1>7. (served \in Seq(1 .. (next_waiter_id - 1)))' /\ ServedOnce'
  <2>0. served \in Seq(1 .. (n - 1)) /\ ServedOnce
    BY DEF QueueInv
  <2>1. served \in Seq(1 .. n)
    BY <1>1, <2>0, SeqMonotonic
  <2>2. \A i \in DOMAIN served : served[i] # n
    BY <1>1, <2>0
  <2> QED
    BY <1>1, <2>0, <2>1, <2>2 DEF ServedOnce
<1>8. Lists(InOrder(waiters), waiters)'
  BY <1>1, <1>3, <1>5
<1>9. Fifo!Enqueue
  <2>1. (1 .. (n - 1)) \cup {n} = 1 .. n /\ n \notin 1 .. (n - 1)
    BY <1>1
  <2>2. (1 .. (next_waiter_id - 1))' = 1 .. n
    BY <1>1
  <2> QED
    BY <1>1, <1>5, <2>1, <2>2 DEF Fifo!Enqueue
<1> QED
  BY <1>6, <1>7, <1>8, <1>9 DEF QueueInv

(* take_one serves the head of the queue, if there is one.                 *)
LEMMA TakeOneStep ==
  ASSUME QueueInv, NEW taken, TakeOne(taken), served' = served \o InOrder(taken)
  PROVE  QueueInv' /\ (Fifo!Serve \/ UNCHANGED queueVars)
<1> DEFINE q == InOrder(waiters)
<1>0. /\ Lists(q, waiters)
      /\ waiters \in SUBSET Nat
      /\ served \in Seq(1 .. (next_waiter_id - 1))
  BY DEF QueueInv, RegistryTypeOK, WaiterIds
<1>1. /\ taken = Oldest(waiters) /\ waiters' = waiters \ taken
      /\ next_waiter_id' = next_waiter_id
  BY DEF TakeOne
<1>2. CASE q = <<>>
  <2>1. waiters = {} /\ taken = {}
    BY <1>0, <1>1, <1>2 DEF Lists, Oldest
  <2>2. served' = served
    BY <1>0, <2>1, EmptyListing, ConcatEmptySeq
  <2>3. UNCHANGED queueVars
    BY <1>1, <2>1, <2>2 DEF queueVars, registryVars
  <2> QED
    BY <2>3 DEF queueVars, registryVars, QueueInv, RegistryTypeOK, ServedOnce
<1>3. CASE q # <<>>
  <2>1. /\ taken = {Head(q)} /\ Head(q) = q[1] /\ 1 \in 1 .. Len(q)
        /\ RemoveAt(q, 1) = Tail(q)
    BY <1>0, <1>1, <1>3, OldestIsHead
  <2>2. q[1] \in waiters /\ q[1] \in Nat
    BY <1>0, <2>1, ListingType
  <2>3. Lists(Tail(q), waiters \ {q[1]})
    <3>1. Lists(RemoveAt(q, 1), waiters \ {q[1]})
      BY <1>0, <2>1, ListingRemove
    <3> QED
      BY <3>1, <2>1
  <2>4. InOrder(waiters \ {q[1]}) = Tail(q)
    BY <2>3, OneListing
  <2>5. waiters' = waiters \ {q[1]}
    BY <1>1, <2>1
  <2>6. Lists(<<q[1]>>, {q[1]})
    BY <2>2 DEF Lists
  <2>7. served' = served \o <<q[1]>>
    BY <2>1, <2>2, SingleListing
  <2>8. served' \in Seq(1 .. (next_waiter_id - 1)) /\ ServedOnce'
    BY <1>1, <2>2, <2>5, <2>6, <2>7, ServedGrows
  <2>9. InOrder(waiters') = Tail(q)
    BY <2>4, <2>5
  <2>10. Lists(InOrder(waiters), waiters)'
    BY <2>3, <2>5, <2>9
  <2>11. RegistryTypeOK' /\ (waiters \subseteq 1 .. (next_waiter_id - 1))'
    BY <1>1, <2>5 DEF QueueInv, RegistryTypeOK
  <2>12. served' = Append(served, Head(q))
    <3>1. q[1] \in 1 .. (next_waiter_id - 1)
      BY <2>2 DEF QueueInv
    <3>2. Append(served, q[1]) = served \o <<q[1]>>
      BY <1>0, <3>1, AppendIsConcat
    <3> QED
      BY <2>1, <2>7, <3>2
  <2>13. Fifo!Serve
    BY <1>1, <1>3, <2>9, <2>12 DEF Fifo!Serve
  <2> QED
    BY <1>1, <2>8, <2>10, <2>11, <2>13 DEF QueueInv
<1> QED
  BY <1>2, <1>3

(* take_all serves the whole queue in its order.                           *)
LEMMA TakeAllStep ==
  ASSUME QueueInv, NEW taken, TakeAll(taken), served' = served \o InOrder(taken)
  PROVE  QueueInv' /\ Fifo!ServeAll
<1>0. Lists(InOrder(waiters), waiters)
  BY DEF QueueInv
<1>1. /\ taken = waiters /\ waiters' = {} /\ next_waiter_id' = next_waiter_id
      /\ served' = served \o InOrder(waiters)
  BY DEF TakeAll
<1>2. served' \in Seq(1 .. (next_waiter_id - 1)) /\ ServedOnce'
  BY <1>0, <1>1, ServedGrows
<1>3. InOrder(waiters') = <<>> /\ Lists(<<>>, waiters')
  BY <1>1, EmptyListing
<1>4. RegistryTypeOK' /\ (waiters \subseteq 1 .. (next_waiter_id - 1))'
  BY <1>1 DEF QueueInv, RegistryTypeOK
<1>5. Fifo!ServeAll
  BY <1>1, <1>3 DEF Fifo!ServeAll
<1> QED
  BY <1>1, <1>2, <1>3, <1>4, <1>5 DEF QueueInv

(* unregister takes its waiter out of the queue, wherever it stands, and   *)
(* does nothing when the waiter was taken before.                          *)
LEMMA UnregisterStep ==
  ASSUME QueueInv, DoUnregister
  PROVE  QueueInv' /\ (Fifo!Cancel \/ UNCHANGED queueVars)
<1> DEFINE q == InOrder(waiters)
<1>0. Lists(q, waiters)
  BY DEF QueueInv
<1>1. PICK id \in WaiterIds : Unregister(id) /\ UNCHANGED served
  BY DEF DoUnregister
<1>2. /\ waiters' = waiters \ {id}
      /\ next_waiter_id' = next_waiter_id /\ served' = served
  BY <1>1 DEF Unregister
<1>3. CASE id \notin waiters
  <2>1. UNCHANGED queueVars
    BY <1>2, <1>3 DEF queueVars, registryVars
  <2> QED
    BY <2>1 DEF queueVars, registryVars, QueueInv, RegistryTypeOK, ServedOnce
<1>4. CASE id \in waiters
  <2>1. PICK i \in 1 .. Len(q) : q[i] = id
    BY <1>0, <1>4 DEF Lists
  <2>2. Lists(RemoveAt(q, i), waiters \ {id})
    BY <1>0, <2>1, ListingRemove
  <2>3. InOrder(waiters \ {id}) = RemoveAt(q, i)
    BY <2>2, OneListing
  <2>4. InOrder(waiters') = RemoveAt(q, i)
    BY <1>2, <2>3
  <2>5. Lists(InOrder(waiters), waiters)'
    BY <1>2, <2>2, <2>4
  <2>6. /\ RegistryTypeOK' /\ (waiters \subseteq 1 .. (next_waiter_id - 1))'
        /\ (served \in Seq(1 .. (next_waiter_id - 1)))' /\ ServedOnce'
    BY <1>2 DEF QueueInv, RegistryTypeOK, ServedOnce
  <2>7. DOMAIN q = 1 .. Len(q)
    BY <1>0 DEF Lists
  <2>8. Fifo!Cancel
    <3>1. Fifo!RemoveAt(q, i) = RemoveAt(q, i)
      BY DEF Fifo!RemoveAt, RemoveAt
    <3> QED
      BY <1>2, <2>1, <2>4, <2>7, <3>1 DEF Fifo!Cancel
  <2> QED
    BY <2>5, <2>6, <2>8 DEF QueueInv
<1> QED
  BY <1>3, <1>4

-----------------------------------------------------------------------------
(* The theorems.                                                           *)

(* The registry and its queue start empty.                                 *)
LEMMA QueueInit ==
  ASSUME Init
  PROVE  QueueInv /\ Fifo!Init
<1> USE MaxWaiterIdAssumption
<1>1. next_waiter_id = 1 /\ waiters = {} /\ served = <<>>
  BY DEF Init, RegistryInit
<1>2. InOrder(waiters) = <<>> /\ Lists(<<>>, waiters)
  BY <1>1, EmptyListing
<1>3. RegistryTypeOK /\ waiters \subseteq 1 .. (next_waiter_id - 1)
  BY <1>1 DEF RegistryTypeOK
<1>4. served \in Seq(1 .. (next_waiter_id - 1)) /\ ServedOnce
  BY <1>1 DEF ServedOnce
<1>5. Fifo!Init
  BY <1>1, <1>2 DEF Fifo!Init
<1> QED
  BY <1>2, <1>3, <1>4, <1>5 DEF QueueInv

(* Every step keeps the invariant and is a step of the queue or none.      *)
LEMMA QueueStep ==
  ASSUME QueueInv, [Next]_queueVars
  PROVE  QueueInv' /\ [Fifo!Next]_<<InOrder(waiters), 1 .. (next_waiter_id - 1), served>>
<1>1. CASE DoRegister
  BY <1>1, RegisterStep DEF Fifo!Next
<1>2. CASE DoTake
  <2>1. PICK taken \in SUBSET waiters :
               /\ TakeOne(taken) \/ TakeAll(taken)
               /\ served' = served \o InOrder(taken)
    BY <1>2 DEF DoTake
  <2>2. CASE TakeOne(taken)
    BY <2>1, <2>2, TakeOneStep DEF Fifo!Next, queueVars, registryVars
  <2>3. CASE TakeAll(taken)
    BY <2>1, <2>3, TakeAllStep DEF Fifo!Next
  <2> QED
    BY <2>1, <2>2, <2>3
<1>3. CASE DoUnregister
  BY <1>3, UnregisterStep DEF Fifo!Next, queueVars, registryVars
<1>4. CASE UNCHANGED queueVars
  BY <1>4 DEF queueVars, registryVars, QueueInv, RegistryTypeOK, ServedOnce
<1> QED
  BY <1>1, <1>2, <1>3, <1>4 DEF Next

(* The invariant holds in every state, whatever the order of the calls.    *)
THEOREM QueueInductive == Spec => []QueueInv
<1>1. Init => QueueInv
  BY QueueInit
<1>2. QueueInv /\ [Next]_queueVars => QueueInv'
  BY QueueStep
<1> QED
  BY <1>1, <1>2, PTL DEF Spec

(* Every key is an identifier that was handed out, and u64::MAX never is:  *)
(* checked_add stops the counter there (waiter_registry.rs, register).     *)
THEOREM RegistryTypeCorrect == Spec => []RegistryTypeOK
<1>1. QueueInv => RegistryTypeOK
  BY DEF QueueInv
<1> QED
  BY <1>1, QueueInductive, PTL

(* No waiter is handed out twice, and none that was handed out is still    *)
(* registered (waiter_registry.rs, take_one, take_all).                    *)
THEOREM ServedOnceHolds == Spec => []ServedOnce
<1>1. QueueInv => ServedOnce
  BY DEF QueueInv
<1> QED
  BY <1>1, QueueInductive, PTL

(* The registry implements the first-in-first-out queue with withdrawal    *)
(* of FifoWaiters, for every number of identifiers (waiter_registry.rs).   *)
THEOREM IsFifoHolds == Spec => IsFifo
<1>1. Init => Fifo!Init
  BY QueueInit
<1>2. QueueInv /\ [Next]_queueVars
        => [Fifo!Next]_<<InOrder(waiters), 1 .. (next_waiter_id - 1), served>>
  BY QueueStep
<1> QED
  BY <1>1, <1>2, QueueInductive, PTL DEF Spec, IsFifo, Fifo!Spec

=============================================================================
