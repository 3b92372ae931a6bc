------------------------ MODULE WaiterRegistry_proofs ------------------------
(***************************************************************************)
(* Facts about the waiter registry's operators and about the sets and      *)
(* queues that its users keep beside it, for every registry and every      *)
(* finite set of threads or tasks.                                         *)
(***************************************************************************)
EXTENDS WaiterRegistry, SequencesExt, FiniteSetTheorems, SequenceTheorems,
        WellFoundedInduction, TLAPS

-----------------------------------------------------------------------------
(* Selection and counting.                                                 *)

(* A non-empty registry has an oldest waiter, so take_one returns one.     *)
LEMMA OldestExists ==
  ASSUME NEW S \in SUBSET Nat, S # {}
  PROVE  Oldest(S) # {}
<1> DEFINE R == OpToRel(<, Nat)
<1>1. IsWellFoundedOn(R, Nat)
  BY NatLessThanWellFounded
<1>2. PICK x \in S : \A y \in S : <<y, x>> \notin R
  BY <1>1, WFMin, Zenon
<1>3. \A y \in S : x <= y
  <2>1. SUFFICES ASSUME NEW y \in S, y < x PROVE FALSE
    OBVIOUS
  <2>2. <<y, x>> \in Nat \X Nat /\ <<y, x>>[1] < <<y, x>>[2]
    BY <2>1
  <2>3. <<y, x>> \in R
    BY <2>2, Zenon DEF OpToRel
  <2> QED
    BY <1>2, <2>3
<1> QED
  BY <1>3 DEF Oldest

(* Taking one thread out of a set lowers its cardinality by one at most.   *)
LEMMA CardDrop ==
  ASSUME NEW U, IsFiniteSet(U), NEW S \in SUBSET U, NEW T \in SUBSET U, NEW t,
         S \ {t} \subseteq T
  PROVE  /\ Cardinality(S) \in Nat /\ Cardinality(T) \in Nat
         /\ Cardinality(S) <= Cardinality(T) + 1
         /\ S \subseteq T => Cardinality(S) <= Cardinality(T)
<1>1. IsFiniteSet(S) /\ IsFiniteSet(T)
  BY FS_Subset
<1>2. /\ Cardinality(S) \in Nat /\ Cardinality(T) \in Nat
      /\ Cardinality(S \ {t}) \in Nat
  BY <1>1, FS_CardinalityType, FS_RemoveElement
<1>3. Cardinality(S \ {t}) = IF t \in S THEN Cardinality(S) - 1
                                        ELSE Cardinality(S)
  BY <1>1, FS_RemoveElement
<1>4. Cardinality(S \ {t}) <= Cardinality(T)
  BY <1>1, FS_Subset
<1>5. S \subseteq T => Cardinality(S) <= Cardinality(T)
  BY <1>1, FS_Subset
<1> QED
  BY <1>2, <1>3, <1>4, <1>5

(* A thread that comes makes up for one that goes.                         *)
LEMMA CardSwap ==
  ASSUME NEW U, IsFiniteSet(U), NEW S \in SUBSET U, NEW T \in SUBSET U, NEW t,
         NEW u \in T, u \notin S, S \ {t} \subseteq T
  PROVE  /\ Cardinality(S) <= Cardinality(T)
         /\ t \notin S => Cardinality(S) + 1 <= Cardinality(T)
<1>1. IsFiniteSet(S) /\ IsFiniteSet(T) /\ IsFiniteSet(S \ {t})
  BY FS_Subset
<1>2. /\ Cardinality(S) \in Nat /\ Cardinality(T) \in Nat
      /\ Cardinality(S \ {t}) \in Nat
  BY <1>1, FS_CardinalityType
<1>3. Cardinality((S \ {t}) \cup {u}) = Cardinality(S \ {t}) + 1
  BY <1>1, FS_AddElement
<1>4. Cardinality((S \ {t}) \cup {u}) <= Cardinality(T)
  <2>1. (S \ {t}) \cup {u} \in SUBSET T
    OBVIOUS
  <2> QED
    BY <2>1, <1>1, FS_Subset
<1>5. Cardinality(S \ {t}) = IF t \in S THEN Cardinality(S) - 1
                                        ELSE Cardinality(S)
  BY <1>1, FS_RemoveElement
<1> QED
  BY <1>2, <1>3, <1>4, <1>5

(* The arithmetic of one step: i items of which f are forfeited become j   *)
(* and g, while the threads on the way change from O to P around thread t. *)
LEMMA CoverSets ==
  ASSUME NEW U, IsFiniteSet(U), NEW O \in SUBSET U, NEW P \in SUBSET U, NEW t,
         NEW i \in Nat, NEW j \in Nat, NEW f \in Nat, NEW g \in Nat,
         O \ {t} \subseteq P,
         i <= Cardinality(O) + f,
         \/ j <= g
         \/ t \in P \ O /\ j - g <= i - f + 1
         \/ O \subseteq P /\ j - g <= i - f
         \/ j - g + 1 <= i - f
  PROVE  j <= Cardinality(P) + g
<1>1. /\ Cardinality(O) \in Nat /\ Cardinality(P) \in Nat
      /\ Cardinality(O) <= Cardinality(P) + 1
      /\ O \subseteq P => Cardinality(O) <= Cardinality(P)
  BY CardDrop
<1>2. t \in P \ O => Cardinality(O) + 1 <= Cardinality(P)
  BY CardSwap
<1> QED
  BY <1>1, <1>2

(* One item added and one selection forfeited leave no more items that some *)
(* thread still has to come for.                                           *)
LEMMA ForfeitKeepsPace ==
  ASSUME NEW i \in Nat, NEW j \in Nat, NEW f \in Nat, NEW g \in Nat,
         j = i \/ j = i + 1,
         g = IF f + 1 < j THEN f + 1 ELSE j
  PROVE  j <= g \/ j - g <= i - f
<1>1. CASE f + 1 < j
  BY <1>1
<1>2. CASE ~ (f + 1 < j)
  BY <1>2
<1> QED
  BY <1>1, <1>2

(* One item added leaves at most one more item to come for.                *)
LEMMA OneItemMore ==
  ASSUME NEW i \in Nat, NEW j \in Nat, NEW f \in Nat, NEW g \in Nat,
         j = i \/ j = i + 1,
         g = IF f < j THEN f ELSE j
  PROVE  j <= g \/ j - g <= i - f + 1
<1>1. CASE f < j
  BY <1>1
<1>2. CASE ~ (f < j)
  BY <1>2
<1> QED
  BY <1>1, <1>2

-----------------------------------------------------------------------------
(* Queues.                                                                 *)

(* Taking the i-th element out of a queue moves up those behind it.        *)
LEMMA RemoveAtFacts ==
  ASSUME NEW T, NEW s \in Seq(T), NEW i \in 1 .. Len(s)
  PROVE  /\ RemoveAt(s, i) \in Seq(T)
         /\ Len(RemoveAt(s, i)) = Len(s) - 1
         /\ \A j \in 1 .. Len(s) - 1 :
               RemoveAt(s, i)[j] = s[IF j < i THEN j ELSE j + 1]
<1> DEFINE p == SubSeq(s, 1, i - 1)
           q == SubSeq(s, i + 1, Len(s))
<1>1. p \in Seq(T) /\ Len(p) = i - 1 /\ \A j \in 1 .. i - 1 : p[j] = s[j]
  BY SubSeqProperties
<1>2. q \in Seq(T) /\ Len(q) = Len(s) - i /\ \A j \in 1 .. Len(s) - i : q[j] = s[i + j]
  OBVIOUS
<1>3. RemoveAt(s, i) = p \o q
  BY DEF RemoveAt
<1> HIDE DEF p, q
<1>4. p \o q \in Seq(T) /\ Len(p \o q) = Len(s) - 1
  <2>1. p \o q \in Seq(T)
    BY <1>1, <1>2, ConcatProperties, Zenon
  <2>2. Len(p \o q) = Len(p) + Len(q)
    BY <1>1, <1>2, ConcatProperties, Zenon
  <2> QED
    BY <1>1, <1>2, <2>1, <2>2
<1>5. ASSUME NEW j \in 1 .. Len(s) - 1
      PROVE  (p \o q)[j] = s[IF j < i THEN j ELSE j + 1]
  BY <1>1, <1>2
<1> QED
  BY <1>3, <1>4, <1>5

=============================================================================
