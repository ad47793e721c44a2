---------------------------- MODULE Places_proofs -----------------------------
(***************************************************************************)
(* Counting the places of a queue that hold something of a kind: what      *)
(* putting an element in at its end and taking one out at its head do to   *)
(* the count. The proofs about the queues of CampaignManager and of        *)
(* Bounces rest on it.                                                     *)
(***************************************************************************)
EXTENDS Integers, Sequences, FiniteSets, SequenceTheorems, FiniteSetTheorems, FunctionTheorems, TLAPS

PlacesIn(q, S) == {i \in DOMAIN q : q[i] \in S}

\* The places of a queue are finitely many.
LEMMA PlacesFinite ==
    ASSUME NEW T, NEW q \in Seq(T), NEW S
    PROVE  IsFiniteSet(PlacesIn(q, S)) /\ Cardinality(PlacesIn(q, S)) \in Nat
<1>1. Len(q) \in Nat /\ DOMAIN q = 1 .. Len(q)
  BY LenProperties
<1>2. IsFiniteSet(1 .. Len(q))
  BY <1>1, FS_Interval
<1>3. PlacesIn(q, S) \in SUBSET (1 .. Len(q))
  BY <1>1 DEF PlacesIn
<1> QED BY <1>2, <1>3, FS_Subset, FS_CardinalityType

\* Appending an element of the kind adds a place, appending another adds none.
LEMMA PlacesAppend ==
    ASSUME NEW T, NEW q \in Seq(T), NEW e \in T, NEW S
    PROVE  /\ e \in S => Cardinality(PlacesIn(Append(q, e), S)) = Cardinality(PlacesIn(q, S)) + 1
           /\ e \notin S => PlacesIn(Append(q, e), S) = PlacesIn(q, S)
<1>1. /\ Len(q) \in Nat /\ DOMAIN q = 1 .. Len(q)
      /\ DOMAIN Append(q, e) = 1 .. (Len(q) + 1)
      /\ \A i \in 1 .. Len(q) : Append(q, e)[i] = q[i]
      /\ Append(q, e)[Len(q) + 1] = e
  BY LenProperties, AppendProperties
<1>2. PICK n \in Nat : n = Len(q)
  BY <1>1
<1>3. /\ e \in S => PlacesIn(Append(q, e), S) = PlacesIn(q, S) \cup {n + 1}
      /\ e \notin S => PlacesIn(Append(q, e), S) = PlacesIn(q, S)
      /\ n + 1 \notin PlacesIn(q, S)
  BY <1>1, <1>2 DEF PlacesIn
<1> QED BY <1>3, PlacesFinite, FS_AddElement

\* Taking the head off moves every other place down by one.
LEMMA PlacesTail ==
    ASSUME NEW T, NEW q \in Seq(T), q # <<>>, NEW S
    PROVE  /\ Head(q) \in S => Cardinality(PlacesIn(Tail(q), S)) = Cardinality(PlacesIn(q, S)) - 1
           /\ Head(q) \notin S => Cardinality(PlacesIn(Tail(q), S)) = Cardinality(PlacesIn(q, S))
<1>1. /\ Len(q) \in Nat \ {0} /\ DOMAIN q = 1 .. Len(q)
      /\ DOMAIN Tail(q) = 1 .. (Len(q) - 1)
      /\ \A i \in 1 .. (Len(q) - 1) : Tail(q)[i] = q[i + 1]
      /\ Head(q) = q[1]
  BY EmptySeq, LenProperties, HeadTailProperties
<1>2. PICK n \in Nat \ {0} : n = Len(q)
  BY <1>1
<1> DEFINE A == PlacesIn(Tail(q), S)
           B == PlacesIn(q, S) \ {1}
<1>3. A \subseteq Nat /\ B \subseteq Nat /\ (\A i \in Nat : i \in A <=> i + 1 \in B) /\ 0 \notin A /\ 0 \notin B
  BY <1>1, <1>2 DEF PlacesIn
<1>4. IsFiniteSet(A) /\ IsFiniteSet(PlacesIn(q, S)) /\ Cardinality(PlacesIn(q, S)) \in Nat
  BY PlacesFinite, HeadTailProperties
<1>5. Cardinality(B) = Cardinality(A)
  <2> HIDE DEF A, B
  <2> DEFINE f == [i \in A |-> i + 1]
  <2>1. f \in [A -> B] /\ \A i, j \in A : f[i] = f[j] => i = j
    BY <1>3
  <2>2. \A b \in B : \E a \in A : f[a] = b
    <3> TAKE b \in B
    <3>1. PICK k \in Nat : k = b - 1
      BY <1>3
    <3>2. k \in A /\ f[k] = b
      BY <1>3, <3>1
    <3> QED BY <3>2
  <2>3. f \in Bijection(A, B)
    BY <2>1, <2>2 DEF Bijection, Injection, Surjection, IsInjective
  <2> QED BY <1>4, <2>3, FS_Bijection DEF ExistsBijection
<1>6. 1 \in PlacesIn(q, S) <=> Head(q) \in S
  BY <1>1, <1>2 DEF PlacesIn
<1> QED BY <1>4, <1>5, <1>6, FS_RemoveElement
===============================================================================
