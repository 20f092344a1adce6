--------------------------- MODULE PeerStore_proofs ---------------------------
(***************************************************************************)
(* What the operators of PeerStore return, for any finite set of ids.      *)
(***************************************************************************)
EXTENDS PeerStore, FiniteSetTheorems, TLAPS

\* Every non-empty set of naturals has a least element (the library states it
\* for an operator only).  The sets of smaller elements are finite, and strict
\* inclusion of finite sets is well founded.
LEMMA LeastNatural ==
  ASSUME NEW T \in SUBSET Nat, T # {}
  PROVE  \E m \in T : \A n \in T : m <= n
<1> DEFINE Below(x) == {y \in T : y < x}
           B == {Below(x) : x \in T}
<1>1. \A x \in T : Below(x) \in FiniteSubsetsOf(T)
  <2> TAKE x \in T
  <2>1. IsFiniteSet(0..x)  BY FS_Interval
  <2>2. \A y \in Below(x) : y \in 0..x  OBVIOUS
  <2>3. Below(x) \subseteq 0..x  BY <2>2
  <2>4. IsFiniteSet(Below(x))  BY <2>1, <2>3, FS_Subset
  <2> QED  BY <2>4 DEF FiniteSubsetsOf
<1>2. B \subseteq FiniteSubsetsOf(T) /\ B # {}
  BY <1>1
<1> HIDE DEF B
<1>3. PICK b \in B : \A c \in B : ~(<<c, b>> \in StrictSubsetOrdering(T))
  BY <1>2, FS_StrictSubsetOrderingWellFounded, WFMin
<1>4. PICK x \in T : b = Below(x)  BY DEF B
<1>5. ASSUME NEW y \in T, y < x PROVE FALSE
  <2>1. Below(y) \in B  BY DEF B
  <2>2. \A z \in Below(y) : z \in Below(x)  BY <1>5
  <2>3. y \in Below(x) /\ y \notin Below(y)  BY <1>5
  <2>4. <<Below(y), Below(x)>> \in StrictSubsetOrdering(T)
    BY <2>2, <2>3 DEF StrictSubsetOrdering
  <2> QED  BY <1>3, <1>4, <2>1, <2>4
<1> QED  BY <1>5

\* The first key of a non-empty set of keys is one of them.
LEMMA FirstIsMember ==
  ASSUME NEW s, s.rank \in [Id -> Nat], NEW S \in SUBSET Id, S # {}
  PROVE  First(s, S) \in S
<1> DEFINE R == {s.rank[i] : i \in S}
<1>1. R \in SUBSET Nat /\ R # {}  OBVIOUS
<1>2. PICK m \in R : \A n \in R : m <= n  BY <1>1, LeastNatural
<1>3. \E i \in S : \A j \in S : s.rank[i] <= s.rank[j]  BY <1>2
<1> QED  BY <1>3 DEF First

\* Finitely many ids are known.
LEMMA KnownFinite ==
  ASSUME NEW s \in Store
  PROVE  IsFiniteSet(Known(s)) /\ Known(s) \subseteq Id
<1>1. Known(s) \subseteq Id  BY DEF Known
<1> QED  BY <1>1, IdAssumption, FS_Subset

\* Deleting keys from the Map leaves the others, and their records, in place.
LEMMA KeptProperties ==
  ASSUME NEW s \in Store, NEW S \in SUBSET Known(s)
  PROVE  /\ Kept(s, S) \in Store
         /\ Known(Kept(s, S)) = S
         /\ \A i \in S : Kept(s, S).peer[i] = s.peer[i]
         /\ \A i \in Id \ S : Kept(s, S).peer[i] = HttpPeer
         /\ Kept(s, S).selectedId = s.selectedId
<1> DEFINE Upto(i) == {j \in S : s.rank[j] <= s.rank[i]}
<1>1. IsFiniteSet(S) /\ S \subseteq Id  BY KnownFinite, FS_Subset
<1>2. \A i \in Id : IsFiniteSet(Upto(i)) /\ Cardinality(Upto(i)) \in Nat
  BY <1>1, FS_Subset, FS_CardinalityType
<1>3. \A i \in S : i \in Upto(i)
  BY <1>1 DEF Store
<1>4. \A i \in S : Cardinality(Upto(i)) > 0
  <2> TAKE i \in S
  <2>1. Upto(i) # {}  BY <1>3
  <2>2. i \in Id  BY <1>1
  <2>3. Cardinality(Upto(i)) # 0  BY <2>1, <2>2, <1>2, FS_EmptySet
  <2>4. Cardinality(Upto(i)) \in Nat  BY <1>2, <2>2
  <2> HIDE DEF Upto
  <2> QED  BY <2>3, <2>4
<1> DEFINE k == Kept(s, S)
<1>5. k.rank = [i \in Id |-> IF i \in S THEN Cardinality(Upto(i)) ELSE 0]
  BY DEF Kept
<1>6. k.peer = [i \in Id |-> IF i \in S THEN s.peer[i] ELSE HttpPeer]
  BY DEF Kept
<1>7. k.age = [i \in Id |-> IF i \in S THEN s.age[i] ELSE 0]
  BY DEF Kept
<1>8. k = [rank |-> k.rank, peer |-> k.peer, age |-> k.age, selectedId |-> s.selectedId]
  BY DEF Kept
<1>9. HttpPeer \in Peer  BY DEF HttpPeer, Peer
<1> HIDE DEF k, Upto
<1>10. k.rank \in [Id -> Nat]  BY <1>2, <1>5
<1>11. k.peer \in [Id -> Peer] /\ k.age \in [Id -> Nat]  BY <1>6, <1>7, <1>9 DEF Store
<1>12. k \in Store  BY <1>8, <1>10, <1>11 DEF Store
<1>13. Known(k) = S  BY <1>1, <1>4, <1>5 DEF Known
<1> QED  BY <1>1, <1>6, <1>8, <1>12, <1>13 DEF k

\* register: the peer is known afterwards and nothing else leaves.
LEMMA RegisterProperties ==
  ASSUME NEW s \in Store, Sticky(s), NEW i \in Id, NEW p \in Peer
  PROVE  /\ Register(s, i, p) \in Store
         /\ Sticky(Register(s, i, p))
         /\ Known(Register(s, i, p)) = Known(s) \cup {i}
         /\ Register(s, i, p).peer = [s.peer EXCEPT ![i] = p]
<1> DEFINE t == Register(s, i, p)
<1>1. Cardinality(Known(s)) \in Nat  BY KnownFinite, FS_CardinalityType
<1>2. t.rank = [s.rank EXCEPT ![i] = IF i \in Known(s) THEN @ ELSE Cardinality(Known(s)) + 1]
  BY DEF Register, Store
<1>3. t.peer = [s.peer EXCEPT ![i] = p]  BY DEF Register, Store
<1>4. t.age = [s.age EXCEPT ![i] = 0]  BY DEF Register, Store
<1>5. t.selectedId = IF s.selectedId = NoId THEN i ELSE s.selectedId
  BY DEF Register, Store
<1>6. t \in Store
  <2> DEFINE n == IF i \in Known(s) THEN s.rank[i] ELSE Cardinality(Known(s)) + 1
             sel == IF s.selectedId = NoId THEN i ELSE s.selectedId
  <2>1. n \in Nat /\ sel \in Id \cup {NoId}  BY <1>1 DEF Store
  <2>2. t = [s EXCEPT !.rank[i] = n, !.peer[i] = p, !.age[i] = 0, !.selectedId = sel]
    BY DEF Register
  <2> HIDE DEF n, sel, t
  <2> QED  BY <2>1, <2>2 DEF Store
<1> HIDE DEF t
<1>7. Known(t) = Known(s) \cup {i}
  BY <1>1, <1>2 DEF Known, Store
<1>8. Sticky(t)  BY <1>5, <1>7, IdAssumption DEF Sticky
<1> QED  BY <1>3, <1>6, <1>7, <1>8 DEF t

\* remove: the others stay, and one of them is selected.
LEMMA RemoveProperties ==
  ASSUME NEW s \in Store, Sticky(s), NEW i \in Id
  PROVE  /\ Remove(s, i) \in Store
         /\ Sticky(Remove(s, i))
         /\ Known(Remove(s, i)) = Known(s) \ {i}
         /\ \A j \in Known(s) \ {i} : Remove(s, i).peer[j] = s.peer[j]
         /\ Remove(s, i).peer[i] = HttpPeer
<1> DEFINE rest == Known(s) \ {i}
           k == Kept(s, rest)
<1>1. rest \in SUBSET Known(s) /\ rest \in SUBSET Id  BY DEF Known
<1>2. /\ k \in Store /\ Known(k) = rest /\ k.selectedId = s.selectedId
      /\ \A j \in rest : k.peer[j] = s.peer[j]
      /\ \A j \in Id \ rest : k.peer[j] = HttpPeer
  BY <1>1, KeptProperties
<1>3. rest # {} => First(s, rest) \in rest
  BY <1>1, FirstIsMember DEF Store
<1>4. rest = {} => First(s, rest) = NoId  BY DEF First
<1> HIDE DEF k, rest
<1> DEFINE sel == IF k.selectedId = i /\ i \in Known(s) THEN First(s, rest) ELSE k.selectedId
<1>5. Remove(s, i) = [k EXCEPT !.selectedId = sel]  BY DEF Remove, rest, k
<1>6. sel \in Known(k) \cup {NoId} /\ (sel = NoId <=> Known(k) = {})
  BY <1>2, <1>3, <1>4, IdAssumption DEF Sticky, rest, Known
<1> HIDE DEF sel
<1>7. Remove(s, i) \in Store /\ Remove(s, i).rank = k.rank /\ Remove(s, i).peer = k.peer
      /\ Remove(s, i).selectedId = sel
  BY <1>1, <1>2, <1>5, <1>6 DEF Store
<1>8. Known(Remove(s, i)) = Known(k)  BY <1>7 DEF Known
<1> QED  BY <1>2, <1>6, <1>7, <1>8 DEF Sticky, rest

\* sweep: only peers past their TTL leave, and a remaining one is selected.
LEMMA SweepProperties ==
  ASSUME NEW s \in Store, Sticky(s)
  PROVE  /\ Sweep(s) \in Store
         /\ Sticky(Sweep(s))
         /\ Known(Sweep(s)) = Fresh(s)
         /\ \A j \in Fresh(s) : Sweep(s).peer[j] = s.peer[j]
         /\ \A j \in Id \ Fresh(s) : Sweep(s).peer[j] = HttpPeer
<1> DEFINE rest == Fresh(s)
           k == Kept(s, rest)
<1>1. rest \in SUBSET Known(s) /\ rest \in SUBSET Id  BY DEF Known, Fresh
<1>2. /\ k \in Store /\ Known(k) = rest /\ k.selectedId = s.selectedId
      /\ \A j \in rest : k.peer[j] = s.peer[j]
      /\ \A j \in Id \ rest : k.peer[j] = HttpPeer
  BY <1>1, KeptProperties
<1>3. rest # {} => First(s, rest) \in rest
  BY <1>1, FirstIsMember DEF Store
<1>4. rest = {} => First(s, rest) = NoId  BY DEF First
<1> HIDE DEF k, rest
<1> DEFINE sel == IF k.selectedId \in rest \cup {NoId} THEN k.selectedId ELSE First(s, rest)
<1>5. Sweep(s) = [k EXCEPT !.selectedId = sel]  BY DEF Sweep, rest, k
<1>6. sel \in Known(k) \cup {NoId} /\ (sel = NoId <=> Known(k) = {})
  BY <1>1, <1>2, <1>3, <1>4, IdAssumption DEF Sticky
<1> HIDE DEF sel
<1>7. Sweep(s) \in Store /\ Sweep(s).rank = k.rank /\ Sweep(s).peer = k.peer
      /\ Sweep(s).selectedId = sel
  BY <1>1, <1>2, <1>5, <1>6 DEF Store
<1>8. Known(Sweep(s)) = Known(k)  BY <1>7 DEF Known
<1> QED  BY <1>2, <1>6, <1>7, <1>8 DEF Sticky, rest

\* select, heartbeat and the passing of time keep the registered peers.
LEMMA SelectProperties ==
  ASSUME NEW s \in Store, Sticky(s), NEW i \in Known(s)
  PROVE  /\ Select(s, i) \in Store /\ Sticky(Select(s, i))
         /\ Known(Select(s, i)) = Known(s) /\ Select(s, i).peer = s.peer
BY IdAssumption DEF Select, Sticky, Known, Store

\* What the two passages of time do to the records.
LEMMA TimeProperties ==
  ASSUME NEW s \in Store, Sticky(s), NEW S, NEW t \in {Heartbeat(s, S), Older(s)}
  PROVE  t \in Store /\ Sticky(t) /\ Known(t) = Known(s) /\ t.peer = s.peer
<1>1. t \in Store /\ t.rank = s.rank /\ t.peer = s.peer /\ t.selectedId = s.selectedId
  BY TtlAssumption DEF Heartbeat, Older, Store
<1>2. Known(t) = Known(s)  BY <1>1 DEF Known
<1> QED  BY <1>1, <1>2 DEF Sticky
=============================================================================
