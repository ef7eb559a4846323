----------------------------- MODULE SyncProofs -----------------------------
(***************************************************************************)
(* Proofs about synchronisation: what is asked from the peers is accounted *)
(* for, whatever the peers, their blocks and the limits.                   *)
(***************************************************************************)
EXTENDS SyncProperties, ProofLibrary

\* The choices that blocks are made of, and all ids that can be made of them.
Letters == UNION {Range(b) : b \in Blocks}
Ids == Seq(Letters)

\* The types of the queues, of the node and of its peers.
Handling == [block : Ids, from : SUBSET Peers]
Handled == [block : Ids, from : SUBSET Peers, ok : BOOLEAN]
FiniteIds == {X \in SUBSET Ids : IsFiniteSet(X)}

NodeRecs ==
    [known : SUBSET Ids, head : Ids, active_sync_requests : SUBSET Ids, new_received : Seq(Ids),
     received : Seq(Ids), handling : Seq(Handling), handled : Seq(Handled), most_recent : Seq(Ids),
     items_to_fetch : Seq(Ids), items_due : BOOLEAN, backlog_due : BOOLEAN, fetch_due : BOOLEAN,
     suspended : BOOLEAN, aborted : BOOLEAN]

PeerRecs ==
    [list : {"active", "closing", "gone"}, ids_of_items_to_get : Seq(Ids),
     ids_of_items_being_processed : SUBSET Ids, number_of_unfetched_item_ids : Nat,
     item_ids_requested_from_peer : Seq(Ids), sync_items_requested_from_peer : Seq(Ids),
     items_requested_from_peer : FiniteIds, inventory_peer_advertised_to_us : SUBSET Ids,
     inventory_advertised_to_peer : SUBSET Ids, peer_needs_sync_items_from_us : BOOLEAN,
     we_need_sync_items_from_peer : BOOLEAN, inhibit_fetching_sync_blocks : BOOLEAN,
     last_block_delegate_has_seen : Ids, last_block_number_delegate_has_seen : Nat]

States == [node : NodeRecs, peer : [Peers -> PeerRecs]]

\* A list without repetitions; a list whose block numbers increase.
Distinct(l) == \A i, j \in DOMAIN l : l[i] = l[j] => i = j
Climbs(l) == \A i, j \in DOMAIN l : i < j => Len(l[i]) < Len(l[j])

\* What is asked for and what the chain thread has to do are the same in t as
\* in s, and lists that climbed still do.
Same(s, t) ==
    /\ t \in States
    /\ t.node.active_sync_requests = s.node.active_sync_requests
    /\ t.node.handling = s.node.handling /\ t.node.handled = s.node.handled
    /\ \A p \in Peers :
         /\ t.peer[p].sync_items_requested_from_peer = s.peer[p].sync_items_requested_from_peer
         /\ t.peer[p].list = "gone" <=> s.peer[p].list = "gone"
         /\ Climbs(s.peer[p].ids_of_items_to_get) => Climbs(t.peer[p].ids_of_items_to_get)

\* The rank of a position among those selected.
Rank(I, i) == Cardinality({j \in I : j <= i})

\* A finite set of naturals has a bound.
LEMMA FiniteBounded ==
  ASSUME NEW T, IsFiniteSet(T), T \subseteq Nat
  PROVE  \E n \in Nat : T \subseteq 0 .. n
  <1>1. CASE T = {}
    <2>1. T \subseteq 0 .. 0
      BY <1>1
    <2>2. QED
      BY <2>1
  <1> DEFINE G == {R \in SUBSET T : \E n \in Nat : R \subseteq 0 .. n}
  <1>2. ASSUME NEW R \in SUBSET T, \A x \in R : R \ {x} \in G
        PROVE  R \in G
    <2>1. CASE R = {}
      BY <2>1, 0 \in Nat, R \subseteq 0 .. 0
    <2>2. CASE R # {}
      <3>1. PICK x \in R : TRUE
        BY <2>2
      <3>2. PICK n \in Nat : R \ {x} \subseteq 0 .. n
        BY <1>2, <3>1
      <3>3. x \in Nat
        BY <3>1
      <3>4. R \subseteq 0 .. n + x
        <4> SUFFICES ASSUME NEW y \in R
                     PROVE  y \in 0 .. n + x
          OBVIOUS
        <4>1. CASE y = x
          BY <4>1, <3>3
        <4>2. CASE y # x
          <5>1. y \in 0 .. n
            BY <3>2, <4>2
          <5>2. QED
            BY <5>1, <3>3
        <4>3. QED
          BY <4>1, <4>2
      <3>5. n + x \in Nat
        BY <3>3
      <3>6. QED
        BY <3>4, <3>5
    <2>3. QED
      BY <2>1, <2>2
  <1> HIDE DEF G
  <1>3. \A R \in SUBSET T : R \in G
    BY <1>2, SubsetInduction
  <1>4. QED
    BY <1>3 DEF G

\* Every rank up to the number of the selected positions is taken.
LEMMA RankTaken ==
  ASSUME NEW I, IsFiniteSet(I), I \subseteq Nat
  PROVE  \A k \in 1 .. Cardinality(I) : \E i \in I : Rank(I, i) = k
  <1> DEFINE G == {T \in SUBSET I : \A k \in 1 .. Cardinality(T) : \E i \in T : Rank(T, i) = k}
  <1>1. ASSUME NEW T \in SUBSET I, \A x \in T : T \ {x} \in G
        PROVE  T \in G
    <2> SUFFICES ASSUME NEW k \in 1 .. Cardinality(T)
                 PROVE  \E i \in T : Rank(T, i) = k
      OBVIOUS
    <2>1. IsFiniteSet(T) /\ Cardinality(T) \in Nat
      BY FS_Subset, FS_CardinalityType
    <2>2. T # {}
      BY <2>1, FS_EmptySet
    <2> DEFINE m == Max(T)
    <2>3. m \in T /\ \A j \in T : j <= m
      <3>1. m \in T
        BY <2>2, MaxOfFinite
      <3>2. \E n \in Nat : T \subseteq 0 .. n
        BY <2>1, FiniteBounded
      <3>3. \A j \in T : Max(T) >= j
        BY <2>2, <3>2, MaxIn
      <3>4. QED
        BY <3>1, <3>3
    <2> HIDE DEF m
    <2>4. CASE k = Cardinality(T)
      <3>1. {j \in T : j <= m} = T
        BY <2>3
      <3>2. QED
        BY <2>3, <2>4, <3>1 DEF Rank
    <2>5. CASE k # Cardinality(T)
      <3>1. Cardinality(T \ {m}) = Cardinality(T) - 1
        BY <2>1, <2>3, FS_RemoveElement
      <3>2. k \in 1 .. Cardinality(T \ {m})
        BY <2>1, <2>5, <3>1
      <3>3. PICK i \in T \ {m} : Rank(T \ {m}, i) = k
        BY <1>1, <2>3, <3>2
      <3>4. {j \in T : j <= i} = {j \in T \ {m} : j <= i}
        <4>1. i <= m /\ i # m /\ i \in Nat /\ m \in Nat
          BY <2>3
        <4>2. ~ (m <= i)
          BY <4>1
        <4>3. QED
          BY <4>2
      <3>5. QED
        BY <3>3, <3>4 DEF Rank
    <2>6. QED
      BY <2>4, <2>5
  <1> HIDE DEF G
  <1>2. \A T \in SUBSET I : T \in G
    BY <1>1, SubsetInduction
  <1>3. QED
    BY <1>2 DEF G

\* A selection takes elements of the sequence, in its order.
LEMMA SelectedFacts ==
  ASSUME NEW S, NEW s \in Seq(S), NEW I \in SUBSET DOMAIN s
  PROVE  /\ Selected(s, I) \in Seq(S)
         /\ \A k \in DOMAIN Selected(s, I) : \E i \in I : Selected(s, I)[k] = s[i]
         /\ Distinct(s) => Distinct(Selected(s, I))
  <1> DEFINE n == Cardinality(I)
             at(k) == CHOOSE i \in I : Cardinality({j \in I : j <= i}) = k
             t == Selected(s, I)
  <1>1. IsFiniteSet(DOMAIN s) /\ DOMAIN s = 1 .. Len(s) /\ Len(s) \in Nat
    BY FS_Interval
  <1>2. IsFiniteSet(I) /\ n \in Nat /\ I \subseteq Nat
    BY <1>1, FS_Subset, FS_CardinalityType
  <1>3. \A k \in 1 .. n : at(k) \in I /\ Rank(I, at(k)) = k
    <2> TAKE k \in 1 .. n
    <2>1. \E i \in I : Cardinality({j \in I : j <= i}) = k
      BY <1>2, RankTaken DEF Rank
    <2>2. QED
      BY <2>1 DEF Rank
  <1>4. t = [k \in 1 .. n |-> s[at(k)]]
    BY DEF Selected
  <1> HIDE DEF t, at, n
  <1>5. \A i \in I : s[i] \in S
    BY <1>1, ElementOfSeq
  <1>6. t \in [1 .. n -> S]
    BY <1>3, <1>4, <1>5
  <1>7. t \in Seq(S) /\ DOMAIN t = 1 .. n
    BY <1>2, <1>6
  <1>8. ASSUME Distinct(s)
        PROVE  Distinct(t)
    <2> SUFFICES ASSUME NEW k \in 1 .. n, NEW l \in 1 .. n, t[k] = t[l]
                 PROVE  k = l
      BY <1>7 DEF Distinct
    <2>1. at(k) = at(l)
      BY <1>3, <1>4, <1>8 DEF Distinct
    <2>2. QED
      BY <1>3, <2>1
  <1>9. QED
    BY <1>3, <1>4, <1>7, <1>8 DEF t

\* The blocks from genesis to b: the one at n has number n.
LEMMA ChainToFacts ==
  ASSUME NEW b \in Ids
  PROVE  /\ ChainTo(b) \in Seq(Ids) /\ Len(ChainTo(b)) = Len(b) /\ Len(b) \in Nat
         /\ DOMAIN ChainTo(b) = 1 .. Len(b)
         /\ \A n \in 1 .. Len(b) : Len(ChainTo(b)[n]) = n
  <1>1. Len(b) \in Nat
    BY DEF Ids
  <1>2. ASSUME NEW n \in 1 .. Len(b)
        PROVE  SubSeq(b, 1, n) \in Ids /\ Len(SubSeq(b, 1, n)) = n
    BY <1>1, SubSeqProperties DEF Ids
  <1> DEFINE c == ChainTo(b)
  <1>3. c = [n \in 1 .. Len(b) |-> SubSeq(b, 1, n)]
    BY DEF ChainTo
  <1> HIDE DEF c
  <1>4. c \in [1 .. Len(b) -> Ids] /\ \A n \in 1 .. Len(b) : Len(c[n]) = n
    BY <1>2, <1>3
  <1>5. c \in Seq(Ids) /\ Len(c) = Len(b)
    BY <1>1, <1>4
  <1>6. QED
    BY <1>1, <1>4, <1>5 DEF c

\* A part of a sequence.
LEMMA PartFacts ==
  ASSUME NEW S, NEW s \in Seq(S), NEW m \in Nat \ {0}, NEW n \in Int, n <= Len(s)
  PROVE  LET t == SubSeq(s, m, n)
         IN  /\ t \in Seq(S) /\ DOMAIN t = 1 .. (n - m + 1)
             /\ \A i \in DOMAIN t : t[i] = s[i + m - 1] /\ i + m - 1 \in DOMAIN s /\ i \in 1 .. Len(s)
             /\ (m <= n => Len(t) = n - m + 1) /\ (m > n => t = <<>>)
  <1> DEFINE t == SubSeq(s, m, n)
  <1>1. t = [i \in 1 .. (1 + n - m) |-> s[i + m - 1]]
    OBVIOUS
  <1>2. Len(s) \in Nat /\ DOMAIN s = 1 .. Len(s)
    OBVIOUS
  <1>3. \A i \in 1 .. (1 + n - m) : i + m - 1 \in DOMAIN s /\ i \in 1 .. Len(s)
    BY <1>2
  <1> HIDE DEF t
  <1>4. t \in [1 .. (1 + n - m) -> S]
    BY <1>1, <1>3, ElementOfSeq
  <1>5. CASE m <= n
    <2> DEFINE k == 1 + n - m
    <2>1. k \in Nat /\ k = n - m + 1
      BY <1>5
    <2>2. t \in [1 .. k -> S]
      BY <1>4
    <2> HIDE DEF k
    <2>3. t \in Seq(S) /\ DOMAIN t = 1 .. k /\ Len(t) = k
      BY <2>1, <2>2
    <2>4. \A i \in 1 .. k : t[i] = s[i + m - 1]
      BY <1>1 DEF k
    <2>5. QED
      BY <1>3, <1>5, <2>1, <2>3, <2>4 DEF t, k
  <1>6. CASE m > n
    BY <1>1, <1>6, <1>4 DEF t
  <1>7. QED
    BY <1>5, <1>6

\* What Same says of the new state's type.
LEMMA SameState ==
  ASSUME NEW s, NEW t, Same(s, t)
  PROVE  t \in States
  BY DEF Same

\* A peer that keeps what was asked of it.
LEMMA PeerSame ==
  ASSUME NEW s \in States, NEW p \in Peers, NEW r \in PeerRecs,
         r.sync_items_requested_from_peer = s.peer[p].sync_items_requested_from_peer,
         r.list = "gone" <=> s.peer[p].list = "gone",
         Climbs(s.peer[p].ids_of_items_to_get) => Climbs(r.ids_of_items_to_get)
  PROVE  Same(s, [s EXCEPT !.peer[p] = r])
  BY DEF Same, States

\* Changes of one field of a peer that is not tracked.
LEMMA FieldSame ==
  ASSUME NEW s \in States, NEW p \in Peers
  PROVE  /\ \A v \in Seq(Ids) : Climbs(v) => Same(s, [s EXCEPT !.peer[p].ids_of_items_to_get = v])
         /\ \A v \in SUBSET Ids : Same(s, [s EXCEPT !.peer[p].ids_of_items_being_processed = v])
         /\ \A v \in Nat : Same(s, [s EXCEPT !.peer[p].number_of_unfetched_item_ids = v])
         /\ \A v \in Seq(Ids) : Same(s, [s EXCEPT !.peer[p].item_ids_requested_from_peer = v])
         /\ \A v \in SUBSET Ids : Same(s, [s EXCEPT !.peer[p].inventory_peer_advertised_to_us = v])
         /\ \A v \in SUBSET Ids : Same(s, [s EXCEPT !.peer[p].inventory_advertised_to_peer = v])
         /\ \A v \in FiniteIds : Same(s, [s EXCEPT !.peer[p].items_requested_from_peer = v])
         /\ \A v \in BOOLEAN : Same(s, [s EXCEPT !.peer[p].peer_needs_sync_items_from_us = v])
         /\ \A v \in BOOLEAN : Same(s, [s EXCEPT !.peer[p].we_need_sync_items_from_peer = v])
         /\ \A v \in BOOLEAN : Same(s, [s EXCEPT !.peer[p].inhibit_fetching_sync_blocks = v])
         /\ \A v \in Ids : Same(s, [s EXCEPT !.peer[p].last_block_delegate_has_seen = v])
         /\ \A v \in Nat : Same(s, [s EXCEPT !.peer[p].last_block_number_delegate_has_seen = v])
  <1>1. ASSUME NEW v \in Seq(Ids), Climbs(v)
        PROVE  Same(s, [s EXCEPT !.peer[p].ids_of_items_to_get = v])
    <2> DEFINE r == [s.peer[p] EXCEPT !.ids_of_items_to_get = v]
    <2>1. [s EXCEPT !.peer[p].ids_of_items_to_get = v] = [s EXCEPT !.peer[p] = r]
      BY DEF States
    <2>2. r \in PeerRecs /\ r.sync_items_requested_from_peer = s.peer[p].sync_items_requested_from_peer
          /\ r.list = s.peer[p].list /\ r.ids_of_items_to_get = v
      BY ZenonT(60) DEF States, PeerRecs
    <2> HIDE DEF r
    <2>3. QED
      BY <1>1, <2>1, <2>2, PeerSame
  <1>2. ASSUME NEW v \in SUBSET Ids
        PROVE  Same(s, [s EXCEPT !.peer[p].ids_of_items_being_processed = v])
    <2> DEFINE r == [s.peer[p] EXCEPT !.ids_of_items_being_processed = v]
    <2>1. [s EXCEPT !.peer[p].ids_of_items_being_processed = v] = [s EXCEPT !.peer[p] = r]
      BY DEF States
    <2>2. r \in PeerRecs /\ r.sync_items_requested_from_peer = s.peer[p].sync_items_requested_from_peer
          /\ r.list = s.peer[p].list /\ r.ids_of_items_to_get = s.peer[p].ids_of_items_to_get
      BY ZenonT(60) DEF States, PeerRecs
    <2> HIDE DEF r
    <2>3. QED
      BY <2>1, <2>2, PeerSame
  <1>3. ASSUME NEW v \in Nat
        PROVE  Same(s, [s EXCEPT !.peer[p].number_of_unfetched_item_ids = v])
    <2> DEFINE r == [s.peer[p] EXCEPT !.number_of_unfetched_item_ids = v]
    <2>1. [s EXCEPT !.peer[p].number_of_unfetched_item_ids = v] = [s EXCEPT !.peer[p] = r]
      BY DEF States
    <2>2. r \in PeerRecs /\ r.sync_items_requested_from_peer = s.peer[p].sync_items_requested_from_peer
          /\ r.list = s.peer[p].list /\ r.ids_of_items_to_get = s.peer[p].ids_of_items_to_get
      BY ZenonT(60) DEF States, PeerRecs
    <2> HIDE DEF r
    <2>3. QED
      BY <2>1, <2>2, PeerSame
  <1>4. ASSUME NEW v \in Seq(Ids)
        PROVE  Same(s, [s EXCEPT !.peer[p].item_ids_requested_from_peer = v])
    <2> DEFINE r == [s.peer[p] EXCEPT !.item_ids_requested_from_peer = v]
    <2>1. [s EXCEPT !.peer[p].item_ids_requested_from_peer = v] = [s EXCEPT !.peer[p] = r]
      BY DEF States
    <2>2. r \in PeerRecs /\ r.sync_items_requested_from_peer = s.peer[p].sync_items_requested_from_peer
          /\ r.list = s.peer[p].list /\ r.ids_of_items_to_get = s.peer[p].ids_of_items_to_get
      BY ZenonT(60) DEF States, PeerRecs
    <2> HIDE DEF r
    <2>3. QED
      BY <2>1, <2>2, PeerSame
  <1>5. ASSUME NEW v \in SUBSET Ids
        PROVE  Same(s, [s EXCEPT !.peer[p].inventory_peer_advertised_to_us = v])
    <2> DEFINE r == [s.peer[p] EXCEPT !.inventory_peer_advertised_to_us = v]
    <2>1. [s EXCEPT !.peer[p].inventory_peer_advertised_to_us = v] = [s EXCEPT !.peer[p] = r]
      BY DEF States
    <2>2. r \in PeerRecs /\ r.sync_items_requested_from_peer = s.peer[p].sync_items_requested_from_peer
          /\ r.list = s.peer[p].list /\ r.ids_of_items_to_get = s.peer[p].ids_of_items_to_get
      BY ZenonT(60) DEF States, PeerRecs
    <2> HIDE DEF r
    <2>3. QED
      BY <2>1, <2>2, PeerSame
  <1>6. ASSUME NEW v \in SUBSET Ids
        PROVE  Same(s, [s EXCEPT !.peer[p].inventory_advertised_to_peer = v])
    <2> DEFINE r == [s.peer[p] EXCEPT !.inventory_advertised_to_peer = v]
    <2>1. [s EXCEPT !.peer[p].inventory_advertised_to_peer = v] = [s EXCEPT !.peer[p] = r]
      BY DEF States
    <2>2. r \in PeerRecs /\ r.sync_items_requested_from_peer = s.peer[p].sync_items_requested_from_peer
          /\ r.list = s.peer[p].list /\ r.ids_of_items_to_get = s.peer[p].ids_of_items_to_get
      BY ZenonT(60) DEF States, PeerRecs
    <2> HIDE DEF r
    <2>3. QED
      BY <2>1, <2>2, PeerSame
  <1>7. ASSUME NEW v \in FiniteIds
        PROVE  Same(s, [s EXCEPT !.peer[p].items_requested_from_peer = v])
    <2> DEFINE r == [s.peer[p] EXCEPT !.items_requested_from_peer = v]
    <2>1. [s EXCEPT !.peer[p].items_requested_from_peer = v] = [s EXCEPT !.peer[p] = r]
      BY DEF States
    <2>2. r \in PeerRecs /\ r.sync_items_requested_from_peer = s.peer[p].sync_items_requested_from_peer
          /\ r.list = s.peer[p].list /\ r.ids_of_items_to_get = s.peer[p].ids_of_items_to_get
      BY ZenonT(60) DEF States, PeerRecs
    <2> HIDE DEF r
    <2>3. QED
      BY <2>1, <2>2, PeerSame
  <1>8. ASSUME NEW v \in BOOLEAN
        PROVE  Same(s, [s EXCEPT !.peer[p].peer_needs_sync_items_from_us = v])
    <2> DEFINE r == [s.peer[p] EXCEPT !.peer_needs_sync_items_from_us = v]
    <2>1. [s EXCEPT !.peer[p].peer_needs_sync_items_from_us = v] = [s EXCEPT !.peer[p] = r]
      BY DEF States
    <2>2. r \in PeerRecs /\ r.sync_items_requested_from_peer = s.peer[p].sync_items_requested_from_peer
          /\ r.list = s.peer[p].list /\ r.ids_of_items_to_get = s.peer[p].ids_of_items_to_get
      BY ZenonT(60) DEF States, PeerRecs
    <2> HIDE DEF r
    <2>3. QED
      BY <2>1, <2>2, PeerSame
  <1>9. ASSUME NEW v \in BOOLEAN
        PROVE  Same(s, [s EXCEPT !.peer[p].we_need_sync_items_from_peer = v])
    <2> DEFINE r == [s.peer[p] EXCEPT !.we_need_sync_items_from_peer = v]
    <2>1. [s EXCEPT !.peer[p].we_need_sync_items_from_peer = v] = [s EXCEPT !.peer[p] = r]
      BY DEF States
    <2>2. r \in PeerRecs /\ r.sync_items_requested_from_peer = s.peer[p].sync_items_requested_from_peer
          /\ r.list = s.peer[p].list /\ r.ids_of_items_to_get = s.peer[p].ids_of_items_to_get
      BY ZenonT(60) DEF States, PeerRecs
    <2> HIDE DEF r
    <2>3. QED
      BY <2>1, <2>2, PeerSame
  <1>10. ASSUME NEW v \in BOOLEAN
        PROVE  Same(s, [s EXCEPT !.peer[p].inhibit_fetching_sync_blocks = v])
    <2> DEFINE r == [s.peer[p] EXCEPT !.inhibit_fetching_sync_blocks = v]
    <2>1. [s EXCEPT !.peer[p].inhibit_fetching_sync_blocks = v] = [s EXCEPT !.peer[p] = r]
      BY DEF States
    <2>2. r \in PeerRecs /\ r.sync_items_requested_from_peer = s.peer[p].sync_items_requested_from_peer
          /\ r.list = s.peer[p].list /\ r.ids_of_items_to_get = s.peer[p].ids_of_items_to_get
      BY ZenonT(60) DEF States, PeerRecs
    <2> HIDE DEF r
    <2>3. QED
      BY <2>1, <2>2, PeerSame
  <1>11. ASSUME NEW v \in Ids
        PROVE  Same(s, [s EXCEPT !.peer[p].last_block_delegate_has_seen = v])
    <2> DEFINE r == [s.peer[p] EXCEPT !.last_block_delegate_has_seen = v]
    <2>1. [s EXCEPT !.peer[p].last_block_delegate_has_seen = v] = [s EXCEPT !.peer[p] = r]
      BY DEF States
    <2>2. r \in PeerRecs /\ r.sync_items_requested_from_peer = s.peer[p].sync_items_requested_from_peer
          /\ r.list = s.peer[p].list /\ r.ids_of_items_to_get = s.peer[p].ids_of_items_to_get
      BY ZenonT(60) DEF States, PeerRecs
    <2> HIDE DEF r
    <2>3. QED
      BY <2>1, <2>2, PeerSame
  <1>12. ASSUME NEW v \in Nat
        PROVE  Same(s, [s EXCEPT !.peer[p].last_block_number_delegate_has_seen = v])
    <2> DEFINE r == [s.peer[p] EXCEPT !.last_block_number_delegate_has_seen = v]
    <2>1. [s EXCEPT !.peer[p].last_block_number_delegate_has_seen = v] = [s EXCEPT !.peer[p] = r]
      BY DEF States
    <2>2. r \in PeerRecs /\ r.sync_items_requested_from_peer = s.peer[p].sync_items_requested_from_peer
          /\ r.list = s.peer[p].list /\ r.ids_of_items_to_get = s.peer[p].ids_of_items_to_get
      BY ZenonT(60) DEF States, PeerRecs
    <2> HIDE DEF r
    <2>3. QED
      BY <2>1, <2>2, PeerSame
  <1>13. QED
    BY <1>1, <1>2, <1>3, <1>4, <1>5, <1>6, <1>7, <1>8, <1>9, <1>10, <1>11, <1>12

\* A peer that is asked to close keeps its requests: its answers still count.
LEMMA DisconnectSame ==
  ASSUME NEW s \in States, NEW p \in Peers, s.peer[p].list # "gone"
  PROVE  Same(s, Disconnect(s, p))
  <1> DEFINE r == [s.peer[p] EXCEPT !.list = "closing"]
  <1>1. r \in PeerRecs /\ r.sync_items_requested_from_peer = s.peer[p].sync_items_requested_from_peer
        /\ r.list = "closing" /\ r.ids_of_items_to_get = s.peer[p].ids_of_items_to_get
     BY ZenonT(60) DEF States, PeerRecs
  <1>2. Disconnect(s, p) = [s EXCEPT !.peer[p] = r]
     BY DEF Disconnect, States
  <1> HIDE DEF r
  <1>3. QED BY <1>1, <1>2, PeerSame

\* A wake-up of fetch_sync_items_loop changes nothing that is tracked.
LEMMA TriggerSame ==
  ASSUME NEW s \in States
  PROVE  Same(s, Trigger(s))
  BY DEF Same, Trigger, States, NodeRecs

\* The relation is transitive.
LEMMA SameTrans ==
  ASSUME NEW s, NEW t, NEW u, Same(s, t), Same(t, u)
  PROVE  Same(s, u)
  BY DEF Same

\* Nothing changed.
LEMMA SameSelf ==
  ASSUME NEW s \in States
  PROVE  Same(s, s)
  BY DEF Same

\* The smaller of two numbers.
LEMMA LeastOfTwo ==
  ASSUME NEW a \in Int, NEW b \in Int
  PROVE  Min({a, b}) \in Int /\ Min({a, b}) \in {a, b} /\ Min({a, b}) <= a /\ Min({a, b}) <= b
  <1>1. \E x \in {a, b} : \A y \in {a, b} : x <= y
    <2>1. CASE a <= b
      BY <2>1
    <2>2. CASE b <= a
      BY <2>2
    <2>3. QED
      BY <2>1, <2>2
  <1>2. QED
    BY <1>1 DEF Min

\* The larger of two numbers.
LEMMA GreatestOfTwo ==
  ASSUME NEW a \in Nat, NEW b \in Nat
  PROVE  Max({a, b}) \in Nat /\ Max({a, b}) >= a /\ Max({a, b}) >= b
  <1>1. \E x \in {a, b} : \A y \in {a, b} : x >= y
    <2>1. CASE a <= b
      BY <2>1
    <2>2. CASE b <= a
      BY <2>2
    <2>3. QED
      BY <2>1, <2>2
  <1>2. QED
    BY <1>1 DEF Max

\* A part of a climbing list climbs.
LEMMA PartClimbs ==
  ASSUME NEW l \in Seq(Ids), Climbs(l), NEW m \in Nat \ {0}, NEW n \in Int, n <= Len(l)
  PROVE  SubSeq(l, m, n) \in Seq(Ids) /\ Climbs(SubSeq(l, m, n))
  <1> DEFINE t == SubSeq(l, m, n)
  <1>1. /\ t \in Seq(Ids) /\ DOMAIN t = 1 .. (n - m + 1)
        /\ \A i \in DOMAIN t : t[i] = l[i + m - 1] /\ i + m - 1 \in DOMAIN l
    BY PartFacts
  <1> HIDE DEF t
  <1>2. ASSUME NEW i \in DOMAIN t, NEW j \in DOMAIN t, i < j
        PROVE  Len(t[i]) < Len(t[j])
    <2>1. i + m - 1 < j + m - 1
      BY <1>1, <1>2
    <2>2. QED
      BY <1>1, <2>1 DEF Climbs
  <1>3. QED
    BY <1>1, <1>2 DEF Climbs, t

\* A climbing list has no block twice.
LEMMA ClimbsDistinct ==
  ASSUME NEW l \in Seq(Ids), Climbs(l)
  PROVE  Distinct(l)
  <1> SUFFICES ASSUME NEW i \in DOMAIN l, NEW j \in DOMAIN l, l[i] = l[j], i # j
               PROVE  FALSE
    BY DEF Distinct
  <1>1. i \in Nat /\ j \in Nat /\ Len(l[i]) \in Nat
    BY ElementOfSeq DEF Ids
  <1>2. i < j \/ j < i
    BY <1>1
  <1>3. Len(l[i]) < Len(l[j]) \/ Len(l[j]) < Len(l[i])
    BY <1>2 DEF Climbs
  <1>4. QED
    BY <1>1, <1>3

\* The types of a synopsis.
LEMMA ChainSynopsisType ==
  ASSUME NEW head \in Ids
  PROVE  ChainSynopsis(head) \in Seq(Ids)
  <1>1. Genesis \in Ids
    BY DEF Genesis, Ids
  <1>2. CASE head = Genesis
    BY <1>1, <1>2 DEF ChainSynopsis
  <1>3. CASE head # Genesis
    <2> DEFINE I == {n \in 1 .. Len(head) : n = Len(head) \/ \E k \in 0 .. Len(head) : Len(head) - n = 2 ^ k}
    <2>1. I \in SUBSET DOMAIN ChainTo(head) /\ ChainTo(head) \in Seq(Ids)
      BY ChainToFacts
    <2>2. ChainSynopsis(head) = Selected(ChainTo(head), I)
      BY <1>3 DEF ChainSynopsis
    <2> HIDE DEF I
    <2>3. QED
      BY <2>1, <2>2, SelectedFacts
  <1>4. QED
    BY <1>2, <1>3

\* create_blockchain_synopsis_for_peer returns ids.
LEMMA SynopsisType ==
  ASSUME NEW s \in States, NEW p \in Peers
  PROVE  Synopsis(s, p) \in Seq(Ids)
  <1> DEFINE todo == s.peer[p].ids_of_items_to_get
             top == s.peer[p].last_block_number_delegate_has_seen + Len(todo)
             I == {i \in DOMAIN todo : Len(todo) - i \in SampledAt[top - 1]}
  <1>1. todo \in Seq(Ids) /\ s.node.head \in Ids
    BY DEF States, PeerRecs, NodeRecs
  <1>2. Selected(todo, I) \in Seq(Ids)
    <2>1. I \in SUBSET DOMAIN todo
      OBVIOUS
    <2> HIDE DEF I, todo
    <2>2. QED
      BY <1>1, <2>1, SelectedFacts
  <1>3. ChainSynopsis(s.node.head) \in Seq(Ids)
    BY <1>1, ChainSynopsisType
  <1>4. Synopsis(s, p) = ChainSynopsis(s.node.head) \o (IF todo = <<>> THEN <<>> ELSE Selected(todo, I))
    BY DEF Synopsis
  <1> HIDE DEF I, todo
  <1>5. (IF todo = <<>> THEN <<>> ELSE Selected(todo, I)) \in Seq(Ids)
    BY <1>2
  <1>6. QED
    BY <1>3, <1>4, <1>5

\* Asking a peer for ids changes nothing that is tracked.
LEMMA FetchNextBatchSame ==
  ASSUME NEW s \in States, NEW p \in Peers
  PROVE  Same(s, FetchNextBatch(s, p))
  <1> DEFINE y == Synopsis(s, p)
             r == [s.peer[p] EXCEPT !.item_ids_requested_from_peer = y]
  <1>1. y \in Seq(Ids)
    BY SynopsisType
  <1>2. FetchNextBatch(s, p) = [s EXCEPT !.peer[p] = r]
    BY DEF FetchNextBatch, States
  <1> HIDE DEF y
  <1>3. /\ r \in PeerRecs /\ r.sync_items_requested_from_peer = s.peer[p].sync_items_requested_from_peer
        /\ r.list = s.peer[p].list /\ r.ids_of_items_to_get = s.peer[p].ids_of_items_to_get
    BY <1>1, ZenonT(60) DEF States, PeerRecs
  <1> HIDE DEF r
  <1>4. QED
    BY <1>2, <1>3, PeerSame

\* Nor does starting anew with a peer.
LEMMA StartSynchronizingSame ==
  ASSUME NEW s \in States, NEW p \in Peers
  PROVE  Same(s, StartSynchronizing(s, p))
  <1> DEFINE s1 == [s EXCEPT !.peer[p].ids_of_items_to_get = <<>>]
             s2 == [s1 EXCEPT !.peer[p].number_of_unfetched_item_ids = 0]
             s3 == [s2 EXCEPT !.peer[p].we_need_sync_items_from_peer = TRUE]
             s4 == [s3 EXCEPT !.peer[p].last_block_delegate_has_seen = Genesis]
             s5 == [s4 EXCEPT !.peer[p].last_block_number_delegate_has_seen = 0]
             s6 == [s5 EXCEPT !.peer[p].inhibit_fetching_sync_blocks = FALSE]
  <1>1. StartSynchronizing(s, p) = FetchNextBatch(s6, p)
    BY Zenon DEF StartSynchronizing
  <1>2. <<>> \in Seq(Ids) /\ Climbs(<<>>) /\ Genesis \in Ids
    BY DEF Climbs, Genesis, Ids
  <1> HIDE DEF s1, s2, s3, s4, s5, s6
  <1>3. Same(s, s1) /\ s1 \in States
    BY <1>2, FieldSame, SameState DEF s1
  <1>4. Same(s1, s2) /\ s2 \in States
    BY <1>3, FieldSame, SameState DEF s2
  <1>5. Same(s2, s3) /\ s3 \in States
    BY <1>4, FieldSame, SameState DEF s3
  <1>6. Same(s3, s4) /\ s4 \in States
    BY <1>2, <1>5, FieldSame, SameState DEF s4
  <1>7. Same(s4, s5) /\ s5 \in States
    BY <1>6, FieldSame, SameState DEF s5
  <1>8. Same(s5, s6) /\ s6 \in States
    BY <1>7, FieldSame, SameState DEF s6
  <1>9. Same(s6, FetchNextBatch(s6, p))
    BY <1>8, FetchNextBatchSame
  <1>10. Same(s, s6)
    <2>1. Same(s, s2)
      BY <1>3, <1>4, SameTrans
    <2>2. Same(s, s3)
      BY <2>1, <1>5, SameTrans
    <2>3. Same(s, s4)
      BY <2>2, <1>6, SameTrans
    <2>4. Same(s, s5)
      BY <2>3, <1>7, SameTrans
    <2>5. QED
      BY <2>4, <1>8, SameTrans
  <1>11. QED
    BY <1>1, <1>9, <1>10, SameTrans

\* The peers themselves.
Remotes == [known : SUBSET Ids, head : Ids, lacks : SUBSET Ids, needs_items : BOOLEAN, will_ask : BOOLEAN]

\* The ids of an answer are the end of a chain, so their numbers climb.
LEMMA ItemIdsFacts ==
  ASSUME NEW r, r.known \in SUBSET Ids, r.head \in Ids, NEW synopsis \in Seq(Ids)
  PROVE  LET reply == ItemIds(r, synopsis)
         IN  reply.items \in Seq(Ids) /\ Climbs(reply.items) /\ reply.remaining \in Nat
  <1> DEFINE recognised == {i \in DOMAIN synopsis : synopsis[i] \in r.known \cup {Genesis}}
             last  == IF recognised = {} THEN Genesis ELSE synopsis[Max(recognised)]
             first == Max({1, Len(last)})
             end   == Min({Len(r.head), first + Limit - 1})
  <1>1. last \in Ids
    <2>1. CASE recognised = {}
      BY <2>1 DEF Ids, Genesis
    <2>2. CASE recognised # {}
      <3>1. DOMAIN synopsis = 1 .. Len(synopsis) /\ Len(synopsis) \in Nat
        OBVIOUS
      <3>2. recognised \subseteq 0 .. Len(synopsis)
        BY <3>1
      <3>3. Max(recognised) \in recognised
        <4> HIDE DEF recognised
        <4> QED
          BY <2>2, <3>1, <3>2, MaxIn
      <3>4. synopsis[Max(recognised)] \in Ids
        BY <3>3, ElementOfSeq
      <3>5. QED
        BY <2>2, <3>4
    <2>3. QED
      BY <2>1, <2>2
  <1>2. ItemIds(r, synopsis) = [items |-> SubSeq(ChainTo(r.head), first, end), remaining |-> Len(r.head) - end]
    BY DEF ItemIds
  <1> HIDE DEF last
  <1>3. Len(last) \in Nat /\ Len(r.head) \in Nat /\ Limit \in Nat /\ Limit > 1
    BY <1>1, BoundsAssumption DEF Ids
  <1>4. first \in Nat \ {0}
    <2>1. first \in Nat /\ first >= 1
      BY <1>3, GreatestOfTwo
    <2>2. QED
      BY <2>1
  <1> HIDE DEF first
  <1>5. end \in Int /\ end <= Len(r.head)
    <2>1. first + Limit - 1 \in Int
      BY <1>3, <1>4
    <2>2. Len(r.head) \in Int
      BY <1>3
    <2>3. QED
      BY <2>1, <2>2, LeastOfTwo
  <1> HIDE DEF end
  <1>6. ChainTo(r.head) \in Seq(Ids) /\ Climbs(ChainTo(r.head)) /\ Len(ChainTo(r.head)) = Len(r.head)
    BY ChainToFacts DEF Climbs
  <1>7. SubSeq(ChainTo(r.head), first, end) \in Seq(Ids) /\ Climbs(SubSeq(ChainTo(r.head), first, end))
    BY <1>4, <1>5, <1>6, PartClimbs
  <1>8. Len(r.head) - end \in Nat
    BY <1>3, <1>5
  <1>9. QED
    BY <1>2, <1>7, <1>8

\* The flag of failed assertions is not tracked either.
LEMMA AbortSame ==
  ASSUME NEW s \in States, NEW failed
  PROVE  Same(s, Abort(s, failed))
  <1>1. (s.node.aborted \/ failed) \in BOOLEAN
    OBVIOUS
  <1>2. [s.node EXCEPT !.aborted = @ \/ failed] \in NodeRecs
    BY <1>1 DEF States, NodeRecs
  <1>3. QED
    BY <1>2 DEF Same, Abort, States, NodeRecs

\* What a peer's list becomes when an answer is merged into it.
LEMMA FlushSeenFacts ==
  ASSUME NEW s \in States, NEW p \in Peers, NEW items \in Seq(Ids), items # <<>>, Climbs(items)
  PROVE  LET m == FlushSeen(s, p, items)
         IN  /\ Same(s, m.s) /\ m.items \in Seq(Ids) /\ Climbs(m.items)
             /\ m.s.peer[p].ids_of_items_to_get = s.peer[p].ids_of_items_to_get
  <1> DEFINE other == \E q \in Active(s) \ {p} :
                        /\ s.peer[q].ids_of_items_to_get # <<>>
                        /\ Head(s.peer[q].ids_of_items_to_get) = items[1]
             N == {n \in 0 .. Len(items) : \A i \in 1 .. n : HasItem(s, items[i])}
             seen == IF other THEN 0 ELSE Max(N)
             s1 == [s EXCEPT !.peer[p].last_block_delegate_has_seen = items[seen]]
             t == [s1 EXCEPT !.peer[p].last_block_number_delegate_has_seen = @ + seen]
  <1>1. Len(items) \in Nat /\ DOMAIN items = 1 .. Len(items)
    OBVIOUS
  <1>2. seen \in 0 .. Len(items)
    <2>1. N \subseteq 0 .. Len(items) /\ 0 \in N
      BY <1>1
    <2> HIDE DEF N
    <2>2. Max(N) \in N
      BY <1>1, <2>1, MaxIn
    <2>3. QED
      BY <1>1, <2>1, <2>2
  <1>3. FlushSeen(s, p, items).items = SubSeq(items, seen + 1, Len(items))
        /\ FlushSeen(s, p, items).s = IF seen = 0 THEN s ELSE t
    BY Zenon DEF FlushSeen
  <1> HIDE DEF seen
  <1>4. SubSeq(items, seen + 1, Len(items)) \in Seq(Ids) /\ Climbs(SubSeq(items, seen + 1, Len(items)))
    BY <1>1, <1>2, PartClimbs
  <1>5. seen # 0 => /\ Same(s, t)
                    /\ t.peer[p].ids_of_items_to_get = s.peer[p].ids_of_items_to_get
    <2> SUFFICES ASSUME seen # 0
                 PROVE  /\ Same(s, t)
                        /\ t.peer[p].ids_of_items_to_get = s.peer[p].ids_of_items_to_get
      OBVIOUS
    <2>1. items[seen] \in Ids
      BY <1>1, <1>2, ElementOfSeq
    <2>2. Same(s, s1) /\ s1 \in States
      BY <2>1, FieldSame, SameState
    <2>3. s1.peer[p].ids_of_items_to_get = s.peer[p].ids_of_items_to_get
      BY DEF States, PeerRecs
    <2> HIDE DEF s1
    <2> DEFINE v == s1.peer[p].last_block_number_delegate_has_seen + seen
    <2>4. v \in Nat
      BY <1>2, <2>2 DEF States, PeerRecs
    <2>5. t = [s1 EXCEPT !.peer[p].last_block_number_delegate_has_seen = v]
      BY <2>2 DEF States, PeerRecs
    <2>6. t.peer[p].ids_of_items_to_get = s1.peer[p].ids_of_items_to_get
      BY <2>2 DEF States, PeerRecs
    <2> HIDE DEF v, t
    <2>7. Same(s1, t)
      BY <2>2, <2>4, <2>5, FieldSame
    <2>8. QED
      BY <2>2, <2>3, <2>6, <2>7, SameTrans
  <1>6. QED
    BY <1>3, <1>4, <1>5, SameSelf

\* A list that goes on where another ends.
LEMMA JoinClimbs ==
  ASSUME NEW l \in Seq(Ids), NEW m \in Seq(Ids), Climbs(l), Climbs(m),
         l # <<>> /\ m # <<>> => Len(l[Len(l)]) < Len(m[1])
  PROVE  l \o m \in Seq(Ids) /\ Climbs(l \o m)
  <1> DEFINE t == l \o m
  <1>1. /\ t \in Seq(Ids) /\ DOMAIN t = 1 .. Len(l) + Len(m)
        /\ Len(l) \in Nat /\ Len(m) \in Nat /\ DOMAIN l = 1 .. Len(l) /\ DOMAIN m = 1 .. Len(m)
        /\ \A i \in 1 .. Len(l) : t[i] = l[i]
        /\ \A i \in Len(l) + 1 .. Len(l) + Len(m) : t[i] = m[i - Len(l)]
    BY ConcatProperties
  <1> HIDE DEF t
  <1>2. \A i \in DOMAIN l : Len(l[i]) \in Nat
    BY ElementOfSeq DEF Ids
  <1>3. \A i \in DOMAIN m : Len(m[i]) \in Nat
    BY ElementOfSeq DEF Ids
  <1>4. ASSUME NEW i \in DOMAIN t, NEW j \in DOMAIN t, i < j
        PROVE  Len(t[i]) < Len(t[j])
    <2>1. CASE j <= Len(l)
      <3>1. i \in 1 .. Len(l) /\ j \in 1 .. Len(l)
        BY <1>1, <1>4, <2>1
      <3>2. t[i] = l[i] /\ t[j] = l[j] /\ i \in DOMAIN l /\ j \in DOMAIN l
        BY <1>1, <3>1
      <3>3. QED
        BY <1>4, <3>2 DEF Climbs
    <2>2. CASE i > Len(l)
      <3>1. i - Len(l) \in DOMAIN m /\ j - Len(l) \in DOMAIN m /\ i - Len(l) < j - Len(l)
        <4>1. i \in Len(l) + 1 .. Len(l) + Len(m) /\ j \in Len(l) + 1 .. Len(l) + Len(m)
          BY <1>1, <1>4, <2>2
        <4>2. i - Len(l) \in 1 .. Len(m) /\ j - Len(l) \in 1 .. Len(m) /\ i - Len(l) < j - Len(l)
          BY <1>1, <1>4, <4>1
        <4>3. QED
          BY <1>1, <4>2
      <3>2. t[i] = m[i - Len(l)] /\ t[j] = m[j - Len(l)]
        <4>1. i \in Len(l) + 1 .. Len(l) + Len(m) /\ j \in Len(l) + 1 .. Len(l) + Len(m)
          BY <1>1, <1>4, <2>2
        <4>2. QED
          BY <1>1, <4>1
      <3>3. QED
        BY <3>1, <3>2 DEF Climbs
    <2>3. CASE i <= Len(l) /\ j > Len(l)
      <3> DEFINE k == j - Len(l)
      <3>1. i \in DOMAIN l /\ Len(l) \in DOMAIN l /\ k \in DOMAIN m /\ 1 \in DOMAIN m /\ t[i] = l[i] /\ t[j] = m[k]
        <4>1. i \in 1 .. Len(l) /\ j \in Len(l) + 1 .. Len(l) + Len(m)
          BY <1>1, <1>4, <2>3
        <4>2. Len(l) \in 1 .. Len(l) /\ k \in 1 .. Len(m) /\ 1 \in 1 .. Len(m)
          BY <1>1, <4>1
        <4>3. t[i] = l[i] /\ t[j] = m[k]
          BY <1>1, <4>1
        <4> HIDE DEF k
        <4>4. QED
          BY <1>1, <4>1, <4>2, <4>3
      <3>2. l # <<>> /\ m # <<>>
        BY <3>1
      <3> HIDE DEF k
      <3>3. Len(l[i]) <= Len(l[Len(l)])
        <4>1. i = Len(l) \/ i < Len(l)
          BY <1>1, <3>1
        <4>2. i < Len(l) => Len(l[i]) < Len(l[Len(l)])
          BY <3>1 DEF Climbs
        <4>3. QED
          BY <1>2, <3>1, <4>1, <4>2
      <3>4. Len(m[1]) <= Len(m[k])
        <4>1. k = 1 \/ 1 < k
          BY <1>1, <3>1
        <4>2. 1 < k => Len(m[1]) < Len(m[k])
          BY <3>1 DEF Climbs
        <4>3. QED
          BY <1>3, <3>1, <4>1, <4>2
      <3>5. QED
        BY <1>2, <1>3, <3>1, <3>2, <3>3, <3>4
    <2>4. QED
      BY <1>1, <2>1, <2>2, <2>3
  <1>5. QED
    BY <1>1, <1>4 DEF Climbs, t

\* The empty list, and genesis.
LEMMA EmptyClimbs == Climbs(<<>>) /\ <<>> \in Seq(Ids) /\ Genesis \in Ids
  BY DEF Climbs, Genesis, Ids

\* A list that climbs still does without its first id.
LEMMA TailClimbs ==
  ASSUME NEW l \in Seq(Ids), Climbs(l), l # <<>>
  PROVE  Tail(l) \in Seq(Ids) /\ Climbs(Tail(l))
  <1>1. Tail(l) \in Seq(Ids) /\ Len(Tail(l)) = Len(l) - 1 /\ Len(l) \in Nat /\ Len(l) # 0
        /\ \A i \in 1 .. Len(Tail(l)) : Tail(l)[i] = l[i + 1]
    BY HeadTailProperties, EmptySeq
  <1> DEFINE t == Tail(l)
  <1>2. DOMAIN t = 1 .. Len(l) - 1 /\ DOMAIN l = 1 .. Len(l)
    BY <1>1
  <1>3. \A i \in DOMAIN t : t[i] = l[i + 1] /\ i + 1 \in DOMAIN l
    BY <1>1, <1>2
  <1> HIDE DEF t
  <1>4. ASSUME NEW i \in DOMAIN t, NEW j \in DOMAIN t, i < j
        PROVE  Len(t[i]) < Len(t[j])
    <2>1. i + 1 < j + 1
      BY <1>2, <1>4, <1>1
    <2>2. QED
      BY <1>3, <2>1 DEF Climbs
  <1>5. QED
    BY <1>1, <1>4 DEF t, Climbs

\* An answer that continues an older list joins on to what is kept of it.
LEMMA ContinueFacts ==
  ASSUME NEW s \in States, NEW p \in Peers, NEW items \in Seq(Ids), items # <<>>, Climbs(items),
         Climbs(s.peer[p].ids_of_items_to_get)
  PROVE  LET m == Continue(s, p, items)
         IN  /\ Same(s, m.s) /\ m.items \in Seq(Ids)
             /\ m.s.peer[p].ids_of_items_to_get \o m.items \in Seq(Ids)
             /\ Climbs(m.s.peer[p].ids_of_items_to_get \o m.items)
  <1> DEFINE old == s.peer[p].ids_of_items_to_get
             at == {i \in DOMAIN old : old[i] = items[1]}
             m == Continue(s, p, items)
  <1>1. old \in Seq(Ids) /\ Len(old) \in Nat /\ DOMAIN old = 1 .. Len(old) /\ 1 \in DOMAIN items /\ items[1] \in Ids
    <2>1. old \in Seq(Ids)
      BY DEF States, PeerRecs
    <2> HIDE DEF old
    <2>2. 1 \in DOMAIN items
      OBVIOUS
    <2>3. QED
      BY <2>1, <2>2, ElementOfSeq
  <1>2. CASE at # {}
    <2> DEFINE k == Max(at)
               l == SubSeq(old, 1, k - 1)
               u == [s EXCEPT !.peer[p].ids_of_items_to_get = l]
               failed == k > 1 /\ old[k - 1] = items[1]
    <2>1. k \in DOMAIN old /\ old[k] = items[1]
      <3>1. at \subseteq 0 .. Len(old)
        BY <1>1
      <3> HIDE DEF at
      <3>2. Max(at) \in at
        BY <1>1, <1>2, <3>1, MaxIn
      <3>3. QED
        BY <3>2 DEF at
    <2>2. m = [items |-> items, s |-> Abort(u, failed)]
      BY <1>2, Zenon DEF Continue
    <2> HIDE DEF at, k, failed, old
    <2>3. /\ l \in Seq(Ids) /\ Climbs(l) /\ DOMAIN l = 1 .. k - 1
          /\ \A i \in DOMAIN l : l[i] = old[i]
      <3>1. k \in Nat \ {0} /\ k - 1 \in Int /\ k - 1 <= Len(old)
        BY <1>1, <2>1
      <3>2. l \in Seq(Ids) /\ Climbs(l)
        BY <1>1, <3>1, PartClimbs DEF old
      <3>3. DOMAIN l = 1 .. (k - 1 - 1 + 1) /\ \A i \in DOMAIN l : l[i] = old[i + 1 - 1]
        BY <1>1, <3>1, PartFacts
      <3>4. QED
        BY <1>1, <2>1, <3>1, <3>2, <3>3
    <2> HIDE DEF l
    <2>4. Same(s, u) /\ u \in States
      BY <2>3, FieldSame, SameState
    <2>5. u.peer[p].ids_of_items_to_get = l
      BY DEF States, PeerRecs
    <2> HIDE DEF u
    <2>6. Same(s, Abort(u, failed))
      BY <2>4, AbortSame, SameTrans
    <2>7. Abort(u, failed).peer = u.peer
      BY <2>4 DEF Abort, States
    <2>8. l \o items \in Seq(Ids) /\ Climbs(l \o items)
      <3>1. l # <<>> => Len(l[Len(l)]) < Len(items[1])
        <4> SUFFICES ASSUME l # <<>>
                     PROVE  Len(l[Len(l)]) < Len(items[1])
          OBVIOUS
        <4>1. Len(l) \in DOMAIN l /\ Len(l) = k - 1 /\ k \in Nat
          BY <1>1, <2>1, <2>3
        <4>2. l[Len(l)] = old[k - 1] /\ k - 1 \in DOMAIN old /\ k - 1 < k
          BY <1>1, <2>1, <2>3, <4>1
        <4>3. QED
          BY <2>1, <4>2 DEF Climbs, old
      <3>2. QED
        BY <2>3, <3>1, JoinClimbs
    <2>9. QED
      BY <2>2, <2>5, <2>6, <2>7, <2>8
  <1>3. CASE at = {}
    <2> DEFINE s1 == [s EXCEPT !.peer[p].ids_of_items_to_get = <<>>]
               s2 == [s1 EXCEPT !.peer[p].last_block_delegate_has_seen = items[1]]
               s3 == [s2 EXCEPT !.peer[p].last_block_number_delegate_has_seen = Len(items[1])]
               failed == ~ HasItem(s, items[1])
    <2>1. m = [items |-> Tail(items), s |-> Abort(s3, failed)]
      BY <1>3, Zenon DEF Continue
    <2> HIDE DEF failed, at, old
    <2>2. s1.peer[p].ids_of_items_to_get = <<>>
      BY DEF States, PeerRecs
    <2>3. Same(s, s1) /\ s1 \in States
      BY EmptyClimbs, FieldSame, SameState
    <2> HIDE DEF s1
    <2>4. Same(s1, s2) /\ s2 \in States
      BY <1>1, <2>3, FieldSame, SameState
    <2>5. s2.peer[p].ids_of_items_to_get = <<>>
      BY <2>2, <2>3 DEF States, PeerRecs
    <2> HIDE DEF s2
    <2>6. Len(items[1]) \in Nat
      BY <1>1 DEF Ids
    <2>7. Same(s2, s3) /\ s3 \in States
      BY <2>4, <2>6, FieldSame, SameState
    <2>8. s3.peer[p].ids_of_items_to_get = <<>>
      BY <2>5, <2>4 DEF States, PeerRecs
    <2> HIDE DEF s3
    <2>9. Abort(s3, failed).peer = s3.peer
      BY <2>7 DEF Abort, States
    <2>10. Same(s, Abort(s3, failed))
      <3>1. Same(s, s2)
        BY <2>3, <2>4, SameTrans
      <3>2. Same(s, s3)
        BY <3>1, <2>7, SameTrans
      <3>3. QED
        BY <3>2, <2>7, AbortSame, SameTrans
    <2>11. Tail(items) \in Seq(Ids) /\ Climbs(Tail(items))
      BY TailClimbs
    <2>12. <<>> \o Tail(items) = Tail(items)
      BY <2>11, ConcatEmptySeq
    <2> HIDE DEF m
    <2>13. m.items = Tail(items) /\ Same(s, m.s) /\ m.s.peer[p].ids_of_items_to_get = <<>>
      BY <2>1, <2>8, <2>9, <2>10
    <2>14. m.s.peer[p].ids_of_items_to_get \o m.items = Tail(items)
      BY <2>12, <2>13
    <2>15. /\ Same(s, m.s) /\ m.items \in Seq(Ids)
           /\ m.s.peer[p].ids_of_items_to_get \o m.items \in Seq(Ids)
           /\ Climbs(m.s.peer[p].ids_of_items_to_get \o m.items)
      BY <2>11, <2>13, <2>14
    <2>16. QED
      BY <2>15 DEF m
  <1>4. QED
    BY <1>2, <1>3

\* However an answer is merged, the list of the peer climbs.
LEMMA MergeFacts ==
  ASSUME NEW s \in States, NEW p \in Peers, NEW items \in Seq(Ids), Climbs(items),
         Climbs(s.peer[p].ids_of_items_to_get)
  PROVE  LET m == Merge(s, p, items)
         IN  /\ Same(s, m.s)
             /\ m.s.peer[p].ids_of_items_to_get \o m.items \in Seq(Ids)
             /\ Climbs(m.s.peer[p].ids_of_items_to_get \o m.items)
  <1> DEFINE old == s.peer[p].ids_of_items_to_get
             m == Merge(s, p, items)
  <1>1. old \in Seq(Ids)
    BY DEF States, PeerRecs
  <1>2. CASE items = <<>>
    <2>1. m = [items |-> items, s |-> s]
      BY <1>2 DEF Merge
    <2>2. old \o <<>> = old
      BY <1>1, ConcatEmptySeq
    <2> HIDE DEF m
    <2>3. m.s = s /\ m.items = <<>>
      BY <1>2, <2>1
    <2>4. m.s.peer[p].ids_of_items_to_get \o m.items = s.peer[p].ids_of_items_to_get
      BY <2>2, <2>3
    <2>5. Same(s, m.s)
      BY <2>3, SameSelf
    <2>6. QED
      BY <1>1, <2>4, <2>5 DEF m
  <1>3. CASE items # <<>> /\ old = <<>>
    <2>1. m = FlushSeen(s, p, items)
      BY <1>3 DEF Merge
    <2> HIDE DEF m, old
    <2>2. Same(s, m.s) /\ m.items \in Seq(Ids) /\ Climbs(m.items) /\ m.s.peer[p].ids_of_items_to_get = <<>>
      BY <1>3, <2>1, FlushSeenFacts DEF old
    <2>3. <<>> \o m.items = m.items
      BY <2>2, ConcatEmptySeq
    <2>4. m.s.peer[p].ids_of_items_to_get \o m.items = m.items
      BY <2>2, <2>3
    <2>5. QED
      BY <2>2, <2>4 DEF m
  <1>4. CASE items # <<>> /\ old # <<>>
    <2>1. m = Continue(s, p, items)
      BY <1>4 DEF Merge
    <2> HIDE DEF m, old
    <2>2. QED
      BY <1>4, <2>1, ContinueFacts DEF m
  <1>5. QED
    BY <1>2, <1>3, <1>4

\* The handler of an answer to a question for ids.
LEMMA OnItemIdsSame ==
  ASSUME NEW s0 \in States, NEW p \in Peers, NEW items \in Seq(Ids), Climbs(items), NEW remaining \in Nat,
         Climbs(s0.peer[p].ids_of_items_to_get), s0.peer[p].list # "gone"
  PROVE  Same(s0, OnItemIds(s0, p, items, remaining))
  <1> DEFINE s == [s0 EXCEPT !.peer[p].item_ids_requested_from_peer = NoRequest]
             m == Merge(s, p, items)
             t1 == [m.s EXCEPT !.peer[p].ids_of_items_to_get = @ \o m.items]
             t == [t1 EXCEPT !.peer[p].number_of_unfetched_item_ids = remaining]
             u == [s EXCEPT !.peer[p].we_need_sync_items_from_peer = FALSE]
             v == OnItemIds(s0, p, items, remaining)
  <1>1. v = CASE UpToDate(s, p, items, remaining) -> u
              [] Implausible(t, p, remaining) -> Disconnect(t, p)
              [] OTHER -> FetchBlocksOrIds(t, p, remaining)
    BY Zenon DEF OnItemIds
  <1>2. Same(s0, s) /\ s \in States
    BY EmptyClimbs, FieldSame, SameState DEF NoRequest
  <1>3. Climbs(s.peer[p].ids_of_items_to_get)
    BY <1>2 DEF Same
  <1> HIDE DEF s
  <1>4. /\ Same(s, m.s) /\ m.s \in States
        /\ m.s.peer[p].ids_of_items_to_get \o m.items \in Seq(Ids)
        /\ Climbs(m.s.peer[p].ids_of_items_to_get \o m.items)
    BY <1>2, <1>3, MergeFacts, SameState
  <1> HIDE DEF m
  <1>5. Same(m.s, t1) /\ t1 \in States
    <2> DEFINE l == m.s.peer[p].ids_of_items_to_get \o m.items
    <2>1. t1 = [m.s EXCEPT !.peer[p].ids_of_items_to_get = l]
      BY <1>4 DEF States, PeerRecs
    <2> HIDE DEF t1
    <2>2. l \in Seq(Ids) /\ Climbs(l)
      BY <1>4
    <2> HIDE DEF l
    <2>3. QED
      BY <1>4, <2>1, <2>2, FieldSame, SameState
  <1> HIDE DEF t1
  <1>6. Same(t1, t) /\ t \in States
    BY <1>5, FieldSame, SameState
  <1> HIDE DEF t
  <1>7. Same(s0, t)
    <2>1. Same(s0, m.s)
      BY <1>2, <1>4, SameTrans
    <2>2. Same(s0, t1)
      BY <2>1, <1>5, SameTrans
    <2>3. QED
      BY <2>2, <1>6, SameTrans
  <1>8. t.peer[p].list # "gone"
    BY <1>7 DEF Same
  <1>9. Same(s0, u)
    BY <1>2, FieldSame, SameTrans
  <1> HIDE DEF u
  <1>10. Same(s0, Disconnect(t, p))
    BY <1>6, <1>7, <1>8, DisconnectSame, SameTrans
  <1>11. Same(s0, FetchBlocksOrIds(t, p, remaining))
    <2>1. FetchBlocksOrIds(t, p, remaining) \in {Trigger(t), FetchNextBatch(t, p)}
      BY DEF FetchBlocksOrIds
    <2>2. Same(t, Trigger(t)) /\ Same(t, FetchNextBatch(t, p))
      BY <1>6, TriggerSame, FetchNextBatchSame
    <2>3. QED
      BY <1>7, <2>1, <2>2, SameTrans
  <1> HIDE DEF v
  <1>12. v \in {u, Disconnect(t, p), FetchBlocksOrIds(t, p, remaining)}
    BY <1>1
  <1>13. QED
    BY <1>9, <1>10, <1>11, <1>12 DEF v

\* The handler of a peer's question for ids.
LEMMA OnFetchIdsSame ==
  ASSUME NEW s \in States, NEW p \in Peers, NEW synopsis, s.peer[p].list # "gone"
  PROVE  Same(s, OnFetchIds(s, p, synopsis))
  <1> DEFINE reply == ItemIds(s.node, synopsis)
             needs == StillNeeds(reply.items, synopsis)
             t == [s EXCEPT !.peer[p].peer_needs_sync_items_from_us = needs]
             u == IF ~ t.peer[p].we_need_sync_items_from_peer /\ ~ HasItem(s, Last(synopsis))
                  THEN StartSynchronizing(t, p) ELSE t
             v == OnFetchIds(s, p, synopsis)
  <1>1. v \in {u, Disconnect(u, p)}
    <2>1. v = IF ~ needs /\ reply.items # <<>> /\ s.peer[p].inhibit_fetching_sync_blocks
              THEN Disconnect(u, p) ELSE u
      BY Zenon DEF OnFetchIds
    <2> HIDE DEF v, u, needs, reply
    <2>2. QED
      BY <2>1
  <1>2. needs \in BOOLEAN
    BY DEF StillNeeds
  <1> HIDE DEF needs, v
  <1>3. Same(s, t) /\ t \in States
    BY <1>2, FieldSame, SameState
  <1> HIDE DEF t
  <1>4. Same(t, StartSynchronizing(t, p)) /\ Same(t, t)
    BY <1>3, StartSynchronizingSame, SameSelf
  <1>5. Same(t, u)
    BY <1>4
  <1> HIDE DEF u
  <1>6. Same(s, u) /\ u \in States
    BY <1>3, <1>5, SameTrans, SameState
  <1>7. u.peer[p].list # "gone"
    BY <1>6 DEF Same
  <1>8. Same(s, Disconnect(u, p))
    BY <1>6, <1>7, DisconnectSame, SameTrans
  <1>9. QED
    BY <1>1, <1>6, <1>8 DEF v

\* A change of several peers that is not tracked.
LEMMA PeersSame ==
  ASSUME NEW s \in States, NEW f \in [Peers -> PeerRecs],
         \A p \in Peers :
            /\ f[p].sync_items_requested_from_peer = s.peer[p].sync_items_requested_from_peer
            /\ f[p].list = "gone" <=> s.peer[p].list = "gone"
            /\ Climbs(s.peer[p].ids_of_items_to_get) => Climbs(f[p].ids_of_items_to_get)
  PROVE  Same(s, [s EXCEPT !.peer = f])
  BY DEF Same, States

\* A loop over peers, each turn of which keeps what is tracked.
LEMMA EachSame ==
  ASSUME NEW s \in States, NEW ps, NEW F, \A p \in Peers : p \in ps => Same(s, F[p])
  PROVE  Same(s, [s EXCEPT !.peer = [p \in Peers |-> IF p \in ps THEN F[p].peer[p] ELSE s.peer[p]]])
  <1> DEFINE f == [p \in Peers |-> IF p \in ps THEN F[p].peer[p] ELSE s.peer[p]]
  <1>1. ASSUME NEW p \in Peers
        PROVE  /\ f[p] \in PeerRecs
               /\ f[p].sync_items_requested_from_peer = s.peer[p].sync_items_requested_from_peer
               /\ f[p].list = "gone" <=> s.peer[p].list = "gone"
               /\ Climbs(s.peer[p].ids_of_items_to_get) => Climbs(f[p].ids_of_items_to_get)
    <2>1. CASE p \in ps
      <3>1. f[p] = F[p].peer[p] /\ Same(s, F[p])
        BY <2>1
      <3> HIDE DEF f
      <3>2. QED
        BY <3>1 DEF Same, States
    <2>2. CASE p \notin ps
      <3>1. f[p] = s.peer[p]
        BY <2>2
      <3> HIDE DEF f
      <3>2. QED
        BY <3>1 DEF States
    <2>3. QED
      BY <2>1, <2>2
  <1>2. f \in [Peers -> PeerRecs]
    BY <1>1
  <1> HIDE DEF f
  <1>3. Same(s, [s EXCEPT !.peer = f])
    BY <1>1, <1>2, PeersSame
  <1>4. QED
    BY <1>3 DEF f

\* The loop that asks several peers for more ids.
LEMMA EachFetchSame ==
  ASSUME NEW s \in States, NEW ps
  PROVE  Same(s, ForEach(s, ps, FetchNextBatch))
  <1> DEFINE F == [p \in Peers |-> FetchNextBatch(s, p)]
             f == [p \in Peers |-> IF p \in ps THEN F[p].peer[p] ELSE s.peer[p]]
  <1>1. \A p \in Peers : F[p] = FetchNextBatch(s, p)
    OBVIOUS
  <1>2. f = [p \in Peers |-> IF p \in ps THEN FetchNextBatch(s, p).peer[p] ELSE s.peer[p]]
    OBVIOUS
  <1>3. ForEach(s, ps, FetchNextBatch) = [s EXCEPT !.peer = f]
    BY <1>2, Zenon DEF ForEach
  <1> HIDE DEF F
  <1>4. \A p \in Peers : Same(s, F[p])
    BY <1>1, FetchNextBatchSame
  <1>5. Same(s, [s EXCEPT !.peer = f])
    BY <1>4, EachSame
  <1>6. QED
    BY <1>3, <1>5

\* The loop that starts anew with several peers.
LEMMA EachStartSame ==
  ASSUME NEW s \in States, NEW ps
  PROVE  Same(s, ForEach(s, ps, StartSynchronizing))
  <1> DEFINE F == [p \in Peers |-> StartSynchronizing(s, p)]
             f == [p \in Peers |-> IF p \in ps THEN F[p].peer[p] ELSE s.peer[p]]
  <1>1. \A p \in Peers : F[p] = StartSynchronizing(s, p)
    OBVIOUS
  <1>2. f = [p \in Peers |-> IF p \in ps THEN StartSynchronizing(s, p).peer[p] ELSE s.peer[p]]
    OBVIOUS
  <1>3. ForEach(s, ps, StartSynchronizing) = [s EXCEPT !.peer = f]
    BY <1>2, Zenon DEF ForEach
  <1> HIDE DEF F
  <1>4. \A p \in Peers : Same(s, F[p])
    BY <1>1, StartSynchronizingSame
  <1>5. Same(s, [s EXCEPT !.peer = f])
    BY <1>4, EachSame
  <1>6. QED
    BY <1>3, <1>5

\* The loop that asks several peers to close.
LEMMA EachDisconnectSame ==
  ASSUME NEW s \in States, NEW ps, ps \subseteq Active(s)
  PROVE  Same(s, ForEach(s, ps, Disconnect))
  <1> DEFINE F == [p \in Peers |-> Disconnect(s, p)]
             f == [p \in Peers |-> IF p \in ps THEN F[p].peer[p] ELSE s.peer[p]]
  <1>1. \A p \in Peers : F[p] = Disconnect(s, p)
    OBVIOUS
  <1>2. f = [p \in Peers |-> IF p \in ps THEN Disconnect(s, p).peer[p] ELSE s.peer[p]]
    OBVIOUS
  <1>3. ForEach(s, ps, Disconnect) = [s EXCEPT !.peer = f]
    BY <1>2, Zenon DEF ForEach
  <1> HIDE DEF F
  <1>4. \A p \in Peers : p \in ps => Same(s, F[p])
    <2>1. \A p \in ps : s.peer[p].list # "gone"
      BY DEF Active
    <2>2. QED
      BY <1>1, <2>1, DisconnectSame
  <1>5. Same(s, [s EXCEPT !.peer = f])
    BY <1>4, EachSame
  <1>6. QED
    BY <1>3, <1>5

\* The list of the blocks accepted lately is not tracked.
LEMMA AcceptedSame ==
  ASSUME NEW s \in States, NEW b \in Ids
  PROVE  Same(s, [s EXCEPT !.node = Accepted(@, b)])
  <1> DEFINE all == Append(s.node.most_recent, b)
             m == IF Len(all) > RecentCapacity THEN Len(all) - RecentCapacity + 1 ELSE 1
             l == SubSeq(all, m, Len(all))
             n == [s.node EXCEPT !.most_recent = l]
  <1>1. all \in Seq(Ids) /\ Len(all) \in Nat /\ RecentCapacity \in Nat
    BY BoundsAssumption DEF States, NodeRecs
  <1>2. Accepted(s.node, b) = n
    BY DEF Accepted, States, NodeRecs
  <1> HIDE DEF all
  <1>3. m \in Nat \ {0}
    BY <1>1
  <1> HIDE DEF m
  <1>4. l \in Seq(Ids)
    BY <1>1, <1>3, PartFacts
  <1> HIDE DEF l
  <1>5. n \in NodeRecs /\ n.active_sync_requests = s.node.active_sync_requests
        /\ n.handling = s.node.handling /\ n.handled = s.node.handled
    BY <1>4 DEF States, NodeRecs
  <1> HIDE DEF n
  <1>6. [s EXCEPT !.node = Accepted(@, b)] = [s EXCEPT !.node = n]
    BY <1>2 DEF States
  <1>7. Same(s, [s EXCEPT !.node = n])
    BY <1>5 DEF Same, States
  <1>8. QED
    BY <1>6, <1>7

\* Giving a block out of the lists.
LEMMA PopFromSame ==
  ASSUME NEW s \in States, NEW b \in Ids
  PROVE  Same(s, PopFrom(s, Heads(s, b), b))
  <1> DEFINE ps == Heads(s, b)
             r(p) == [s.peer[p] EXCEPT !.ids_of_items_to_get = Tail(@), !.ids_of_items_being_processed = @ \cup {b}]
             f == [p \in Peers |-> IF p \in ps THEN r(p) ELSE s.peer[p]]
  <1>1. PopFrom(s, ps, b) = [s EXCEPT !.peer = f]
    BY DEF PopFrom
  <1>2. ASSUME NEW p \in Peers
        PROVE  /\ f[p] \in PeerRecs
               /\ f[p].sync_items_requested_from_peer = s.peer[p].sync_items_requested_from_peer
               /\ f[p].list = s.peer[p].list
               /\ Climbs(s.peer[p].ids_of_items_to_get) => Climbs(f[p].ids_of_items_to_get)
    <2>1. CASE p \in ps
      <3> DEFINE l == s.peer[p].ids_of_items_to_get
      <3>1. f[p] = r(p)
        BY <2>1
      <3>2. l \in Seq(Ids) /\ l # <<>>
        BY <2>1 DEF Heads, States, PeerRecs
      <3>3. Tail(l) \in Seq(Ids) /\ (Climbs(l) => Climbs(Tail(l)))
        <4> HIDE DEF l
        <4>1. Tail(l) \in Seq(Ids)
          BY <3>2
        <4>2. QED
          BY <3>2, <4>1, TailClimbs
      <3>4. /\ r(p) \in PeerRecs /\ r(p).ids_of_items_to_get = Tail(l) /\ r(p).list = s.peer[p].list
            /\ r(p).sync_items_requested_from_peer = s.peer[p].sync_items_requested_from_peer
        BY <3>3, ZenonT(60) DEF States, PeerRecs
      <3> HIDE DEF f, r
      <3>5. QED
        BY <3>1, <3>3, <3>4
    <2>2. CASE p \notin ps
      <3>1. f[p] = s.peer[p]
        BY <2>2
      <3> HIDE DEF f
      <3>2. QED
        BY <3>1 DEF States
    <2>3. QED
      BY <2>1, <2>2
  <1>3. f \in [Peers -> PeerRecs]
    BY <1>2
  <1> HIDE DEF f
  <1>4. QED
    BY <1>1, <1>2, <1>3, PeersSame

\* What follows the answer of the chain.
LEMMA SyncBlockAcceptedSame ==
  ASSUME NEW s \in States, NEW b \in Ids
  PROVE  Same(s, SyncBlockAccepted(s, b))
  <1> DEFINE nothing_listed == {p \in Active(s) : /\ s.peer[p].ids_of_items_to_get = <<>>
                                             /\ s.peer[p].ids_of_items_being_processed = {}}
             to_sync == {p \in nothing_listed : /\ ~ s.peer[p].peer_needs_sync_items_from_us
                                           /\ ~ s.peer[p].we_need_sync_items_from_peer}
             offered == {p \in Active(s) \ nothing_listed : b \in s.peer[p].ids_of_items_being_processed}
             f == [p \in Peers |->
                IF p \in offered
                THEN [s.peer[p] EXCEPT !.last_block_delegate_has_seen = b,
                                       !.last_block_number_delegate_has_seen = Len(b),
                                       !.ids_of_items_being_processed = @ \ {b}]
                ELSE s.peer[p]]
             t == [s EXCEPT !.peer = f]
             newly_empty == {p \in offered : /\ t.peer[p].ids_of_items_to_get = <<>>
                                        /\ t.peer[p].number_of_unfetched_item_ids = 0
                                        /\ t.peer[p].ids_of_items_being_processed = {}}
             u == ForEach(t, newly_empty, FetchNextBatch)
  <1>1. SyncBlockAccepted(s, b) = ForEach(u, to_sync, StartSynchronizing)
    BY Zenon DEF SyncBlockAccepted
  <1>2. ASSUME NEW p \in Peers
        PROVE  /\ f[p] \in PeerRecs
               /\ f[p].sync_items_requested_from_peer = s.peer[p].sync_items_requested_from_peer
               /\ f[p].list = s.peer[p].list
               /\ f[p].ids_of_items_to_get = s.peer[p].ids_of_items_to_get
    <2> DEFINE r == [s.peer[p] EXCEPT !.last_block_delegate_has_seen = b,
                                       !.last_block_number_delegate_has_seen = Len(b),
                                       !.ids_of_items_being_processed = @ \ {b}]
    <2>1. Len(b) \in Nat
      BY DEF Ids
    <2>2. /\ r \in PeerRecs /\ r.ids_of_items_to_get = s.peer[p].ids_of_items_to_get /\ r.list = s.peer[p].list
          /\ r.sync_items_requested_from_peer = s.peer[p].sync_items_requested_from_peer
      BY <2>1, ZenonT(60) DEF States, PeerRecs
    <2>3. f[p] = IF p \in offered THEN r ELSE s.peer[p]
      OBVIOUS
    <2> HIDE DEF f, r, offered
    <2>4. s.peer[p] \in PeerRecs
      BY DEF States
    <2>5. QED
      BY <2>2, <2>3, <2>4
  <1>3. f \in [Peers -> PeerRecs]
    BY <1>2
  <1> HIDE DEF f, to_sync, offered
  <1>4. Same(s, t) /\ t \in States
    BY <1>2, <1>3, PeersSame, SameState
  <1> HIDE DEF t, newly_empty
  <1>5. Same(t, u) /\ u \in States
    BY <1>4, EachFetchSame, SameState
  <1> HIDE DEF u
  <1>6. Same(u, ForEach(u, to_sync, StartSynchronizing))
    BY <1>5, EachStartSame
  <1>7. Same(s, u)
    BY <1>4, <1>5, SameTrans
  <1>8. QED
    BY <1>1, <1>6, <1>7, SameTrans

\* A refused sync block sends away the peers that listed it.
LEMMA SyncBlockRejectedSame ==
  ASSUME NEW s \in States, NEW b
  PROVE  Same(s, SyncBlockRejected(s, b))
  <1> DEFINE ps == {p \in Active(s) : b \in s.peer[p].ids_of_items_being_processed}
  <1>1. ps \subseteq Active(s)
    OBVIOUS
  <1>2. SyncBlockRejected(s, b) = ForEach(s, ps, Disconnect)
    BY Zenon DEF SyncBlockRejected
  <1> HIDE DEF ps
  <1>3. QED
    BY <1>1, <1>2, EachDisconnectSame

\* A refused advertised block sends away the peers whose list it heads.
LEMMA NormalBlockRejectedSame ==
  ASSUME NEW s \in States, NEW b
  PROVE  Same(s, NormalBlockRejected(s, b))
  <1>1. Heads(s, b) \subseteq Active(s)
    BY DEF Heads
  <1>2. QED
    BY <1>1, EachDisconnectSame DEF NormalBlockRejected

\* An accepted advertised block is told to other peers.
LEMMA NormalBlockAcceptedSame ==
  ASSUME NEW s \in States, NEW b \in Ids
  PROVE  Same(s, NormalBlockAccepted(s, b))
  <1> DEFINE f == [p \in Peers |->
                LET r == s.peer[p] IN
                CASE r.list # "active" -> r
                  [] r.list = "active" /\ b \in r.inventory_peer_advertised_to_us ->
                       [r EXCEPT !.last_block_delegate_has_seen = b,
                                 !.last_block_number_delegate_has_seen = Len(b)]
                  [] OTHER -> [r EXCEPT !.inventory_advertised_to_peer =
                                            IF r.peer_needs_sync_items_from_us THEN @ ELSE @ \cup {b}]]
             t == [s EXCEPT !.node = Accepted(@, b)]
  <1>1. NormalBlockAccepted(s, b) = [t EXCEPT !.peer = f]
    BY DEF NormalBlockAccepted, States
  <1>2. Same(s, t) /\ t \in States
    BY AcceptedSame, SameState
  <1>3. t.peer = s.peer
    BY DEF States
  <1> HIDE DEF t
  <1>4. ASSUME NEW p \in Peers
        PROVE  /\ f[p] \in PeerRecs
               /\ f[p].sync_items_requested_from_peer = s.peer[p].sync_items_requested_from_peer
               /\ f[p].list = s.peer[p].list
               /\ f[p].ids_of_items_to_get = s.peer[p].ids_of_items_to_get
    <2> DEFINE r == s.peer[p]
               x == [r EXCEPT !.last_block_delegate_has_seen = b,
                                 !.last_block_number_delegate_has_seen = Len(b)]
               y == [r EXCEPT !.inventory_advertised_to_peer =
                                            IF r.peer_needs_sync_items_from_us THEN @ ELSE @ \cup {b}]
    <2>1. Len(b) \in Nat
      BY DEF Ids
    <2>2. r \in PeerRecs
      BY DEF States
    <2>3. f[p] \in {r, x, y}
      <3>1. f[p] = CASE r.list # "active" -> r
                     [] r.list = "active" /\ b \in r.inventory_peer_advertised_to_us -> x
                     [] OTHER -> y
        OBVIOUS
      <3> HIDE DEF f, x, y, r
      <3>2. QED
        BY <3>1
    <2> HIDE DEF r, f
    <2>4. /\ x \in PeerRecs /\ x.ids_of_items_to_get = r.ids_of_items_to_get /\ x.list = r.list
          /\ x.sync_items_requested_from_peer = r.sync_items_requested_from_peer
      BY <2>1, <2>2 DEF PeerRecs
    <2>5. /\ y \in PeerRecs /\ y.ids_of_items_to_get = r.ids_of_items_to_get /\ y.list = r.list
          /\ y.sync_items_requested_from_peer = r.sync_items_requested_from_peer
      BY <2>1, <2>2 DEF PeerRecs
    <2> HIDE DEF x, y
    <2>6. QED
      BY <2>2, <2>3, <2>4, <2>5 DEF r
  <1>5. f \in [Peers -> PeerRecs]
    BY <1>4
  <1> HIDE DEF f
  <1>6. Same(t, [t EXCEPT !.peer = f])
    BY <1>2, <1>3, <1>4, <1>5, PeersSame
  <1>7. QED
    BY <1>1, <1>2, <1>6, SameTrans

\* A wake-up of fetch_items_loop.
LEMMA TriggerItemsSame ==
  ASSUME NEW s \in States, NEW p
  PROVE  Same(s, TriggerItemsIfIdle(s, p))
  <1>1. (s.node.items_due \/ Idle(s, p)) \in BOOLEAN
    OBVIOUS
  <1> DEFINE n == [s.node EXCEPT !.items_due = @ \/ Idle(s, p)]
  <1>2. n \in NodeRecs /\ n.active_sync_requests = s.node.active_sync_requests
        /\ n.handling = s.node.handling /\ n.handled = s.node.handled
    BY <1>1 DEF States, NodeRecs
  <1>3. TriggerItemsIfIdle(s, p) = [s EXCEPT !.node = n]
    BY DEF TriggerItemsIfIdle, States
  <1> HIDE DEF n
  <1>4. QED
    BY <1>2, <1>3 DEF Same, States

----------------------------------------------------------------------------
(* Blocks in progress.                                                     *)

\* The sync blocks in a queue of the chain thread.
SyncBlocks(q) == {i \in DOMAIN q : q[i].from = {}}

\* The sync blocks in a queue can be counted.
LEMMA SyncBlocksFinite ==
  ASSUME NEW S, NEW q \in Seq(S)
  PROVE  IsFiniteSet(SyncBlocks(q)) /\ Cardinality(SyncBlocks(q)) \in Nat
  <1>1. IsFiniteSet(DOMAIN q)
    <2>1. DOMAIN q = 1 .. Len(q) /\ Len(q) \in Nat
      OBVIOUS
    <2>2. QED
      BY <2>1, FS_Interval
  <1>2. SyncBlocks(q) \subseteq DOMAIN q
    BY DEF SyncBlocks
  <1>3. QED
    BY <1>1, <1>2, FS_Subset, FS_CardinalityType

\* One more in the queue counts if it is a sync block.
LEMMA SyncBlocksAppend ==
  ASSUME NEW S, NEW q \in Seq(S), NEW e \in S
  PROVE  Cardinality(SyncBlocks(Append(q, e)))
           = Cardinality(SyncBlocks(q)) + (IF e.from = {} THEN 1 ELSE 0)
  <1> DEFINE t == Append(q, e)
             n == Len(q) + 1
  <1>1. /\ t \in Seq(S) /\ DOMAIN t = 1 .. n /\ DOMAIN q = 1 .. Len(q) /\ Len(q) \in Nat
        /\ t[n] = e /\ \A i \in 1 .. Len(q) : t[i] = q[i]
    BY AppendProperties
  <1> HIDE DEF t
  <1>2. IsFiniteSet(SyncBlocks(q)) /\ Cardinality(SyncBlocks(q)) \in Nat
    BY SyncBlocksFinite
  <1>3. n \notin SyncBlocks(q)
    BY <1>1 DEF SyncBlocks
  <1>4. CASE e.from = {}
    <2>1. SyncBlocks(t) = SyncBlocks(q) \cup {n}
      BY <1>1, <1>4 DEF SyncBlocks
    <2>2. Cardinality(SyncBlocks(q) \cup {n}) = Cardinality(SyncBlocks(q)) + 1
      BY <1>2, <1>3, FS_AddElement
    <2>3. QED
      BY <1>4, <2>1, <2>2 DEF t
  <1>5. CASE e.from # {}
    <2>1. SyncBlocks(t) = SyncBlocks(q)
      BY <1>1, <1>5 DEF SyncBlocks
    <2>2. QED
      BY <1>2, <1>5, <2>1 DEF t
  <1>6. QED
    BY <1>4, <1>5

\* One less in the queue.
LEMMA SyncBlocksTail ==
  ASSUME NEW S, NEW q \in Seq(S), q # <<>>
  PROVE  Cardinality(SyncBlocks(q))
           = Cardinality(SyncBlocks(Tail(q))) + (IF Head(q).from = {} THEN 1 ELSE 0)
  <1> DEFINE t == Tail(q)
  <1>1. /\ t \in Seq(S) /\ DOMAIN t = 1 .. Len(q) - 1 /\ DOMAIN q = 1 .. Len(q) /\ Len(q) \in Nat \ {0}
        /\ Head(q) = q[1] /\ \A i \in 1 .. Len(q) - 1 : t[i] = q[i + 1]
    <2>1. /\ t \in Seq(S) /\ Len(t) = Len(q) - 1 /\ Len(q) \in Nat \ {0} /\ Head(q) = q[1]
          /\ \A i \in 1 .. Len(t) : t[i] = q[i + 1]
      BY HeadTailProperties, EmptySeq
    <2>2. DOMAIN t = 1 .. Len(t) /\ DOMAIN q = 1 .. Len(q)
      BY <2>1
    <2>3. QED
      BY <2>1, <2>2
  <1> HIDE DEF t
  <1>2. IsFiniteSet(SyncBlocks(t)) /\ Cardinality(SyncBlocks(t)) \in Nat
    BY <1>1, SyncBlocksFinite
  <1> DEFINE R == SyncBlocks(q) \ {1}
             f == [i \in SyncBlocks(t) |-> i + 1]
  <1>3. f \in Bijection(SyncBlocks(t), R)
    <2>1. ASSUME NEW i \in SyncBlocks(t)
          PROVE  i + 1 \in R
      BY <1>1 DEF SyncBlocks
    <2>2. ASSUME NEW i \in SyncBlocks(t), NEW j \in SyncBlocks(t), f[i] = f[j]
          PROVE  i = j
      BY <1>1, <2>2 DEF SyncBlocks
    <2>3. ASSUME NEW j \in R
          PROVE  \E i \in SyncBlocks(t) : f[i] = j
      <3>1. j \in 2 .. Len(q) /\ q[j].from = {}
        BY <1>1 DEF SyncBlocks
      <3>2. j - 1 \in 1 .. Len(q) - 1 /\ j - 1 + 1 = j
        BY <1>1, <3>1
      <3>3. j - 1 \in SyncBlocks(t)
        BY <1>1, <3>1, <3>2 DEF SyncBlocks
      <3>4. QED
        BY <3>2, <3>3
    <2> HIDE DEF R
    <2>4. f \in [SyncBlocks(t) -> R]
      BY <2>1
    <2>5. DOMAIN f = SyncBlocks(t)
      OBVIOUS
    <2> HIDE DEF f
    <2>6. f \in Injection(SyncBlocks(t), R)
      BY <2>2, <2>4, <2>5 DEF Injection, IsInjective
    <2>7. f \in Surjection(SyncBlocks(t), R)
      BY <2>3, <2>4 DEF Surjection
    <2>8. QED
      BY <2>6, <2>7 DEF Bijection
  <1> HIDE DEF f
  <1>4. IsFiniteSet(R) /\ Cardinality(R) = Cardinality(SyncBlocks(t))
    <2>1. ExistsBijection(SyncBlocks(t), R)
      BY <1>3 DEF ExistsBijection
    <2> HIDE DEF R
    <2>2. QED
      BY <1>2, <2>1, FS_Bijection
  <1>5. CASE Head(q).from = {}
    <2>1. SyncBlocks(q) = R \cup {1} /\ 1 \notin R
      BY <1>1, <1>5 DEF SyncBlocks
    <2> HIDE DEF R
    <2>2. Cardinality(R \cup {1}) = Cardinality(R) + 1
      BY <1>4, <2>1, FS_AddElement
    <2>3. QED
      BY <1>4, <1>5, <2>1, <2>2 DEF t
  <1>6. CASE Head(q).from # {}
    <2>1. SyncBlocks(q) = R
      BY <1>1, <1>6 DEF SyncBlocks
    <2> HIDE DEF R
    <2>2. QED
      BY <1>2, <1>4, <1>6, <2>1 DEF t
  <1>7. QED
    BY <1>5, <1>6

----------------------------------------------------------------------------
(* The loops.                                                              *)

\* What holds before a fold and is kept by its steps holds after it.
LEMMA FoldStays ==
  ASSUME NEW S, IsFiniteSet(S), S \subseteq Nat, NEW A, NEW h, h[{}] \in A,
         \A T \in SUBSET S : T # {} /\ h[T \ {Max(T)}] \in A => h[T] \in A
  PROVE  h[S] \in A
  <1> DEFINE G == {T \in SUBSET S : h[T] \in A}
  <1>1. ASSUME NEW T \in SUBSET S, \A x \in T : T \ {x} \in G
        PROVE  T \in G
    <2>1. CASE T = {}
      BY <2>1
    <2>2. CASE T # {}
      <3>1. Max(T) \in T
        BY <2>2, MaxOfFinite
      <3>2. h[T \ {Max(T)}] \in A
        BY <1>1, <3>1
      <3>3. QED
        BY <2>2, <3>2
    <2>3. QED
      BY <2>1, <2>2
  <1> HIDE DEF G
  <1>2. \A T \in SUBSET S : T \in G
    BY <1>1, SubsetInduction
  <1>3. QED
    BY <1>2 DEF G

\* The turns of the peers in fetch_sync_items_loop, by the sets of turns taken.
RequestTurn(order, start, g, T) ==
    IF T = {} THEN start ELSE LET x == Max(T) IN RequestFrom(g[T \ {x}], order[x])
RequestTurns(order, start, g) == g = [T \in SUBSET DOMAIN order |-> RequestTurn(order, start, g, T)]
Requests(order, start) == FoldLeft(RequestFrom, start, order)

\* The fold is the function it chooses.
LEMMA RequestsUnfold ==
  ASSUME NEW order, NEW start
  PROVE  Requests(order, start) = (CHOOSE g : RequestTurns(order, start, g))[DOMAIN order]
  BY DEF Requests, FoldLeft, MapThenFoldSet, RequestTurns, RequestTurn

\* What every turn of fetch_sync_items_loop keeps, the loop keeps.
LEMMA RequestsStay ==
  ASSUME NEW order, IsFiniteSet(DOMAIN order), DOMAIN order \subseteq Nat,
         NEW A, NEW start \in A, \A s \in A : \A i \in DOMAIN order : RequestFrom(s, order[i]) \in A
  PROVE  Requests(order, start) \in A
  <1> DEFINE S == DOMAIN order
             st == [i \in S |-> [s \in A |-> RequestFrom(s, order[i])]]
             h == CHOOSE g : RequestTurns(order, start, g)
  <1>1. st \in [S -> [A -> A]] /\ \A i \in S : \A s \in A : st[i][s] = RequestFrom(s, order[i])
    OBVIOUS
  <1> HIDE DEF st
  <1>2. PICK g : Folded(st, start, S, g) /\ g = [T \in SUBSET S |-> g[T]] /\ \A T \in SUBSET S : g[T] \in A
    BY <1>1, FoldsExist
  <1>3. ASSUME NEW T \in SUBSET S
        PROVE  g[T] = RequestTurn(order, start, g, T)
    <2>1. g[T] = FoldStep(st, start, g, T)
      BY <1>2 DEF Folded
    <2>2. CASE T = {}
      BY <2>1, <2>2 DEF FoldStep, RequestTurn
    <2>3. CASE T # {}
      <3> DEFINE x == Max(T)
      <3>1. x \in S
        BY <2>3, MaxOfFinite
      <3>2. g[T] = st[x][g[T \ {x}]]
        BY <2>1, <2>3 DEF FoldStep
      <3> HIDE DEF x
      <3>3. g[T \ {x}] \in A
        BY <1>2
      <3>4. g[T] = RequestFrom(g[T \ {x}], order[x])
        BY <1>1, <3>1, <3>2, <3>3
      <3>5. QED
        BY <2>3, <3>4 DEF RequestTurn, x
    <2>4. QED
      BY <2>2, <2>3
  <1>4. RequestTurns(order, start, h)
    <2>1. RequestTurns(order, start, g)
      BY <1>2, <1>3 DEF RequestTurns
    <2>2. QED
      BY <2>1
  <1> HIDE DEF h
  <1>5. \A T \in SUBSET S : h[T] = RequestTurn(order, start, h, T)
    BY <1>4 DEF RequestTurns
  <1>6. h[{}] \in A
    BY <1>5 DEF RequestTurn
  <1>7. \A T \in SUBSET S : T # {} /\ h[T \ {Max(T)}] \in A => h[T] \in A
    <2> SUFFICES ASSUME NEW T \in SUBSET S, T # {}, h[T \ {Max(T)}] \in A
                 PROVE  h[T] \in A
      OBVIOUS
    <2>1. Max(T) \in S
      BY MaxOfFinite
    <2>2. h[T] = RequestFrom(h[T \ {Max(T)}], order[Max(T)])
      BY <1>5 DEF RequestTurn
    <2>3. QED
      BY <2>1, <2>2
  <1>8. h[S] \in A
    BY <1>6, <1>7, FoldStays
  <1>9. QED
    BY <1>8, RequestsUnfold DEF h

\* The turns of the items in fetch_items_loop.
ItemTurn(list, order, start, g, T) ==
    IF T = {} THEN start ELSE LET x == Max(T) IN FetchItem(g[T \ {x}], list[x], order)
ItemTurns(list, order, start, g) == g = [T \in SUBSET DOMAIN list |-> ItemTurn(list, order, start, g, T)]
Items(list, order, start) == FoldLeft(LAMBDA s, b : FetchItem(s, b, order), start, list)

\* The fold is the function it chooses.
LEMMA ItemsUnfold ==
  ASSUME NEW list, NEW order, NEW start
  PROVE  Items(list, order, start) = (CHOOSE g : ItemTurns(list, order, start, g))[DOMAIN list]
  BY DEF Items, FoldLeft, MapThenFoldSet, ItemTurns, ItemTurn

\* What every turn of fetch_items_loop keeps, the loop keeps.
LEMMA ItemsStay ==
  ASSUME NEW list, NEW order, IsFiniteSet(DOMAIN list), DOMAIN list \subseteq Nat,
         NEW A, NEW start \in A, \A s \in A : \A i \in DOMAIN list : FetchItem(s, list[i], order) \in A
  PROVE  Items(list, order, start) \in A
  <1> DEFINE S == DOMAIN list
             st == [i \in S |-> [s \in A |-> FetchItem(s, list[i], order)]]
             h == CHOOSE g : ItemTurns(list, order, start, g)
  <1>1. st \in [S -> [A -> A]] /\ \A i \in S : \A s \in A : st[i][s] = FetchItem(s, list[i], order)
    OBVIOUS
  <1> HIDE DEF st
  <1>2. PICK g : Folded(st, start, S, g) /\ g = [T \in SUBSET S |-> g[T]] /\ \A T \in SUBSET S : g[T] \in A
    BY <1>1, FoldsExist
  <1>3. ASSUME NEW T \in SUBSET S
        PROVE  g[T] = ItemTurn(list, order, start, g, T)
    <2>1. g[T] = FoldStep(st, start, g, T)
      BY <1>2 DEF Folded
    <2>2. CASE T = {}
      BY <2>1, <2>2 DEF FoldStep, ItemTurn
    <2>3. CASE T # {}
      <3> DEFINE x == Max(T)
      <3>1. x \in S
        BY <2>3, MaxOfFinite
      <3>2. g[T] = st[x][g[T \ {x}]]
        BY <2>1, <2>3 DEF FoldStep
      <3> HIDE DEF x
      <3>3. g[T \ {x}] \in A
        BY <1>2
      <3>4. g[T] = FetchItem(g[T \ {x}], list[x], order)
        BY <1>1, <3>1, <3>2, <3>3
      <3>5. QED
        BY <2>3, <3>4 DEF ItemTurn, x
    <2>4. QED
      BY <2>2, <2>3
  <1>4. ItemTurns(list, order, start, h)
    <2>1. ItemTurns(list, order, start, g)
      BY <1>2, <1>3 DEF ItemTurns
    <2>2. QED
      BY <2>1
  <1> HIDE DEF h
  <1>5. \A T \in SUBSET S : h[T] = ItemTurn(list, order, start, h, T)
    BY <1>4 DEF ItemTurns
  <1>6. h[{}] \in A
    BY <1>5 DEF ItemTurn
  <1>7. \A T \in SUBSET S : T # {} /\ h[T \ {Max(T)}] \in A => h[T] \in A
    <2> SUFFICES ASSUME NEW T \in SUBSET S, T # {}, h[T \ {Max(T)}] \in A
                 PROVE  h[T] \in A
      OBVIOUS
    <2>1. Max(T) \in S
      BY MaxOfFinite
    <2>2. h[T] = FetchItem(h[T \ {Max(T)}], list[Max(T)], order)
      BY <1>5 DEF ItemTurn
    <2>3. QED
      BY <2>1, <2>2
  <1>8. h[S] \in A
    BY <1>6, <1>7, FoldStays
  <1>9. QED
    BY <1>8, ItemsUnfold DEF h

\* The turns of process_backlog_of_sync_blocks.
BacklogTurn(list, start, g, T) ==
    IF T = {} THEN start ELSE LET x == Max(T) IN BacklogStep(g[T \ {x}])
BacklogTurns(list, start, g) == g = [T \in SUBSET DOMAIN list |-> BacklogTurn(list, start, g, T)]
Steps(list, start) == FoldLeft(LAMBDA acc, x : BacklogStep(acc), start, list)

\* The fold is the function it chooses.
LEMMA StepsUnfold ==
  ASSUME NEW list, NEW start
  PROVE  Steps(list, start) = (CHOOSE g : BacklogTurns(list, start, g))[DOMAIN list]
  BY DEF Steps, FoldLeft, MapThenFoldSet, BacklogTurns, BacklogTurn

\* What every turn of the backlog keeps, the loop keeps.
LEMMA StepsStay ==
  ASSUME NEW list, IsFiniteSet(DOMAIN list), DOMAIN list \subseteq Nat,
         NEW A, NEW start \in A, \A s \in A : BacklogStep(s) \in A
  PROVE  Steps(list, start) \in A
  <1> DEFINE S == DOMAIN list
             st == [i \in S |-> [s \in A |-> BacklogStep(s)]]
             h == CHOOSE g : BacklogTurns(list, start, g)
  <1>1. st \in [S -> [A -> A]] /\ \A i \in S : \A s \in A : st[i][s] = BacklogStep(s)
    OBVIOUS
  <1> HIDE DEF st
  <1>2. PICK g : Folded(st, start, S, g) /\ g = [T \in SUBSET S |-> g[T]] /\ \A T \in SUBSET S : g[T] \in A
    BY <1>1, FoldsExist
  <1>3. ASSUME NEW T \in SUBSET S
        PROVE  g[T] = BacklogTurn(list, start, g, T)
    <2>1. g[T] = FoldStep(st, start, g, T)
      BY <1>2 DEF Folded
    <2>2. CASE T = {}
      BY <2>1, <2>2 DEF FoldStep, BacklogTurn
    <2>3. CASE T # {}
      <3> DEFINE x == Max(T)
      <3>1. x \in S
        BY <2>3, MaxOfFinite
      <3>2. g[T] = st[x][g[T \ {x}]]
        BY <2>1, <2>3 DEF FoldStep
      <3> HIDE DEF x
      <3>3. g[T \ {x}] \in A
        BY <1>2
      <3>4. g[T] = BacklogStep(g[T \ {x}])
        BY <1>1, <3>1, <3>2, <3>3
      <3>5. QED
        BY <2>3, <3>4 DEF BacklogTurn, x
    <2>4. QED
      BY <2>2, <2>3
  <1>4. BacklogTurns(list, start, h)
    <2>1. BacklogTurns(list, start, g)
      BY <1>2, <1>3 DEF BacklogTurns
    <2>2. QED
      BY <2>1
  <1> HIDE DEF h
  <1>5. \A T \in SUBSET S : h[T] = BacklogTurn(list, start, h, T)
    BY <1>4 DEF BacklogTurns
  <1>6. h[{}] \in A
    BY <1>5 DEF BacklogTurn
  <1>7. \A T \in SUBSET S : T # {} /\ h[T \ {Max(T)}] \in A => h[T] \in A
    <2> SUFFICES ASSUME NEW T \in SUBSET S, T # {}, h[T \ {Max(T)}] \in A
                 PROVE  h[T] \in A
      OBVIOUS
    <2>1. Max(T) \in S
      BY MaxOfFinite
    <2>2. h[T] = BacklogStep(h[T \ {Max(T)}])
      BY <1>5 DEF BacklogTurn
    <2>3. QED
      BY <2>1, <2>2
  <1>8. h[S] \in A
    BY <1>6, <1>7, FoldStays
  <1>9. QED
    BY <1>8, StepsUnfold DEF h

\* The blocks are among the ids.
LEMMA BlockIds == Blocks \subseteq Ids
  <1> SUFFICES ASSUME NEW b \in Blocks
               PROVE  b \in Ids
    OBVIOUS
  <1>1. b \in Seq(Range(b))
    BY BlocksAssumption
  <1>2. Range(b) \subseteq Letters
    BY DEF Letters
  <1>3. \A x \in Seq(Range(b)) : x \in Seq(Letters)
    BY <1>2
  <1>4. QED
    BY <1>1, <1>3 DEF Ids

\* An advertisement.
LEMMA OnInventorySame ==
  ASSUME NEW s \in States, NEW p \in Peers, NEW b \in Ids
  PROVE  Same(s, OnInventory(s, p, b))
  <1> DEFINE x == s.peer[p].inventory_peer_advertised_to_us \cup {b}
             t == [s EXCEPT !.peer[p].inventory_peer_advertised_to_us = x]
             l == Append(s.node.items_to_fetch, b)
             n == [s.node EXCEPT !.items_to_fetch = l, !.items_due = TRUE]
             u == [t EXCEPT !.node = n]
  <1>1. OnInventory(s, p, b) \in {s, t, u}
    <2> DEFINE t2 == [s EXCEPT !.peer[p].inventory_peer_advertised_to_us = @ \cup {b}]
               u2 == [t2 EXCEPT !.node.items_to_fetch = Append(@, b), !.node.items_due = TRUE]
    <2>1. OnInventory(s, p, b) \in {s, t2, u2}
      BY DEF OnInventory
    <2>2. t2 = t
      BY DEF States, PeerRecs
    <2>3. t.node = s.node /\ t = [node |-> t.node, peer |-> t.peer]
      BY DEF States
    <2>4. u2 = u
      <3> HIDE DEF t, t2
      <3>1. u2 = [t EXCEPT !.node.items_to_fetch = Append(@, b), !.node.items_due = TRUE]
        BY <2>2
      <3>2. t.node \in NodeRecs
        BY <2>3 DEF States
      <3>3. QED
        BY <2>3, <3>1, <3>2 DEF NodeRecs
    <2> HIDE DEF t, t2, u, u2
    <2>5. QED
      BY <2>1, <2>2, <2>4
  <1>2. x \in SUBSET Ids /\ l \in Seq(Ids)
    BY DEF States, PeerRecs, NodeRecs
  <1>3. t.node = s.node
    BY DEF States
  <1> HIDE DEF x, l
  <1>4. Same(s, t) /\ t \in States
    BY <1>2, FieldSame, SameState
  <1> HIDE DEF t
  <1>5. n \in NodeRecs /\ n.active_sync_requests = s.node.active_sync_requests
        /\ n.handling = s.node.handling /\ n.handled = s.node.handled
    BY <1>2 DEF States, NodeRecs
  <1> HIDE DEF n
  <1>6. Same(t, u)
    BY <1>3, <1>4, <1>5 DEF Same, States
  <1>7. Same(s, u)
    BY <1>4, <1>6, SameTrans
  <1> HIDE DEF u
  <1>8. QED
    BY <1>1, <1>4, <1>7, SameSelf

\* A turn of fetch_items_loop.
LEMMA FetchItemSame ==
  ASSUME NEW s \in States, NEW b \in Ids, NEW order \in Seq(Peers)
  PROVE  Same(s, FetchItem(s, b, order))
  <1> DEFINE holders == {i \in DOMAIN order : /\ Idle(s, order[i])
                                              /\ b \in s.peer[order[i]].inventory_peer_advertised_to_us}
             p == order[Min(holders)]
             todo == s.node.items_to_fetch
             left == Selected(todo, {i \in DOMAIN todo : todo[i] # b})
             t == [s EXCEPT !.peer[p].items_requested_from_peer = {b}]
             n == [s.node EXCEPT !.items_to_fetch = left]
             u == [t EXCEPT !.node = n]
  <1>1. CASE holders = {}
    <2>1. FetchItem(s, b, order) = s
      BY <1>1 DEF FetchItem
    <2>2. QED
      BY <2>1, SameSelf
  <1>2. CASE holders # {}
    <2>1. FetchItem(s, b, order) = [t EXCEPT !.node.items_to_fetch = left]
      BY <1>2, Zenon DEF FetchItem
    <2>2. p \in Peers
      <3>1. holders \subseteq Nat /\ DOMAIN order = 1 .. Len(order) /\ holders \subseteq DOMAIN order
        OBVIOUS
      <3> HIDE DEF holders
      <3>2. \E i \in holders : \A j \in holders : i <= j
        BY <1>2, <3>1, LeastNat
      <3>3. Min(holders) \in holders
        BY <3>2 DEF Min
      <3>4. QED
        BY <3>1, <3>3, ElementOfSeq
    <2> HIDE DEF p
    <2>3. left \in Seq(Ids)
      <3>1. todo \in Seq(Ids)
        BY DEF States, NodeRecs
      <3> DEFINE I == {i \in DOMAIN todo : todo[i] # b}
      <3>2. I \in SUBSET DOMAIN todo
        OBVIOUS
      <3> HIDE DEF I, todo
      <3>3. Selected(todo, I) \in Seq(Ids)
        BY <3>1, <3>2, SelectedFacts
      <3>4. QED
        BY <3>3 DEF I
    <2> HIDE DEF left
    <2>4. t.node = s.node
      BY DEF States
    <2>5. {b} \in FiniteIds
      BY FS_Singleton DEF FiniteIds
    <2>6. Same(s, t) /\ t \in States
      BY <2>2, <2>5, FieldSame, SameState
    <2> HIDE DEF t
    <2>7. n \in NodeRecs /\ n.active_sync_requests = s.node.active_sync_requests
          /\ n.handling = s.node.handling /\ n.handled = s.node.handled
      BY <2>3 DEF States, NodeRecs
    <2>8. [t EXCEPT !.node.items_to_fetch = left] = u
      BY <2>4, <2>6 DEF States, NodeRecs
    <2> HIDE DEF n
    <2>9. Same(t, u)
      BY <2>4, <2>6, <2>7 DEF Same, States
    <2>10. QED
      BY <2>1, <2>6, <2>8, <2>9, SameTrans
  <1>3. QED
    BY <1>1, <1>2

\* fetch_items_loop asks for advertised blocks and leaves sync blocks alone.
LEMMA ItemsSame ==
  ASSUME NEW s \in States, NEW list \in Seq(Ids), NEW order \in Seq(Peers)
  PROVE  Same(s, Items(list, order, s))
  <1> DEFINE A == {t \in States : Same(s, t)}
  <1>1. s \in A
    BY SameSelf
  <1>2. \A i \in DOMAIN list : list[i] \in Ids
    BY ElementOfSeq
  <1>3. \A t \in A : \A i \in DOMAIN list : FetchItem(t, list[i], order) \in A
    <2> TAKE t \in A
    <2> TAKE i \in DOMAIN list
    <2>1. Same(t, FetchItem(t, list[i], order))
      BY <1>2, FetchItemSame
    <2>2. Same(s, FetchItem(t, list[i], order))
      BY <2>1, SameTrans
    <2>3. QED
      BY <2>2, SameState
  <1>4. IsFiniteSet(DOMAIN list) /\ DOMAIN list \subseteq Nat
    <2>1. DOMAIN list = 1 .. Len(list) /\ Len(list) \in Nat
      OBVIOUS
    <2>2. QED
      BY <2>1, FS_Interval
  <1>5. Items(list, order, s) \in A
    <2> HIDE DEF A
    <2>1. QED
      BY <1>1, <1>3, <1>4, ItemsStay
  <1>6. QED
    BY <1>5

----------------------------------------------------------------------------
(* What is asked for.                                                      *)

\* The blocks asked from a peer, in the state s.
Asked(s, p) == Range(s.peer[p].sync_items_requested_from_peer)

\* The blocks that some peer may lack.
Lacking == UNION {remote[p].lacks : p \in Peers}

Good(s, L) ==
    /\ s \in States
    /\ \A p \in Peers :
         /\ Climbs(s.peer[p].ids_of_items_to_get)
         /\ Distinct(s.peer[p].sync_items_requested_from_peer)
         /\ Len(s.peer[p].sync_items_requested_from_peer) <= MaxPerPeer
         /\ s.peer[p].list = "gone" => s.peer[p].sync_items_requested_from_peer = <<>>
         /\ Asked(s, p) \subseteq s.node.active_sync_requests
    /\ \A b \in s.node.active_sync_requests : b \in L \/ \E p \in Peers : b \in Asked(s, p)
    /\ \A p, q \in Peers : p # q => Asked(s, p) \cap Asked(s, q) = {}
    /\ InProgress(s) <= MaxHandling

\* A state that keeps what is tracked keeps it well.
LEMMA SameGood ==
  ASSUME NEW L, NEW s, NEW t, Good(s, L), Same(s, t)
  PROVE  Good(t, L)
  <1>1. t \in States
    BY DEF Same
  <1>2. \A p \in Peers : Asked(t, p) = Asked(s, p)
    BY DEF Same, Asked
  <1>3. InProgress(t) = InProgress(s)
    BY DEF Same, InProgress
  <1>4. \A p \in Peers :
         /\ Climbs(t.peer[p].ids_of_items_to_get)
         /\ t.peer[p].sync_items_requested_from_peer = s.peer[p].sync_items_requested_from_peer
         /\ t.peer[p].list = "gone" => s.peer[p].list = "gone"
    BY DEF Same, Good
  <1>5. t.node.active_sync_requests = s.node.active_sync_requests
    BY DEF Same
  <1>6. QED
    BY <1>1, <1>2, <1>3, <1>4, <1>5 DEF Good

\* A turn of fetch_sync_items_loop asks for blocks that nobody was asked for.
LEMMA RequestFromGood ==
  ASSUME NEW L, NEW s, Good(s, L), NEW p \in Peers, s.peer[p].list # "gone"
  PROVE  /\ Good(RequestFrom(s, p), L)
         /\ \A q \in Peers : RequestFrom(s, p).peer[q].list = s.peer[q].list
  <1> DEFINE todo == s.peer[p].ids_of_items_to_get
             have == Range(s.node.received) \cup Range(s.node.new_received)
             act  == s.node.active_sync_requests
             I    == {i \in DOMAIN todo : todo[i] \notin have \cup act}
             free == Selected(todo, I)
             m    == Min({Len(free), MaxPerPeer})
             ask  == SubSeq(free, 1, m)
             can  == /\ s.peer[p].we_need_sync_items_from_peer
                     /\ Idle(s, p)
                     /\ ~ s.peer[p].inhibit_fetching_sync_blocks
             t == [s EXCEPT !.peer[p].sync_items_requested_from_peer = ask,
                            !.node.active_sync_requests = @ \cup Range(ask)]
  <1>1. s \in States
    BY DEF Good
  <1>2. RequestFrom(s, p) = IF can THEN t ELSE s
    BY Zenon DEF RequestFrom
  <1>3. CASE ~ can
    <2>1. RequestFrom(s, p) = s
      BY <1>2, <1>3
    <2>2. QED
      BY <2>1
  <1>4. CASE can
    <2>1. RequestFrom(s, p) = t
      BY <1>2, <1>4
    <2>2. todo \in Seq(Ids) /\ Distinct(todo)
      <3>1. todo \in Seq(Ids)
        BY <1>1 DEF States, PeerRecs
      <3>2. Climbs(todo)
        BY DEF Good
      <3> HIDE DEF todo
      <3>3. QED
        BY <3>1, <3>2, ClimbsDistinct
    <2>3. free \in Seq(Ids) /\ Distinct(free) /\ \A k \in DOMAIN free : free[k] \notin act
      <3>1. I \in SUBSET DOMAIN todo /\ \A i \in I : todo[i] \notin act
        OBVIOUS
      <3> HIDE DEF I, todo
      <3>2. /\ free \in Seq(Ids) /\ Distinct(free)
            /\ \A k \in DOMAIN free : \E i \in I : free[k] = todo[i]
        BY <2>2, <3>1, SelectedFacts
      <3>3. QED
        BY <3>1, <3>2
    <2> HIDE DEF free
    <2>4. m \in Int /\ m <= Len(free) /\ m <= MaxPerPeer /\ m >= 0
      <3>1. Len(free) \in Nat /\ MaxPerPeer \in Nat
        BY <2>3, BoundsAssumption
      <3>2. Len(free) \in Int /\ MaxPerPeer \in Int
        BY <3>1
      <3>3. m \in Int /\ m \in {Len(free), MaxPerPeer} /\ m <= Len(free) /\ m <= MaxPerPeer
        BY <3>2, LeastOfTwo
      <3> HIDE DEF m
      <3>4. QED
        BY <3>1, <3>3
    <2> HIDE DEF m
    <2>5. /\ ask \in Seq(Ids) /\ DOMAIN ask = 1 .. m /\ Len(ask) = m /\ Len(ask) <= MaxPerPeer
          /\ \A i \in DOMAIN ask : ask[i] = free[i] /\ i \in DOMAIN free
      <3>1. /\ ask \in Seq(Ids) /\ DOMAIN ask = 1 .. (m - 1 + 1)
            /\ \A i \in DOMAIN ask : ask[i] = free[i + 1 - 1] /\ i + 1 - 1 \in DOMAIN free
        BY <2>3, <2>4, PartFacts
      <3>2. \A i \in DOMAIN ask : i + 1 - 1 = i
        BY <2>4, <3>1
      <3>3. m - 1 + 1 = m
        BY <2>4
      <3>4. Len(ask) = m
        BY <2>4, <3>1, <3>3
      <3>5. QED
        BY <2>4, <3>1, <3>2, <3>3, <3>4
    <2> HIDE DEF ask
    <2>6. Distinct(ask) /\ Range(ask) \cap act = {} /\ Range(ask) \subseteq Ids
      <3>1. Distinct(ask)
        BY <2>3, <2>5 DEF Distinct
      <3>2. \A i \in DOMAIN ask : ask[i] \in Ids
        <4>1. ask \in Seq(Ids) /\ DOMAIN ask = 1 .. Len(ask)
          BY <2>5
        <4>2. QED
          BY <4>1, ElementOfSeq
      <3>3. QED
        BY <2>3, <2>5, <3>1, <3>2 DEF Range
    <2> DEFINE r == [s.peer[p] EXCEPT !.sync_items_requested_from_peer = ask]
               n == [s.node EXCEPT !.active_sync_requests = act \cup Range(ask)]
               t1 == [s EXCEPT !.peer[p].sync_items_requested_from_peer = ask]
    <2>7. t.peer = [s.peer EXCEPT ![p] = r] /\ t.node = n /\ t = [node |-> t.node, peer |-> t.peer]
      <3>1. t = [t1 EXCEPT !.node.active_sync_requests = @ \cup Range(ask)]
        BY Zenon
      <3>2. t1.peer = [s.peer EXCEPT ![p] = r] /\ t1.node = s.node /\ t1 = [node |-> t1.node, peer |-> t1.peer]
        BY <1>1 DEF States
      <3> HIDE DEF t, t1, r
      <3>3. t.peer = t1.peer /\ t = [node |-> t.node, peer |-> t.peer]
        BY <3>1, <3>2
      <3>4. t.node = [s.node EXCEPT !.active_sync_requests = @ \cup Range(ask)]
        BY <3>1, <3>2
      <3>5. s.node \in NodeRecs
        BY <1>1 DEF States
      <3>6. [s.node EXCEPT !.active_sync_requests = @ \cup Range(ask)] = n
        BY <3>5 DEF NodeRecs
      <3>7. QED
        BY <3>2, <3>3, <3>4, <3>6
    <2> HIDE DEF t1
    <2>71. ask \in Seq(Ids) /\ s.peer[p] \in PeerRecs
      BY <1>1, <2>5 DEF States
    <2>8. /\ r \in PeerRecs /\ r.list = s.peer[p].list /\ r.sync_items_requested_from_peer = ask
          /\ r.ids_of_items_to_get = s.peer[p].ids_of_items_to_get
      BY <2>71 DEF PeerRecs
    <2>9. n \in NodeRecs /\ n.active_sync_requests = act \cup Range(ask)
          /\ n.handling = s.node.handling /\ n.handled = s.node.handled
      BY <1>1, <2>6 DEF States, NodeRecs
    <2> HIDE DEF t, r, n
    <2>10. t.peer[p] = r /\ \A q \in Peers : q # p => t.peer[q] = s.peer[q]
      BY <1>1, <2>7 DEF States
    <2>11. t \in States
      BY <1>1, <2>7, <2>8, <2>9 DEF States
    <2>12. /\ Asked(t, p) = Range(ask)
           /\ \A q \in Peers : q # p => Asked(t, q) = Asked(s, q)
      BY <2>8, <2>10 DEF Asked
    <2>13. Asked(s, p) = {}
      <3>1. s.peer[p].sync_items_requested_from_peer = <<>>
        BY <1>4 DEF Idle
      <3>2. QED
        BY <3>1 DEF Asked, Range
    <2>14. InProgress(t) = InProgress(s)
      BY <2>7, <2>9 DEF InProgress
    <2>15. \A q \in Peers : Asked(t, q) \subseteq t.node.active_sync_requests
      BY <2>7, <2>9, <2>12 DEF Good
    <2>16. \A b \in t.node.active_sync_requests : b \in L \/ \E q \in Peers : b \in Asked(t, q)
      <3> TAKE b \in t.node.active_sync_requests
      <3>1. CASE b \in Range(ask)
        BY <3>1, <2>12
      <3>2. CASE b \in act
        <4>1. b \in L \/ \E q \in Peers : b \in Asked(s, q)
          BY <3>2 DEF Good
        <4>2. QED
          BY <4>1, <2>12, <2>13
      <3>3. QED
        BY <3>1, <3>2, <2>7, <2>9
    <2>17. \A q, o \in Peers : q # o => Asked(t, q) \cap Asked(t, o) = {}
      <3>1. \A q \in Peers : q # p => Asked(t, q) \cap Range(ask) = {}
        BY <2>6, <2>12 DEF Good
      <3>2. \A q, o \in Peers : q # o /\ q # p /\ o # p => Asked(t, q) \cap Asked(t, o) = {}
        BY <2>12 DEF Good
      <3>3. QED
        BY <2>12, <3>1, <3>2
    <2>18. \A q \in Peers :
             /\ Climbs(t.peer[q].ids_of_items_to_get)
             /\ Distinct(t.peer[q].sync_items_requested_from_peer)
             /\ Len(t.peer[q].sync_items_requested_from_peer) <= MaxPerPeer
             /\ t.peer[q].list = "gone" => t.peer[q].sync_items_requested_from_peer = <<>>
             /\ t.peer[q].list = s.peer[q].list
      <3> TAKE q \in Peers
      <3>1. CASE q = p
        BY <3>1, <2>5, <2>6, <2>8, <2>10 DEF Good
      <3>2. CASE q # p
        BY <3>2, <2>10 DEF Good
      <3>3. QED
        BY <3>1, <3>2
    <2>19. InProgress(t) <= MaxHandling
      BY <2>14 DEF Good
    <2>20. Good(t, L)
      BY <2>11, <2>15, <2>16, <2>17, <2>18, <2>19 DEF Good
    <2>21. QED
      BY <2>1, <2>18, <2>20
  <1>5. QED
    BY <1>3, <1>4

\* fetch_sync_items_loop, whatever the order of the peers.
LEMMA RequestsGood ==
  ASSUME NEW L, NEW s, Good(s, L), NEW order \in Seq(Peers),
         \A i \in DOMAIN order : s.peer[order[i]].list # "gone"
  PROVE  Good(Requests(order, s), L)
  <1> DEFINE A == {t \in States : Good(t, L) /\ \A q \in Peers : t.peer[q].list = s.peer[q].list}
  <1>1. s \in A
    BY DEF Good
  <1>2. \A t \in A : \A i \in DOMAIN order : RequestFrom(t, order[i]) \in A
    <2> TAKE t \in A
    <2> TAKE i \in DOMAIN order
    <2>1. order[i] \in Peers
      BY ElementOfSeq
    <2>2. /\ Good(RequestFrom(t, order[i]), L)
          /\ \A q \in Peers : RequestFrom(t, order[i]).peer[q].list = t.peer[q].list
      BY <2>1, RequestFromGood
    <2>3. RequestFrom(t, order[i]) \in States
      BY <2>2 DEF Good
    <2>4. QED
      BY <2>2, <2>3
  <1>3. IsFiniteSet(DOMAIN order) /\ DOMAIN order \subseteq Nat
    <2>1. DOMAIN order = 1 .. Len(order) /\ Len(order) \in Nat
      OBVIOUS
    <2>2. QED
      BY <2>1, FS_Interval
  <1>4. Requests(order, s) \in A
    <2> HIDE DEF A
    <2>1. QED
      BY <1>1, <1>2, <1>3, RequestsStay
  <1>5. QED
    BY <1>4

\* Changes of one field of the node that is not tracked.
LEMMA NodeFieldSame ==
  ASSUME NEW s \in States
  PROVE  /\ \A v \in Seq(Ids) : Same(s, [s EXCEPT !.node.new_received = v])
         /\ \A v \in Seq(Ids) : Same(s, [s EXCEPT !.node.received = v])
         /\ \A v \in Seq(Ids) : Same(s, [s EXCEPT !.node.items_to_fetch = v])
         /\ \A v \in BOOLEAN : Same(s, [s EXCEPT !.node.items_due = v])
         /\ \A v \in BOOLEAN : Same(s, [s EXCEPT !.node.backlog_due = v])
         /\ \A v \in BOOLEAN : Same(s, [s EXCEPT !.node.fetch_due = v])
         /\ \A v \in BOOLEAN : Same(s, [s EXCEPT !.node.suspended = v])
         /\ \A v \in SUBSET Ids : Same(s, [s EXCEPT !.node.known = v])
         /\ \A v \in Ids : Same(s, [s EXCEPT !.node.head = v])
  <1>1. ASSUME NEW v \in Seq(Ids)
        PROVE  Same(s, [s EXCEPT !.node.new_received = v])
    <2> DEFINE n == [s.node EXCEPT !.new_received = v]
    <2>1. [s EXCEPT !.node.new_received = v] = [s EXCEPT !.node = n]
      BY DEF States
    <2>2. n \in NodeRecs /\ n.active_sync_requests = s.node.active_sync_requests
          /\ n.handling = s.node.handling /\ n.handled = s.node.handled
      BY DEF States, NodeRecs
    <2> HIDE DEF n
    <2>3. QED
      BY <2>1, <2>2 DEF Same, States
  <1>2. ASSUME NEW v \in Seq(Ids)
        PROVE  Same(s, [s EXCEPT !.node.received = v])
    <2> DEFINE n == [s.node EXCEPT !.received = v]
    <2>1. [s EXCEPT !.node.received = v] = [s EXCEPT !.node = n]
      BY DEF States
    <2>2. n \in NodeRecs /\ n.active_sync_requests = s.node.active_sync_requests
          /\ n.handling = s.node.handling /\ n.handled = s.node.handled
      BY DEF States, NodeRecs
    <2> HIDE DEF n
    <2>3. QED
      BY <2>1, <2>2 DEF Same, States
  <1>3. ASSUME NEW v \in Seq(Ids)
        PROVE  Same(s, [s EXCEPT !.node.items_to_fetch = v])
    <2> DEFINE n == [s.node EXCEPT !.items_to_fetch = v]
    <2>1. [s EXCEPT !.node.items_to_fetch = v] = [s EXCEPT !.node = n]
      BY DEF States
    <2>2. n \in NodeRecs /\ n.active_sync_requests = s.node.active_sync_requests
          /\ n.handling = s.node.handling /\ n.handled = s.node.handled
      BY DEF States, NodeRecs
    <2> HIDE DEF n
    <2>3. QED
      BY <2>1, <2>2 DEF Same, States
  <1>4. ASSUME NEW v \in BOOLEAN
        PROVE  Same(s, [s EXCEPT !.node.items_due = v])
    <2> DEFINE n == [s.node EXCEPT !.items_due = v]
    <2>1. [s EXCEPT !.node.items_due = v] = [s EXCEPT !.node = n]
      BY DEF States
    <2>2. n \in NodeRecs /\ n.active_sync_requests = s.node.active_sync_requests
          /\ n.handling = s.node.handling /\ n.handled = s.node.handled
      BY DEF States, NodeRecs
    <2> HIDE DEF n
    <2>3. QED
      BY <2>1, <2>2 DEF Same, States
  <1>5. ASSUME NEW v \in BOOLEAN
        PROVE  Same(s, [s EXCEPT !.node.backlog_due = v])
    <2> DEFINE n == [s.node EXCEPT !.backlog_due = v]
    <2>1. [s EXCEPT !.node.backlog_due = v] = [s EXCEPT !.node = n]
      BY DEF States
    <2>2. n \in NodeRecs /\ n.active_sync_requests = s.node.active_sync_requests
          /\ n.handling = s.node.handling /\ n.handled = s.node.handled
      BY DEF States, NodeRecs
    <2> HIDE DEF n
    <2>3. QED
      BY <2>1, <2>2 DEF Same, States
  <1>6. ASSUME NEW v \in BOOLEAN
        PROVE  Same(s, [s EXCEPT !.node.fetch_due = v])
    <2> DEFINE n == [s.node EXCEPT !.fetch_due = v]
    <2>1. [s EXCEPT !.node.fetch_due = v] = [s EXCEPT !.node = n]
      BY DEF States
    <2>2. n \in NodeRecs /\ n.active_sync_requests = s.node.active_sync_requests
          /\ n.handling = s.node.handling /\ n.handled = s.node.handled
      BY DEF States, NodeRecs
    <2> HIDE DEF n
    <2>3. QED
      BY <2>1, <2>2 DEF Same, States
  <1>7. ASSUME NEW v \in BOOLEAN
        PROVE  Same(s, [s EXCEPT !.node.suspended = v])
    <2> DEFINE n == [s.node EXCEPT !.suspended = v]
    <2>1. [s EXCEPT !.node.suspended = v] = [s EXCEPT !.node = n]
      BY DEF States
    <2>2. n \in NodeRecs /\ n.active_sync_requests = s.node.active_sync_requests
          /\ n.handling = s.node.handling /\ n.handled = s.node.handled
      BY DEF States, NodeRecs
    <2> HIDE DEF n
    <2>3. QED
      BY <2>1, <2>2 DEF Same, States
  <1>8. ASSUME NEW v \in SUBSET Ids
        PROVE  Same(s, [s EXCEPT !.node.known = v])
    <2> DEFINE n == [s.node EXCEPT !.known = v]
    <2>1. [s EXCEPT !.node.known = v] = [s EXCEPT !.node = n]
      BY DEF States
    <2>2. n \in NodeRecs /\ n.active_sync_requests = s.node.active_sync_requests
          /\ n.handling = s.node.handling /\ n.handled = s.node.handled
      BY DEF States, NodeRecs
    <2> HIDE DEF n
    <2>3. QED
      BY <2>1, <2>2 DEF Same, States
  <1>9. ASSUME NEW v \in Ids
        PROVE  Same(s, [s EXCEPT !.node.head = v])
    <2> DEFINE n == [s.node EXCEPT !.head = v]
    <2>1. [s EXCEPT !.node.head = v] = [s EXCEPT !.node = n]
      BY DEF States
    <2>2. n \in NodeRecs /\ n.active_sync_requests = s.node.active_sync_requests
          /\ n.handling = s.node.handling /\ n.handled = s.node.handled
      BY DEF States, NodeRecs
    <2> HIDE DEF n
    <2>3. QED
      BY <2>1, <2>2 DEF Same, States
  <1>10. QED
    BY <1>1, <1>2, <1>3, <1>4, <1>5, <1>6, <1>7, <1>8, <1>9

\* What is left of a list without repetitions when its first block is gone.
LEMMA TailDistinct ==
  ASSUME NEW l \in Seq(Ids), Distinct(l), l # <<>>
  PROVE  /\ Tail(l) \in Seq(Ids) /\ Distinct(Tail(l)) /\ Len(Tail(l)) <= Len(l) /\ Head(l) \in Ids
         /\ Head(l) \in Range(l) /\ Head(l) \notin Range(Tail(l)) /\ Range(Tail(l)) = Range(l) \ {Head(l)}
  <1> DEFINE t == Tail(l)
  <1>1. /\ t \in Seq(Ids) /\ Len(t) = Len(l) - 1 /\ Len(l) \in Nat \ {0} /\ Head(l) = l[1]
        /\ \A i \in 1 .. Len(t) : t[i] = l[i + 1]
    BY HeadTailProperties, EmptySeq
  <1>2. DOMAIN t = 1 .. Len(l) - 1 /\ DOMAIN l = 1 .. Len(l) /\ 1 \in DOMAIN l
    BY <1>1
  <1> HIDE DEF t
  <1>3. \A i \in DOMAIN t : t[i] = l[i + 1] /\ i + 1 \in DOMAIN l /\ i + 1 # 1
    BY <1>1, <1>2
  <1>4. ASSUME NEW i \in DOMAIN t, NEW j \in DOMAIN t, t[i] = t[j]
        PROVE  i = j
    <2>1. i + 1 = j + 1
      BY <1>3, <1>4 DEF Distinct
    <2>2. QED
      BY <1>2, <2>1
  <1>5. l[1] \in Ids /\ l[1] \in Range(l)
    BY <1>1, <1>2, ElementOfSeq DEF Range
  <1>6. l[1] \notin Range(t)
    BY <1>2, <1>3 DEF Range, Distinct
  <1>7. Range(t) = Range(l) \ {l[1]}
    <2>1. Range(t) \subseteq Range(l)
      BY <1>3 DEF Range
    <2>2. ASSUME NEW x \in Range(l), x # l[1]
          PROVE  x \in Range(t)
      <3>1. PICK i \in DOMAIN l : l[i] = x
        BY DEF Range
      <3>2. i # 1
        BY <2>2, <3>1
      <3>3. i - 1 \in DOMAIN t /\ i - 1 + 1 = i
        BY <1>1, <1>2, <3>2
      <3>4. t[i - 1] = x
        BY <1>3, <3>1, <3>3
      <3>5. QED
        BY <3>3, <3>4 DEF Range
    <2>3. QED
      BY <1>6, <2>1, <2>2
  <1>8. QED
    BY <1>1, <1>4, <1>5, <1>6, <1>7 DEF t, Distinct

\* A finite set as a sequence.
LEMMA SetAsSeq ==
  ASSUME NEW S, IsFiniteSet(S)
  PROVE  SetToSeq(S) \in Seq(S)
  <1> DEFINE n == Cardinality(S)
  <1>1. n \in Nat
    BY FS_CardinalityType
  <1> HIDE DEF n
  <1>2. IsFiniteSet(1 .. n) /\ Cardinality(1 .. n) = n
    BY <1>1, FS_Interval
  <1>3. ExistsBijection(1 .. n, S)
    BY <1>2, FS_SameCardinalityBij DEF n
  <1>4. \E f \in [1 .. n -> S] : IsInjective(f)
    BY <1>3 DEF ExistsBijection, Bijection, Injection
  <1>5. SetToSeq(S) \in [1 .. n -> S]
    BY <1>4 DEF SetToSeq, n
  <1>6. QED
    BY <1>1, <1>5

\* One peer is asked for less, and the blocks it is no longer asked for are no
\* longer on their way, unless some peer may lack them.
LEMMA LessAsked ==
  ASSUME NEW L, NEW s, Good(s, L), NEW p \in Peers, NEW r \in PeerRecs, NEW n \in NodeRecs, NEW t,
         t = [node |-> n, peer |-> [s.peer EXCEPT ![p] = r]],
         Climbs(r.ids_of_items_to_get), Distinct(r.sync_items_requested_from_peer),
         Len(r.sync_items_requested_from_peer) <= MaxPerPeer,
         r.list = "gone" => r.sync_items_requested_from_peer = <<>>,
         Range(r.sync_items_requested_from_peer) \subseteq Asked(s, p) \cap n.active_sync_requests,
         n.active_sync_requests \subseteq s.node.active_sync_requests,
         \A q \in Peers : q # p => Asked(s, q) \subseteq n.active_sync_requests,
         \A b \in n.active_sync_requests :
            b \in Asked(s, p) => b \in L \/ b \in Range(r.sync_items_requested_from_peer),
         InProgress(t) <= MaxHandling
  PROVE  Good(t, L)
  <1>1. s \in States
    BY DEF Good
  <1>2. t.peer[p] = r /\ t.node = n /\ \A q \in Peers : q # p => t.peer[q] = s.peer[q]
    BY <1>1 DEF States
  <1>3. t \in States
    BY <1>1 DEF States
  <1>4. /\ Asked(t, p) = Range(r.sync_items_requested_from_peer)
        /\ \A q \in Peers : q # p => Asked(t, q) = Asked(s, q)
    BY <1>2 DEF Asked
  <1>5. \A q \in Peers :
           /\ Climbs(t.peer[q].ids_of_items_to_get)
           /\ Distinct(t.peer[q].sync_items_requested_from_peer)
           /\ Len(t.peer[q].sync_items_requested_from_peer) <= MaxPerPeer
           /\ t.peer[q].list = "gone" => t.peer[q].sync_items_requested_from_peer = <<>>
           /\ Asked(t, q) \subseteq t.node.active_sync_requests
    <2> TAKE q \in Peers
    <2>1. CASE q = p
      BY <2>1, <1>2, <1>4
    <2>2. CASE q # p
      BY <2>2, <1>2, <1>4 DEF Good
    <2>3. QED
      BY <2>1, <2>2
  <1>6. \A b \in t.node.active_sync_requests : b \in L \/ \E q \in Peers : b \in Asked(t, q)
    <2> TAKE b \in t.node.active_sync_requests
    <2>1. b \in n.active_sync_requests
      BY <1>2
    <2>2. b \in L \/ \E q \in Peers : b \in Asked(s, q)
      BY <2>1 DEF Good
    <2>3. QED
      BY <1>4, <2>1, <2>2
  <1>7. \A q, o \in Peers : q # o => Asked(t, q) \cap Asked(t, o) = {}
    <2>1. \A q \in Peers : Asked(t, q) \subseteq Asked(s, q)
      BY <1>4
    <2>2. QED
      BY <2>1 DEF Good
  <1>8. QED
    BY <1>3, <1>5, <1>6, <1>7 DEF Good

\* One more block for the chain thread.
LEMMA HandOver ==
  ASSUME NEW L, NEW s, Good(s, L), NEW e \in Handling,
         InProgress(s) + (IF e.from = {} THEN 1 ELSE 0) <= MaxHandling
  PROVE  LET t == [s EXCEPT !.node.handling = Append(@, e)]
         IN  /\ Good(t, L) /\ t.peer = s.peer
             /\ InProgress(t) = InProgress(s) + (IF e.from = {} THEN 1 ELSE 0)
  <1> DEFINE q == s.node.handling
             n == [s.node EXCEPT !.handling = Append(q, e)]
             t == [s EXCEPT !.node.handling = Append(@, e)]
  <1>1. s \in States /\ s.node \in NodeRecs /\ q \in Seq(Handling) /\ s.node.handled \in Seq(Handled)
    BY DEF Good, States, NodeRecs
  <1>2. t = [node |-> n, peer |-> s.peer]
    <2>1. t = [s EXCEPT !.node = n]
      BY <1>1 DEF States
    <2> HIDE DEF n, t
    <2>2. QED
      BY <1>1, <2>1 DEF States
  <1>3. Append(q, e) \in Seq(Handling)
    BY <1>1
  <1>4. n \in NodeRecs /\ n.handling = Append(q, e) /\ n.handled = s.node.handled
        /\ n.active_sync_requests = s.node.active_sync_requests
    BY <1>1, <1>3 DEF NodeRecs
  <1> HIDE DEF n, t
  <1>5. t.node = n /\ t.peer = s.peer /\ t \in States
    BY <1>1, <1>2, <1>4 DEF States
  <1>6. InProgress(t) = Cardinality(SyncBlocks(Append(q, e))) + Cardinality(SyncBlocks(s.node.handled))
    BY <1>4, <1>5 DEF InProgress, SyncBlocks
  <1>7. InProgress(s) = Cardinality(SyncBlocks(q)) + Cardinality(SyncBlocks(s.node.handled))
    BY DEF InProgress, SyncBlocks
  <1>8. Cardinality(SyncBlocks(Append(q, e))) = Cardinality(SyncBlocks(q)) + (IF e.from = {} THEN 1 ELSE 0)
        /\ Cardinality(SyncBlocks(q)) \in Nat /\ Cardinality(SyncBlocks(s.node.handled)) \in Nat
    BY <1>1, SyncBlocksAppend, SyncBlocksFinite
  <1>9. InProgress(t) = InProgress(s) + (IF e.from = {} THEN 1 ELSE 0)
    BY <1>6, <1>7, <1>8
  <1>10. \A p \in Peers : Asked(t, p) = Asked(s, p)
    BY <1>5 DEF Asked
  <1>11. Good(t, L)
    BY <1>4, <1>5, <1>9, <1>10 DEF Good
  <1>12. QED
    BY <1>5, <1>9, <1>11 DEF t

----------------------------------------------------------------------------
(* The handlers.                                                           *)

\* The node of a state, replaced.
LEMMA SetNode ==
  ASSUME NEW a, NEW b, NEW c
  PROVE  [[node |-> a, peer |-> b] EXCEPT !.node = c] = [node |-> c, peer |-> b]
  OBVIOUS

\* A change of the active requests is a change of the node.
LEMMA SetRequests ==
  ASSUME NEW s \in States, NEW v
  PROVE  [s EXCEPT !.node.active_sync_requests = v]
            = [s EXCEPT !.node = [s.node EXCEPT !.active_sync_requests = v]]
  <1> DEFINE n == [s.node EXCEPT !.active_sync_requests = v]
  <1>1. [s EXCEPT !.node.active_sync_requests = v] = [s EXCEPT !.node = n]
    BY DEF States
  <1>2. QED
    BY <1>1

\* A block that was asked for has arrived.
LEMMA OnSyncBlockGood ==
  ASSUME NEW L, NEW s, Good(s, L), NEW p \in Peers,
         s.peer[p].sync_items_requested_from_peer # <<>>,
         NEW b, b = Head(s.peer[p].sync_items_requested_from_peer)
  PROVE  Good(OnSyncBlock(s, p, b), L)
  <1> DEFINE l == s.peer[p].sync_items_requested_from_peer
             r == [s.peer[p] EXCEPT !.sync_items_requested_from_peer = Tail(l)]
             n == [s.node EXCEPT !.active_sync_requests = @ \ {b}]
             u == [node |-> n, peer |-> [s.peer EXCEPT ![p] = r]]
             x == Append(s.node.new_received, b)
             v == [u EXCEPT !.node.new_received = x]
             t == [v EXCEPT !.node.backlog_due = TRUE]
  <1>1. s \in States /\ s.peer[p] \in PeerRecs /\ s.node \in NodeRecs /\ l \in Seq(Ids)
    BY DEF Good, States, PeerRecs
  <1>2. Distinct(l) /\ Len(l) <= MaxPerPeer /\ Asked(s, p) = Range(l) /\ Asked(s, p) \subseteq s.node.active_sync_requests
    BY DEF Good, Asked
  <1> HIDE DEF l
  <1>3. /\ Tail(l) \in Seq(Ids) /\ Distinct(Tail(l)) /\ Len(Tail(l)) <= Len(l) /\ b \in Ids
        /\ b \in Range(l) /\ b \notin Range(Tail(l)) /\ Range(Tail(l)) = Range(l) \ {b}
    BY <1>1, <1>2, TailDistinct DEF l
  <1>4. OnSyncBlock(s, p, b) \in {t, FetchNextBatch(t, p), Trigger(t)}
    <2> DEFINE u1 == [s EXCEPT !.peer[p].sync_items_requested_from_peer = Tail(@)]
               u2 == [u1 EXCEPT !.node.active_sync_requests = s.node.active_sync_requests \ {b}]
               u3 == [u2 EXCEPT !.node.new_received = x]
               u4 == [u3 EXCEPT !.node.backlog_due = TRUE]
    <2>1. OnSyncBlock(s, p, b) =
            CASE ~ Idle(u4, p) -> u4
              [] Idle(u4, p) /\ u4.peer[p].number_of_unfetched_item_ids > 0
                             /\ Len(u4.peer[p].ids_of_items_to_get) < MinPrefetch -> FetchNextBatch(u4, p)
              [] OTHER -> Trigger(u4)
      BY Zenon DEF OnSyncBlock
    <2>2. u1 = [node |-> s.node, peer |-> [s.peer EXCEPT ![p] = r]]
      <3>1. u1 = [s EXCEPT !.peer[p].sync_items_requested_from_peer = Tail(l)]
        BY <1>1 DEF States, PeerRecs, l
      <3> HIDE DEF u1
      <3>2. QED
        BY <1>1, <3>1 DEF States
    <2> HIDE DEF u1, r
    <2>3. u2 = u
      <3> DEFINE k == s.node
                 m == [s.peer EXCEPT ![p] = r]
      <3>0. u1 = [node |-> k, peer |-> m] /\ u = [node |-> n, peer |-> m]
        BY <2>2
      <3> HIDE DEF k, m, n, u
      <3>1. [u1 EXCEPT !.node = n] = u
        BY <3>0, SetNode
      <3>2. u2 = [u1 EXCEPT !.node = n]
        <4>1. r \in PeerRecs
          BY <1>1, <1>3 DEF PeerRecs, r
        <4>2. u1 \in States /\ u1.node = s.node
          BY <1>1, <2>2, <4>1 DEF States
        <4> DEFINE a == s.node.active_sync_requests \ {b}
        <4> HIDE DEF a
        <4>3. [u1 EXCEPT !.node.active_sync_requests = a]
                = [u1 EXCEPT !.node = [u1.node EXCEPT !.active_sync_requests = a]]
          BY <4>2, SetRequests
        <4>4. n = [s.node EXCEPT !.active_sync_requests = a]
          BY DEF a, n
        <4>5. u2 = [u1 EXCEPT !.node.active_sync_requests = a]
          BY DEF a, u2
        <4>6. QED
          BY <4>2, <4>3, <4>4, <4>5, Zenon
      <3>3. QED
        BY <3>1, <3>2
    <2> HIDE DEF u2, u
    <2>5. u4 = t
      BY <2>3
    <2> HIDE DEF u4, t
    <2>6. OnSyncBlock(s, p, b) \in {u4, FetchNextBatch(u4, p), Trigger(u4)}
      BY <2>1
    <2>7. QED
      BY <2>5, <2>6
  <1>5. /\ r \in PeerRecs /\ r.sync_items_requested_from_peer = Tail(l) /\ r.list = s.peer[p].list
        /\ r.ids_of_items_to_get = s.peer[p].ids_of_items_to_get
    BY <1>1, <1>3 DEF PeerRecs
  <1>6. /\ n \in NodeRecs /\ n.active_sync_requests = s.node.active_sync_requests \ {b}
        /\ n.handling = s.node.handling /\ n.handled = s.node.handled
        /\ n.new_received = s.node.new_received
    BY <1>1 DEF NodeRecs
  <1> HIDE DEF r, n
  <1>7. Good(u, L)
    <2>1. Climbs(r.ids_of_items_to_get)
      BY <1>5 DEF Good
    <2>2. Len(r.sync_items_requested_from_peer) <= MaxPerPeer
      <3>1. Len(l) \in Nat /\ Len(Tail(l)) \in Nat /\ MaxPerPeer \in Nat
        BY <1>1, <1>3, BoundsAssumption
      <3>2. QED
        BY <1>2, <1>3, <1>5, <3>1
    <2>3. r.list = "gone" => r.sync_items_requested_from_peer = <<>>
      BY <1>5 DEF Good, l
    <2>4. Range(r.sync_items_requested_from_peer) \subseteq Asked(s, p) \cap n.active_sync_requests
      BY <1>2, <1>3, <1>5, <1>6
    <2>5. \A q \in Peers : q # p => Asked(s, q) \subseteq n.active_sync_requests
      <3> TAKE q \in Peers
      <3>1. q # p => b \notin Asked(s, q)
        BY <1>2, <1>3 DEF Good
      <3>2. Asked(s, q) \subseteq s.node.active_sync_requests
        BY DEF Good
      <3>3. QED
        BY <1>6, <3>1, <3>2
    <2>6. \A c \in n.active_sync_requests :
            c \in Asked(s, p) => c \in L \/ c \in Range(r.sync_items_requested_from_peer)
      BY <1>2, <1>3, <1>5, <1>6
    <2>7. InProgress(u) <= MaxHandling
      <3>1. InProgress(u) = InProgress(s)
        BY <1>6 DEF InProgress
      <3>2. QED
        BY <3>1 DEF Good
    <2>8. n.active_sync_requests \subseteq s.node.active_sync_requests
      BY <1>6
    <2>9. Distinct(r.sync_items_requested_from_peer)
      BY <1>3, <1>5
    <2> DEFINE w == u
    <2>10. w = [node |-> n, peer |-> [s.peer EXCEPT ![p] = r]] /\ InProgress(w) <= MaxHandling
      BY <2>7
    <2> HIDE DEF w
    <2>11. Good(w, L)
      BY <1>5, <1>6, <2>1, <2>2, <2>3, <2>4, <2>5, <2>6, <2>8, <2>9, <2>10, LessAsked
    <2>12. QED
      BY <2>11 DEF w
  <1>8. x \in Seq(Ids)
    BY <1>1, <1>3 DEF NodeRecs
  <1> HIDE DEF u, x
  <1>9. u \in States
    BY <1>7 DEF Good
  <1>10. Same(u, v) /\ v \in States
    BY <1>8, <1>9, NodeFieldSame, SameState
  <1> HIDE DEF v
  <1>11. Same(v, t) /\ t \in States
    BY <1>10, NodeFieldSame, SameState
  <1> HIDE DEF t
  <1>12. Good(t, L)
    BY <1>7, <1>10, <1>11, SameTrans, SameGood
  <1>13. Same(t, FetchNextBatch(t, p)) /\ Same(t, Trigger(t))
    BY <1>11, FetchNextBatchSame, TriggerSame
  <1>14. QED
    BY <1>4, <1>12, <1>13, SameGood

\* The peer lacks the block: it stays among the active requests, as a block some peer may lack.
LEMMA OnItemNotAvailableGood ==
  ASSUME NEW L, NEW s, Good(s, L), NEW p \in Peers,
         s.peer[p].sync_items_requested_from_peer # <<>>,
         Head(s.peer[p].sync_items_requested_from_peer) \in L
  PROVE  Good(OnItemNotAvailable(s, p), L)
  <1> DEFINE l == s.peer[p].sync_items_requested_from_peer
             b == Head(l)
             r == [s.peer[p] EXCEPT !.sync_items_requested_from_peer = Tail(l)]
             n == s.node
             u == [node |-> n, peer |-> [s.peer EXCEPT ![p] = r]]
             v == [u EXCEPT !.peer[p].inhibit_fetching_sync_blocks = TRUE]
             w == Disconnect(u, p)
  <1>1. s \in States /\ s.peer[p] \in PeerRecs /\ n \in NodeRecs /\ l \in Seq(Ids)
    BY DEF Good, States, PeerRecs
  <1>2. Distinct(l) /\ Len(l) <= MaxPerPeer /\ Asked(s, p) = Range(l) /\ Asked(s, p) \subseteq n.active_sync_requests
    BY DEF Good, Asked
  <1>3. /\ Tail(l) \in Seq(Ids) /\ Distinct(Tail(l)) /\ Len(Tail(l)) <= Len(l) /\ b \in Ids
        /\ b \in Range(l) /\ b \notin Range(Tail(l)) /\ Range(Tail(l)) = Range(l) \ {b}
    <2> HIDE DEF l
    <2>1. l # <<>>
      BY DEF l
    <2>2. QED
      BY <1>1, <1>2, <2>1, TailDistinct
  <1>4. OnItemNotAvailable(s, p) \in {Trigger(v), Trigger(w)}
    <2> DEFINE u1 == [s EXCEPT !.peer[p].sync_items_requested_from_peer = Tail(@)]
    <2>1. OnItemNotAvailable(s, p) \in
            {Trigger([u1 EXCEPT !.peer[p].inhibit_fetching_sync_blocks = TRUE]), Trigger(Disconnect(u1, p))}
      BY DEF OnItemNotAvailable
    <2>2. u1 = u
      <3>1. u1 = [s EXCEPT !.peer[p] = r]
        BY <1>1 DEF States, PeerRecs
      <3> HIDE DEF u1, r
      <3>2. QED
        BY <1>1, <3>1 DEF States
    <2> HIDE DEF u1, u
    <2>3. QED
      BY <2>1, <2>2
  <1>5. /\ r \in PeerRecs /\ r.sync_items_requested_from_peer = Tail(l) /\ r.list = s.peer[p].list
        /\ r.ids_of_items_to_get = s.peer[p].ids_of_items_to_get
    <2> HIDE DEF l, b
    <2>1. QED
      BY <1>1, <1>3 DEF PeerRecs
  <1>6. r.list # "gone"
    BY <1>5 DEF Good
  <1>a. b \in L
    OBVIOUS
  <1>b. Climbs(r.ids_of_items_to_get)
    BY <1>5 DEF Good
  <1> HIDE DEF r, l, b, n
  <1>7. Good(u, L)
    <2>2. Len(r.sync_items_requested_from_peer) <= MaxPerPeer
      <3>1. Len(l) \in Nat /\ Len(Tail(l)) \in Nat /\ MaxPerPeer \in Nat
        BY <1>1, <1>3, BoundsAssumption
      <3>2. QED
        BY <1>2, <1>3, <1>5, <3>1
    <2>4. Range(r.sync_items_requested_from_peer) \subseteq Asked(s, p) \cap n.active_sync_requests
      BY <1>2, <1>3, <1>5
    <2>5. \A q \in Peers : q # p => Asked(s, q) \subseteq n.active_sync_requests
      BY DEF Good, n
    <2>6. \A c \in n.active_sync_requests :
            c \in Asked(s, p) => c \in L \/ c \in Range(r.sync_items_requested_from_peer)
      BY <1>2, <1>3, <1>5, <1>a
    <2>7. InProgress(u) <= MaxHandling
      <3>1. InProgress(u) = InProgress(s)
        BY DEF InProgress, n
      <3>2. QED
        BY <3>1 DEF Good
    <2>8. n.active_sync_requests \subseteq s.node.active_sync_requests
      BY DEF n
    <2>9. Distinct(r.sync_items_requested_from_peer)
      BY <1>3, <1>5
    <2> DEFINE z == u
    <2>10. z = [node |-> n, peer |-> [s.peer EXCEPT ![p] = r]] /\ InProgress(z) <= MaxHandling
      BY <2>7
    <2> HIDE DEF z
    <2>11. Good(z, L)
      BY <1>1, <1>5, <1>6, <1>b, <2>2, <2>4, <2>5, <2>6, <2>8, <2>9, <2>10, LessAsked
    <2>12. QED
      BY <2>11 DEF z
  <1>8. u.peer[p] = r
    BY <1>1 DEF States
  <1> HIDE DEF u
  <1>9. u \in States
    BY <1>7 DEF Good
  <1>10. Same(u, v) /\ v \in States
    BY <1>9, FieldSame, SameState
  <1>11. Same(u, w) /\ w \in States
    BY <1>6, <1>8, <1>9, DisconnectSame, SameState
  <1> HIDE DEF v, w
  <1>12. Good(v, L) /\ Good(w, L)
    BY <1>7, <1>10, <1>11, SameGood
  <1>13. Same(v, Trigger(v)) /\ Same(w, Trigger(w))
    BY <1>10, <1>11, TriggerSame
  <1>14. QED
    BY <1>4, <1>12, <1>13, SameGood

\* A block that was advertised goes to the chain as no part of the synchronization.
LEMMA OnNormalBlockGood ==
  ASSUME NEW L, NEW s, Good(s, L), NEW p \in Peers, NEW b \in s.peer[p].items_requested_from_peer
  PROVE  Good(OnNormalBlock(s, p, b), L)
  <1> DEFINE a == s.peer[p].items_requested_from_peer \ {b}
             t == [s EXCEPT !.peer[p].items_requested_from_peer = a]
             e == [block |-> b, from |-> {p}]
             v == NormalBlockAccepted(t, b)
  <1>1. s \in States /\ s.peer[p].items_requested_from_peer \in FiniteIds
    BY DEF Good, States, PeerRecs
  <1>2. b \in Ids /\ a \in FiniteIds
    BY <1>1, FS_RemoveElement DEF FiniteIds
  <1>3. OnNormalBlock(s, p, b) \in {TriggerItemsIfIdle(v, p), [t EXCEPT !.node.handling = Append(@, e)]}
    BY DEF OnNormalBlock
  <1> HIDE DEF a
  <1>4. Same(s, t) /\ t \in States
    BY <1>1, <1>2, FieldSame, SameState
  <1> HIDE DEF t
  <1>5. Good(t, L)
    BY <1>4, SameGood
  <1>6. Good(TriggerItemsIfIdle(v, p), L)
    <2>1. Same(t, v) /\ v \in States
      BY <1>2, <1>4, NormalBlockAcceptedSame, SameState
    <2> HIDE DEF v
    <2>2. Same(v, TriggerItemsIfIdle(v, p))
      BY <2>1, TriggerItemsSame
    <2>3. QED
      BY <1>5, <2>1, <2>2, SameGood
  <1>7. Good([t EXCEPT !.node.handling = Append(@, e)], L)
    <2>1. e \in Handling /\ e.from # {}
      BY <1>2 DEF Handling
    <2> HIDE DEF e
    <2>2. InProgress(t) + (IF e.from = {} THEN 1 ELSE 0) <= MaxHandling
      <3>1. InProgress(t) \in Nat /\ InProgress(t) <= MaxHandling
        <4>1. t.node.handling \in Seq(Handling) /\ t.node.handled \in Seq(Handled)
          BY <1>4 DEF States, NodeRecs
        <4>2. Cardinality(SyncBlocks(t.node.handling)) \in Nat /\ Cardinality(SyncBlocks(t.node.handled)) \in Nat
          BY <4>1, SyncBlocksFinite
        <4>3. InProgress(t) = Cardinality(SyncBlocks(t.node.handling)) + Cardinality(SyncBlocks(t.node.handled))
          BY DEF InProgress, SyncBlocks
        <4>4. QED
          BY <1>5, <4>2, <4>3 DEF Good
      <3>2. QED
        BY <2>1, <3>1
    <2>3. QED
      BY <1>5, <2>1, <2>2, HandOver
  <1>8. QED
    BY <1>3, <1>6, <1>7

\* Peers as they are before and after a connection.
LEMMA PeersTyped ==
  /\ NewPeer \in PeerRecs /\ NewPeer.list = "active"
  /\ NewPeer.ids_of_items_to_get = <<>> /\ NewPeer.sync_items_requested_from_peer = <<>>
  /\ Gone \in PeerRecs /\ Gone.list = "gone"
  /\ Gone.ids_of_items_to_get = <<>> /\ Gone.sync_items_requested_from_peer = <<>>
  <1>1. {} \in FiniteIds
    BY FS_EmptySet DEF FiniteIds
  <1>2. NewPeer \in PeerRecs /\ NewPeer.list = "active"
        /\ NewPeer.ids_of_items_to_get = <<>> /\ NewPeer.sync_items_requested_from_peer = <<>>
    BY <1>1, EmptyClimbs DEF NewPeer, PeerRecs, NoRequest
  <1> HIDE DEF NewPeer
  <1>3. Gone \in PeerRecs /\ Gone.list = "gone"
        /\ Gone.ids_of_items_to_get = <<>> /\ Gone.sync_items_requested_from_peer = <<>>
    BY <1>2 DEF Gone, PeerRecs
  <1>4. QED
    BY <1>2, <1>3

\* What the lost peer was asked for is on its way no longer.
LEMMA ConnectionClosedGood ==
  ASSUME NEW L, NEW s, Good(s, L), NEW p \in Peers
  PROVE  Good(ConnectionClosed(s, p), L)
  <1> DEFINE asked == Asked(s, p)
             left == [s EXCEPT !.peer[p] = Gone]
             X == {b \in s.peer[p].items_requested_from_peer \ Range(s.node.items_to_fetch) :
                      \E q \in Active(left) : b \in s.peer[q].inventory_peer_advertised_to_us}
             A == left.node.active_sync_requests \ asked
             F == left.node.fetch_due \/ asked # {}
             I == left.node.items_to_fetch \o SetToSeq(X)
             D == left.node.items_due \/ s.peer[p].items_requested_from_peer # {}
             u1 == [left EXCEPT !.node.active_sync_requests = A]
             u2 == [u1 EXCEPT !.node.fetch_due = F]
             u3 == [u2 EXCEPT !.node.items_to_fetch = I]
             u4 == [u3 EXCEPT !.node.items_due = D]
             n == [s.node EXCEPT !.active_sync_requests = A]
             m == [s.peer EXCEPT ![p] = Gone]
  <1>1. s \in States /\ s.peer[p] \in PeerRecs /\ s.node \in NodeRecs
    BY DEF Good, States
  <1>2. ConnectionClosed(s, p) = u4
    BY Zenon DEF ConnectionClosed, Asked
  <1>3. left = [node |-> s.node, peer |-> m] /\ left \in States /\ left.node = s.node
    BY <1>1, PeersTyped DEF States
  <1>4. I \in Seq(Ids)
    <2>1. s.peer[p].items_requested_from_peer \in FiniteIds /\ s.node.items_to_fetch \in Seq(Ids)
      BY <1>1 DEF PeerRecs, NodeRecs
    <2>2. X \subseteq s.peer[p].items_requested_from_peer
      OBVIOUS
    <2> HIDE DEF X
    <2>3. IsFiniteSet(X) /\ X \subseteq Ids
      BY <2>1, <2>2, FS_Subset DEF FiniteIds
    <2>4. SetToSeq(X) \in Seq(X)
      BY <2>3, SetAsSeq
    <2> DEFINE a == SetToSeq(X)
    <2> HIDE DEF a, left
    <2>5. a \in Seq(Ids)
      BY <2>3, <2>4 DEF a
    <2>6. s.node.items_to_fetch \o a \in Seq(Ids)
      BY <2>1, <2>5
    <2>7. QED
      BY <1>3, <2>6 DEF a
  <1>5. F \in BOOLEAN /\ D \in BOOLEAN
    OBVIOUS
  <1>6. A = s.node.active_sync_requests \ asked
    BY <1>3
  <1> HIDE DEF left, F, I, D, A
  <1>7. u1 = [node |-> n, peer |-> m]
    <2>1. u1 = [left EXCEPT !.node = [left.node EXCEPT !.active_sync_requests = A]]
      BY <1>3, SetRequests
    <2>2. n = [left.node EXCEPT !.active_sync_requests = A]
      BY <1>3
    <2>3. u1 = [left EXCEPT !.node = n]
      BY <2>1, <2>2, Zenon
    <2> HIDE DEF u1, n, m
    <2> DEFINE k == s.node
    <2>4. left = [node |-> k, peer |-> m]
      BY <1>3
    <2> HIDE DEF k
    <2>5. QED
      BY <2>3, <2>4, SetNode
  <1>8. /\ n \in NodeRecs /\ n.active_sync_requests = s.node.active_sync_requests \ asked
        /\ n.handling = s.node.handling /\ n.handled = s.node.handled
    BY <1>1, <1>6 DEF NodeRecs
  <1> HIDE DEF u1, n
  <1>9. Good(u1, L)
    <2>1. InProgress(u1) <= MaxHandling
      <3>1. InProgress(u1) = InProgress(s)
        BY <1>7, <1>8 DEF InProgress
      <3>2. QED
        BY <3>1 DEF Good
    <2>2. \A q \in Peers : q # p => Asked(s, q) \subseteq n.active_sync_requests
      BY <1>8 DEF Good
    <2>3. \A b \in n.active_sync_requests : b \notin Asked(s, p)
      BY <1>8
    <2>4. /\ Climbs(<<>>) /\ Distinct(<<>>) /\ Len(<<>>) <= MaxPerPeer /\ Range(<<>>) = {}
      BY EmptyClimbs, BoundsAssumption DEF Distinct, Range
    <2>5. n.active_sync_requests \subseteq s.node.active_sync_requests
      BY <1>8
    <2> DEFINE r == Gone
    <2>6. /\ r \in PeerRecs /\ Climbs(r.ids_of_items_to_get) /\ Distinct(r.sync_items_requested_from_peer)
          /\ Len(r.sync_items_requested_from_peer) <= MaxPerPeer
          /\ r.sync_items_requested_from_peer = <<>> /\ Range(r.sync_items_requested_from_peer) = {}
      BY <2>4, PeersTyped
    <2>7. u1 = [node |-> n, peer |-> [s.peer EXCEPT ![p] = r]]
      BY <1>7
    <2> HIDE DEF r
    <2>8. QED
      BY <1>8, <2>1, <2>2, <2>3, <2>5, <2>6, <2>7, LessAsked
  <1>10. u1 \in States
    BY <1>9 DEF Good
  <1>11. Same(u1, u2) /\ u2 \in States
    BY <1>5, <1>10, NodeFieldSame, SameState
  <1> HIDE DEF u2
  <1>12. Same(u2, u3) /\ u3 \in States
    BY <1>4, <1>11, NodeFieldSame, SameState
  <1> HIDE DEF u3
  <1>13. Same(u3, u4)
    BY <1>5, <1>12, NodeFieldSame
  <1> HIDE DEF u4
  <1>14. QED
    BY <1>2, <1>9, <1>11, <1>12, <1>13, SameGood

\* A new connection starts with nothing asked for.
LEMMA ConnectGood ==
  ASSUME NEW L, NEW s, Good(s, L), NEW p \in Peers, s.peer[p].list = "gone"
  PROVE  Good(StartSynchronizing([s EXCEPT !.peer[p] = NewPeer], p), L)
  <1> DEFINE u == [s EXCEPT !.peer[p] = NewPeer]
  <1>1. s \in States /\ s.peer[p].sync_items_requested_from_peer = <<>>
    BY DEF Good
  <1>2. u \in States /\ u.node = s.node /\ u.peer[p] = NewPeer /\ \A q \in Peers : q # p => u.peer[q] = s.peer[q]
    BY <1>1, PeersTyped DEF States
  <1> HIDE DEF u
  <1>3. \A q \in Peers : Asked(u, q) = Asked(s, q)
    BY <1>1, <1>2, PeersTyped DEF Asked
  <1>4. InProgress(u) = InProgress(s)
    BY <1>2 DEF InProgress
  <1>5. ASSUME NEW q \in Peers
        PROVE  /\ Climbs(u.peer[q].ids_of_items_to_get)
               /\ Distinct(u.peer[q].sync_items_requested_from_peer)
               /\ Len(u.peer[q].sync_items_requested_from_peer) <= MaxPerPeer
               /\ u.peer[q].list = "gone" => u.peer[q].sync_items_requested_from_peer = <<>>
               /\ Asked(u, q) \subseteq u.node.active_sync_requests
    <2>1. CASE q = p
      <3>1. Climbs(<<>>) /\ Distinct(<<>>) /\ Len(<<>>) <= MaxPerPeer
        BY EmptyClimbs, BoundsAssumption DEF Distinct
      <3>2. Asked(u, q) \subseteq u.node.active_sync_requests
        BY <1>2, <1>3 DEF Good
      <3>3. QED
        BY <1>2, <2>1, <3>1, <3>2, PeersTyped
    <2>2. CASE q # p
      BY <1>2, <1>3, <2>2 DEF Good
    <2>3. QED
      BY <2>1, <2>2
  <1>6. Good(u, L)
    BY <1>2, <1>3, <1>4, <1>5 DEF Good
  <1>7. Same(u, StartSynchronizing(u, p))
    BY <1>2, StartSynchronizingSame
  <1>8. QED
    BY <1>6, <1>7, SameGood DEF u

----------------------------------------------------------------------------
(* The backlog of blocks that arrived.                                     *)

Core(t) == [node |-> t.node, peer |-> t.peer]
Trips == [node : NodeRecs, peer : [Peers -> PeerRecs], done : BOOLEAN]

\* The state between two turns: there is room for the block of the next one.
Fed(t, L) ==
    /\ t \in Trips /\ Good(Core(t), L)
    /\ ~ t.done => InProgress(t) < MaxHandling

\* The state within a turn of the backlog.
LEMMA CoreFacts ==
  ASSUME NEW t \in Trips
  PROVE  Core(t) \in States /\ Core(t).node = t.node /\ Core(t).peer = t.peer /\ InProgress(Core(t)) = InProgress(t)
  BY DEF Core, Trips, States, InProgress

\* The blocks in progress are counted.
LEMMA InProgressNat ==
  ASSUME NEW s, s.node \in NodeRecs
  PROVE  InProgress(s) \in Nat
  <1>1. s.node.handling \in Seq(Handling) /\ s.node.handled \in Seq(Handled)
    BY DEF NodeRecs
  <1>2. Cardinality(SyncBlocks(s.node.handling)) \in Nat /\ Cardinality(SyncBlocks(s.node.handled)) \in Nat
    BY <1>1, SyncBlocksFinite
  <1>3. InProgress(s) = Cardinality(SyncBlocks(s.node.handling)) + Cardinality(SyncBlocks(s.node.handled))
    BY DEF InProgress, SyncBlocks
  <1>4. QED
    BY <1>2, <1>3

\* A list without the block at one position.
LEMMA RemoveAtType ==
  ASSUME NEW S, NEW q \in Seq(S), NEW i \in DOMAIN q
  PROVE  RemoveAt(q, i) \in Seq(S)
  <1>1. Len(q) \in Nat /\ DOMAIN q = 1 .. Len(q)
    OBVIOUS
  <1>2. i - 1 \in Int /\ i - 1 <= Len(q) /\ i + 1 \in Nat \ {0} /\ 1 \in Nat \ {0}
    BY <1>1
  <1> DEFINE a == SubSeq(q, 1, i - 1)
             z == SubSeq(q, i + 1, Len(q))
  <1>3. a \in Seq(S)
    BY <1>2, PartFacts
  <1>4. z \in Seq(S)
    BY <1>1, <1>2, PartFacts
  <1> HIDE DEF a, z
  <1>5. a \o z \in Seq(S)
    BY <1>3, <1>4
  <1>6. QED
    BY <1>5 DEF RemoveAt, a, z

\* A turn hands over one block and stops when the limit is reached.
LEMMA BacklogStepFed ==
  ASSUME NEW L, NEW s, Fed(s, L)
  PROVE  Fed(BacklogStep(s), L)
  <1> DEFINE q == s.node.received
             ready == {i \in DOMAIN q : Heads(s, q[i]) # {}}
             i == Min(ready)
             b == q[i]
             t == PopFrom(s, Heads(s, b), b)
             e == [block |-> b, from |-> {}]
             h == t.node.handling
             R == RemoveAt(t.node.received, i)
             D == InProgress(t) + 1 >= MaxHandling
             v == [t EXCEPT !.node.received = R]
             w == [v EXCEPT !.node.handling = Append(h, e)]
             x == [w EXCEPT !.done = D]
  <1>1. s \in Trips /\ Good(Core(s), L) /\ s.node \in NodeRecs /\ q \in Seq(Ids)
    BY DEF Fed, Trips, NodeRecs
  <1>2. CASE s.done
    BY <1>2 DEF BacklogStep, Fed
  <1>3. CASE ~ s.done /\ ready = {}
    <2> DEFINE u == [s EXCEPT !.done = TRUE]
    <2>1. BacklogStep(s) = u
      BY <1>3 DEF BacklogStep
    <2>2. u \in Trips /\ Core(u) = Core(s) /\ u.done
      BY <1>1 DEF Trips, Core
    <2> HIDE DEF u
    <2>3. QED
      BY <1>1, <2>1, <2>2 DEF Fed
  <1>4. CASE ~ s.done /\ ready # {}
    <2>1. i \in DOMAIN q /\ b \in Ids
      <3>1. DOMAIN q = 1 .. Len(q) /\ Len(q) \in Nat
        BY <1>1
      <3>2. ready \subseteq DOMAIN q
        OBVIOUS
      <3> HIDE DEF ready
      <3>3. ready \subseteq Nat /\ ready # {}
        BY <1>4, <3>1, <3>2
      <3>4. \E k \in ready : \A j \in ready : k <= j
        BY <3>3, LeastNat
      <3>5. i \in ready
        BY <3>4 DEF Min
      <3> HIDE DEF i
      <3>6. i \in DOMAIN q
        BY <3>2, <3>5
      <3>7. q[i] \in Ids
        <4> HIDE DEF q
        <4>1. QED
          BY <1>1, <3>6, ElementOfSeq
      <3>8. QED
        BY <3>6, <3>7
    <2>2. BacklogStep(s) \in {[t EXCEPT !.done = TRUE], x}
      <3>1. BacklogStep(s) =
             CASE s.done -> s
               [] ~ s.done /\ ready = {} -> [s EXCEPT !.done = TRUE]
               [] ~ s.done /\ ready # {} /\ b \in Range(s.node.most_recent) -> [t EXCEPT !.done = TRUE]
               [] OTHER -> x
        BY Zenon DEF BacklogStep
      <3> HIDE DEF t, x, b, ready
      <3>2. QED
        BY <1>4, <3>1
    <2> DEFINE c == PopFrom(Core(s), Heads(Core(s), b), b)
    <2> HIDE DEF i, ready
    <2> HIDE DEF b
    <2>3. Core(s) \in States /\ Core(s).node = s.node /\ Core(s).peer = s.peer /\ InProgress(Core(s)) = InProgress(s)
      BY <1>1, CoreFacts
    <2>4. Same(Core(s), c) /\ c \in States
      BY <2>1, <2>3, PopFromSame, SameState
    <2>5. Good(c, L)
      BY <1>1, <2>4, SameGood
    <2>6. t = [node |-> c.node, peer |-> c.peer, done |-> FALSE] /\ c.node = s.node
      <3> DEFINE ps == Heads(s, b)
                 f == [p \in Peers |->
                          IF p \in ps THEN [s.peer[p] EXCEPT !.ids_of_items_to_get = Tail(@),
                                                             !.ids_of_items_being_processed = @ \cup {b}]
                          ELSE s.peer[p]]
      <3>1. Heads(Core(s), b) = ps
        BY <2>3 DEF Heads, Active
      <3>2. t = [s EXCEPT !.peer = f]
        BY DEF PopFrom
      <3>3. c = [Core(s) EXCEPT !.peer = f]
        BY <2>3, <3>1 DEF PopFrom
      <3> HIDE DEF f, t, c
      <3>4. c.node = s.node /\ c.peer = f
        BY <2>3, <3>3 DEF States
      <3>5. t = [node |-> s.node, peer |-> f, done |-> FALSE]
        BY <1>1, <1>4, <3>2 DEF Trips
      <3>6. QED
        BY <3>4, <3>5
    <2> HIDE DEF c
    <2> HIDE DEF t
    <2>7. t \in Trips /\ Core(t) = c /\ t.node = s.node
      BY <2>4, <2>6 DEF Trips, Core, States
    <2>8. Fed([t EXCEPT !.done = TRUE], L)
      <3> DEFINE u == [t EXCEPT !.done = TRUE]
      <3>1. u \in Trips /\ Core(u) = Core(t) /\ u.done
        BY <2>7 DEF Trips, Core
      <3> HIDE DEF u
      <3>2. Fed(u, L)
        BY <2>5, <2>7, <3>1 DEF Fed
      <3>3. QED
        BY <3>2 DEF u
    <2>9. Fed(x, L)
      <3>1. R \in Seq(Ids) /\ e \in Handling /\ e.from = {}
        <4>1. R \in Seq(Ids)
          <5> HIDE DEF q
          <5>1. t.node.received = q
            BY <2>7 DEF q
          <5>2. QED
            BY <1>1, <2>1, <5>1, RemoveAtType
        <4>2. QED
          BY <2>1, <4>1 DEF Handling
      <3>2. t.node \in NodeRecs /\ h \in Seq(Handling)
        BY <2>7, <1>1 DEF NodeRecs
      <3> HIDE DEF R, e, h
      <3> DEFINE n1 == [t.node EXCEPT !.received = R]
                 n2 == [n1 EXCEPT !.handling = Append(h, e)]
                 c1 == [c EXCEPT !.node.received = R]
                 c2 == [c1 EXCEPT !.node.handling = Append(@, e)]
      <3>3. v = [node |-> n1, peer |-> t.peer, done |-> t.done]
        BY <2>7 DEF Trips
      <3>4. n1 \in NodeRecs /\ n1.handling = h
        BY <3>1, <3>2 DEF NodeRecs, h
      <3>5. c1 = [node |-> n1, peer |-> t.peer]
        BY <2>4, <2>6, <2>7 DEF States
      <3> HIDE DEF v, n1
      <3>6. w = [node |-> n2, peer |-> t.peer, done |-> t.done]
        <4>1. w = [v EXCEPT !.node = n2]
          BY <3>3
        <4> HIDE DEF w, n2
        <4>2. QED
          BY <3>3, <4>1
      <3>7. c2 = [node |-> n2, peer |-> t.peer]
        <4> HIDE DEF c1
        <4>1. c2 = [c1 EXCEPT !.node = n2]
          BY <3>4, <3>5
        <4> HIDE DEF c2, n2
        <4>2. QED
          BY <3>5, <4>1
      <3> HIDE DEF w, n2
      <3>8. x = [node |-> n2, peer |-> t.peer, done |-> D]
        BY <3>6
      <3> HIDE DEF x
      <3>9. Same(c, c1) /\ c1 \in States
        <4>1. Same(c, c1)
          BY <2>4, <3>1, NodeFieldSame
        <4>2. QED
          BY <4>1, SameState
      <3>10. Good(c1, L)
        BY <2>5, <3>9, SameGood
      <3>11. InProgress(c1) = InProgress(t) /\ InProgress(t) = InProgress(s)
        <4>1. c1.node = n1 /\ n1.handled = t.node.handled /\ n1.handling = t.node.handling
          BY <3>5, <3>4, <3>2 DEF n1, NodeRecs, h
        <4>2. QED
          BY <2>7, <4>1 DEF InProgress
      <3>12. InProgress(t) \in Nat /\ InProgress(t) < MaxHandling /\ MaxHandling \in Nat
        BY <1>1, <1>4, <3>11, InProgressNat, BoundsAssumption DEF Fed
      <3> HIDE DEF c1
      <3>13. Good(c2, L) /\ InProgress(c2) = InProgress(t) + 1
        <4>1. InProgress(c1) + (IF e.from = {} THEN 1 ELSE 0) <= MaxHandling
          BY <3>1, <3>11, <3>12
        <4>2. LET u == [c1 EXCEPT !.node.handling = Append(@, e)]
              IN  Good(u, L) /\ u.peer = c1.peer /\ InProgress(u) = InProgress(c1) + (IF e.from = {} THEN 1 ELSE 0)
          BY <3>1, <3>10, <4>1, HandOver, SMTT(30)
        <4>3. QED
          BY <3>1, <3>11, <4>2
      <3> HIDE DEF c2
      <3>14. c2 \in States
        BY <3>13 DEF Good
      <3>15. Core(x) = c2 /\ x.done = D /\ x.node = n2
        BY <3>7, <3>8 DEF Core
      <3>16. x \in Trips
        <4>1. n2 \in NodeRecs /\ t.peer \in [Peers -> PeerRecs]
          BY <3>7, <3>14 DEF States
        <4>2. D \in BOOLEAN
          OBVIOUS
        <4> HIDE DEF D
        <4>3. QED
          BY <3>8, <4>1, <4>2 DEF Trips
      <3>17. InProgress(x) = InProgress(t) + 1
        BY <3>13, <3>15, <3>16, CoreFacts
      <3>18. ~ x.done => InProgress(x) < MaxHandling
        <4>1. ~ D => InProgress(t) + 1 < MaxHandling
          BY <3>12
        <4> HIDE DEF D
        <4>2. ~ x.done => ~ D
          BY <3>15, Zenon
        <4>3. QED
          BY <3>17, <4>1, <4>2, Zenon
      <3>19. QED
        BY <3>13, <3>15, <3>16, <3>18 DEF Fed
    <2>10. QED
      BY <2>2, <2>8, <2>9
  <1>5. QED
    BY <1>2, <1>3, <1>4

\* process_backlog_of_sync_blocks never gives the chain more blocks than it may.
LEMMA BacklogGood ==
  ASSUME NEW L, NEW s, Good(s, L), InProgress(s) < MaxHandling
  PROVE  Good(Backlog(s), L)
  <1> DEFINE all == s.node.new_received \o s.node.received
             n0 == [s.node EXCEPT !.received = all, !.new_received = <<>>,
                                  !.suspended = FALSE, !.backlog_due = FALSE]
             s0 == [node |-> n0, peer |-> s.peer, done |-> FALSE]
             list == all \o <<Genesis>>
             t == Steps(list, s0)
             suspend == InProgress(t) >= MaxHandling /\ Len(t.node.received) >= MaxPrefetch
             F == t.node.fetch_due \/ ~ suspend
             u == [node |-> [t.node EXCEPT !.suspended = suspend, !.fetch_due = F], peer |-> t.peer]
  <1>1. s \in States /\ s.node \in NodeRecs
    BY DEF Good, States
  <1>2. all \in Seq(Ids) /\ list \in Seq(Ids)
    <2>1. s.node.new_received \in Seq(Ids) /\ s.node.received \in Seq(Ids) /\ Genesis \in Ids
      BY <1>1, EmptyClimbs DEF NodeRecs
    <2>2. all \in Seq(Ids)
      BY <2>1
    <2> HIDE DEF all
    <2>3. all \o <<Genesis>> \in Seq(Ids)
      BY <2>1, <2>2
    <2>4. QED
      BY <2>2, <2>3
  <1>3. Backlog(s) = u
    <2>1. n0.received = all
      BY <1>1 DEF NodeRecs
    <2> DEFINE a0 == [s.node EXCEPT !.received = s.node.new_received \o @, !.new_received = <<>>,
                                    !.suspended = FALSE, !.backlog_due = FALSE]
    <2>2. a0 = n0
      BY <1>1 DEF NodeRecs
    <2> DEFINE b0 == [node |-> a0, peer |-> s.peer, done |-> FALSE]
               y == Steps(a0.received \o <<Genesis>>, b0)
               susp == InProgress(y) >= MaxHandling /\ Len(y.node.received) >= MaxPrefetch
    <2>3. Backlog(s) = [node |-> [y.node EXCEPT !.suspended = susp, !.fetch_due = @ \/ ~ susp], peer |-> y.peer]
      BY Zenon DEF Backlog, Steps
    <2>4. y = t
      <3> HIDE DEF a0, n0, all
      <3>1. QED
        BY <2>1, <2>2
    <2> HIDE DEF y, t
    <2>5. QED
      BY <2>3, <2>4
  <1>4. n0 \in NodeRecs /\ n0.active_sync_requests = s.node.active_sync_requests
        /\ n0.handling = s.node.handling /\ n0.handled = s.node.handled
    <2>1. <<>> \in Seq(Ids)
      BY EmptyClimbs
    <2> HIDE DEF all
    <2>2. QED
      BY <1>1, <1>2, <2>1 DEF NodeRecs
  <1> HIDE DEF n0
  <1>5. Fed(s0, L)
    <2> DEFINE c == [node |-> n0, peer |-> s.peer]
    <2>1. Core(s0) = c /\ s0 \in Trips
      BY <1>1, <1>4 DEF Core, Trips, States
    <2>2. Same(s, c)
      BY <1>1, <1>4 DEF Same, States
    <2>3. Good(c, L)
      BY <2>2, SameGood
    <2>4. InProgress(s0) = InProgress(s)
      BY <1>4 DEF InProgress
    <2>5. QED
      BY <2>1, <2>3, <2>4 DEF Fed
  <1> HIDE DEF s0
  <1>6. Fed(t, L)
    <2> DEFINE A == {x \in Trips : Fed(x, L)}
    <2>1. s0 \in A
      BY <1>5 DEF Fed
    <2>2. \A x \in A : BacklogStep(x) \in A
      <3> TAKE x \in A
      <3>1. Fed(BacklogStep(x), L)
        BY BacklogStepFed
      <3>2. QED
        BY <3>1 DEF Fed
    <2>3. IsFiniteSet(DOMAIN list) /\ DOMAIN list \subseteq Nat
      <3> HIDE DEF list
      <3>1. DOMAIN list = 1 .. Len(list) /\ Len(list) \in Nat
        BY <1>2
      <3>2. QED
        BY <3>1, FS_Interval
    <2> HIDE DEF A, list
    <2>4. t \in A
      BY <2>1, <2>2, <2>3, StepsStay
    <2>5. QED
      BY <2>4 DEF A
  <1> HIDE DEF t
  <1>7. t \in Trips /\ Good(Core(t), L)
    BY <1>6 DEF Fed
  <1> DEFINE c == Core(t)
  <1>8. c \in States /\ c.node = t.node /\ c.peer = t.peer
    BY <1>7, CoreFacts
  <1>9. suspend \in BOOLEAN /\ F \in BOOLEAN
    OBVIOUS
  <1> HIDE DEF c, suspend, F
  <1>10. Same(c, u)
    <2> DEFINE n == [t.node EXCEPT !.suspended = suspend, !.fetch_due = F]
    <2>1. n \in NodeRecs /\ n.active_sync_requests = c.node.active_sync_requests
          /\ n.handling = c.node.handling /\ n.handled = c.node.handled
      BY <1>7, <1>8, <1>9 DEF Trips, NodeRecs
    <2>2. u = [node |-> n, peer |-> c.peer]
      BY <1>8
    <2> HIDE DEF n, u
    <2>3. u.node = n /\ u.peer = c.peer /\ u \in States
      BY <1>8, <2>1, <2>2 DEF States
    <2>4. QED
      BY <1>8, <2>1, <2>3 DEF Same
  <1>11. Good(c, L)
    BY <1>7 DEF c
  <1>12. Good(u, L)
    BY <1>10, <1>11, SameGood
  <1>13. QED
    BY <1>3, <1>12

----------------------------------------------------------------------------
(* The invariant.                                                          *)

\* A step that only works off the queues of the chain thread.
LEMMA QueuesGood ==
  ASSUME NEW L, NEW s, Good(s, L), NEW t \in States, t.peer = s.peer,
         t.node.active_sync_requests = s.node.active_sync_requests, InProgress(t) <= InProgress(s)
  PROVE  Good(t, L)
  <1>1. \A p \in Peers : Asked(t, p) = Asked(s, p)
    BY DEF Asked
  <1>2. s \in States
    BY DEF Good
  <1>3. InProgress(t) \in Nat /\ InProgress(s) \in Nat /\ MaxHandling \in Nat
    BY <1>2, InProgressNat, BoundsAssumption DEF States
  <1>4. InProgress(t) <= MaxHandling
    BY <1>3 DEF Good
  <1>5. QED
    BY <1>1, <1>4 DEF Good

\* Everything that is asked for is tracked, and the peers are of their type.
SyncInv ==
    /\ Good(State, Lacking)
    /\ remote \in [Peers -> Remotes]

\* What a handler returns is the next state.
LEMMA NextState ==
  ASSUME NEW t \in States, Becomes(t)
  PROVE  State' = t
  BY DEF Becomes, State, States

\* A step of the node alone.
LEMMA NodeStep ==
  ASSUME SyncInv, NEW t, Good(t, Lacking), State' = t, UNCHANGED remote
  PROVE  SyncInv'
  <1>1. Lacking' = Lacking
    BY DEF Lacking
  <1>2. QED
    BY <1>1 DEF SyncInv

\* A step of the node and a peer.
LEMMA BothStep ==
  ASSUME SyncInv, NEW t, Good(t, Lacking), State' = t, NEW p \in Peers, NEW r \in Remotes,
         r.lacks = remote[p].lacks, remote' = [remote EXCEPT ![p] = r]
  PROVE  SyncInv'
  <1>1. remote \in [Peers -> Remotes]
    BY DEF SyncInv
  <1>2. remote' \in [Peers -> Remotes]
    BY <1>1
  <1>3. \A q \in Peers : remote'[q].lacks = remote[q].lacks
    BY <1>1
  <1>4. Lacking' = Lacking
    BY <1>3 DEF Lacking
  <1>5. QED
    BY <1>2, <1>4 DEF SyncInv

\* The types of the variables.
LEMMA StateFacts ==
  ASSUME SyncInv
  PROVE  /\ State \in States /\ node \in NodeRecs /\ peer \in [Peers -> PeerRecs]
         /\ State.node = node /\ State.peer = peer
  BY DEF SyncInv, Good, States, State

\* The invariant holds at the start.
LEMMA InitSync == Init => SyncInv
  <1> SUFFICES ASSUME Init PROVE SyncInv
    OBVIOUS
  <1>1. /\ InitialHead \in Ids /\ InitialPeerHeads \subseteq Ids /\ MayLack \subseteq Ids /\ <<>> \in Seq(Ids)
    BY BlocksAssumption, BoundsAssumption, BlockIds, EmptyClimbs
  <1>2. \A b \in Ids : Range(ChainTo(b)) \subseteq Ids
    <2> TAKE b \in Ids
    <2> DEFINE c == ChainTo(b)
    <2>1. c \in Seq(Ids)
      BY ChainToFacts
    <2> HIDE DEF c
    <2>2. \A i \in DOMAIN c : c[i] \in Ids
      BY <2>1, ElementOfSeq
    <2>3. QED
      BY <2>2 DEF Range, c
  <1>3. /\ node \in NodeRecs /\ node.active_sync_requests = {} /\ node.handling = <<>> /\ node.handled = <<>>
    <2> DEFINE k == Range(ChainTo(InitialHead))
               m == <<InitialHead>>
    <2>1. k \in SUBSET Ids /\ m \in Seq(Ids)
      BY <1>1, <1>2
    <2>2. node = [known |-> k, head |-> InitialHead,
               active_sync_requests |-> {}, new_received |-> <<>>, received |-> <<>>,
               handling |-> <<>>, handled |-> <<>>, most_recent |-> m,
               items_to_fetch |-> <<>>, items_due |-> TRUE, backlog_due |-> FALSE, fetch_due |-> TRUE,
               suspended |-> FALSE, aborted |-> FALSE]
      BY DEF Init
    <2> HIDE DEF k, m
    <2>3. <<>> \in Seq(Handling) /\ <<>> \in Seq(Handled)
      BY EmptySeq
    <2>4. QED
      BY <1>1, <2>1, <2>2, <2>3 DEF NodeRecs
  <1>4. peer \in [Peers -> PeerRecs] /\ \A p \in Peers : peer[p] = Gone
    BY PeersTyped DEF Init
  <1>5. remote \in [Peers -> Remotes]
    <2>1. PICK h \in [Peers -> InitialPeerHeads], l \in [Peers -> SUBSET MayLack] :
            remote = [p \in Peers |-> [known |-> Range(ChainTo(h[p])), head |-> h[p], lacks |-> l[p],
                                       needs_items |-> TRUE, will_ask |-> FALSE]]
      BY DEF Init
    <2>2. ASSUME NEW p \in Peers
          PROVE  remote[p] \in Remotes
      <3> DEFINE k == Range(ChainTo(h[p]))
      <3>1. h[p] \in Ids /\ l[p] \in SUBSET Ids
        BY <1>1
      <3>2. k \in SUBSET Ids
        BY <1>2, <3>1
      <3>3. remote[p] = [known |-> k, head |-> h[p], lacks |-> l[p], needs_items |-> TRUE, will_ask |-> FALSE]
        BY <2>1
      <3> HIDE DEF k
      <3>4. QED
        BY <3>1, <3>2, <3>3 DEF Remotes
    <2>3. QED
      BY <2>1, <2>2
  <1>6. InProgress(State) <= MaxHandling
    <2>1. SyncBlocks(<<>>) = {}
      BY DEF SyncBlocks
    <2>2. InProgress(State) = Cardinality(SyncBlocks(<<>>)) + Cardinality(SyncBlocks(<<>>))
      BY <1>3 DEF InProgress, SyncBlocks, State
    <2>3. QED
      BY <2>1, <2>2, FS_EmptySet, BoundsAssumption
  <1>7. State \in States /\ State.node = node /\ State.peer = peer
    BY <1>3, <1>4 DEF State, States
  <1>8. \A p \in Peers : Asked(State, p) = {}
    BY <1>4, <1>7, PeersTyped DEF Asked, Range
  <1>9. Climbs(<<>>) /\ Distinct(<<>>) /\ Len(<<>>) <= MaxPerPeer
    BY EmptyClimbs, BoundsAssumption DEF Distinct
  <1>10. Good(State, Lacking)
    BY <1>3, <1>4, <1>6, <1>7, <1>8, <1>9, PeersTyped DEF Good
  <1>11. QED
    BY <1>5, <1>10 DEF SyncInv

\* The loops over the peers take them in some order.
LEMMA Orders ==
  ASSUME SyncInv, NEW order \in SetToSeqs(Active(State))
  PROVE  order \in Seq(Peers) /\ \A i \in DOMAIN order : order[i] \in Peers /\ peer[order[i]].list = "active"
  <1> DEFINE S == Active(State)
             k == Cardinality(S)
  <1>1. S \subseteq Peers /\ \A p \in S : peer[p].list = "active"
    BY StateFacts DEF Active
  <1>2. IsFiniteSet(S) /\ k \in Nat
    BY <1>1, FS_Subset, FS_CardinalityType, BlocksAssumption
  <1>3. order \in [1 .. k -> S]
    BY DEF SetToSeqs
  <1> HIDE DEF S, k
  <1>4. order \in Seq(Peers)
    <2>1. order \in [1 .. k -> Peers]
      BY <1>1, <1>3
    <2>2. QED
      BY <1>2, <2>1
  <1>5. \A i \in DOMAIN order : order[i] \in S
    BY <1>3
  <1>6. QED
    BY <1>1, <1>4, <1>5

\* The step of fetch_sync_items_loop.
LEMMA FetchSyncItemsStep ==
  ASSUME SyncInv, fetch_sync_items_loop
  PROVE  SyncInv'
  <1>1. PICK order \in SetToSeqs(Active(State)) :
          Becomes(IF node.suspended THEN [State EXCEPT !.node.fetch_due = FALSE]
                  ELSE FoldLeft(RequestFrom, [State EXCEPT !.node.fetch_due = FALSE], order))
    BY DEF fetch_sync_items_loop
  <1> DEFINE s == [State EXCEPT !.node.fetch_due = FALSE]
             t == IF node.suspended THEN s ELSE Requests(order, s)
  <1>2. Becomes(t)
    BY <1>1 DEF Requests
  <1>3. State \in States /\ Good(State, Lacking)
    BY StateFacts DEF SyncInv
  <1>4. Same(State, s) /\ s.peer = peer
    <2>1. Same(State, s)
      BY <1>3, NodeFieldSame
    <2>2. s.peer = peer
      BY DEF State
    <2>3. QED
      BY <2>1, <2>2
  <1> HIDE DEF s
  <1>5. Good(s, Lacking)
    BY <1>3, <1>4, SameGood
  <1>6. Good(Requests(order, s), Lacking)
    <2>1. order \in Seq(Peers) /\ \A i \in DOMAIN order : order[i] \in Peers /\ peer[order[i]].list = "active"
      BY Orders
    <2>2. \A i \in DOMAIN order : s.peer[order[i]].list # "gone"
      BY <1>4, <2>1
    <2>3. QED
      BY <1>5, <2>1, <2>2, RequestsGood
  <1>7. Good(t, Lacking)
    BY <1>5, <1>6
  <1> HIDE DEF t
  <1>8. State' = t
    <2>1. t \in States
      BY <1>7 DEF Good
    <2>2. QED
      BY <1>2, <2>1, NextState
  <1>9. UNCHANGED remote
    BY DEF fetch_sync_items_loop
  <1>10. QED
    BY <1>7, <1>8, <1>9, NodeStep

\* The step of fetch_items_loop.
LEMMA FetchItemsStep ==
  ASSUME SyncInv, fetch_items_loop
  PROVE  SyncInv'
  <1>1. PICK order \in SetToSeqs(Active(State)) :
          Becomes(FoldLeft(LAMBDA s, b : FetchItem(s, b, order),
                           [State EXCEPT !.node.items_due = FALSE], node.items_to_fetch))
    BY DEF fetch_items_loop
  <1> DEFINE s == [State EXCEPT !.node.items_due = FALSE]
             list == node.items_to_fetch
             t == Items(list, order, s)
  <1>2. Becomes(t)
    BY <1>1 DEF Items
  <1>3. State \in States /\ Good(State, Lacking) /\ list \in Seq(Ids)
    BY StateFacts DEF SyncInv, NodeRecs
  <1>4. Same(State, s) /\ s \in States
    BY <1>3, NodeFieldSame, SameState
  <1> HIDE DEF s, list
  <1>5. order \in Seq(Peers)
    BY Orders
  <1>6. Same(s, t) /\ t \in States
    BY <1>3, <1>4, <1>5, ItemsSame, SameState
  <1> HIDE DEF t
  <1>7. Good(t, Lacking)
    BY <1>3, <1>4, <1>6, SameGood
  <1>8. State' = t
    BY <1>2, <1>6, NextState
  <1>9. UNCHANGED remote
    BY DEF fetch_items_loop
  <1>10. QED
    BY <1>7, <1>8, <1>9, NodeStep

\* The step of process_backlog_of_sync_blocks.
LEMMA BacklogStepKeeps ==
  ASSUME SyncInv, process_backlog_of_sync_blocks
  PROVE  SyncInv'
  <1> DEFINE s == [State EXCEPT !.node.backlog_due = FALSE]
             t == IF InProgress(State) >= MaxHandling THEN s ELSE Backlog(State)
  <1>1. Becomes(t) /\ UNCHANGED remote
    BY DEF process_backlog_of_sync_blocks
  <1>2. State \in States /\ Good(State, Lacking)
    BY StateFacts DEF SyncInv
  <1>3. Same(State, s)
    BY <1>2, NodeFieldSame
  <1>4. Good(s, Lacking)
    BY <1>2, <1>3, SameGood
  <1>5. InProgress(State) < MaxHandling => Good(Backlog(State), Lacking)
    BY <1>2, BacklogGood
  <1>6. InProgress(State) \in Nat /\ MaxHandling \in Nat
    BY StateFacts, InProgressNat, BoundsAssumption
  <1> HIDE DEF s
  <1>7. Good(t, Lacking)
    BY <1>4, <1>5, <1>6
  <1> HIDE DEF t
  <1>8. State' = t
    <2>1. t \in States
      BY <1>7 DEF Good
    <2>2. QED
      BY <1>1, <2>1, NextState
  <1>9. QED
    BY <1>1, <1>7, <1>8, NodeStep

\* The step of the chain thread: a block changes queues.
LEMMA HandleBlockStep ==
  ASSUME SyncInv, handle_block
  PROVE  SyncInv'
  <1> DEFINE q == node.handling
             d == node.handled
             e == Head(q)
             ok == Pushable(node, e.block)
             n == IF ok THEN Pushed(node, e.block) ELSE node
             x == [block |-> e.block, from |-> e.from, ok |-> ok]
             m == [n EXCEPT !.handling = Tail(q), !.handled = Append(d, x)]
             t == [node |-> m, peer |-> peer]
  <1>1. q # <<>> /\ UNCHANGED <<peer, remote>>
    BY DEF handle_block
  <1>2. State \in States /\ Good(State, Lacking) /\ node \in NodeRecs /\ State.node = node /\ State.peer = peer
        /\ q \in Seq(Handling) /\ d \in Seq(Handled) /\ peer \in [Peers -> PeerRecs]
    BY StateFacts DEF SyncInv, NodeRecs
  <1>3. e \in Handling /\ Tail(q) \in Seq(Handling)
    <2> HIDE DEF q
    <2>1. QED
      BY <1>1, <1>2, HeadTailProperties
  <1>4. x \in Handled /\ x.from = e.from
    <2>1. ok \in BOOLEAN
      BY DEF Pushable
    <2> HIDE DEF ok, e
    <2>2. QED
      BY <1>3, <2>1 DEF Handling, Handled
  <1>5. /\ n \in NodeRecs /\ n.handling = q /\ n.handled = d /\ n.active_sync_requests = node.active_sync_requests
    <2>1. e.block \in Ids
      BY <1>3 DEF Handling
    <2> DEFINE b == e.block
               K == node.known \cup {b}
               H == IF Len(b) > Len(node.head) THEN b ELSE node.head
    <2>2. K \in SUBSET Ids /\ H \in Ids
      BY <1>2, <2>1 DEF NodeRecs
    <2>3. Pushed(node, b) = [node EXCEPT !.known = K, !.head = H]
      BY DEF Pushed
    <2> HIDE DEF b, K, H, ok
    <2>4. /\ Pushed(node, b) \in NodeRecs /\ Pushed(node, b).handling = q /\ Pushed(node, b).handled = d
          /\ Pushed(node, b).active_sync_requests = node.active_sync_requests
      BY <1>2, <2>2, <2>3 DEF NodeRecs
    <2>5. n \in {node, Pushed(node, b)}
      BY DEF b
    <2> HIDE DEF n
    <2>6. QED
      BY <1>2, <2>4, <2>5
  <1>6. node' = m
    BY Zenon, <1>5 DEF handle_block
  <1>7. Append(d, x) \in Seq(Handled)
    <2> HIDE DEF d, x
    <2>1. QED
      BY <1>2, <1>4
  <1>8. /\ m \in NodeRecs /\ m.handling = Tail(q) /\ m.handled = Append(d, x)
        /\ m.active_sync_requests = node.active_sync_requests
    <2> HIDE DEF n, x, q, d
    <2>1. QED
      BY <1>3, <1>5, <1>7 DEF NodeRecs
  <1>9. InProgress(t) = InProgress(State)
    <2> HIDE DEF m, q, d, e, x
    <2>1. InProgress(t) = Cardinality(SyncBlocks(Tail(q))) + Cardinality(SyncBlocks(Append(d, x)))
      BY <1>8 DEF InProgress, SyncBlocks
    <2>2. InProgress(State) = Cardinality(SyncBlocks(q)) + Cardinality(SyncBlocks(d))
      BY <1>2 DEF InProgress, SyncBlocks, q, d
    <2>3. Cardinality(SyncBlocks(q)) = Cardinality(SyncBlocks(Tail(q))) + (IF e.from = {} THEN 1 ELSE 0)
      BY <1>1, <1>2, SyncBlocksTail DEF e
    <2>4. Cardinality(SyncBlocks(Append(d, x))) = Cardinality(SyncBlocks(d)) + (IF x.from = {} THEN 1 ELSE 0)
      BY <1>2, <1>4, SyncBlocksAppend
    <2>5. Cardinality(SyncBlocks(d)) \in Nat /\ Cardinality(SyncBlocks(Tail(q))) \in Nat
      BY <1>2, <1>3, SyncBlocksFinite
    <2>6. QED
      BY <1>4, <2>1, <2>2, <2>3, <2>4, <2>5
  <1>10. t \in States /\ t.node = m /\ t.peer = peer /\ State' = t
    BY <1>1, <1>2, <1>6, <1>8 DEF State, States
  <1> HIDE DEF m, t
  <1>11. InProgress(t) <= InProgress(State)
    BY <1>2, <1>9, InProgressNat
  <1>12. Good(t, Lacking)
    BY <1>2, <1>8, <1>10, <1>11, QueuesGood
  <1>13. QED
    BY <1>1, <1>10, <1>12, NodeStep

\* The step of the fiber that waited for the chain.
LEMMA BlockHandledStep ==
  ASSUME SyncInv, BlockHandled
  PROVE  SyncInv'
  <1> DEFINE d == node.handled
             e == Head(d)
             b == e.block
             m == [node EXCEPT !.handled = Tail(d)]
             u == [State EXCEPT !.node = m]
             v == [u EXCEPT !.node = Accepted(@, b)]
             s == [State EXCEPT !.node = IF e.ok THEN Accepted(m, b) ELSE m]
             after == IF e.from = {}
                      THEN IF e.ok THEN SyncBlockAccepted(s, b) ELSE SyncBlockRejected(s, b)
                      ELSE IF e.ok THEN NormalBlockAccepted(s, b) ELSE NormalBlockRejected(s, b)
             y == [after EXCEPT !.node.backlog_due = TRUE]
             z == TriggerItemsIfIdle(after, CHOOSE p \in e.from : TRUE)
  <1>1. d # <<>> /\ UNCHANGED remote
    BY DEF BlockHandled
  <1>2. State \in States /\ Good(State, Lacking) /\ node \in NodeRecs /\ State.node = node /\ State.peer = peer
        /\ d \in Seq(Handled) /\ peer \in [Peers -> PeerRecs]
    BY StateFacts DEF SyncInv, NodeRecs
  <1>3. e \in Handled /\ Tail(d) \in Seq(Handled) /\ b \in Ids
    <2>1. e \in Handled /\ Tail(d) \in Seq(Handled)
      <3> HIDE DEF d
      <3>1. QED
        BY <1>1, <1>2, HeadTailProperties
    <2> HIDE DEF e
    <2>2. QED
      BY <2>1 DEF Handled
  <1>4. Becomes(y) \/ Becomes(z)
    <2>1. Becomes(IF e.from = {} THEN [after EXCEPT !.node.backlog_due = TRUE]
                  ELSE TriggerItemsIfIdle(after, CHOOSE p \in e.from : TRUE))
      BY Zenon DEF BlockHandled
    <2> HIDE DEF after
    <2>4. Becomes(IF e.from = {} THEN y ELSE z)
      BY <2>1
    <2> HIDE DEF y, z
    <2>5. CASE e.from = {}
      BY <2>4, <2>5
    <2>6. CASE e.from # {}
      BY <2>4, <2>6
    <2>7. QED
      BY <2>5, <2>6
  <1>5. m \in NodeRecs /\ m.handled = Tail(d) /\ m.handling = node.handling
        /\ m.active_sync_requests = node.active_sync_requests
    <2> HIDE DEF d
    <2>1. QED
      BY <1>2, <1>3 DEF NodeRecs
  <1>6. s \in {u, v}
    <2>1. u.node = m
      BY DEF State
    <2>2. v = [u EXCEPT !.node = Accepted(m, b)]
      BY <2>1, Zenon
    <2>3. v = [State EXCEPT !.node = Accepted(m, b)]
      <3> DEFINE c == Accepted(m, b)
      <3> HIDE DEF c, m
      <3>1. [u EXCEPT !.node = c] = [State EXCEPT !.node = c]
        BY DEF State
      <3>2. QED
        BY <2>2, <3>1 DEF c
    <2> HIDE DEF v, u, m
    <2>4. s = IF e.ok THEN v ELSE [State EXCEPT !.node = m]
      BY <2>3
    <2> HIDE DEF s
    <2>5. QED
      BY <2>4 DEF u
  <1> HIDE DEF m, s
  <1>7. u \in States /\ u.node = m /\ u.peer = State.peer
    <2>1. u = [node |-> m, peer |-> peer]
      BY DEF State
    <2>2. QED
      BY <1>2, <1>5, <2>1 DEF States
  <1>8. InProgress(u) <= InProgress(State)
    <2> HIDE DEF d, e
    <2>1. InProgress(u) = Cardinality(SyncBlocks(node.handling)) + Cardinality(SyncBlocks(Tail(d)))
      BY <1>5, <1>7 DEF InProgress, SyncBlocks
    <2>2. InProgress(State) = Cardinality(SyncBlocks(node.handling)) + Cardinality(SyncBlocks(d))
      BY <1>2 DEF InProgress, SyncBlocks, d
    <2>3. Cardinality(SyncBlocks(d)) = Cardinality(SyncBlocks(Tail(d))) + (IF e.from = {} THEN 1 ELSE 0)
      BY <1>1, <1>2, SyncBlocksTail DEF e
    <2>4. node.handling \in Seq(Handling)
      BY <1>2 DEF NodeRecs
    <2>5. Cardinality(SyncBlocks(node.handling)) \in Nat /\ Cardinality(SyncBlocks(Tail(d))) \in Nat
      BY <1>3, <2>4, SyncBlocksFinite
    <2>6. QED
      BY <2>1, <2>2, <2>3, <2>5
  <1>9. Good(u, Lacking)
    BY <1>2, <1>5, <1>7, <1>8, QueuesGood
  <1> HIDE DEF u, b
  <1>10. Same(u, v)
    BY <1>3, <1>7, AcceptedSame
  <1>11. Good(v, Lacking)
    BY <1>9, <1>10, SameGood
  <1> HIDE DEF v
  <1>12. Good(s, Lacking) /\ s \in States
    BY <1>6, <1>9, <1>11 DEF Good
  <1>13. Same(s, after) /\ after \in States
    <2>1. /\ Same(s, SyncBlockAccepted(s, b)) /\ Same(s, SyncBlockRejected(s, b))
          /\ Same(s, NormalBlockAccepted(s, b)) /\ Same(s, NormalBlockRejected(s, b))
      BY <1>3, <1>12, SyncBlockAcceptedSame, SyncBlockRejectedSame, NormalBlockAcceptedSame, NormalBlockRejectedSame
    <2>2. after \in {SyncBlockAccepted(s, b), SyncBlockRejected(s, b), NormalBlockAccepted(s, b), NormalBlockRejected(s, b)}
      OBVIOUS
    <2> HIDE DEF after
    <2>3. Same(s, after)
      BY <2>1, <2>2
    <2>4. QED
      BY <2>3, SameState
  <1> HIDE DEF after
  <1>14. Good(after, Lacking)
    BY <1>12, <1>13, SameGood
  <1>15. Same(after, y) /\ Same(after, z)
    BY <1>13, NodeFieldSame, TriggerItemsSame
  <1> HIDE DEF y, z
  <1>16. Good(y, Lacking) /\ Good(z, Lacking) /\ y \in States /\ z \in States
    BY <1>14, <1>15, SameGood, SameState
  <1>17. CASE Becomes(y)
    BY <1>1, <1>16, <1>17, NextState, NodeStep
  <1>18. CASE Becomes(z)
    BY <1>1, <1>16, <1>18, NextState, NodeStep
  <1>19. QED
    BY <1>4, <1>17, <1>18

\* A peer that changed what it knows or needs, and not what it lacks.
LEMMA RemoteFacts ==
  ASSUME SyncInv, NEW p \in Peers
  PROVE  /\ remote[p] \in Remotes
         /\ \A x, y \in BOOLEAN :
              LET r == [remote[p] EXCEPT !.needs_items = x, !.will_ask = y]
              IN  /\ r \in Remotes /\ r.lacks = remote[p].lacks
                  /\ [remote EXCEPT ![p].needs_items = x, ![p].will_ask = y] = [remote EXCEPT ![p] = r]
         /\ \A y \in BOOLEAN :
              LET r == [remote[p] EXCEPT !.will_ask = y]
              IN  /\ r \in Remotes /\ r.lacks = remote[p].lacks
                  /\ [remote EXCEPT ![p].will_ask = y] = [remote EXCEPT ![p] = r]
  <1>1. remote[p] \in Remotes /\ remote \in [Peers -> Remotes]
    BY DEF SyncInv
  <1>2. ASSUME NEW x \in BOOLEAN, NEW y \in BOOLEAN
        PROVE  LET r == [remote[p] EXCEPT !.needs_items = x, !.will_ask = y]
               IN  /\ r \in Remotes /\ r.lacks = remote[p].lacks
                   /\ [remote EXCEPT ![p].needs_items = x, ![p].will_ask = y] = [remote EXCEPT ![p] = r]
    BY <1>1 DEF Remotes
  <1>3. ASSUME NEW y \in BOOLEAN
        PROVE  LET r == [remote[p] EXCEPT !.will_ask = y]
               IN  /\ r \in Remotes /\ r.lacks = remote[p].lacks
                   /\ [remote EXCEPT ![p].will_ask = y] = [remote EXCEPT ![p] = r]
    BY <1>1 DEF Remotes
  <1>4. QED
    BY <1>1, <1>2, <1>3

\* A peer connects.
LEMMA ConnectStep ==
  ASSUME SyncInv, NEW p \in Peers, Connect(p)
  PROVE  SyncInv'
  <1> DEFINE t == StartSynchronizing([State EXCEPT !.peer[p] = NewPeer], p)
             r == [remote[p] EXCEPT !.needs_items = TRUE, !.will_ask = TRUE]
  <1>1. Becomes(t) /\ peer[p].list = "gone"
    BY DEF Connect, CanConnect, Connected
  <1>2. remote' = [remote EXCEPT ![p].needs_items = TRUE, ![p].will_ask = TRUE]
    BY DEF Connect
  <1>3. r \in Remotes /\ r.lacks = remote[p].lacks /\ remote' = [remote EXCEPT ![p] = r]
    BY <1>2, RemoteFacts
  <1>4. Good(State, Lacking) /\ State.peer[p].list = "gone"
    BY <1>1, StateFacts DEF SyncInv
  <1>5. Good(t, Lacking)
    BY <1>4, ConnectGood
  <1> HIDE DEF t, r
  <1>6. State' = t
    <2>1. t \in States
      BY <1>5 DEF Good
    <2>2. QED
      BY <1>1, <2>1, NextState
  <1>7. QED
    BY <1>3, <1>5, <1>6, BothStep

\* A peer answers with ids.
LEMMA AnswerIdsStep ==
  ASSUME SyncInv, NEW p \in Peers, AnswerIds(p)
  PROVE  SyncInv'
  <1> DEFINE synopsis == peer[p].item_ids_requested_from_peer
             reply == ItemIds(remote[p], synopsis)
             t == OnItemIds(State, p, reply.items, reply.remaining)
             needs == StillNeeds(reply.items, synopsis)
             asks == remote[p].will_ask \/ Last(synopsis) \notin remote[p].known
             r == [remote[p] EXCEPT !.needs_items = needs, !.will_ask = asks]
  <1>1. Becomes(t) /\ peer[p].list # "gone"
    BY DEF AnswerIds, CanAnswerIds, CanRead, Connected
  <1>2. remote' = [remote EXCEPT ![p].needs_items = needs, ![p].will_ask = asks]
    BY Zenon DEF AnswerIds
  <1>3. r \in Remotes /\ r.lacks = remote[p].lacks /\ remote' = [remote EXCEPT ![p] = r]
    <2>1. needs \in BOOLEAN /\ asks \in BOOLEAN
      BY DEF StillNeeds
    <2> HIDE DEF needs, asks
    <2>2. QED
      BY <1>2, <2>1, RemoteFacts
  <1>4. Good(State, Lacking) /\ State \in States /\ State.peer = peer /\ synopsis \in Seq(Ids)
    BY StateFacts DEF SyncInv, PeerRecs
  <1>5. remote[p].known \in SUBSET Ids /\ remote[p].head \in Ids
    BY RemoteFacts DEF Remotes
  <1> HIDE DEF r, synopsis
  <1>6. reply.items \in Seq(Ids) /\ Climbs(reply.items) /\ reply.remaining \in Nat
    BY <1>4, <1>5, ItemIdsFacts
  <1> HIDE DEF reply
  <1>7. Climbs(State.peer[p].ids_of_items_to_get) /\ State.peer[p].list # "gone"
    BY <1>1, <1>4 DEF Good
  <1>8. Same(State, t)
    BY <1>4, <1>6, <1>7, OnItemIdsSame
  <1> HIDE DEF t
  <1>9. Good(t, Lacking) /\ t \in States
    BY <1>4, <1>8, SameGood, SameState
  <1>10. State' = t
    BY <1>1, <1>9, NextState
  <1>11. QED
    BY <1>3, <1>9, <1>10, BothStep

\* A peer answers with a sync block, or lacks it.
LEMMA AnswerSyncItemStep ==
  ASSUME SyncInv, NEW p \in Peers, AnswerSyncItem(p)
  PROVE  SyncInv'
  <1> DEFINE l == peer[p].sync_items_requested_from_peer
             b == Head(l)
             x == OnItemNotAvailable(State, p)
             y == OnSyncBlock(State, p, b)
  <1>1. l # <<>> /\ UNCHANGED remote
    BY DEF AnswerSyncItem, CanAnswerSyncItem
  <1>2. Becomes(IF b \in remote[p].lacks THEN x ELSE y)
    BY DEF AnswerSyncItem
  <1>3. Good(State, Lacking) /\ State.peer = peer
    BY StateFacts DEF SyncInv
  <1>4. CASE b \in remote[p].lacks
    <2>1. b \in Lacking
      BY <1>4 DEF Lacking
    <2>2. Good(x, Lacking)
      BY <1>1, <1>3, <2>1, OnItemNotAvailableGood
    <2>3. Becomes(x)
      BY <1>2, <1>4
    <2> HIDE DEF x
    <2>4. x \in States
      BY <2>2 DEF Good
    <2>5. QED
      BY <1>1, <2>2, <2>3, <2>4, NextState, NodeStep
  <1>5. CASE b \notin remote[p].lacks
    <2>1. Good(y, Lacking)
      BY <1>1, <1>3, OnSyncBlockGood
    <2>2. Becomes(y)
      BY <1>2, <1>5
    <2> HIDE DEF y
    <2>3. y \in States
      BY <2>1 DEF Good
    <2>4. QED
      BY <1>1, <2>1, <2>2, <2>3, NextState, NodeStep
  <1>6. QED
    BY <1>4, <1>5

\* A peer answers with an advertised block.
LEMMA AnswerItemStep ==
  ASSUME SyncInv, NEW p \in Peers, AnswerItem(p)
  PROVE  SyncInv'
  <1>1. PICK b \in peer[p].items_requested_from_peer : Becomes(OnNormalBlock(State, p, b))
    BY DEF AnswerItem
  <1>2. UNCHANGED remote
    BY DEF AnswerItem
  <1>3. Good(State, Lacking) /\ State.peer = peer
    BY StateFacts DEF SyncInv
  <1> DEFINE t == OnNormalBlock(State, p, b)
  <1>4. Good(t, Lacking)
    BY <1>3, OnNormalBlockGood
  <1>5. Becomes(t)
    BY <1>1
  <1> HIDE DEF t
  <1>6. t \in States
    BY <1>4 DEF Good
  <1>7. QED
    BY <1>2, <1>4, <1>5, <1>6, NextState, NodeStep

\* A peer asks for ids.
LEMMA PeerAsksStep ==
  ASSUME SyncInv, NEW p \in Peers, PeerAsks(p)
  PROVE  SyncInv'
  <1> DEFINE t == OnFetchIds(State, p, ChainSynopsis(remote[p].head))
             r == [remote[p] EXCEPT !.will_ask = FALSE]
  <1>1. Becomes(t) /\ peer[p].list # "gone" /\ remote' = [remote EXCEPT ![p].will_ask = FALSE]
    BY DEF PeerAsks, CanAsk, CanRead, Connected
  <1>2. r \in Remotes /\ r.lacks = remote[p].lacks /\ remote' = [remote EXCEPT ![p] = r]
    BY <1>1, RemoteFacts
  <1>3. Good(State, Lacking) /\ State \in States /\ State.peer[p].list # "gone"
    BY <1>1, StateFacts DEF SyncInv
  <1>4. Same(State, t)
    BY <1>3, OnFetchIdsSame
  <1> HIDE DEF t, r
  <1>5. Good(t, Lacking) /\ t \in States
    BY <1>3, <1>4, SameGood, SameState
  <1>6. State' = t
    BY <1>1, <1>5, NextState
  <1>7. QED
    BY <1>2, <1>5, <1>6, BothStep

\* A connection ends.
LEMMA ClosedStep ==
  ASSUME SyncInv, NEW p \in Peers, ConnectionLost(p) \/ PeerCloses(p)
  PROVE  SyncInv'
  <1> DEFINE t == ConnectionClosed(State, p)
             r == [remote[p] EXCEPT !.will_ask = FALSE]
  <1>1. Becomes(t) /\ remote' = [remote EXCEPT ![p].will_ask = FALSE]
    BY DEF ConnectionLost, PeerCloses
  <1>2. r \in Remotes /\ r.lacks = remote[p].lacks /\ remote' = [remote EXCEPT ![p] = r]
    BY <1>1, RemoteFacts
  <1>3. Good(t, Lacking)
    BY ConnectionClosedGood DEF SyncInv
  <1> HIDE DEF t, r
  <1>4. t \in States
    BY <1>3 DEF Good
  <1>5. State' = t
    BY <1>1, <1>4, NextState
  <1>6. QED
    BY <1>2, <1>3, <1>5, BothStep

\* A peer learns a block, in silence or not.
LEMMA PeerLearnsStep ==
  ASSUME SyncInv, NEW p \in Peers, NEW b \in Blocks, PeerLearns(p, b)
  PROVE  SyncInv'
  <1> DEFINE K == remote[p].known \cup {b}
             H == IF Len(b) > Len(remote[p].head) THEN b ELSE remote[p].head
             r == [remote[p] EXCEPT !.known = K, !.head = H]
             a == [r EXCEPT !.will_ask = TRUE]
             t == OnInventory(State, p, b)
  <1>1. remote[p] \in Remotes /\ b \in Ids
    BY RemoteFacts, BlockIds
  <1>2. K \in SUBSET Ids /\ H \in Ids
    BY <1>1 DEF Remotes
  <1>3. \/ remote' = [remote EXCEPT ![p] = r] /\ UNCHANGED <<node, peer>>
        \/ remote' = [remote EXCEPT ![p] = r] /\ Becomes(t)
        \/ remote' = [remote EXCEPT ![p] = a] /\ UNCHANGED <<node, peer>>
    BY Zenon DEF PeerLearns
  <1> HIDE DEF K, H
  <1>4. r \in Remotes /\ r.lacks = remote[p].lacks
    BY <1>1, <1>2 DEF Remotes
  <1> HIDE DEF r
  <1>5. a \in Remotes /\ a.lacks = remote[p].lacks
    BY <1>1, <1>4 DEF Remotes
  <1>6. Good(State, Lacking) /\ State \in States
    BY StateFacts DEF SyncInv
  <1>7. Same(State, t)
    BY <1>1, <1>6, OnInventorySame
  <1> HIDE DEF a, t
  <1>8. Good(t, Lacking) /\ t \in States
    BY <1>6, <1>7, SameGood, SameState
  <1>9. CASE remote' = [remote EXCEPT ![p] = r] /\ UNCHANGED <<node, peer>>
    <2>1. State' = State
      BY <1>9 DEF State
    <2>2. QED
      BY <1>4, <1>6, <1>9, <2>1, BothStep
  <1>10. CASE remote' = [remote EXCEPT ![p] = r] /\ Becomes(t)
    <2>1. State' = t
      BY <1>8, <1>10, NextState
    <2>2. QED
      BY <1>4, <1>8, <1>10, <2>1, BothStep
  <1>11. CASE remote' = [remote EXCEPT ![p] = a] /\ UNCHANGED <<node, peer>>
    <2>1. State' = State
      BY <1>11 DEF State
    <2>2. QED
      BY <1>5, <1>6, <1>11, <2>1, BothStep
  <1>12. QED
    BY <1>3, <1>9, <1>10, <1>11

\* Every step keeps the invariant.
LEMMA NextKeeps == SyncInv /\ [Next]_vars => SyncInv'
  <1> SUFFICES ASSUME SyncInv, [Next]_vars
               PROVE  SyncInv'
    OBVIOUS
  <1>1. CASE fetch_sync_items_loop
    BY <1>1, FetchSyncItemsStep
  <1>2. CASE fetch_items_loop
    BY <1>2, FetchItemsStep
  <1>3. CASE process_backlog_of_sync_blocks
    BY <1>3, BacklogStepKeeps
  <1>4. CASE handle_block
    BY <1>4, HandleBlockStep
  <1>5. CASE BlockHandled
    BY <1>5, BlockHandledStep
  <1>6. ASSUME NEW p \in Peers, Connect(p)
        PROVE  SyncInv'
    BY <1>6, ConnectStep
  <1>7. ASSUME NEW p \in Peers, AnswerIds(p)
        PROVE  SyncInv'
    BY <1>7, AnswerIdsStep
  <1>8. ASSUME NEW p \in Peers, AnswerSyncItem(p)
        PROVE  SyncInv'
    BY <1>8, AnswerSyncItemStep
  <1>9. ASSUME NEW p \in Peers, AnswerItem(p)
        PROVE  SyncInv'
    BY <1>9, AnswerItemStep
  <1>10. ASSUME NEW p \in Peers, PeerAsks(p)
         PROVE  SyncInv'
    BY <1>10, PeerAsksStep
  <1>11. ASSUME NEW p \in Peers, ConnectionLost(p) \/ PeerCloses(p)
         PROVE  SyncInv'
    BY <1>11, ClosedStep
  <1>12. ASSUME NEW p \in Peers, NEW b \in Blocks, PeerLearns(p, b)
         PROVE  SyncInv'
    BY <1>12, PeerLearnsStep
  <1>13. CASE UNCHANGED vars
    <2>1. State' = State /\ UNCHANGED remote
      BY <1>13 DEF vars, State
    <2>2. QED
      BY <2>1, NodeStep DEF SyncInv
  <1>14. QED
    BY <1>1, <1>2, <1>3, <1>4, <1>5, <1>6, <1>7, <1>8, <1>9, <1>10, <1>11, <1>12, <1>13 DEF Next

----------------------------------------------------------------------------
(* The theorems.                                                           *)

\* Whatever the peers, their blocks and forks, the limits and the order of the
\* messages: the lists of a peer climb, what each peer was asked for is counted
\* as on its way and asked of no other peer, and what is counted as on its way
\* was asked of a peer or is a block some peer may lack.
THEOREM SyncInvariant == Spec => []SyncInv
  <1>1. Init => SyncInv
    BY InitSync
  <1>2. SyncInv /\ [Next]_vars => SyncInv'
    BY NextKeeps
  <1>3. QED
    BY <1>1, <1>2, PTL DEF Spec

\* The requests for blocks are tracked: none is lost, none is made twice, and
\* the limits of the node are kept.
THEOREM RequestsAlwaysTracked == Spec => []RequestsTracked
  <1>1. SyncInv => RequestsTracked
    <2> SUFFICES ASSUME SyncInv
                 PROVE  RequestsTracked
      OBVIOUS
    <2>1. State.node = node /\ State.peer = peer /\ Good(State, Lacking)
      BY StateFacts DEF SyncInv
    <2>2. \A p \in Peers : Requested(p) = Asked(State, p)
      BY <2>1 DEF Requested, Asked
    <2>3. InProgress(State) <= MaxHandling
      BY <2>1 DEF Good
    <2>4. \A p \in Peers : Len(peer[p].sync_items_requested_from_peer) <= MaxPerPeer
      BY <2>1 DEF Good
    <2>5. \A p \in Peers : Requested(p) \subseteq node.active_sync_requests
      BY <2>1, <2>2 DEF Good
    <2>6. ASSUME NEW b \in node.active_sync_requests
          PROVE  \E p \in Peers : b \in Requested(p) \cup remote[p].lacks
      <3>1. b \in Lacking \/ \E p \in Peers : b \in Asked(State, p)
        BY <2>1 DEF Good
      <3>2. QED
        BY <2>2, <3>1 DEF Lacking
    <2>7. \A p, q \in Peers : p # q => Requested(p) \cap Requested(q) = {}
      BY <2>1, <2>2 DEF Good
    <2>8. QED
      BY <2>3, <2>4, <2>5, <2>6, <2>7 DEF RequestsTracked
  <1>2. QED
    BY <1>1, SyncInvariant, PTL

=============================================================================
