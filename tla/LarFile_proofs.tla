--------------------------- MODULE LarFile_proofs ---------------------------
(***************************************************************************)
(* Proofs about LarFile for every number of LARs, set of addresses and set  *)
(* of lines, and for arbitrary inputs at every clock edge.                  *)
(***************************************************************************)
EXTENDS LarFile, FiniteSetTheorems, TLAPS

-----------------------------------------------------------------------------
(* Registers of the width of a tag *)

LEMMA IncrDecr ==
    /\ \A n \in Tags : Incr(n) \in Tags /\ Decr(n) \in Tags
    /\ \A n \in Tags : n < NumLars - 1 => Incr(n) = n + 1
    /\ \A n \in Tags : n > 0 => Decr(n) = n - 1
  BY NumLarsAssumption DEF Incr, Decr, Tags, Lars

LEMMA LarsFinite ==
    /\ IsFiniteSet(Lars)
    /\ \A i \in Lars \ {dzero} :
          /\ IsFiniteSet(Lars \ {dzero, i})
          /\ Cardinality(Lars \ {dzero, i}) = NumLars - 2
    /\ IsFiniteSet(Lars \ {dzero})
    /\ Cardinality(Lars \ {dzero}) = NumLars - 1
<1>1. IsFiniteSet(Lars) /\ Cardinality(Lars) = NumLars
  BY FS_Interval, NumLarsAssumption DEF Lars
<1>2. IsFiniteSet(Lars \ {dzero}) /\ Cardinality(Lars \ {dzero}) = NumLars - 1
  <2>1. dzero \in Lars
    BY NumLarsAssumption DEF Lars, dzero
  <2>2. QED
    BY <1>1, <2>1, FS_RemoveElement
<1>3. ASSUME NEW i \in Lars \ {dzero}
      PROVE  /\ IsFiniteSet(Lars \ {dzero, i})
             /\ Cardinality(Lars \ {dzero, i}) = NumLars - 2
  <2>1. (Lars \ {dzero}) \ {i} = Lars \ {dzero, i}
    OBVIOUS
  <2>2. /\ IsFiniteSet((Lars \ {dzero}) \ {i})
        /\ Cardinality((Lars \ {dzero}) \ {i}) = Cardinality(Lars \ {dzero}) - 1
    BY <1>2, <1>3, FS_RemoveElement
  <2>3. QED
    BY <1>2, <2>1, <2>2, NumLarsAssumption
<1>4. QED
  BY <1>1, <1>2, <1>3

-----------------------------------------------------------------------------
(* How many LARs carry a tag *)

HoldersIn(f, t) == {l \in Lars : f[l] = t}

LEMMA HoldersFinite ==
    ASSUME NEW f \in [Lars -> Tags], NEW t
    PROVE  IsFiniteSet(HoldersIn(f, t)) /\ Cardinality(HoldersIn(f, t)) \in Nat
<1>1. HoldersIn(f, t) \in SUBSET Lars
  BY DEF HoldersIn
<1>2. QED
  BY <1>1, LarsFinite, FS_Subset, FS_CardinalityType

\* Retagging one LAR moves one holder from its old tag to the new one.
LEMMA HoldersMove ==
    ASSUME tag \in [Lars -> Tags], NEW i \in Lars, NEW n \in Tags, tag[i] # n,
           tag' = [tag EXCEPT ![i] = n]
    PROVE  /\ Cardinality(HoldersIn(tag', n)) = Cardinality(HoldersIn(tag, n)) + 1
           /\ Cardinality(HoldersIn(tag', tag[i])) = Cardinality(HoldersIn(tag, tag[i])) - 1
           /\ \A t \in Tags \ {n, tag[i]} : HoldersIn(tag', t) = HoldersIn(tag, t)
<1> DEFINE H(t) == HoldersIn(tag, t)
<1>1. HoldersIn(tag', n) = H(n) \cup {i} /\ i \notin H(n)
  BY DEF HoldersIn
<1>2. HoldersIn(tag', tag[i]) = H(tag[i]) \ {i} /\ i \in H(tag[i])
  BY DEF HoldersIn
<1>3. \A t \in Tags \ {n, tag[i]} : HoldersIn(tag', t) = H(t)
  BY DEF HoldersIn
<1>4. /\ IsFiniteSet(H(n)) /\ Cardinality(H(n)) \in Nat
      /\ IsFiniteSet(H(tag[i])) /\ Cardinality(H(tag[i])) \in Nat
  BY HoldersFinite
<1>5. Cardinality(H(n) \cup {i}) = Cardinality(H(n)) + 1
  BY <1>1, <1>4, FS_AddElement
<1>6. Cardinality(H(tag[i]) \ {i}) = Cardinality(H(tag[i])) - 1
  BY <1>2, <1>4, FS_RemoveElement
<1>7. QED
  BY <1>1, <1>2, <1>3, <1>5, <1>6

\* A LAR with an element is one of its holders; one without can still join any.
LEMMA RefCountBounds ==
    ASSUME LarInv, NEW i \in Lars \ {dzero}
    PROVE  /\ tag[i] # UnallocatedTag => ref_count[tag[i]] >= 1
           /\ \A t \in Tags \ {UnallocatedTag, tag[i]} : ref_count[t] < NumLars - 1
<1>1. tag \in [Lars -> Tags] /\ ref_count \in [Tags -> Tags]
  BY DEF LarInv, TypeOK
<1>2. \A t \in Tags \ {UnallocatedTag} : ref_count[t] = Cardinality(HoldersIn(tag, t))
  BY DEF LarInv, RefCountsAreExact, Holders, HoldersIn
<1>3. ASSUME tag[i] # UnallocatedTag PROVE ref_count[tag[i]] >= 1
  <2>1. HoldersIn(tag, tag[i]) # {}
    BY DEF HoldersIn
  <2>2. Cardinality(HoldersIn(tag, tag[i])) # 0
    BY <2>1, <1>1, HoldersFinite, FS_EmptySet
  <2>3. tag[i] \in Tags \ {UnallocatedTag}
    BY <1>1, <1>3
  <2>4. ref_count[tag[i]] # 0 /\ ref_count[tag[i]] \in Tags
    BY <1>1, <1>2, <2>2, <2>3
  <2>5. QED
    BY <2>4, NumLarsAssumption DEF Tags, Lars
<1>4. ASSUME NEW t \in Tags \ {UnallocatedTag, tag[i]}
      PROVE  ref_count[t] < NumLars - 1
  <2>1. HoldersIn(tag, t) \in SUBSET (Lars \ {dzero, i})
    BY <1>4 DEF LarInv, DzeroIsZero, HoldersIn
  <2>2. /\ IsFiniteSet(Lars \ {dzero, i})
        /\ Cardinality(Lars \ {dzero, i}) = NumLars - 2
    BY LarsFinite
  <2>3. Cardinality(HoldersIn(tag, t)) <= NumLars - 2
    BY <2>1, <2>2, FS_Subset
  <2>4. ref_count[t] = Cardinality(HoldersIn(tag, t)) /\ ref_count[t] \in Nat
    BY <1>1, <1>2, <1>4 DEF Tags, Lars
  <2>5. QED
    BY <2>3, <2>4, NumLarsAssumption
<1>5. QED
  BY <1>3, <1>4

\* Reference counts stay exact when the retagging of one LAR adds one to the count
\* of its new tag and subtracts one from that of its old tag.
LEMMA RefCountsFollow ==
    ASSUME LarInv, NEW i \in Lars \ {dzero}, NEW n \in Tags \ {UnallocatedTag},
           tag[i] # n, tag' = [tag EXCEPT ![i] = n],
           ref_count'[n] = ref_count[n] + 1,
           tag[i] # UnallocatedTag => ref_count'[tag[i]] = ref_count[tag[i]] - 1,
           \A t \in Tags \ {n, tag[i]} : ref_count'[t] = ref_count[t],
           ref_count'[UnallocatedTag] = 0
    PROVE  RefCountsAreExact'
<1>1. tag \in [Lars -> Tags]
  BY DEF LarInv, TypeOK
<1>2. \A t \in Tags \ {UnallocatedTag} : ref_count[t] = Cardinality(HoldersIn(tag, t))
  BY DEF LarInv, RefCountsAreExact, Holders, HoldersIn
<1>3. \A t \in Tags \ {UnallocatedTag} : ref_count'[t] = Cardinality(HoldersIn(tag', t))
  <2>1. /\ Cardinality(HoldersIn(tag', n)) = Cardinality(HoldersIn(tag, n)) + 1
        /\ Cardinality(HoldersIn(tag', tag[i])) = Cardinality(HoldersIn(tag, tag[i])) - 1
        /\ \A t \in Tags \ {n, tag[i]} : HoldersIn(tag', t) = HoldersIn(tag, t)
    BY <1>1, HoldersMove
  <2>2. QED
    BY <1>1, <1>2, <2>1 DEF Tags
<1>4. QED
  BY <1>3 DEF RefCountsAreExact, Holders, HoldersIn

-----------------------------------------------------------------------------
(* The tag stack is never popped empty nor pushed full *)

\* Some tag is free when a LAR that is not the only holder of its tag needs one.
LEMMA PopFits ==
    ASSUME LarInv, NEW i \in Lars \ {dzero},
           tag[i] = UnallocatedTag \/ ref_count[tag[i]] # 1
    PROVE  curr_tag_stack_index > 0
<1> DEFINE S == Lars \ {dzero, i}
           T == Tags \ {UnallocatedTag}
           f == [l \in S |-> IF tag[l] = UnallocatedTag THEN i ELSE tag[l]]
<1> SUFFICES ASSUME curr_tag_stack_index = 0 PROVE FALSE
  BY NumLarsAssumption DEF LarInv, TypeOK, Tags, Lars
<1>1. tag \in [Lars -> Tags] /\ ref_count \in [Tags -> Tags]
  BY DEF LarInv, TypeOK
<1>2. FreeTags = {}
  BY DEF LarInv, StackHoldsFreeTags
<1>3. ASSUME NEW t \in T PROVE \E l \in S : tag[l] = t
  <2>1. Cardinality(Holders(t)) # 0
    BY <1>2 DEF LarInv, RefCountsAreExact, FreeTags
  <2>2. Holders(t) = HoldersIn(tag, t)
    BY DEF Holders, HoldersIn
  <2>3. IsFiniteSet(Holders(t)) /\ Holders(t) # {}
    BY <1>1, <2>1, <2>2, HoldersFinite, FS_EmptySet
  <2>4. dzero \notin Holders(t)
    BY DEF Holders, LarInv, DzeroIsZero
  <2>5. Holders(t) # {i}
    <3>1. SUFFICES ASSUME Holders(t) = {i} PROVE FALSE
      OBVIOUS
    <3>2. tag[i] = t
      BY <3>1 DEF Holders
    <3>3. Cardinality(Holders(t)) = 1
      BY <3>1, FS_Singleton
    <3>4. QED
      BY <3>2, <3>3 DEF LarInv, RefCountsAreExact
  <2>6. QED
    BY <2>3, <2>4, <2>5 DEF Holders
<1>4. f \in Surjection(S, T)
  <2>1. f \in [S -> T]
    BY <1>1 DEF Tags, UnallocatedTag, dzero
  <2>2. \A t \in T : \E l \in S : f[l] = t
    BY <1>3
  <2>3. QED
    BY <2>1, <2>2 DEF Surjection
<1>5. IsFiniteSet(S) /\ Cardinality(S) = NumLars - 2
  BY LarsFinite
<1>6. Cardinality(T) <= Cardinality(S)
  <2> HIDE DEF S, T, f
  <2> QED BY <1>4, <1>5, FS_Surjection
<1>7. Cardinality(T) = NumLars - 1
  BY LarsFinite DEF Tags, UnallocatedTag, dzero
<1>8. QED
  BY <1>5, <1>6, <1>7, NumLarsAssumption

\* There is room for the tag of an element that is in use.
LEMMA PushFits ==
    ASSUME LarInv, NEW t \in Tags \ {UnallocatedTag}, ref_count[t] # 0
    PROVE  curr_tag_stack_index < NumLars - 1
<1> DEFINE S == 1 .. curr_tag_stack_index
           T == Tags \ {UnallocatedTag, t}
           f == [j \in S |-> tag_stack[j]]
<1>1. curr_tag_stack_index \in Tags /\ tag_stack \in [Tags -> Tags]
  BY DEF LarInv, TypeOK
<1>2. {tag_stack[j] : j \in S} = FreeTags
  BY DEF LarInv, StackHoldsFreeTags
<1>3. FreeTags \subseteq T
  BY DEF FreeTags
<1>4. f \in [S -> T]
  BY <1>2, <1>3
<1>5. \A j, k \in S : j # k => f[j] # f[k]
  BY DEF LarInv, StackHoldsFreeTags
<1>6. IsFiniteSet(T) /\ Cardinality(T) = NumLars - 2
  BY LarsFinite DEF Tags, UnallocatedTag, dzero
<1>7. IsFiniteSet(S) /\ Cardinality(S) = curr_tag_stack_index
  <2>1. curr_tag_stack_index \in Nat
    BY <1>1 DEF Tags, Lars
  <2>2. /\ IsFiniteSet(S)
        /\ Cardinality(S) = IF 1 > curr_tag_stack_index THEN 0
                            ELSE curr_tag_stack_index - 1 + 1
    <3> DEFINE c == curr_tag_stack_index
    <3>1. 1 \in Int /\ c \in Int
      BY <2>1
    <3> HIDE DEF c
    <3>2. IsFiniteSet(1..c) /\ Cardinality(1..c) = IF 1 > c THEN 0 ELSE c - 1 + 1
      BY <3>1, FS_Interval
    <3>3. QED
      BY <3>2 DEF c
  <2>3. QED
    BY <2>1, <2>2
<1>8. ~(Cardinality(T) < Cardinality(S))
  <2> HIDE DEF S, T, f
  <2> QED BY <1>4, <1>5, <1>6, <1>7, FS_PigeonHole
<1>9. QED
  BY <1>1, <1>6, <1>7, <1>8, NumLarsAssumption DEF Tags, Lars

\* A tag taken from the top of the stack is free.
LEMMA TopIsFree ==
    ASSUME LarInv, curr_tag_stack_index > 0
    PROVE  tag_stack[curr_tag_stack_index] \in FreeTags
  BY NumLarsAssumption DEF LarInv, TypeOK, StackHoldsFreeTags, Tags, Lars

LEMMA PopKeepsStack ==
    ASSUME LarInv, curr_tag_stack_index > 0,
           curr_tag_stack_index' = curr_tag_stack_index - 1,
           tag_stack' = tag_stack,
           FreeTags' = FreeTags \ {tag_stack[curr_tag_stack_index]}
    PROVE  StackHoldsFreeTags'
<1> DEFINE n == curr_tag_stack_index
<1>1. n \in Nat \ {0}
  BY DEF LarInv, TypeOK, Tags, Lars
<1>2. /\ {tag_stack[j] : j \in 1 .. n} = FreeTags
      /\ \A j, k \in 1 .. n : j # k => tag_stack[j] # tag_stack[k]
  BY DEF LarInv, StackHoldsFreeTags
<1>3. 1 .. n = (1 .. (n - 1)) \cup {n} /\ n \notin 1 .. (n - 1)
  BY <1>1
<1>4. {tag_stack[j] : j \in 1 .. (n - 1)} = FreeTags \ {tag_stack[n]}
  BY <1>2, <1>3
<1>5. QED
  BY <1>2, <1>3, <1>4 DEF StackHoldsFreeTags

LEMMA PushKeepsStack ==
    ASSUME LarInv, NEW t \in Tags \ {UnallocatedTag}, ref_count[t] # 0,
           curr_tag_stack_index' = curr_tag_stack_index + 1,
           tag_stack' = [tag_stack EXCEPT ![curr_tag_stack_index + 1] = t],
           FreeTags' = FreeTags \cup {t}
    PROVE  StackHoldsFreeTags'
<1> DEFINE n == curr_tag_stack_index
<1>1. n \in Nat /\ n + 1 \in Tags /\ tag_stack \in [Tags -> Tags]
  <2>1. n \in Tags /\ tag_stack \in [Tags -> Tags]
    BY DEF LarInv, TypeOK
  <2>2. n < NumLars - 1
    BY PushFits
  <2>3. QED
    BY <2>1, <2>2, NumLarsAssumption DEF Tags, Lars
<1>2. /\ {tag_stack[j] : j \in 1 .. n} = FreeTags
      /\ \A j, k \in 1 .. n : j # k => tag_stack[j] # tag_stack[k]
  BY DEF LarInv, StackHoldsFreeTags
<1>3. 1 .. (n + 1) = (1 .. n) \cup {n + 1} /\ n + 1 \notin 1 .. n
  BY <1>1
<1>4. tag_stack'[n + 1] = t /\ \A j \in 1 .. n : tag_stack'[j] = tag_stack[j]
  BY <1>1 DEF Tags, Lars
<1>5. t \notin FreeTags
  BY DEF FreeTags
<1>6. {tag_stack'[j] : j \in 1 .. (n + 1)} = FreeTags'
  BY <1>2, <1>3, <1>4
<1>7. \A j, k \in 1 .. (n + 1) : j # k => tag_stack'[j] # tag_stack'[k]
  BY <1>2, <1>3, <1>4, <1>5
<1>8. QED
  BY <1>6, <1>7 DEF StackHoldsFreeTags

-----------------------------------------------------------------------------
(* What the snapshot tells the FSM in WrStStartLdSt *)

LEMMA SearchFindsTheHolder ==
    ASSUME LarInv, NEW a \in BaseAddr, NEW t \in TagSearch(a)
    PROVE  /\ t \in Tags
           /\ t # UnallocatedTag => Allocated(t) /\ base_addr[t] = a
           /\ t = UnallocatedTag => \A u \in Tags : Allocated(u) => base_addr[u] # a
<1>1. CASE Matches(a) = {}
  BY <1>1, NumLarsAssumption DEF TagSearch, Matches, Allocated, UnallocatedTag, Tags, Lars
<1>2. CASE Matches(a) # {}
  <2>1. PICK u \in Matches(a) : TRUE
    BY <1>2
  <2>2. Matches(a) = {u}
    BY <2>1 DEF Matches, LarInv, OneElementPerLine, Allocated
  <2>3. t = u
    BY <1>2, <2>1, <2>2 DEF TagSearch
  <2>4. QED
    BY <2>1, <2>3 DEF Matches, Allocated
<1>3. QED
  BY <1>1, <1>2

LEMMA SnapshotFacts ==
    ASSUME LarInv, wr_state = "WrStStartLdSt"
    PROVE  /\ captured \in Captured
           /\ captured.index \in Lars \ {dzero}
           /\ captured.curr = tag[captured.index]
           /\ captured.ref_count = ref_count[captured.curr]
           /\ captured.ref_count = 0 <=> captured.curr = UnallocatedTag
           /\ captured.aliased # UnallocatedTag =>
                 Allocated(captured.aliased) /\ base_addr[captured.aliased] = captured.new_addr
           /\ captured.aliased = UnallocatedTag =>
                 \A u \in Tags : Allocated(u) => base_addr[u] # captured.new_addr
<1>1. captured \in Captured
  BY DEF LarInv, TypeOK
<1>2. captured.index \in Lars \ {dzero} /\ captured.new_addr \in BaseAddr
  BY <1>1 DEF Captured
<1>3. /\ captured.curr = tag[captured.index]
      /\ captured.ref_count = ref_count[captured.curr]
      /\ captured.aliased \in TagSearch(captured.new_addr)
  BY DEF LarInv, SnapshotIsConsistent
<1>4. ref_count[UnallocatedTag] = 0
  BY DEF LarInv, RefCountsAreExact
<1>5. captured.curr # UnallocatedTag => captured.ref_count >= 1
  BY <1>2, <1>3, RefCountBounds
<1>6. QED
  BY <1>1, <1>2, <1>3, <1>4, <1>5, SearchFindsTheHolder

\* When a tag is popped there is one, and it is free; when one is pushed there is room.
LEMMA SnapshotPopsAndPushesFit ==
    LarInv => PopsAndPushesFit
<1> SUFFICES ASSUME LarInv, wr_state = "WrStStartLdSt"
             PROVE  /\ captured.aliased = UnallocatedTag /\ captured.ref_count # 1 =>
                         curr_tag_stack_index > 0 /\ captured.top \in FreeTags
                    /\ captured.aliased \notin {UnallocatedTag, captured.curr}
                          /\ captured.ref_count = 1 =>
                         /\ curr_tag_stack_index < NumLars - 1
                         /\ captured.above = curr_tag_stack_index + 1
  BY DEF PopsAndPushesFit
<1>1. /\ captured.top = tag_stack[curr_tag_stack_index]
      /\ captured.above = Incr(curr_tag_stack_index)
      /\ curr_tag_stack_index \in Tags
  BY DEF LarInv, SnapshotIsConsistent, TypeOK
<1>2. /\ captured.curr \in Tags
      /\ captured.curr = tag[captured.index]
      /\ captured.index \in Lars \ {dzero}
      /\ captured.ref_count = ref_count[captured.curr]
  BY SnapshotFacts DEF Captured
<1>3. ASSUME captured.ref_count # 1
      PROVE  curr_tag_stack_index > 0 /\ captured.top \in FreeTags
  BY <1>1, <1>2, <1>3, PopFits, TopIsFree
<1>4. ASSUME captured.ref_count = 1
      PROVE  /\ curr_tag_stack_index < NumLars - 1
             /\ captured.above = curr_tag_stack_index + 1
  <2>1. captured.curr # UnallocatedTag
    BY <1>4, SnapshotFacts
  <2>2. curr_tag_stack_index < NumLars - 1
    <3>1. captured.curr \in Tags \ {UnallocatedTag} /\ ref_count[captured.curr] # 0
      BY <1>2, <1>4, <2>1
    <3>2. QED
      BY <3>1, PushFits
  <2>3. QED
    BY <1>1, <2>2, IncrDecr
<1>5. QED
  BY <1>3, <1>4

-----------------------------------------------------------------------------
(* Every clock edge keeps LarInv *)

LEMMA RamStep ==
    ASSUME LarInv, ShareddataData
    PROVE  data' \in [Tags -> Data] /\ data'[UnallocatedTag] = Zero
<1>1. CASE ~data_wr.req
  BY <1>1 DEF LarInv, TypeOK, DzeroIsZero, ShareddataData
<1>2. CASE data_wr.req
  <2>1. data_wr.index \in Tags \ {UnallocatedTag} /\ data_wr.data \in Data
    <3>1. /\ data_wr \in {NoReq} \cup [req : {TRUE}, index : Tags, data : Data]
          /\ data_wr.index # UnallocatedTag
      BY <1>2 DEF LarInv, TypeOK, DataWritesAvoidDzero
    <3>2. data_wr # NoReq
      BY <1>2 DEF NoReq
    <3>3. QED
      BY <3>1, <3>2
  <2>2. QED
    BY <1>2, <2>1 DEF LarInv, TypeOK, DzeroIsZero, ShareddataData
<1>3. QED
  BY <1>1, <1>2

\* An edge that moves no tag, count, address or stack entry.
LEMMA NothingMoves ==
    ASSUME LarInv, UNCHANGED <<tag, base_addr, ref_count, stackVars>>
    PROVE  /\ RefCountsAreExact'
           /\ StackHoldsFreeTags'
           /\ OneElementPerLine'
           /\ tag'[dzero] = UnallocatedTag
  BY DEF LarInv, stackVars, RefCountsAreExact, Holders, StackHoldsFreeTags, FreeTags,
         OneElementPerLine, Allocated, DzeroIsZero

LEMMA InWrFields ==
    ASSUME NEW in_wr \in InWr, in_wr.req
    PROVE  /\ in_wr.index \in Lars
           /\ in_wr.write_type \in {"OnlyData", "DataAndType"} => in_wr.data \in Data
           /\ in_wr.write_type = "DataAndType" => in_wr.data_type \in DataType
           /\ in_wr.write_type \in {"Ld", "St"} =>
                 /\ in_wr.base_addr \in BaseAddr
                 /\ in_wr.data_offset \in DataOffset
                 /\ in_wr.data_type \in DataType
<1>1. in_wr # NoReq
  BY DEF NoReq
<1>2. in_wr \in WriteReq \/ in_wr \in TypedWriteReq \/ in_wr \in LdStReq
  BY <1>1 DEF InWr
<1>3. CASE in_wr \in WriteReq
  BY <1>3 DEF WriteReq
<1>4. CASE in_wr \in TypedWriteReq
  BY <1>4 DEF TypedWriteReq
<1>5. CASE in_wr \in LdStReq
  BY <1>5 DEF LdStReq
<1>6. QED
  BY <1>2, <1>3, <1>4, <1>5

LEMMA IdleStep ==
    ASSUME LarInv, NEW in_wr \in InWr, IdleFsm(in_wr), ShareddataData
    PROVE  LarInv'
<1>1. UNCHANGED <<tag, base_addr, ref_count, stackVars>> /\ wr_state = "WrStIdle"
  BY DEF IdleFsm, IdleNoWrite, IdleWriteData, IdleStartLdSt, InIdle
<1>2. data' \in [Tags -> Data] /\ data'[UnallocatedTag] = Zero
  BY RamStep
<1>3. /\ captured_valid' \in [read : BOOLEAN, write : BOOLEAN]
      /\ out_wr_valid' \in BOOLEAN /\ out_mem_read' = NoReq /\ out_mem_write' = NoReq
  <2>1. InIdle
    BY DEF IdleFsm, IdleNoWrite, IdleWriteData, IdleStartLdSt
  <2>2. NeitherValid \in [read : BOOLEAN, write : BOOLEAN]
    BY DEF NeitherValid
  <2>3. QED
    BY <2>1, <2>2 DEF InIdle
<1>4. CASE IdleNoWrite(in_wr)
  <2>1. TypeOK'
    BY <1>1, <1>2, <1>3, <1>4 DEF IdleNoWrite, LarInv, TypeOK, stackVars
  <2>2. DzeroIsZero' /\ SnapshotIsConsistent' /\ DataWritesAvoidDzero'
    BY <1>1, <1>2, <1>4 DEF IdleNoWrite, LarInv, DzeroIsZero, SnapshotIsConsistent,
                            DataWritesAvoidDzero, NoReq
  <2>3. QED
    BY <1>1, <2>1, <2>2, NothingMoves DEF LarInv
<1>5. CASE IdleWriteData(in_wr)
  <2>1. /\ in_wr.index \in Lars /\ in_wr.data \in Data
        /\ in_wr.write_type = "DataAndType" => in_wr.data_type \in DataType
    BY <1>5, InWrFields DEF IdleWriteData
  <2> DEFINE t == tag[in_wr.index]
  <2>2. /\ t \in Tags /\ dirty \in [Tags -> BOOLEAN] /\ data_type \in [Lars -> DataType]
        /\ ~dirty[UnallocatedTag]
    BY <2>1 DEF LarInv, TypeOK, DzeroIsZero
  <2>3. /\ dirty' \in [Tags -> BOOLEAN] /\ ~dirty'[UnallocatedTag]
        /\ data_type' \in [Lars -> DataType]
        /\ data_wr' \in {NoReq} \cup [req : {TRUE}, index : Tags, data : Data]
        /\ data_wr'.req => data_wr'.index # UnallocatedTag
    <3>1. CASE t = UnallocatedTag
      <4>1. UNCHANGED <<dirty, data_type>> /\ data_wr' = NoReq
        BY <1>5, <3>1 DEF IdleWriteData
      <4>2. QED
        BY <2>2, <4>1 DEF NoReq
    <3>2. CASE t # UnallocatedTag
      <4>1. /\ dirty' = [dirty EXCEPT ![t] = TRUE]
            /\ data_wr' = DataWrite(t, in_wr.data)
            /\ data_type' = IF in_wr.write_type = "DataAndType"
                            THEN [data_type EXCEPT ![in_wr.index] = in_wr.data_type]
                            ELSE data_type
        BY <1>5, <3>2 DEF IdleWriteData
      <4>2. QED
        BY <2>1, <2>2, <3>2, <4>1 DEF DataWrite
    <3>3. QED
      BY <3>1, <3>2
  <2>4. wr_state' = "WrStIdle" /\ captured' = NothingCaptured /\ data_offset' = data_offset
    BY <1>1, <1>5 DEF IdleWriteData
  <2>5. TypeOK'
    BY <1>1, <1>2, <1>3, <2>3, <2>4 DEF LarInv, TypeOK, stackVars
  <2>6. DzeroIsZero' /\ SnapshotIsConsistent' /\ DataWritesAvoidDzero'
    BY <1>1, <1>2, <2>3, <2>4, NothingMoves
       DEF DzeroIsZero, SnapshotIsConsistent, DataWritesAvoidDzero
  <2>7. QED
    BY <1>1, <2>5, <2>6, NothingMoves DEF LarInv
<1>6. CASE IdleStartLdSt(in_wr)
  <2>1. /\ in_wr.index \in Lars \ {dzero} /\ in_wr.base_addr \in BaseAddr
        /\ in_wr.write_type \in {"Ld", "St"}
        /\ in_wr.data_type \in DataType /\ in_wr.data_offset \in DataOffset
    BY <1>6, InWrFields DEF IdleStartLdSt, StartsLdSt
  <2> DEFINE t == tag[in_wr.index]
  <2>2. PICK found \in TagSearch(in_wr.base_addr) :
           captured' = [index |-> in_wr.index, write_type |-> in_wr.write_type,
                        new_addr |-> in_wr.base_addr,
                        curr |-> t, aliased |-> found,
                        top |-> tag_stack[curr_tag_stack_index],
                        above |-> Incr(curr_tag_stack_index),
                        ref_count |-> ref_count[t], dirty |-> dirty[t],
                        old_addr |-> base_addr[t], data |-> data[t]]
    BY <1>6 DEF IdleStartLdSt, Snapshot
  <2>3. found \in Tags /\ Incr(curr_tag_stack_index) \in Tags
    BY <2>1, SearchFindsTheHolder, IncrDecr DEF LarInv, TypeOK
  <2>4. captured' \in Captured
    BY <2>1, <2>2, <2>3 DEF Captured, LarInv, TypeOK
  <2>5. /\ wr_state' = "WrStStartLdSt" /\ data_wr' = NoReq /\ dirty' = dirty
        /\ data_type' \in [Lars -> DataType] /\ data_offset' \in [Lars -> DataOffset]
    BY <1>6, <2>1 DEF IdleStartLdSt, LarInv, TypeOK
  <2>6. TypeOK'
    BY <1>1, <1>2, <1>3, <2>4, <2>5 DEF LarInv, TypeOK, stackVars
  <2>7. SnapshotIsConsistent'
    BY <1>1, <2>2, <2>5 DEF SnapshotIsConsistent, TagSearch, Matches, Incr, stackVars
  <2>8. DzeroIsZero' /\ DataWritesAvoidDzero'
    BY <1>1, <1>2, <2>5, NothingMoves DEF LarInv, DzeroIsZero, DataWritesAvoidDzero, NoReq
  <2>9. QED
    BY <1>1, <2>6, <2>7, <2>8, NothingMoves DEF LarInv
<1>7. QED
  BY <1>4, <1>5, <1>6 DEF IdleFsm

LEMMA WaitStep ==
    ASSUME LarInv, NEW in_mem_read \in InMemRead, NEW in_mem_write \in InMemWrite,
           WaitFsm(in_mem_read, in_mem_write), ShareddataData
    PROVE  LarInv'
<1> DEFINE waiting == {"WrStWaitForJustMemRead", "WrStWaitForJustMemWrite",
                       "WrStWaitForMemReadAndMemWrite"}
           reading == {"WrStWaitForJustMemRead", "WrStWaitForMemReadAndMemWrite"}
<1>1. /\ UNCHANGED <<tag, base_addr, ref_count, dirty, tag_stack, curr_tag_stack_index>>
      /\ UNCHANGED <<data_offset, data_type, captured>>
      /\ out_mem_read' = NoReq /\ out_mem_write' = NoReq
      /\ wr_state \in waiting
      /\ wr_state' \in {"WrStIdle", wr_state}
      /\ out_wr_valid' \in {TRUE, out_wr_valid}
  BY DEF WaitFsm, WaitForJustMemRead, WaitForJustMemWrite, WaitForMemReadAndMemWrite, InWait,
         metadataVars, shareddataVars, stackVars, stop_mem_read, stop_mem_write, finish_ldst
<1>2. data' \in [Tags -> Data] /\ data'[UnallocatedTag] = Zero
  BY RamStep
<1>3. captured_valid' \in [read : BOOLEAN, write : BOOLEAN]
  <2>1. captured_valid \in [read : BOOLEAN, write : BOOLEAN]
    BY DEF LarInv, TypeOK
  <2>2. CASE WaitForMemReadAndMemWrite(in_mem_read, in_mem_write)
    <3>1. in_mem_read.valid \in BOOLEAN /\ in_mem_write.valid \in BOOLEAN
      <4>1. NotValid.valid = FALSE /\ WriteAnswer.valid = TRUE
        BY DEF NotValid, WriteAnswer
      <4>2. in_mem_read # NotValid => in_mem_read.valid = TRUE
        BY DEF InMemRead, ReadAnswer
      <4>3. QED
        BY <4>1, <4>2 DEF InMemWrite
    <3>2. captured_valid' = [read  |-> captured_valid.read \/ in_mem_read.valid,
                             write |-> captured_valid.write \/ in_mem_write.valid]
      BY <2>2 DEF WaitForMemReadAndMemWrite
    <3>3. QED
      BY <2>1, <3>1, <3>2
  <2>3. CASE UNCHANGED captured_valid
    BY <2>1, <2>3
  <2>4. QED
    BY <2>2, <2>3 DEF WaitFsm, WaitForJustMemRead, WaitForJustMemWrite
<1>4. /\ data_wr' \in {NoReq} \cup [req : {TRUE}, index : Tags, data : Data]
      /\ data_wr'.req => data_wr'.index # UnallocatedTag
  <2>1. CASE wr_state \in reading /\ FillData(in_mem_read) /\ in_mem_read.valid
    <3>1. in_mem_read.data \in Data
      <4>1. in_mem_read # NotValid
        BY <2>1 DEF NotValid
      <4>2. QED
        BY <4>1 DEF InMemRead, ReadAnswer
    <3>2. tag[captured.index] \in Tags \ {UnallocatedTag}
      <4>1. captured \in Captured
        BY <2>1 DEF LarInv, TypeOK
      <4>2. captured.index \in Lars
        BY <4>1 DEF Captured
      <4>3. QED
        BY <2>1, <4>2 DEF LarInv, TypeOK, DataWritesAvoidDzero
    <3>3. data_wr' = DataWrite(tag[captured.index], in_mem_read.data)
      BY <2>1 DEF FillData
    <3>4. QED
      BY <3>1, <3>2, <3>3 DEF DataWrite
  <2>2. CASE data_wr' = NoReq
    BY <2>2 DEF NoReq
  <2>3. QED
    BY <2>1, <2>2 DEF WaitFsm, WaitForJustMemRead, WaitForJustMemWrite,
                      WaitForMemReadAndMemWrite, InWait, FillData
<1>5. TypeOK'
  <2>1. wr_state' # "WrStIdle" => captured' \in Captured
    BY <1>1 DEF LarInv, TypeOK
  <2>2. out_wr_valid' \in BOOLEAN
    BY <1>1 DEF LarInv, TypeOK
  <2>3. QED
    BY <1>1, <1>2, <1>3, <1>4, <2>1, <2>2 DEF LarInv, TypeOK
<1>6. RefCountsAreExact' /\ StackHoldsFreeTags' /\ OneElementPerLine'
  BY <1>1, NothingMoves DEF stackVars
<1>7. DzeroIsZero' /\ SnapshotIsConsistent' /\ DataWritesAvoidDzero'
  BY <1>1, <1>2, <1>4 DEF LarInv, DzeroIsZero, SnapshotIsConsistent, DataWritesAvoidDzero
<1>8. QED
  BY <1>5, <1>6, <1>7 DEF LarInv

-----------------------------------------------------------------------------
(* WrStStartLdSt: first what its seven actions have in common *)

\* The registers no action of this state gives a value outside its width, and the
\* parts of the invariant that then only depend on where the data goes.
LEMMA StartParts ==
    ASSUME LarInv, InStartLdSt, ShareddataData,
           wr_state' \in {"WrStIdle", "WrStWaitForJustMemRead", "WrStWaitForJustMemWrite",
                          "WrStWaitForMemReadAndMemWrite"},
           out_wr_valid' \in {TRUE, out_wr_valid},
           out_mem_read' \in {NoReq, ReadReq(captured.new_addr)},
           out_mem_write' \in {NoReq, WriteBack(captured.old_addr, captured.data)},
           NEW t \in Tags \ {UnallocatedTag},
           tag' = [tag EXCEPT ![captured.index] = t],
           data_wr' \in {NoReq, data_wr, DataWrite(t, captured.data)},
           base_addr' \in {base_addr, [base_addr EXCEPT ![t] = captured.new_addr]},
           ref_count' \in [Tags -> Tags],
           dirty' \in [Tags -> BOOLEAN], ~dirty'[UnallocatedTag],
           tag_stack' \in [Tags -> Tags], curr_tag_stack_index' \in Tags
    PROVE  TypeOK' /\ DzeroIsZero' /\ SnapshotIsConsistent' /\ DataWritesAvoidDzero'
<1>1. /\ captured \in Captured /\ captured' = captured
      /\ UNCHANGED <<data_offset, data_type, captured_valid>>
      /\ wr_state = "WrStStartLdSt"
  BY SnapshotFacts DEF InStartLdSt
<1>2. data' \in [Tags -> Data] /\ data'[UnallocatedTag] = Zero
  BY RamStep
<1>3. /\ captured.index \in Lars \ {dzero} /\ captured.new_addr \in BaseAddr
      /\ captured.old_addr \in BaseAddr /\ captured.data \in Data
  BY <1>1 DEF Captured
<1>4. /\ out_mem_read' \in {NoReq} \cup [req : {TRUE}, base_addr : BaseAddr]
      /\ out_mem_write' \in {NoReq} \cup [req : {TRUE}, base_addr : BaseAddr, data : Data]
  <2>1. ReadReq(captured.new_addr) \in [req : {TRUE}, base_addr : BaseAddr]
    BY <1>3 DEF ReadReq
  <2>2. WriteBack(captured.old_addr, captured.data)
           \in [req : {TRUE}, base_addr : BaseAddr, data : Data]
    BY <1>3 DEF WriteBack
  <2>3. QED
    BY <2>1, <2>2
<1>5. /\ data_wr' \in {NoReq} \cup [req : {TRUE}, index : Tags, data : Data]
      /\ data_wr'.req => data_wr'.index # UnallocatedTag
  <2>1. CASE data_wr' = DataWrite(t, captured.data)
    BY <1>3, <2>1 DEF DataWrite
  <2>2. CASE data_wr' = NoReq
    BY <2>2 DEF NoReq
  <2>3. CASE data_wr' = data_wr
    BY <2>3 DEF LarInv, TypeOK, DataWritesAvoidDzero
  <2>4. QED
    BY <2>1, <2>2, <2>3
<1>6. tag' \in [Lars -> Tags] /\ tag'[dzero] = UnallocatedTag /\ tag'[captured.index] = t
  BY <1>3 DEF LarInv, TypeOK, DzeroIsZero
<1>7. base_addr' \in [Tags -> BaseAddr]
  BY <1>3 DEF LarInv, TypeOK
<1>8. out_wr_valid' \in BOOLEAN
  BY DEF LarInv, TypeOK
<1>9. TypeOK'
  BY <1>1, <1>2, <1>4, <1>5, <1>6, <1>7, <1>8 DEF LarInv, TypeOK
<1>10. DzeroIsZero' /\ SnapshotIsConsistent' /\ DataWritesAvoidDzero'
  BY <1>1, <1>2, <1>5, <1>6 DEF DzeroIsZero, SnapshotIsConsistent, DataWritesAvoidDzero
<1>11. QED
  BY <1>9, <1>10

\* No element gets a new line: a hit.
LEMMA SameLines ==
    ASSUME LarInv, base_addr' = base_addr,
           \A t \in Tags \ {UnallocatedTag} : ref_count'[t] # 0 => ref_count[t] # 0
    PROVE  OneElementPerLine'
  BY DEF LarInv, OneElementPerLine, Allocated

\* One element gets a line no other element holds: a miss.
LEMMA NewLine ==
    ASSUME LarInv, NEW t \in Tags, NEW a \in BaseAddr,
           base_addr' = [base_addr EXCEPT ![t] = a],
           \A u \in Tags : Allocated(u) => base_addr[u] # a,
           \A u \in Tags \ {UnallocatedTag, t} : ref_count'[u] # 0 => ref_count[u] # 0
    PROVE  OneElementPerLine'
<1>1. base_addr \in [Tags -> BaseAddr]
  BY DEF LarInv, TypeOK
<1>2. \A u \in Tags \ {t} : base_addr'[u] = base_addr[u] /\ Allocated(u)' => Allocated(u)
  BY <1>1 DEF Allocated
<1>3. \A u \in Tags \ {t} : Allocated(u)' => base_addr'[u] # base_addr'[t]
  BY <1>1, <1>2 DEF Allocated
<1>4. QED
  BY <1>1, <1>3 DEF LarInv, OneElementPerLine, Allocated

\* Types used by every case.
LEMMA StartTypes ==
    ASSUME LarInv, wr_state = "WrStStartLdSt"
    PROVE  /\ tag \in [Lars -> Tags] /\ base_addr \in [Tags -> BaseAddr]
           /\ ref_count \in [Tags -> Tags] /\ dirty \in [Tags -> BOOLEAN]
           /\ tag_stack \in [Tags -> Tags] /\ curr_tag_stack_index \in Tags
           /\ captured.index \in Lars \ {dzero} /\ captured.write_type \in {"Ld", "St"}
           /\ captured.curr \in Tags /\ captured.aliased \in Tags /\ captured.top \in Tags
           /\ captured.above \in Tags /\ captured.new_addr \in BaseAddr
           /\ ref_count[UnallocatedTag] = 0 /\ ~dirty[UnallocatedTag]
           /\ IsSt \in BOOLEAN /\ 1 \in Tags /\ 0 \in Tags
<1>1. captured \in Captured
  BY SnapshotFacts
<1>2. 1 \in Tags /\ 0 \in Tags
  BY NumLarsAssumption DEF Tags, Lars
<1>3. IsSt \in BOOLEAN
  BY DEF IsSt
<1>4. QED
  BY <1>1, <1>2, <1>3 DEF Captured, LarInv, TypeOK, RefCountsAreExact, DzeroIsZero

-----------------------------------------------------------------------------
(* The hits *)

LEMMA HitOwnElementStep ==
    ASSUME LarInv, HitOwnElement, ShareddataData
    PROVE  LarInv'
<1> DEFINE t == captured.aliased
<1>1. InStartLdSt /\ wr_state = "WrStStartLdSt"
  BY DEF HitOwnElement, InStartLdSt
<1>2. t \in Tags \ {UnallocatedTag} /\ t = tag[captured.index]
  BY <1>1, SnapshotFacts, StartTypes DEF HitOwnElement
<1>3. /\ tag' = [tag EXCEPT ![captured.index] = t] /\ data_wr' = NoReq
      /\ out_mem_read' = NoReq /\ out_mem_write' = NoReq
      /\ wr_state' = "WrStIdle" /\ out_wr_valid' = TRUE
      /\ UNCHANGED <<base_addr, ref_count, dirty, tag_stack, curr_tag_stack_index>>
  BY DEF HitOwnElement, stop_mem_read, stop_mem_write, finish_ldst, shareddataVars, stackVars
<1>4. TypeOK' /\ DzeroIsZero' /\ SnapshotIsConsistent' /\ DataWritesAvoidDzero'
  BY <1>1, <1>2, <1>3, StartTypes, StartParts
<1>5. tag' = tag
  BY <1>1, <1>2, <1>3, StartTypes
<1>6. QED
  BY <1>3, <1>4, <1>5, NothingMoves DEF LarInv, stackVars

\* What the three hits on another element share.
LEMMA JoinFacts ==
    ASSUME LarInv, JoinAliased
    PROVE  /\ InStartLdSt /\ wr_state = "WrStStartLdSt"
           /\ captured.aliased \in Tags \ {UnallocatedTag}
           /\ captured.aliased # tag[captured.index]
           /\ captured.curr = tag[captured.index]
           /\ captured.ref_count = ref_count[captured.curr]
           /\ tag' = [tag EXCEPT ![captured.index] = captured.aliased]
           /\ data_wr' \in {NoReq, data_wr, DataWrite(captured.aliased, captured.data)}
           /\ out_mem_read' = NoReq /\ base_addr' = base_addr
           /\ ref_count[captured.aliased] # 0
           /\ Incr(ref_count[captured.aliased]) = ref_count[captured.aliased] + 1
           /\ Incr(ref_count[captured.aliased]) \in Tags \ {0}
<1>1. InStartLdSt /\ wr_state = "WrStStartLdSt"
  BY DEF JoinAliased, InStartLdSt
<1>2. /\ captured.aliased \in Tags \ {UnallocatedTag}
      /\ captured.aliased # tag[captured.index]
      /\ captured.curr = tag[captured.index]
      /\ captured.ref_count = ref_count[captured.curr]
      /\ captured.index \in Lars \ {dzero}
      /\ ref_count[captured.aliased] # 0
      /\ ref_count[captured.aliased] \in Tags
  BY <1>1, SnapshotFacts, StartTypes DEF JoinAliased, Allocated
<1>3. ref_count[captured.aliased] < NumLars - 1
  BY <1>2, RefCountBounds
<1>4. /\ Incr(ref_count[captured.aliased]) = ref_count[captured.aliased] + 1
      /\ Incr(ref_count[captured.aliased]) \in Tags
  BY <1>2, <1>3, IncrDecr
<1>5. Incr(ref_count[captured.aliased]) # 0
  BY <1>2, <1>4 DEF Tags, Lars
<1>6. QED
  BY <1>1, <1>2, <1>4, <1>5 DEF JoinAliased, stop_mem_read

LEMMA HitFromUnallocatedStep ==
    ASSUME LarInv, HitFromUnallocated, ShareddataData
    PROVE  LarInv'
<1> DEFINE t == captured.aliased
           i == captured.index
<1>1. JoinAliased /\ InStartLdSt /\ wr_state = "WrStStartLdSt"
  BY JoinFacts DEF HitFromUnallocated
<1>2. tag[i] = UnallocatedTag
  BY <1>1, SnapshotFacts DEF HitFromUnallocated
<1>3. /\ ref_count' = [ref_count EXCEPT ![t] = Incr(@)]
      /\ dirty' = [dirty EXCEPT ![t] = @ \/ IsSt]
      /\ out_mem_write' = NoReq /\ wr_state' = "WrStIdle" /\ out_wr_valid' = TRUE
      /\ UNCHANGED <<tag_stack, curr_tag_stack_index>>
  BY DEF HitFromUnallocated, stop_mem_write, finish_ldst, stackVars
<1>4. ref_count' \in [Tags -> Tags] /\ dirty' \in [Tags -> BOOLEAN] /\ ~dirty'[UnallocatedTag]
  BY <1>1, <1>3, StartTypes, JoinFacts
<1>5. TypeOK' /\ DzeroIsZero' /\ SnapshotIsConsistent' /\ DataWritesAvoidDzero'
  BY <1>1, <1>3, <1>4, JoinFacts, StartTypes, StartParts
<1>6. /\ ref_count'[t] = ref_count[t] + 1
      /\ \A u \in Tags \ {t} : ref_count'[u] = ref_count[u]
      /\ ref_count[t] # 0 /\ ref_count'[t] # 0 /\ ref_count'[UnallocatedTag] = 0
  BY <1>1, <1>3, JoinFacts, StartTypes
<1>7. RefCountsAreExact'
  BY <1>1, <1>2, <1>6, JoinFacts, StartTypes, RefCountsFollow
<1>8. OneElementPerLine'
  BY <1>1, <1>6, JoinFacts, SameLines
<1>9. StackHoldsFreeTags'
  BY <1>3, <1>6 DEF LarInv, StackHoldsFreeTags, FreeTags
<1>10. QED
  BY <1>5, <1>7, <1>8, <1>9 DEF LarInv

\* The old element of the LAR, when it has one.
LEMMA OldElement ==
    ASSUME LarInv, wr_state = "WrStStartLdSt", captured.ref_count # 0
    PROVE  /\ captured.curr \in Tags \ {UnallocatedTag}
           /\ captured.curr = tag[captured.index]
           /\ captured.ref_count = ref_count[captured.curr]
           /\ ref_count[captured.curr] > 0
           /\ Decr(ref_count[captured.curr]) = ref_count[captured.curr] - 1
           /\ Decr(ref_count[captured.curr]) \in Tags
           /\ Allocated(captured.curr)
<1>1. /\ captured.curr \in Tags \ {UnallocatedTag}
      /\ captured.curr = tag[captured.index]
      /\ captured.ref_count = ref_count[captured.curr]
      /\ ref_count[captured.curr] \in Tags
  BY SnapshotFacts, StartTypes
<1>2. ref_count[captured.curr] > 0
  BY <1>1 DEF Tags, Lars
<1>3. QED
  BY <1>1, <1>2, IncrDecr DEF Allocated

LEMMA HitLeavingSharedTagStep ==
    ASSUME LarInv, HitLeavingSharedTag, ShareddataData
    PROVE  LarInv'
<1> DEFINE t == captured.aliased
           c == captured.curr
           i == captured.index
<1>1. JoinAliased /\ InStartLdSt /\ wr_state = "WrStStartLdSt"
  BY JoinFacts DEF HitLeavingSharedTag
<1>2. captured.ref_count > 1 /\ captured.ref_count # 0
  BY <1>1, StartTypes DEF HitLeavingSharedTag, Tags, Lars
<1>3. /\ ref_count' = [ref_count EXCEPT ![t] = Incr(@), ![c] = Decr(@)]
      /\ dirty' = [dirty EXCEPT ![t] = @ \/ IsSt]
      /\ out_mem_write' = NoReq /\ wr_state' = "WrStIdle" /\ out_wr_valid' = TRUE
      /\ UNCHANGED <<tag_stack, curr_tag_stack_index>>
  BY DEF HitLeavingSharedTag, stop_mem_write, finish_ldst, stackVars
<1>4. c \in Tags \ {UnallocatedTag} /\ c # t /\ c = tag[i]
  BY <1>1, <1>2, OldElement, JoinFacts
<1>5. ref_count' \in [Tags -> Tags] /\ dirty' \in [Tags -> BOOLEAN] /\ ~dirty'[UnallocatedTag]
  BY <1>1, <1>2, <1>3, <1>4, StartTypes, JoinFacts, OldElement
<1>6. TypeOK' /\ DzeroIsZero' /\ SnapshotIsConsistent' /\ DataWritesAvoidDzero'
  BY <1>1, <1>3, <1>5, JoinFacts, StartTypes, StartParts
<1>7. /\ ref_count'[t] = ref_count[t] + 1 /\ ref_count'[c] = ref_count[c] - 1
      /\ \A u \in Tags \ {t, c} : ref_count'[u] = ref_count[u]
      /\ ref_count'[UnallocatedTag] = 0
  <2>1. /\ ref_count \in [Tags -> Tags] /\ t \in Tags \ {UnallocatedTag}
        /\ Incr(ref_count[t]) = ref_count[t] + 1 /\ Decr(ref_count[c]) = ref_count[c] - 1
        /\ ref_count[UnallocatedTag] = 0 /\ UnallocatedTag \in Tags
    BY <1>1, <1>2, StartTypes, JoinFacts, OldElement DEF UnallocatedTag
  <2>2. QED
    BY <1>3, <1>4, <2>1
<1>8. RefCountsAreExact'
  BY <1>1, <1>4, <1>7, JoinFacts, StartTypes, RefCountsFollow
<1>9. ref_count[t] # 0 /\ ref_count'[t] # 0 /\ ref_count[c] # 0 /\ ref_count'[c] # 0
  <2>1. ref_count[c] > 1 /\ ref_count[c] \in Nat
    BY <1>1, <1>2, OldElement, StartTypes DEF Tags, Lars
  <2>2. QED
    BY <1>1, <1>7, <2>1, JoinFacts
<1>10. OneElementPerLine'
  BY <1>1, <1>7, <1>9, JoinFacts, SameLines
<1>11. StackHoldsFreeTags'
  <2>1. FreeTags' = FreeTags
    BY <1>7, <1>9 DEF FreeTags
  <2>2. QED
    BY <1>3, <2>1 DEF LarInv, StackHoldsFreeTags
<1>12. QED
  BY <1>6, <1>8, <1>10, <1>11 DEF LarInv

LEMMA HitFreeingOldTagStep ==
    ASSUME LarInv, HitFreeingOldTag, ShareddataData
    PROVE  LarInv'
<1> DEFINE t == captured.aliased
           c == captured.curr
           i == captured.index
           n == curr_tag_stack_index
<1>1. JoinAliased /\ InStartLdSt /\ wr_state = "WrStStartLdSt"
  BY JoinFacts DEF HitFreeingOldTag
<1>2. captured.ref_count = 1
  BY DEF HitFreeingOldTag
<1>3. /\ ref_count' = [ref_count EXCEPT ![t] = Incr(@), ![c] = 0]
      /\ dirty' = [dirty EXCEPT ![t] = @ \/ IsSt, ![c] = FALSE]
      /\ tag_stack' = [tag_stack EXCEPT ![captured.above] = c]
      /\ curr_tag_stack_index' = captured.above
  BY DEF HitFreeingOldTag, PushOldTag, CleanOldTag
<1>4. /\ out_mem_write' \in {NoReq, WriteBack(captured.old_addr, captured.data)}
      /\ wr_state' \in {"WrStIdle", "WrStWaitForJustMemWrite"}
      /\ out_wr_valid' \in {TRUE, out_wr_valid}
  BY DEF HitFreeingOldTag, stop_mem_write, prep_mem_write, finish_ldst, WaitIn
<1>5. c \in Tags \ {UnallocatedTag} /\ c # t /\ c = tag[i] /\ ref_count[c] = 1
  BY <1>1, <1>2, OldElement, JoinFacts
<1>6. /\ ref_count' \in [Tags -> Tags] /\ dirty' \in [Tags -> BOOLEAN]
      /\ ~dirty'[UnallocatedTag]
      /\ tag_stack' \in [Tags -> Tags] /\ curr_tag_stack_index' \in Tags
  <2>1. /\ ref_count \in [Tags -> Tags] /\ dirty \in [Tags -> BOOLEAN]
        /\ tag_stack \in [Tags -> Tags] /\ captured.above \in Tags
        /\ t \in Tags \ {UnallocatedTag} /\ Incr(ref_count[t]) \in Tags /\ 0 \in Tags
        /\ ~dirty[UnallocatedTag] /\ IsSt \in BOOLEAN
    BY <1>1, StartTypes, JoinFacts
  <2>2. dirty' \in [Tags -> BOOLEAN] /\ ~dirty'[UnallocatedTag]
    <3> DEFINE d == [dirty EXCEPT ![t] = @ \/ IsSt]
    <3>1. d \in [Tags -> BOOLEAN] /\ ~d[UnallocatedTag]
      BY <2>1
    <3>2. dirty' = [d EXCEPT ![c] = FALSE]
      BY <1>3
    <3> HIDE DEF d
    <3>3. QED
      BY <1>5, <3>1, <3>2
  <2>3. ref_count' \in [Tags -> Tags]
    BY <1>3, <2>1
  <2>4. tag_stack' \in [Tags -> Tags] /\ curr_tag_stack_index' \in Tags
    BY <1>3, <1>5, <2>1
  <2>5. QED
    BY <2>2, <2>3, <2>4
<1>7. TypeOK' /\ DzeroIsZero' /\ SnapshotIsConsistent' /\ DataWritesAvoidDzero'
  BY <1>1, <1>4, <1>6, JoinFacts, StartTypes, StartParts
<1>8. /\ ref_count'[t] = ref_count[t] + 1 /\ ref_count'[c] = 0
      /\ \A u \in Tags \ {t, c} : ref_count'[u] = ref_count[u]
      /\ ref_count'[UnallocatedTag] = 0
      /\ ref_count[t] # 0 /\ ref_count'[t] # 0
  <2>1. /\ ref_count \in [Tags -> Tags] /\ t \in Tags \ {UnallocatedTag}
        /\ Incr(ref_count[t]) = ref_count[t] + 1 /\ Incr(ref_count[t]) # 0
        /\ ref_count[UnallocatedTag] = 0 /\ UnallocatedTag \in Tags /\ ref_count[t] # 0
    BY <1>1, StartTypes, JoinFacts DEF UnallocatedTag
  <2>2. QED
    BY <1>3, <1>5, <2>1
<1>9. RefCountsAreExact'
  <2>1. ref_count'[c] = ref_count[c] - 1
    BY <1>5, <1>8
  <2>2. QED
    BY <1>1, <1>5, <1>8, <2>1, JoinFacts, StartTypes, RefCountsFollow
<1>10. OneElementPerLine'
  BY <1>1, <1>5, <1>8, JoinFacts, SameLines
<1>11. FreeTags' = FreeTags \cup {c}
  BY <1>5, <1>8 DEF FreeTags
<1>12. captured.above = n + 1
  BY <1>1, <1>2, <1>5, JoinFacts, SnapshotPopsAndPushesFit DEF PopsAndPushesFit
<1>13. StackHoldsFreeTags'
  <2>1. ref_count[c] # 0
    BY <1>5
  <2>2. QED
    BY <1>3, <1>5, <1>11, <1>12, <2>1, PushKeepsStack
<1>14. QED
  BY <1>7, <1>9, <1>10, <1>13 DEF LarInv

-----------------------------------------------------------------------------
(* The misses *)

LEMMA MissSoleReferenceStep ==
    ASSUME LarInv, MissSoleReference, ShareddataData
    PROVE  LarInv'
<1> DEFINE c == captured.curr
           a == captured.new_addr
<1>1. /\ InStartLdSt /\ wr_state = "WrStStartLdSt"
      /\ captured.ref_count # 0 /\ captured.aliased = UnallocatedTag
  BY DEF MissSoleReference, InMiss, InStartLdSt
<1>2. /\ base_addr' = [base_addr EXCEPT ![c] = a]
      /\ out_mem_read' \in {NoReq, ReadReq(a)}
      /\ out_mem_write' \in {NoReq, WriteBack(captured.old_addr, captured.data)}
      /\ UNCHANGED <<tag, ref_count, tag_stack, curr_tag_stack_index, data_wr>>
  BY DEF MissSoleReference, prep_mem_read, stop_mem_read, prep_mem_write, stop_mem_write,
         stackVars
<1>3. /\ dirty' \in {dirty, [dirty EXCEPT ![c] = FALSE], [dirty EXCEPT ![c] = TRUE]}
      /\ wr_state' \in {"WrStIdle", "WrStWaitForJustMemRead", "WrStWaitForJustMemWrite",
                        "WrStWaitForMemReadAndMemWrite"}
      /\ out_wr_valid' \in {TRUE, out_wr_valid}
  BY DEF MissSoleReference, finish_ldst, WaitIn
<1>4. c \in Tags \ {UnallocatedTag} /\ c = tag[captured.index]
  BY <1>1, OldElement
<1>5. tag' = [tag EXCEPT ![captured.index] = c]
  BY <1>1, <1>2, <1>4, StartTypes
<1>6. dirty' \in [Tags -> BOOLEAN] /\ ~dirty'[UnallocatedTag]
  BY <1>1, <1>3, <1>4, StartTypes
<1>7. TypeOK' /\ DzeroIsZero' /\ SnapshotIsConsistent' /\ DataWritesAvoidDzero'
  <2>1. /\ base_addr' \in {base_addr, [base_addr EXCEPT ![c] = a]}
        /\ data_wr' \in {NoReq, data_wr, DataWrite(c, captured.data)}
        /\ ref_count' \in [Tags -> Tags]
        /\ tag_stack' \in [Tags -> Tags] /\ curr_tag_stack_index' \in Tags
    BY <1>1, <1>2, StartTypes
  <2> HIDE DEF c
  <2>2. QED
    BY <1>1, <1>2, <1>3, <1>4, <1>5, <1>6, <2>1, StartParts
<1>8. RefCountsAreExact' /\ StackHoldsFreeTags'
  BY <1>2 DEF LarInv, RefCountsAreExact, Holders, StackHoldsFreeTags, FreeTags
<1>9. OneElementPerLine'
  <2>1. a \in BaseAddr /\ \A u \in Tags : Allocated(u) => base_addr[u] # a
    BY <1>1, StartTypes, SnapshotFacts
  <2>2. QED
    BY <1>2, <1>4, <2>1, NewLine
<1>10. QED
  BY <1>7, <1>8, <1>9 DEF LarInv

\* What the two misses that take a new element share.
LEMMA AllocateFacts ==
    ASSUME LarInv, InMiss, captured.ref_count # 1, AllocateTop
    PROVE  /\ InStartLdSt /\ wr_state = "WrStStartLdSt"
           /\ captured.top \in Tags \ {UnallocatedTag, tag[captured.index]}
           /\ ref_count[captured.top] = 0
           /\ tag' = [tag EXCEPT ![captured.index] = captured.top]
           /\ base_addr' = [base_addr EXCEPT ![captured.top] = captured.new_addr]
           /\ dirty' \in [Tags -> BOOLEAN] /\ ~dirty'[UnallocatedTag]
           /\ out_mem_write' = NoReq
           /\ tag_stack' \in [Tags -> Tags] /\ curr_tag_stack_index' \in Tags
           /\ FreeTags' = FreeTags \ {captured.top} => StackHoldsFreeTags'
           /\ \A u \in Tags : Allocated(u) => base_addr[u] # captured.new_addr
<1>1. /\ InStartLdSt /\ wr_state = "WrStStartLdSt" /\ captured.aliased = UnallocatedTag
  BY DEF InMiss, InStartLdSt
<1>2. curr_tag_stack_index > 0 /\ captured.top \in FreeTags
  BY <1>1, SnapshotPopsAndPushesFit DEF PopsAndPushesFit
<1>3. captured.top \in Tags \ {UnallocatedTag} /\ ref_count[captured.top] = 0
  BY <1>2 DEF FreeTags
<1>4. captured.top # tag[captured.index]
  <2>1. captured.index \in Lars \ {dzero}
    BY <1>1, StartTypes
  <2>2. tag[captured.index] # UnallocatedTag => ref_count[tag[captured.index]] >= 1
    BY <2>1, RefCountBounds
  <2>3. QED
    BY <1>3, <2>2
<1>5. /\ tag' = [tag EXCEPT ![captured.index] = captured.top]
      /\ base_addr' = [base_addr EXCEPT ![captured.top] = captured.new_addr]
      /\ dirty' = [dirty EXCEPT ![captured.top] = IsSt]
      /\ out_mem_write' = NoReq /\ tag_stack' = tag_stack
      /\ curr_tag_stack_index' = Decr(curr_tag_stack_index)
  BY DEF AllocateTop, stop_mem_write
<1>6. dirty' \in [Tags -> BOOLEAN] /\ ~dirty'[UnallocatedTag]
  BY <1>1, <1>3, <1>5, StartTypes
<1>7. /\ curr_tag_stack_index' \in Tags
      /\ curr_tag_stack_index' = curr_tag_stack_index - 1
      /\ tag_stack' \in [Tags -> Tags]
  BY <1>1, <1>2, <1>5, StartTypes, IncrDecr
<1>8. captured.top = tag_stack[curr_tag_stack_index]
  BY <1>1 DEF LarInv, SnapshotIsConsistent
<1>9. FreeTags' = FreeTags \ {captured.top} => StackHoldsFreeTags'
  BY <1>2, <1>5, <1>7, <1>8, PopKeepsStack
<1>10. \A u \in Tags : Allocated(u) => base_addr[u] # captured.new_addr
  BY <1>1, SnapshotFacts
<1>11. QED
  BY <1>1, <1>3, <1>4, <1>5, <1>6, <1>7, <1>9, <1>10

LEMMA MissFromUnallocatedStep ==
    ASSUME LarInv, MissFromUnallocated, ShareddataData
    PROVE  LarInv'
<1> DEFINE t == captured.top
           i == captured.index
<1>1. InMiss /\ AllocateTop /\ captured.ref_count # 1 /\ captured.ref_count = 0
  BY DEF MissFromUnallocated
<1>2. wr_state = "WrStStartLdSt" /\ tag[i] = UnallocatedTag
  BY <1>1, AllocateFacts, SnapshotFacts
<1>3. /\ ref_count' = [ref_count EXCEPT ![t] = 1]
      /\ out_mem_read' \in {NoReq, ReadReq(captured.new_addr)}
      /\ wr_state' \in {"WrStIdle", "WrStWaitForJustMemRead"}
      /\ out_wr_valid' \in {TRUE, out_wr_valid}
      /\ data_wr' = data_wr
  BY DEF MissFromUnallocated, prep_mem_read, stop_mem_read, finish_ldst, WaitIn
<1>4. t \in Tags \ {UnallocatedTag, tag[i]} /\ ref_count[t] = 0
  BY <1>1, AllocateFacts
<1>5. ref_count' \in [Tags -> Tags]
  BY <1>2, <1>3, StartTypes
<1>6. TypeOK' /\ DzeroIsZero' /\ SnapshotIsConsistent' /\ DataWritesAvoidDzero'
  BY <1>1, <1>3, <1>4, <1>5, AllocateFacts, StartParts
<1>7. /\ ref_count'[t] = ref_count[t] + 1 /\ ref_count'[t] # 0
      /\ \A u \in Tags \ {t} : ref_count'[u] = ref_count[u]
      /\ ref_count'[UnallocatedTag] = 0
  <2>1. /\ ref_count \in [Tags -> Tags] /\ ref_count[UnallocatedTag] = 0
        /\ UnallocatedTag \in Tags
    BY <1>2, StartTypes DEF UnallocatedTag
  <2>2. QED
    BY <1>3, <1>4, <2>1
<1>8. RefCountsAreExact'
  BY <1>1, <1>2, <1>4, <1>7, AllocateFacts, StartTypes, RefCountsFollow
<1>9. OneElementPerLine'
  <2>1. captured.new_addr \in BaseAddr
    BY <1>2, StartTypes
  <2>2. \A u \in Tags \ {UnallocatedTag, t} : ref_count'[u] # 0 => ref_count[u] # 0
    BY <1>7
  <2>3. QED
    BY <1>1, <1>4, <2>1, <2>2, AllocateFacts, NewLine
<1>10. StackHoldsFreeTags'
  <2>1. FreeTags' = FreeTags \ {t}
    BY <1>4, <1>7 DEF FreeTags
  <2>2. QED
    BY <1>1, <2>1, AllocateFacts
<1>11. QED
  BY <1>6, <1>8, <1>9, <1>10 DEF LarInv

LEMMA MissLeavingSharedTagStep ==
    ASSUME LarInv, MissLeavingSharedTag, ShareddataData
    PROVE  LarInv'
<1> DEFINE t == captured.top
           c == captured.curr
           i == captured.index
<1>1. InMiss /\ AllocateTop /\ captured.ref_count > 1
  BY DEF MissLeavingSharedTag
<1>2. wr_state = "WrStStartLdSt"
  BY <1>1 DEF InMiss, InStartLdSt
<1>3. captured.ref_count # 1 /\ captured.ref_count # 0
  BY <1>1
<1>4. /\ ref_count' = [ref_count EXCEPT ![t] = 1, ![c] = Decr(captured.ref_count)]
      /\ out_mem_read' \in {NoReq, ReadReq(captured.new_addr)}
      /\ wr_state' \in {"WrStIdle", "WrStWaitForJustMemRead"}
      /\ out_wr_valid' \in {TRUE, out_wr_valid}
      /\ data_wr' \in {data_wr, DataWrite(t, captured.data)}
  BY DEF MissLeavingSharedTag, prep_mem_read, stop_mem_read, finish_ldst, WaitIn
<1>5. /\ t \in Tags \ {UnallocatedTag, c} /\ ref_count[t] = 0
      /\ c \in Tags \ {UnallocatedTag} /\ c = tag[i]
  BY <1>1, <1>2, <1>3, AllocateFacts, OldElement
<1>6. /\ ref_count \in [Tags -> Tags] /\ 1 \in Tags
      /\ ref_count[UnallocatedTag] = 0 /\ UnallocatedTag \in Tags
      /\ Decr(captured.ref_count) = ref_count[c] - 1 /\ Decr(captured.ref_count) \in Tags
  BY <1>2, <1>3, StartTypes, OldElement DEF UnallocatedTag
<1>7. ref_count' \in [Tags -> Tags]
  BY <1>4, <1>6
<1>8. TypeOK' /\ DzeroIsZero' /\ SnapshotIsConsistent' /\ DataWritesAvoidDzero'
  BY <1>1, <1>3, <1>4, <1>5, <1>7, AllocateFacts, StartParts
<1>9. /\ ref_count'[t] = ref_count[t] + 1 /\ ref_count'[c] = ref_count[c] - 1
      /\ \A u \in Tags \ {t, c} : ref_count'[u] = ref_count[u]
      /\ ref_count'[UnallocatedTag] = 0
  BY <1>4, <1>5, <1>6
<1>10. RefCountsAreExact'
  BY <1>1, <1>2, <1>3, <1>5, <1>9, AllocateFacts, StartTypes, RefCountsFollow
<1>11. ref_count'[t] # 0 /\ ref_count[c] # 0 /\ ref_count'[c] # 0
  <2>1. ref_count[c] > 1 /\ ref_count[c] \in Nat
    BY <1>1, <1>2, <1>3, <1>5, <1>6, OldElement DEF Tags, Lars
  <2>2. QED
    BY <1>5, <1>9, <2>1
<1>12. OneElementPerLine'
  <2>1. captured.new_addr \in BaseAddr
    BY <1>2, StartTypes
  <2>2. \A u \in Tags \ {UnallocatedTag, t} : ref_count'[u] # 0 => ref_count[u] # 0
    BY <1>9, <1>11
  <2>3. QED
    BY <1>1, <1>3, <1>5, <2>1, <2>2, AllocateFacts, NewLine
<1>13. StackHoldsFreeTags'
  <2>1. FreeTags' = FreeTags \ {t}
    BY <1>5, <1>9, <1>11 DEF FreeTags
  <2>2. QED
    BY <1>1, <1>3, <2>1, AllocateFacts
<1>14. QED
  BY <1>8, <1>10, <1>12, <1>13 DEF LarInv

-----------------------------------------------------------------------------
(* The invariant *)

LEMMA InitHasInv == Init => LarInv
<1> SUFFICES ASSUME Init PROVE LarInv
  OBVIOUS
<1>1. 0 \in Tags /\ NumLars - 1 \in Tags
  BY NumLarsAssumption DEF Tags, Lars
<1>2. TypeOK
  <2>1. tag \in [Lars -> Tags] /\ ref_count \in [Tags -> Tags] /\ tag_stack \in [Tags -> Tags]
    BY <1>1 DEF Init, UnallocatedTag
  <2>2. captured_valid \in [read : BOOLEAN, write : BOOLEAN]
    BY DEF Init, NeitherValid
  <2>3. QED
    BY <1>1, <2>1, <2>2, ResetAssumption DEF Init, TypeOK
<1>3. RefCountsAreExact
  <2>1. \A t \in Tags \ {UnallocatedTag} : Holders(t) = {}
    BY DEF Init, Holders
  <2>2. QED
    BY <1>1, <2>1, FS_EmptySet DEF Init, RefCountsAreExact, UnallocatedTag
<1>4. StackHoldsFreeTags
  <2>1. \A j \in 1 .. (NumLars - 1) : tag_stack[j] = j
    BY DEF Init, Tags, Lars
  <2>2. FreeTags = 1 .. (NumLars - 1)
    BY NumLarsAssumption DEF Init, FreeTags, Tags, Lars, UnallocatedTag
  <2>3. QED
    BY <2>1, <2>2 DEF Init, StackHoldsFreeTags
<1>5. DzeroIsZero
  BY <1>1, NumLarsAssumption DEF Init, DzeroIsZero, UnallocatedTag, dzero, Lars
<1>6. OneElementPerLine
  BY DEF Init, OneElementPerLine, Allocated
<1>7. SnapshotIsConsistent /\ DataWritesAvoidDzero
  BY DEF Init, SnapshotIsConsistent, DataWritesAvoidDzero, NoReq
<1>8. QED
  BY <1>2, <1>3, <1>4, <1>5, <1>6, <1>7 DEF LarInv

LEMMA StutterKeepsInv == LarInv /\ UNCHANGED larVars => LarInv'
<1> SUFFICES ASSUME LarInv, UNCHANGED larVars PROVE LarInv'
  OBVIOUS
<1>1. /\ UNCHANGED <<tag, base_addr, ref_count, tag_stack, curr_tag_stack_index>>
      /\ UNCHANGED <<wr_state, data_offset, data_type, dirty, data, data_wr>>
      /\ UNCHANGED <<captured, captured_valid, out_wr_valid, out_mem_read, out_mem_write>>
  BY DEF larVars, metadataVars, shareddataVars, stackVars, outVars
<1>2. TypeOK'
  BY <1>1 DEF LarInv, TypeOK
<1>3. RefCountsAreExact' /\ StackHoldsFreeTags' /\ OneElementPerLine'
  BY <1>1, NothingMoves DEF stackVars
<1>4. SnapshotIsConsistent'
  BY <1>1 DEF LarInv, SnapshotIsConsistent, TagSearch, Matches, Incr
<1>5. DzeroIsZero' /\ DataWritesAvoidDzero'
  BY <1>1 DEF LarInv, DzeroIsZero, DataWritesAvoidDzero
<1>6. QED
  BY <1>2, <1>3, <1>4, <1>5 DEF LarInv

LEMMA NextKeepsInv == LarInv /\ Next => LarInv'
<1> SUFFICES ASSUME LarInv, Next PROVE LarInv'
  OBVIOUS
<1>1. ShareddataData
  BY DEF Next
<1>2. ASSUME NEW in_wr \in InWr, IdleFsm(in_wr) PROVE LarInv'
  BY <1>1, <1>2, IdleStep
<1>3. CASE StartLdStFsm
  BY <1>1, <1>3, HitOwnElementStep, HitFromUnallocatedStep, HitFreeingOldTagStep,
     HitLeavingSharedTagStep, MissFromUnallocatedStep, MissSoleReferenceStep,
     MissLeavingSharedTagStep DEF StartLdStFsm
<1>4. ASSUME NEW in_mem_read \in InMemRead, NEW in_mem_write \in InMemWrite,
             WaitFsm(in_mem_read, in_mem_write)
      PROVE  LarInv'
  BY <1>1, <1>4, WaitStep
<1>5. QED
  BY <1>2, <1>3, <1>4 DEF Next

\* Whatever arrives at the ports of the LAR file, its metadata, its reference
\* counts and its stack of free tags always agree: the conjunction of the parts below.
THEOREM LarFileInvariant == Spec => []LarInv
  BY InitHasInv, NextKeepsInv, StutterKeepsInv, PTL DEF Spec

\* Every register of the LAR file keeps to its width.
THEOREM LarFileTypes == Spec => []TypeOK
<1>1. LarInv => TypeOK
  BY DEF LarInv
<1>2. QED
  BY <1>1, LarFileInvariant, PTL

\* Reference counts, kept by adding and subtracting one in registers that wrap,
\* always are the number of LARs that carry the tag.
THEOREM ReferenceCountsAreExact == Spec => []RefCountsAreExact
<1>1. LarInv => RefCountsAreExact
  BY DEF LarInv
<1>2. QED
  BY <1>1, LarFileInvariant, PTL

\* The stack of tags holds the free tags, each once.
THEOREM TagStackIsExact == Spec => []StackHoldsFreeTags
<1>1. LarInv => StackHoldsFreeTags
  BY DEF LarInv
<1>2. QED
  BY <1>1, LarFileInvariant, PTL

\* The FSM never pops an empty stack or pushes a full one, although it tests neither.
THEOREM TagStackNeverOverflows == Spec => []PopsAndPushesFit
  BY SnapshotPopsAndPushesFit, LarFileInvariant, PTL

\* No line of memory is ever held by two elements.
THEOREM LinesAreHeldOnce == Spec => []OneElementPerLine
<1>1. LarInv => OneElementPerLine
  BY DEF LarInv
<1>2. QED
  BY <1>1, LarFileInvariant, PTL

\* The data behind dzero is never written.
THEOREM DzeroStaysZero == Spec => []DzeroIsZero
<1>1. LarInv => DzeroIsZero
  BY DEF LarInv
<1>2. QED
  BY <1>1, LarFileInvariant, PTL

-----------------------------------------------------------------------------
(* Write-back: what every edge does to a dirty element *)

DirtyGoal == DirtyElementsAreInUse' /\ DropsOnlyWhatItWritesBack

\* An edge that only makes elements dirty that are in use, and drops none.
LEMMA NothingIsDropped ==
    ASSUME LarInv, DirtyElementsAreInUse,
           \A u \in Tags : dirty[u] => dirty'[u] /\ base_addr'[u] = base_addr[u],
           \A u \in Tags : Allocated(u) => ref_count'[u] # 0,
           \A u \in Tags : dirty'[u] => u # UnallocatedTag /\ ref_count'[u] # 0
    PROVE  DirtyGoal
  BY DEF DirtyGoal, DirtyElementsAreInUse, DropsOnlyWhatItWritesBack, Allocated

\* An edge that drops one element at most, and writes it back if it was dirty.
LEMMA OneIsDropped ==
    ASSUME LarInv, DirtyElementsAreInUse, wr_state = "WrStStartLdSt", NEW c \in Tags,
           c = captured.curr,
           \A u \in Tags \ {c} : dirty[u] => dirty'[u] /\ base_addr'[u] = base_addr[u],
           \A u \in Tags \ {c} : Allocated(u) => ref_count'[u] # 0,
           \A u \in Tags : dirty'[u] => u # UnallocatedTag /\ ref_count'[u] # 0,
           captured.dirty => out_mem_write' = WriteBack(captured.old_addr, captured.data)
    PROVE  DirtyGoal
<1>1. DirtyElementsAreInUse'
  BY DEF DirtyElementsAreInUse, Allocated
<1>2. dirty[c] => out_mem_write'.req /\ out_mem_write'.base_addr = base_addr[c]
  <2>1. captured.dirty = dirty[c] /\ captured.old_addr = base_addr[c]
    BY DEF LarInv, SnapshotIsConsistent
  <2>2. /\ WriteBack(captured.old_addr, captured.data).req = TRUE
        /\ WriteBack(captured.old_addr, captured.data).base_addr = captured.old_addr
    BY DEF WriteBack
  <2>3. QED
    BY <2>1, <2>2
<1>3. DropsOnlyWhatItWritesBack
  BY <1>2 DEF DirtyElementsAreInUse, DropsOnlyWhatItWritesBack
<1>4. QED
  BY <1>1, <1>3 DEF DirtyGoal

LEMMA IdleDropsNothing ==
    ASSUME LarInv, DirtyElementsAreInUse, NEW in_wr \in InWr, IdleFsm(in_wr)
    PROVE  DirtyGoal
<1>1. UNCHANGED <<base_addr, ref_count>>
  BY DEF IdleFsm, IdleNoWrite, IdleWriteData, IdleStartLdSt, InIdle
<1>2. CASE dirty' = dirty
  BY <1>1, <1>2, NothingIsDropped DEF DirtyElementsAreInUse, Allocated
<1>3. CASE IdleWriteData(in_wr) /\ dirty' # dirty
  <2> DEFINE t == tag[in_wr.index]
  <2>1. in_wr.index \in Lars \ {dzero}
    BY <1>3, InWrFields DEF IdleWriteData
  <2>2. t # UnallocatedTag /\ dirty' = [dirty EXCEPT ![t] = TRUE]
    BY <1>3 DEF IdleWriteData
  <2>3. t \in Tags /\ dirty \in [Tags -> BOOLEAN] /\ ref_count \in [Tags -> Tags]
    BY <2>1 DEF LarInv, TypeOK
  <2>4. ref_count[t] # 0
    <3>1. ref_count[t] >= 1
      BY <2>1, <2>2, RefCountBounds
    <3>2. QED
      BY <3>1
  <2>5. \A u \in Tags \ {t} : dirty'[u] = dirty[u]
    BY <2>2, <2>3
  <2>6. dirty'[t]
    BY <2>2, <2>3
  <2>7. \A u \in Tags : dirty'[u] => u # UnallocatedTag /\ ref_count'[u] # 0
    BY <1>1, <2>2, <2>4, <2>5 DEF DirtyElementsAreInUse, Allocated
  <2>8. \A u \in Tags : dirty[u] => dirty'[u] /\ base_addr'[u] = base_addr[u]
    BY <1>1, <2>5, <2>6
  <2>9. \A u \in Tags : Allocated(u) => ref_count'[u] # 0
    BY <1>1 DEF Allocated
  <2>10. QED
    BY <2>7, <2>8, <2>9, NothingIsDropped
<1>4. QED
  BY <1>2, <1>3 DEF IdleFsm, IdleNoWrite, IdleStartLdSt

LEMMA WaitDropsNothing ==
    ASSUME LarInv, DirtyElementsAreInUse,
           UNCHANGED <<base_addr, ref_count, dirty>>
    PROVE  DirtyGoal
  BY NothingIsDropped DEF DirtyElementsAreInUse, Allocated

\* Joining an element may make that one dirty, and only that one.
LEMMA JoinMakesOneDirty ==
    ASSUME LarInv, JoinAliased, DirtyElementsAreInUse,
           dirty' = [dirty EXCEPT ![captured.aliased] = @ \/ IsSt]
    PROVE  /\ \A u \in Tags : dirty[u] => dirty'[u]
           /\ \A u \in Tags : dirty'[u] => Allocated(u)
<1>1. /\ dirty \in [Tags -> BOOLEAN] /\ captured.aliased \in Tags \ {UnallocatedTag}
      /\ Allocated(captured.aliased)
  BY JoinFacts, StartTypes DEF Allocated
<1>2. \A u \in Tags \ {captured.aliased} : dirty'[u] = dirty[u]
  BY <1>1
<1>3. dirty[captured.aliased] => dirty'[captured.aliased]
  BY <1>1
<1>4. QED
  BY <1>1, <1>2, <1>3 DEF DirtyElementsAreInUse

LEMMA HitDropsNothing ==
    ASSUME LarInv, DirtyElementsAreInUse, HitFromUnallocated \/ HitLeavingSharedTag
    PROVE  DirtyGoal
<1>1. /\ JoinAliased /\ base_addr' = base_addr
      /\ dirty' = [dirty EXCEPT ![captured.aliased] = @ \/ IsSt]
  BY DEF HitFromUnallocated, HitLeavingSharedTag, JoinAliased
<1>2. \A u \in Tags : Allocated(u) => ref_count'[u] # 0
  <2> DEFINE t == captured.aliased
             c == captured.curr
  <2>1. /\ ref_count \in [Tags -> Tags] /\ t \in Tags /\ Incr(ref_count[t]) # 0
        /\ wr_state = "WrStStartLdSt" /\ c # t
    BY <1>1, JoinFacts, StartTypes
  <2>2. CASE HitFromUnallocated
    BY <2>1, <2>2 DEF HitFromUnallocated, Allocated
  <2>3. CASE HitLeavingSharedTag
    <3>1. captured.ref_count > 1 /\ captured.ref_count # 0
      BY <2>3 DEF HitLeavingSharedTag
    <3>2. c \in Tags /\ ref_count[c] > 1 /\ Decr(ref_count[c]) = ref_count[c] - 1
      BY <2>1, <3>1, OldElement
    <3>3. Decr(ref_count[c]) # 0
      BY <2>1, <3>2 DEF Tags, Lars
    <3>4. ref_count' = [ref_count EXCEPT ![t] = Incr(@), ![c] = Decr(@)]
      BY <2>3 DEF HitLeavingSharedTag
    <3>5. ref_count'[t] = Incr(ref_count[t]) /\ ref_count'[c] = Decr(ref_count[c])
      BY <2>1, <3>2, <3>4
    <3>6. \A u \in Tags \ {t, c} : ref_count'[u] = ref_count[u]
      BY <2>1, <3>2, <3>4
    <3>7. QED
      BY <2>1, <3>3, <3>5, <3>6 DEF Allocated
  <2>4. QED
    BY <2>2, <2>3
<1>3. QED
  BY <1>1, <1>2, JoinMakesOneDirty, NothingIsDropped DEF Allocated

LEMMA HitFreeingOldTagDrops ==
    ASSUME LarInv, DirtyElementsAreInUse, HitFreeingOldTag
    PROVE  DirtyGoal
<1> DEFINE t == captured.aliased
           c == captured.curr
           d == [dirty EXCEPT ![t] = @ \/ IsSt]
<1>1. /\ wr_state = "WrStStartLdSt" /\ JoinAliased /\ captured.ref_count # 0
      /\ base_addr' = base_addr
      /\ ref_count' = [ref_count EXCEPT ![t] = Incr(@), ![c] = 0]
      /\ dirty' = [d EXCEPT ![c] = FALSE]
      /\ captured.dirty => out_mem_write' = WriteBack(captured.old_addr, captured.data)
  BY JoinFacts DEF HitFreeingOldTag, CleanOldTag, JoinAliased, prep_mem_write
<1>2. /\ c \in Tags /\ t \in Tags \ {UnallocatedTag} /\ c # t /\ Incr(ref_count[t]) # 0
      /\ dirty \in [Tags -> BOOLEAN] /\ ref_count \in [Tags -> Tags]
      /\ IsSt \in BOOLEAN
  BY <1>1, JoinFacts, OldElement, StartTypes
<1>3. /\ d \in [Tags -> BOOLEAN] /\ \A u \in Tags : dirty[u] => d[u]
      /\ \A u \in Tags \ {t} : d[u] = dirty[u]
  BY <1>2
<1>4. \A u \in Tags \ {c} : dirty'[u] = d[u]
  <2> HIDE DEF d
  <2> QED BY <1>1, <1>2, <1>3
<1>5. /\ \A u \in Tags \ {c, t} : ref_count'[u] = ref_count[u]
      /\ ref_count'[t] # 0
  BY <1>1, <1>2
<1>6. ~dirty'[c]
  <2> HIDE DEF d
  <2> QED BY <1>1, <1>2, <1>3
<1>7. \A u \in Tags \ {c} : dirty[u] => dirty'[u] /\ base_addr'[u] = base_addr[u]
  <2> HIDE DEF d
  <2> QED BY <1>1, <1>3, <1>4
<1>8. \A u \in Tags \ {c} : Allocated(u) => ref_count'[u] # 0
  BY <1>5 DEF Allocated
<1>9. \A u \in Tags : dirty'[u] => u # UnallocatedTag /\ ref_count'[u] # 0
  <2> HIDE DEF d
  <2> QED BY <1>2, <1>3, <1>4, <1>5, <1>6 DEF DirtyElementsAreInUse, Allocated
<1>10. QED
  BY <1>1, <1>2, <1>7, <1>8, <1>9, OneIsDropped

LEMMA MissSoleReferenceDrops ==
    ASSUME LarInv, DirtyElementsAreInUse, MissSoleReference
    PROVE  DirtyGoal
<1> DEFINE c == captured.curr
<1>1. /\ wr_state = "WrStStartLdSt" /\ captured.ref_count # 0
      /\ base_addr' = [base_addr EXCEPT ![c] = captured.new_addr]
      /\ ref_count' = ref_count
      /\ dirty' \in {dirty, [dirty EXCEPT ![c] = FALSE], [dirty EXCEPT ![c] = TRUE]}
      /\ captured.dirty => out_mem_write' = WriteBack(captured.old_addr, captured.data)
  BY DEF MissSoleReference, InMiss, InStartLdSt, prep_mem_write
<1>2. /\ c \in Tags /\ Allocated(c)
      /\ dirty \in [Tags -> BOOLEAN] /\ base_addr \in [Tags -> BaseAddr]
  BY <1>1, OldElement, StartTypes
<1>3. \A u \in Tags \ {c} : dirty'[u] = dirty[u] /\ base_addr'[u] = base_addr[u]
  BY <1>1, <1>2
<1>4. \A u \in Tags : dirty'[u] => Allocated(u)
  BY <1>2, <1>3 DEF DirtyElementsAreInUse
<1>5. QED
  BY <1>1, <1>2, <1>3, <1>4, OneIsDropped DEF Allocated

LEMMA MissAllocatingDropsNothing ==
    ASSUME LarInv, DirtyElementsAreInUse, MissFromUnallocated \/ MissLeavingSharedTag
    PROVE  DirtyGoal
<1> DEFINE t == captured.top
           c == captured.curr
<1>1. /\ InMiss /\ AllocateTop /\ captured.ref_count # 1 /\ wr_state = "WrStStartLdSt"
      /\ base_addr' = [base_addr EXCEPT ![t] = captured.new_addr]
      /\ dirty' = [dirty EXCEPT ![t] = IsSt]
  BY DEF MissFromUnallocated, MissLeavingSharedTag, AllocateTop, InMiss, InStartLdSt
<1>2. /\ t \in Tags \ {UnallocatedTag, tag[captured.index]} /\ ref_count[t] = 0
      /\ dirty \in [Tags -> BOOLEAN] /\ base_addr \in [Tags -> BaseAddr]
      /\ ref_count \in [Tags -> Tags] /\ c = tag[captured.index] /\ c \in Tags
  BY <1>1, AllocateFacts, StartTypes, SnapshotFacts
<1>3. \A u \in Tags \ {t} : dirty'[u] = dirty[u] /\ base_addr'[u] = base_addr[u]
  BY <1>1, <1>2
<1>4. ~dirty[t]
  BY <1>2 DEF DirtyElementsAreInUse, Allocated
<1>5. ref_count'[t] = 1 /\ \A u \in Tags \ {t} : Allocated(u) => ref_count'[u] # 0
  <2>1. CASE MissFromUnallocated
    BY <1>2, <2>1 DEF MissFromUnallocated, Allocated
  <2>2. CASE MissLeavingSharedTag
    <3>1. captured.ref_count > 1 /\ captured.ref_count # 0
      BY <2>2 DEF MissLeavingSharedTag
    <3>2. Decr(captured.ref_count) # 0
      BY <1>1, <1>2, <3>1, OldElement DEF Tags, Lars
    <3>3. ref_count' = [ref_count EXCEPT ![t] = 1, ![c] = Decr(captured.ref_count)]
      BY <2>2 DEF MissLeavingSharedTag
    <3>4. ref_count'[t] = 1 /\ ref_count'[c] = Decr(captured.ref_count)
      BY <1>2, <3>3
    <3>5. \A u \in Tags \ {t, c} : ref_count'[u] = ref_count[u]
      BY <1>2, <3>3
    <3>6. QED
      BY <3>2, <3>4, <3>5 DEF Allocated
  <2>3. QED
    BY <2>1, <2>2
<1>6. \A u \in Tags : dirty'[u] => u # UnallocatedTag /\ ref_count'[u] # 0
  BY <1>2, <1>3, <1>5 DEF DirtyElementsAreInUse, Allocated
<1>7. \A u \in Tags : dirty[u] => dirty'[u] /\ base_addr'[u] = base_addr[u]
  BY <1>3, <1>4
<1>8. \A u \in Tags : Allocated(u) => ref_count'[u] # 0
  BY <1>5
<1>9. QED
  BY <1>6, <1>7, <1>8, NothingIsDropped

LEMMA NextDropsOnlyWhatItWritesBack ==
    LarInv /\ DirtyElementsAreInUse /\ Next => DirtyGoal
<1> SUFFICES ASSUME LarInv, DirtyElementsAreInUse, Next PROVE DirtyGoal
  OBVIOUS
<1>1. ASSUME NEW in_wr \in InWr, IdleFsm(in_wr) PROVE DirtyGoal
  BY <1>1, IdleDropsNothing
<1>2. CASE StartLdStFsm
  <2>1. CASE HitOwnElement
    BY <2>1, WaitDropsNothing DEF HitOwnElement, shareddataVars
  <2>2. QED
    BY <1>2, <2>1, HitDropsNothing, HitFreeingOldTagDrops, MissSoleReferenceDrops,
       MissAllocatingDropsNothing DEF StartLdStFsm
<1>3. ASSUME NEW in_mem_read \in InMemRead, NEW in_mem_write \in InMemWrite,
             WaitFsm(in_mem_read, in_mem_write)
      PROVE  DirtyGoal
  <2>1. UNCHANGED <<base_addr, ref_count, dirty>>
    BY <1>3 DEF WaitFsm, WaitForJustMemRead, WaitForJustMemWrite, WaitForMemReadAndMemWrite,
                InWait, shareddataVars
  <2>2. QED
    BY <2>1, WaitDropsNothing
<1>4. QED
  BY <1>1, <1>2, <1>3 DEF Next

\* Only elements that some LAR refers to are dirty: a freed element never writes
\* its old line back over memory when its tag is used again.
THEOREM OnlyUsedElementsAreDirty == Spec => []DirtyElementsAreInUse
<1>1. Init => DirtyElementsAreInUse
  BY DEF Init, DirtyElementsAreInUse
<1>2. LarInv /\ DirtyElementsAreInUse /\ [Next]_larVars => DirtyElementsAreInUse'
  <2>1. LarInv /\ DirtyElementsAreInUse /\ Next => DirtyElementsAreInUse'
    BY NextDropsOnlyWhatItWritesBack DEF DirtyGoal
  <2>2. DirtyElementsAreInUse /\ UNCHANGED larVars => DirtyElementsAreInUse'
    BY DEF DirtyElementsAreInUse, Allocated, larVars, shareddataVars
  <2>3. QED
    BY <2>1, <2>2
<1>3. QED
  BY <1>1, <1>2, LarFileInvariant, PTL DEF Spec

\* No load or store ever loses dirty data: the edge that drops it asks memory to
\* write it, at the address it came from.
THEOREM DirtyLinesAreWrittenBack == Spec => DirtyLineIsWrittenBack
<1>1. LarInv /\ DirtyElementsAreInUse /\ [Next]_larVars => [DropsOnlyWhatItWritesBack]_larVars
  BY NextDropsOnlyWhatItWritesBack DEF DirtyGoal
<1>2. QED
  BY <1>1, LarFileInvariant, OnlyUsedElementsAreDirty, PTL DEF Spec, DirtyLineIsWrittenBack
=============================================================================
