---------------------------- MODULE Hmm_proofs ----------------------------
(***************************************************************************)
(* Proofs about the mappings of a process's buffers, for any number of     *)
(* buffers, mappings and submitting threads, and whatever fails.           *)
(***************************************************************************)
EXTENDS Hmm, SeqLemmas, FiniteSetTheorems, TLAPS

(* The threads that hold a mapping can be counted.                         *)
LEMMA HoldersFinite ==
    ASSUME NEW v
    PROVE  /\ IsFiniteSet(Holders(v)) /\ Cardinality(Holders(v)) \in Nat
           /\ Holders(v) = {} <=> Cardinality(Holders(v)) = 0
<1>1. IsFiniteSet(Holders(v))
  BY HmmAssumption, FS_Subset DEF Holders
<1> QED BY <1>1, FS_CardinalityType, FS_EmptySet

(* A thread that holds nothing takes a mapping: it is one holder more of    *)
(* that one, and the others keep theirs.                                   *)
LEMMA HolderAdded ==
    ASSUME TypeOK, NEW j \in Job, pv[j] = None, NEW v \in Vma,
           pv' = [pv EXCEPT ![j] = v], NEW w \in Vma
    PROVE  Cardinality(Holders(w)') = Cardinality(Holders(w)) + (IF w = v THEN 1 ELSE 0)
<1>1. pv[j] # v /\ pv[j] # w
  BY HmmAssumption
<1>2. Holders(w)' = IF w = v THEN Holders(w) \cup {j} ELSE Holders(w)
  BY <1>1 DEF Holders, TypeOK
<1>3. j \notin Holders(w)
  BY <1>1 DEF Holders
<1>4. IsFiniteSet(Holders(w)) /\ Cardinality(Holders(w)) \in Nat
  BY HoldersFinite
<1>5. Cardinality(Holders(w) \cup {j}) = Cardinality(Holders(w)) + 1
  BY <1>3, <1>4, FS_AddElement
<1> QED BY <1>2, <1>4, <1>5

(* A thread lets its mapping go: it has one holder less.                   *)
LEMMA HolderRemoved ==
    ASSUME TypeOK, NEW j \in Job, pv[j] \in Vma, pv' = [pv EXCEPT ![j] = None],
           NEW w \in Vma
    PROVE  Cardinality(Holders(w)') = Cardinality(Holders(w)) - (IF w = pv[j] THEN 1 ELSE 0)
<1>1. Holders(w)' = IF w = pv[j] THEN Holders(w) \ {j} ELSE Holders(w)
  BY HmmAssumption DEF Holders, TypeOK
<1>2. w = pv[j] => j \in Holders(w)
  BY DEF Holders
<1>3. IsFiniteSet(Holders(w)) /\ Cardinality(Holders(w)) \in Nat
  BY HoldersFinite
<1>4. w = pv[j] => Cardinality(Holders(w) \ {j}) = Cardinality(Holders(w)) - 1
  BY <1>2, <1>3, FS_RemoveElement
<1> QED BY <1>1, <1>3, <1>4

(* A mapping's references are held by the jobs that name it.               *)
LEMMA HoldersSame ==
    ASSUME UNCHANGED pv, NEW v PROVE Holders(v)' = Holders(v)
BY DEF Holders

(* What the scan of a buffer's list finds is on the list and invalid; when *)
(* it finds nothing, nothing on the list is.                               *)
LEMMA ScanFinds ==
    ASSUME TypeOK, NEW b \in Bo
    PROVE  /\ ToPopulate(b) # 0 =>
                /\ umap_list[b][ToPopulate(b)] \in Vma
                /\ Contains(umap_list[b], umap_list[b][ToPopulate(b)])
                /\ invalid[umap_list[b][ToPopulate(b)]]
           /\ ToPopulate(b) = 0 => \A v \in Vma : Contains(umap_list[b], v) => ~invalid[v]
<1> DEFINE s == umap_list[b]
           I == {i \in 1..Len(s) : invalid[s[i]]}
<1>1. s \in Seq(Vma) /\ Len(s) \in Nat
  BY DEF TypeOK
<1>2. ToPopulate(b) = IF I # {} THEN Min(I) ELSE 0
  BY DEF ToPopulate, SelectInSeq
<1>3. ASSUME I # {} PROVE Min(I) \in I
  <2>1. I \in SUBSET Nat
    BY <1>1
  <2> HIDE DEF I
  <2> QED BY <2>1, <1>3, NatHasMin DEF Min
<1>4. CASE I # {}
  <2> DEFINE k == ToPopulate(b)
  <2>1. k \in I
    BY <1>2, <1>3, <1>4
  <2> HIDE DEF k
  <2>2. k \in 1..Len(s) /\ invalid[s[k]] /\ k # 0
    BY <2>1, <1>1
  <2> QED BY <2>2, <1>1, ElementOfSeq DEF Contains, k
<1>5. CASE I = {}
  BY <1>2, <1>5 DEF Contains
<1> QED BY <1>4, <1>5

(* The two outcomes of a scan: the flag of a buffer without an invalid      *)
(* mapping is cleared, or a mapping that is still on a list is taken.      *)
ScanClears(j, b) ==
    /\ map_invalid' = [map_invalid EXCEPT ![b] = FALSE]
    /\ \A v \in Vma : umap[v] \in {"live", "removing"} /\ bo_of[v] = b => ~invalid[v]
    /\ job' = [job EXCEPT ![j] = "check"] /\ UNCHANGED <<refcnt, pv, oops>>
ScanTakes(j, v) ==
    /\ umap[v] \in {"live", "removing"} /\ invalid[v]
    /\ oops' = (IF refcnt[v] = 0 THEN "ref0" ELSE oops)
    /\ refcnt' = [refcnt EXCEPT ![v] = @ + 1]
    /\ pv' = [pv EXCEPT ![j] = v] /\ job' = [job EXCEPT ![j] = "begin"]
    /\ UNCHANGED map_invalid

(* A scan does one or the other.                                           *)
LEMMA ScanEffect ==
    ASSUME UmapInv, NEW j \in Job, PopulateScan(j)
    PROVE  \/ \E b \in Bo : ScanClears(j, b)
           \/ \E v \in Vma : ScanTakes(j, v)
<1>1. PICK b \in InvalidBos(j) :
        LET found == ToPopulate(b)
            v == umap_list[b][found]
        IN  IF found = 0
            THEN /\ map_invalid' = [map_invalid EXCEPT ![b] = FALSE] /\ Goto(j, "check")
                 /\ UNCHANGED <<refcnt, pv, oops>>
            ELSE /\ oops' = IF refcnt[v] = 0 THEN "ref0" ELSE oops
                 /\ refcnt' = [refcnt EXCEPT ![v] = @ + 1]
                 /\ pv' = [pv EXCEPT ![j] = v] /\ Goto(j, "begin")
                 /\ UNCHANGED map_invalid
  BY DEF PopulateScan
<1>2. b \in Bo
  BY DEF InvalidBos, UmapInv, TypeOK
<1>3. CASE ToPopulate(b) = 0
  <2>1. \A v \in Vma : umap[v] \in {"live", "removing"} /\ bo_of[v] = b => ~invalid[v]
    BY <1>2, <1>3, ScanFinds DEF UmapInv, UmapListed
  <2> QED BY <1>1, <1>2, <1>3, <2>1 DEF ScanClears, Goto
<1>4. CASE ToPopulate(b) # 0
  <2> DEFINE v == umap_list[b][ToPopulate(b)]
  <2>1. v \in Vma /\ Contains(umap_list[b], v) /\ invalid[v]
    BY <1>2, <1>4, ScanFinds DEF UmapInv
  <2>2. umap[v] \in {"live", "removing"}
    BY <1>2, <2>1 DEF UmapInv, UmapListed
  <2>3. ScanTakes(j, v)
    BY <1>1, <1>4, <2>1, <2>2 DEF ScanTakes, Goto
  <2> QED BY <2>1, <2>3
<1> QED BY <1>3, <1>4

(* mmap() registers a mapping at the end of its buffer's list.             *)
LEMMA MmapRegisterStep ==
    ASSUME UmapInv, Alive, NEW v \in Vma, NEW b \in Bo, MmapRegister(v, b)
    PROVE  UmapInv'
<1>1. TypeOK'
  BY DEF TypeOK, MmapRegister, UmapInv, wqVars, jobVars
<1>2. UmapListed'
  <2>1. umap[v] = "none" /\ ~Contains(umap_list[b], v)
    BY DEF UmapInv, UmapKnown, UmapListed, MmapRegister
  <2>2. umap_list[b] \in Seq(Vma) /\ IsInjective(umap_list[b])
    BY DEF UmapInv, TypeOK, UmapListed
  <2>3. /\ IsInjective(Append(umap_list[b], v))
        /\ \A x : Contains(Append(umap_list[b], v), x) <=> Contains(umap_list[b], x) \/ x = v
    BY <2>1, <2>2, AppendInjectiveProperties
  <2>4. \A c \in Bo : umap_list'[c] = IF c = b THEN Append(umap_list[b], v) ELSE umap_list[c]
    BY DEF UmapInv, TypeOK, MmapRegister
  <2>5. \A c \in Bo : IsInjective(umap_list'[c])
    BY <2>3, <2>4 DEF UmapInv, UmapListed
  <2>6. ASSUME NEW c \in Bo, NEW x \in Vma
        PROVE  Contains(umap_list'[c], x) <=>
                 umap'[x] \in {"live", "removing"} /\ bo_of'[x] = c
    BY <2>1, <2>3, <2>4 DEF UmapInv, UmapListed, TypeOK, MmapRegister
  <2> QED BY <2>5, <2>6 DEF UmapListed
<1>3. UmapKnown'
  BY DEF TypeOK, UmapKnown, MmapRegister, UmapInv, wqVars, jobVars
<1>4. UmapRefsExact'
  <2>1. umap[v] = "none" /\ Holders(v) = {} /\ puts[v] = 0
    BY DEF UmapInv, UmapKnown, MmapRegister, Holders
  <2>2. Cardinality(Holders(v)) = 0
    BY <2>1, FS_EmptySet
  <2>3. ASSUME NEW w \in Vma, w # v
        PROVE  refcnt'[w] = refcnt[w] /\ umap'[w] = umap[w] /\ puts'[w] = puts[w]
    BY <2>3 DEF UmapInv, TypeOK, MmapRegister
  <2>4. refcnt'[v] = 1 /\ umap'[v] = "live" /\ puts'[v] = 0
    BY <2>1 DEF UmapInv, TypeOK, MmapRegister
  <2>5. \A w \in Vma : Holders(w)' = Holders(w)
    BY HoldersSame DEF MmapRegister, jobVars
  <2> QED BY <2>2, <2>3, <2>4, <2>5 DEF UmapInv, UmapRefsExact, MmapRegister, Alive
<1>5. WorkDropsOnce'
  BY DEF WorkDropsOnce, MmapRegister, UmapInv, wqVars
<1>6. FreedOnlyInRelease'
  BY DEF UmapKnown, FreedOnlyInRelease, MmapRegister, UmapInv
<1> QED BY <1>1, <1>2, <1>3, <1>4, <1>5, <1>6 DEF UmapInv

(* mmap() fills the mapping, or fails and queues the work.                 *)
LEMMA MmapInsertStep ==
    ASSUME UmapInv, Alive, NEW v \in Vma, MmapInsert(v)
    PROVE  UmapInv'
<1>1. TypeOK'
  <2>1. vma' \in [Vma -> {"none", "mapping", "mapped", "failed", "gone"}]
    BY DEF UmapInv, TypeOK, MmapInsert
  <2>2. work' \subseteq Vma /\ oops' \in {"no", "dead_wq", "freed_work", "ref0", "used_freed"}
    BY DEF UmapInv, TypeOK, MmapInsert, QueueUnreg
  <2>3. blame' \subseteq Fault
    BY HmmAssumption DEF UmapInv, TypeOK, MmapInsert, Fails, Works
  <2> QED BY <2>1, <2>2, <2>3 DEF UmapInv, TypeOK, MmapInsert, jobVars
<1>2. UmapListed'
  BY DEF UmapListed, MmapInsert, UmapInv
<1>3. UmapKnown'
  BY DEF TypeOK, UmapKnown, MmapInsert, QueueUnreg, UmapInv, jobVars
<1>4. UmapRefsExact'
  BY HoldersSame DEF UmapRefsExact, MmapInsert, UmapInv, jobVars
<1>5. WorkDropsOnce'
  BY DEF WorkDropsOnce, MmapInsert, Fails, Works, UmapInv
<1>6. FreedOnlyInRelease'
  BY DEF FreedOnlyInRelease, MmapInsert, QueueUnreg, Fails, Works, UmapInv
<1> QED BY <1>1, <1>2, <1>3, <1>4, <1>5, <1>6 DEF UmapInv

(* The notifier sets the two flags.                                        *)
LEMMA InvalidateBeginStep ==
    ASSUME UmapInv, Alive, NEW v \in Vma, NEW why \in {"move", "part", "unmap"},
           InvalidateBegin(v, why)
    PROVE  UmapInv'
<1>1. TypeOK'
  <2>1. inv' \in [Vma -> {"no", "move", "part", "unmap"}] /\ moves' \in 0..MaxMoves
    BY HmmAssumption DEF UmapInv, TypeOK, InvalidateBegin
  <2>2. map_invalid' \in [Bo -> BOOLEAN] /\ invalid' \in [Vma -> BOOLEAN]
    BY DEF UmapInv, TypeOK, InvalidateBegin
  <2>3. raced' \in [Job -> BOOLEAN]
    BY DEF UmapInv, TypeOK, InvalidateBegin
  <2> QED BY <2>1, <2>2, <2>3 DEF UmapInv, TypeOK, InvalidateBegin, wqVars
<1>2. UmapListed'
  BY DEF UmapListed, InvalidateBegin, UmapInv
<1>3. UmapKnown'
  BY DEF UmapKnown, InvalidateBegin, UmapInv, wqVars
<1>4. UmapRefsExact'
  BY HoldersSame DEF UmapRefsExact, InvalidateBegin, UmapInv
<1>5. WorkDropsOnce'
  BY DEF WorkDropsOnce, InvalidateBegin, UmapInv, wqVars
<1>6. FreedOnlyInRelease'
  BY DEF FreedOnlyInRelease, InvalidateBegin, UmapInv
<1> QED BY <1>1, <1>2, <1>3, <1>4, <1>5, <1>6 DEF UmapInv

(* The notifier returns, and an unmap queues the work once.                *)
LEMMA InvalidateEndStep ==
    ASSUME UmapInv, Alive, NEW v \in Vma, InvalidateEnd(v)
    PROVE  UmapInv'
<1>1. TypeOK'
  <2>1. /\ vma' \in [Vma -> {"none", "mapping", "mapped", "failed", "gone"}]
        /\ inv' \in [Vma -> {"no", "move", "part", "unmap"}]
    BY DEF UmapInv, TypeOK, InvalidateEnd
  <2>2. work' \subseteq Vma /\ oops' \in {"no", "dead_wq", "freed_work", "ref0", "used_freed"}
    <3>1. CASE Unmaps(v) /\ QueueOnce(v)
      BY <3>1 DEF UmapInv, TypeOK, InvalidateEnd, QueueUnreg
    <3>2. CASE ~(Unmaps(v) /\ QueueOnce(v))
      BY <3>2 DEF UmapInv, TypeOK, InvalidateEnd
    <3> QED BY <3>1, <3>2
  <2>3. unmapped' \in [Vma -> BOOLEAN]
    BY DEF UmapInv, TypeOK, InvalidateEnd
  <2>4. blame' \subseteq Fault
    BY HmmAssumption DEF UmapInv, TypeOK, InvalidateEnd, Fails, Works
  <2> QED BY <2>1, <2>2, <2>3, <2>4 DEF UmapInv, TypeOK, InvalidateEnd, jobVars
<1>2. UmapListed'
  BY DEF UmapListed, InvalidateEnd, UmapInv
<1>3. UmapKnown'
  BY DEF UmapKnown, InvalidateEnd, QueueUnreg, UmapInv, jobVars
<1>4. UmapRefsExact'
  BY HoldersSame DEF UmapRefsExact, InvalidateEnd, UmapInv, jobVars
<1>5. WorkDropsOnce'
  BY DEF TypeOK, WorkDropsOnce, InvalidateEnd, QueueUnreg, Fails, Works, Unmaps,
       QueueOnce, UmapInv, Alive
<1>6. FreedOnlyInRelease'
  BY DEF FreedOnlyInRelease, InvalidateEnd, QueueUnreg, Fails, Works, UmapInv
<1> QED BY <1>1, <1>2, <1>3, <1>4, <1>5, <1>6 DEF UmapInv

(* The work drops the mapping's own reference.                             *)
LEMMA UnregWorkStep ==
    ASSUME UmapInv, Alive, NEW v \in Vma, UnregWork(v)
    PROVE  UmapInv'
<1>1. TypeOK'
  <2>1. CASE umap[v] = "live"
    <3>1. refcnt[v] - 1 \in Nat
      BY <2>1 DEF UmapInv, TypeOK, UmapRefsExact
    <3>2. refcnt' \in [Vma -> Nat] /\ puts' \in [Vma -> Nat]
      BY <2>1, <3>1 DEF UmapInv, TypeOK, UnregWork, Put
    <3>3. umap' \in [Vma -> {"none", "live", "removing", "freed"}]
      <4>1. umap' = [umap EXCEPT ![v] = "removing"] \/ umap' = umap
        BY <2>1 DEF UnregWork, Put
      <4> QED BY <4>1 DEF UmapInv, TypeOK
    <3>4. work' \subseteq Vma /\ working' \in Vma \cup {None} /\ oops' = oops
      BY <2>1 DEF UmapInv, TypeOK, UnregWork
    <3> QED BY <3>2, <3>3, <3>4 DEF UmapInv, TypeOK, UnregWork, jobVars
  <2>2. CASE umap[v] # "live"
    BY <2>2 DEF UmapInv, TypeOK, UnregWork, jobVars
  <2> QED BY <2>1, <2>2
<1>2. UmapListed'
  BY DEF TypeOK, UmapListed, UnregWork, Put, UmapInv
<1>3. UmapKnown'
  BY DEF TypeOK, UmapKnown, UnregWork, Put, UmapInv, jobVars
<1>4. UmapRefsExact'
    BY HoldersSame, HoldersFinite
       DEF TypeOK, UmapRefsExact, UnregWork, Put, UmapInv, jobVars
<1>5. WorkDropsOnce'
  BY DEF TypeOK, WorkDropsOnce, UnregWork, UmapInv
<1>6. FreedOnlyInRelease'
    BY HoldersFinite
       DEF TypeOK, UmapKnown, UmapRefsExact, WorkDropsOnce, FreedOnlyInRelease,
           UnregWork, Put, UmapInv, Alive
<1> QED BY <1>1, <1>2, <1>3, <1>4, <1>5, <1>6 DEF UmapInv

(* The mapping leaves the list and is freed.                               *)
LEMMA UmapReleaseStep ==
    ASSUME UmapInv, Alive, NEW v \in Vma, UmapRelease(v)
    PROVE  UmapInv'
<1>1. TypeOK'
  <2>1. ASSUME NEW b \in Bo PROVE RemoveFirst(umap_list[b], v) \in Seq(Vma)
    BY RemoveFirstProperties DEF UmapInv, TypeOK, UmapListed
  <2>2. umap_list' \in [Bo -> Seq(Vma)]
    BY <2>1 DEF UmapInv, TypeOK, UmapRelease, UmapUnlink
  <2>3. /\ umap' \in [Vma -> {"none", "live", "removing", "freed"}]
        /\ oops' \in {"no", "dead_wq", "freed_work", "ref0", "used_freed"}
        /\ working' \in Vma \cup {None}
    BY DEF UmapInv, TypeOK, UmapRelease
  <2> QED BY <2>2, <2>3 DEF UmapInv, TypeOK, UmapRelease, jobVars
<1>2. UmapListed'
  <2> DEFINE b == bo_of[v]
             r == RemoveFirst(umap_list[b], v)
  <2>1. b \in Bo
    BY DEF UmapInv, UmapKnown, UmapRelease
  <2>2. umap_list[b] \in Seq(Vma) /\ IsInjective(umap_list[b])
    BY <2>1 DEF UmapInv, TypeOK, UmapListed
  <2>3. IsInjective(r) /\ \A x : Contains(r, x) <=> Contains(umap_list[b], x) /\ x # v
    BY <2>2, RemoveFirstProperties
  <2>4. \A c \in Bo : umap_list'[c] = IF c = b THEN r ELSE umap_list[c]
    BY DEF UmapInv, TypeOK, UmapRelease, UmapUnlink
  <2> HIDE DEF r
  <2>5. \A c \in Bo : IsInjective(umap_list'[c])
    BY <2>3, <2>4 DEF UmapInv, UmapListed
  <2>6. ASSUME NEW c \in Bo, NEW x \in Vma
        PROVE  Contains(umap_list'[c], x) <=>
                 umap'[x] \in {"live", "removing"} /\ bo_of'[x] = c
    <3>1. umap'[x] = (IF x = v THEN "freed" ELSE umap[x]) /\ bo_of'[x] = bo_of[x]
      BY DEF UmapInv, TypeOK, UmapRelease
    <3>2. Contains(umap_list[c], x) <=> umap[x] \in {"live", "removing"} /\ bo_of[x] = c
      BY DEF UmapInv, UmapListed
    <3> QED BY <2>3, <2>4, <3>1, <3>2
  <2> QED BY <2>5, <2>6 DEF UmapListed
<1>3. UmapKnown'
  BY DEF UmapKnown, UmapRelease, UmapInv, jobVars
<1>4. UmapRefsExact'
  BY HoldersSame DEF UmapRefsExact, UmapRelease, UmapInv, jobVars
<1>5. WorkDropsOnce'
  BY DEF WorkDropsOnce, UmapRelease, UmapInv
<1>6. FreedOnlyInRelease'
    BY HoldersFinite
       DEF UmapKnown, UmapRefsExact, WorkDropsOnce, FreedOnlyInRelease, UmapRelease,
           UmapInv, Alive
<1> QED BY <1>1, <1>2, <1>3, <1>4, <1>5, <1>6 DEF UmapInv

(* A job is pushed, goes and populates, or gives up.                       *)
LEMMA SubmitCheckStep ==
    ASSUME UmapInv, Alive, NEW j \in Job, SubmitCheck(j)
    PROVE  UmapInv'
<1>1. TypeOK'
  <2>1. job' \in [Job -> {"idle", "check", "pushed", "done", "failed", "populate", "begin",
                          "fault"}]
    <3>1. \E pc \in {"pushed", "populate", "failed"} : job' = [job EXCEPT ![j] = pc]
      BY DEF SubmitCheck, Goto
    <3> QED BY <3>1 DEF TypeOK, UmapInv
  <2>2. blame' \subseteq Fault
    BY HmmAssumption DEF TypeOK, SubmitCheck, Fails, Works, UmapInv
  <2> QED BY <2>1, <2>2 DEF TypeOK, SubmitCheck, UmapInv, mapVars, wqVars
<1>2. UmapListed'
  BY DEF UmapListed, SubmitCheck, UmapInv, mapVars
<1>3. UmapKnown'
  <2>1. /\ \A i \in Job \ {j} : job'[i] = job[i]
        /\ job'[j] \in {"pushed", "populate", "failed"}
    BY DEF UmapInv, TypeOK, SubmitCheck, Goto
  <2> QED BY <2>1 DEF UmapInv, UmapKnown, SubmitCheck, mapVars, wqVars
<1>4. UmapRefsExact'
  BY HoldersSame DEF UmapRefsExact, SubmitCheck, UmapInv, mapVars
<1>5. WorkDropsOnce'
  BY DEF WorkDropsOnce, SubmitCheck, Fails, Works, UmapInv, mapVars, wqVars
<1>6. FreedOnlyInRelease'
  BY DEF FreedOnlyInRelease, SubmitCheck, Alive
<1> QED BY <1>1, <1>2, <1>3, <1>4, <1>5, <1>6 DEF UmapInv

(* A thread takes the first invalid mapping, or clears the buffer's flag.  *)
LEMMA PopulateScanStep ==
    ASSUME UmapInv, Alive, NEW j \in Job, PopulateScan(j)
    PROVE  UmapInv'
<1>1. TypeOK'
  <2>1. ASSUME NEW b \in Bo, ScanClears(j, b) PROVE TypeOK'
    BY <2>1 DEF UmapInv, ScanClears, PopulateScan, TypeOK, wqVars
  <2>2. ASSUME NEW v \in Vma, ScanTakes(j, v) PROVE TypeOK'
    BY <2>2 DEF UmapInv, ScanTakes, PopulateScan, TypeOK, wqVars
  <2> QED BY <2>1, <2>2, ScanEffect
<1>2. UmapListed'
  BY DEF UmapListed, PopulateScan, UmapInv
<1>3. UmapKnown'
  <2>1. ASSUME NEW b \in Bo, ScanClears(j, b) PROVE UmapKnown'
    BY <2>1 DEF UmapInv, ScanClears, PopulateScan, UmapKnown, wqVars
  <2>2. ASSUME NEW v \in Vma, ScanTakes(j, v) PROVE UmapKnown'
        BY <2>2, HmmAssumption
         DEF UmapInv, ScanTakes, PopulateScan, TypeOK, UmapKnown, wqVars
  <2> QED BY <2>1, <2>2, ScanEffect
<1>4. UmapRefsExact'
  <2>1. ASSUME NEW b \in Bo, ScanClears(j, b) PROVE UmapRefsExact'
    BY <2>1, HoldersSame DEF UmapInv, ScanClears, PopulateScan, UmapRefsExact
  <2>2. ASSUME NEW v \in Vma, ScanTakes(j, v) PROVE UmapRefsExact'
    <3>1. pv[j] = None
      BY DEF UmapInv, UmapKnown, PopulateScan
    <3>2. \A w \in Vma : Cardinality(Holders(w)') =
                           Cardinality(Holders(w)) + (IF w = v THEN 1 ELSE 0)
      BY <2>2, <3>1, HolderAdded DEF UmapInv, ScanTakes
    <3>3. \A w \in Vma : /\ refcnt'[w] = refcnt[w] + (IF w = v THEN 1 ELSE 0)
                         /\ umap'[w] = umap[w] /\ puts'[w] = puts[w]
      BY <2>2 DEF UmapInv, TypeOK, ScanTakes, PopulateScan
    <3>4. umap[v] = "live" \/ refcnt[v] = 0
      BY <2>2 DEF UmapInv, UmapRefsExact, ScanTakes
    <3>5. umap[v] # "live" => oops' # "no"
      BY <2>2, <3>4 DEF ScanTakes
    <3>6. ASSUME NEW w \in Vma
          PROVE  /\ refcnt[w] \in Nat /\ puts[w] \in Nat
                 /\ Cardinality(Holders(w)) \in Nat
                 /\ umap[w] # "none" =>
                      refcnt[w] = 1 - puts[w] + Cardinality(Holders(w))
                 /\ umap[w] = "live" => refcnt[w] >= 1
                 /\ umap[w] \in {"removing", "freed"} => refcnt[w] = 0
      BY HoldersFinite DEF UmapInv, TypeOK, UmapRefsExact
    <3> QED BY <2>2, <3>2, <3>3, <3>5, <3>6 DEF UmapRefsExact, Alive, ScanTakes
  <2> QED BY <2>1, <2>2, ScanEffect
<1>5. WorkDropsOnce'
  BY DEF WorkDropsOnce, PopulateScan, UmapInv, wqVars
<1>6. FreedOnlyInRelease'
  <2>1. ASSUME NEW b \in Bo, ScanClears(j, b) PROVE FreedOnlyInRelease'
    BY <2>1 DEF UmapInv, ScanClears, PopulateScan, FreedOnlyInRelease
  <2>2. ASSUME NEW v \in Vma, ScanTakes(j, v) PROVE FreedOnlyInRelease'
    <3>1. CASE refcnt[v] # 0
      BY <2>2, <3>1 DEF Alive, ScanTakes, FreedOnlyInRelease
    <3>2. CASE refcnt[v] = 0
      <4>1. umap[v] = "removing"
        BY <2>2, <3>2 DEF UmapInv, UmapRefsExact, ScanTakes
      <4>2. Cardinality(Holders(v)) \in Nat /\ puts[v] \in Nat
        BY HoldersFinite DEF UmapInv, TypeOK
      <4>3. puts[v] >= 1
        BY <3>2, <4>1, <4>2 DEF UmapInv, UmapRefsExact
      <4> QED BY <2>2, <3>2, <4>1, <4>3 DEF PopulateScan, ScanTakes, FreedOnlyInRelease
    <3> QED BY <3>1, <3>2
  <2> QED BY <2>1, <2>2, ScanEffect
<1> QED BY <1>1, <1>2, <1>3, <1>4, <1>5, <1>6 DEF UmapInv

(* A thread has faulted in, or failed, and lets the mapping go.            *)
LEMMA PopulateFaultStep ==
    ASSUME UmapInv, Alive, NEW j \in Job, PopulateFault(j)
    PROVE  UmapInv'
<1>1. TypeOK'
  <2>1. pv[j] \in Vma /\ refcnt[pv[j]] - 1 \in Nat
    BY DEF UmapInv, TypeOK, UmapKnown, UmapRefsExact, PopulateFault
  <2>2. /\ refcnt' \in [Vma -> Nat] /\ pv' \in [Job -> Vma \cup {None}]
        /\ umap' \in [Vma -> {"none", "live", "removing", "freed"}]
    BY <2>1 DEF UmapInv, TypeOK, PopulateFault, Put
  <2>3. /\ invalid' \in [Vma -> BOOLEAN] /\ mm_kept' \in BOOLEAN
        /\ job' \in [Job -> {"idle", "check", "pushed", "done", "failed", "populate",
                             "begin", "fault"}]
    BY <2>1 DEF UmapInv, TypeOK, PopulateFault, Goto
  <2>4. blame' \subseteq Fault
    BY HmmAssumption DEF UmapInv, TypeOK, PopulateFault, Fails, Works
  <2> QED BY <2>2, <2>3, <2>4 DEF UmapInv, TypeOK, PopulateFault, wqVars
<1>2. UmapListed'
  BY DEF UmapListed, PopulateFault, Put, UmapInv
<1>3. UmapKnown'
  <2>1. pv[j] \in Vma /\ umap[pv[j]] = "live"
    BY DEF UmapInv, TypeOK, UmapKnown, PopulateFault
  <2>2. ASSUME NEW w \in Vma
        PROVE  /\ umap'[w] = "none" <=> umap[w] = "none"
               /\ umap[w] = "none" => ~invalid'[w] /\ refcnt'[w] = 0
    BY DEF UmapInv, TypeOK, UmapKnown, PopulateFault, Put
  <2>3. \A i \in Job : pv'[i] = IF i = j THEN None ELSE pv[i]
    BY DEF UmapInv, TypeOK, PopulateFault
  <2>4. /\ \A i \in Job \ {j} : job'[i] = job[i]
        /\ job'[j] \in {"populate", "failed"}
    BY DEF UmapInv, TypeOK, PopulateFault, Goto
  <2> QED BY <2>2, <2>3, <2>4, HmmAssumption DEF UmapInv, UmapKnown, PopulateFault, wqVars
<1>4. UmapRefsExact'
  <2>1. pv[j] \in Vma /\ umap[pv[j]] = "live"
    BY DEF UmapInv, TypeOK, UmapKnown, PopulateFault
  <2>2. \A w \in Vma : Cardinality(Holders(w)') =
                         Cardinality(Holders(w)) - (IF w = pv[j] THEN 1 ELSE 0)
    BY <2>1, HolderRemoved DEF UmapInv, PopulateFault
  <2> QED BY <2>2, HoldersFinite DEF UmapInv, TypeOK, UmapRefsExact, PopulateFault, Put
<1>5. WorkDropsOnce'
  BY DEF WorkDropsOnce, PopulateFault, Fails, Works, UmapInv, wqVars
<1>6. FreedOnlyInRelease'
  BY DEF FreedOnlyInRelease, PopulateFault, Put, Fails, Works, UmapInv
<1> QED BY <1>1, <1>2, <1>3, <1>4, <1>5, <1>6 DEF UmapInv

(* A thread uses a mapping that was released.                              *)
LEMMA PopulateFreedStep ==
    ASSUME UmapInv, Alive, NEW j \in Job, PopulateFreed(j)
    PROVE  UmapInv'
<1>1. TypeOK'
  BY DEF TypeOK, PopulateFreed, UmapInv, mapVars, wqVars, jobVars
<1>2. UmapListed'
  BY DEF UmapListed, PopulateFreed, UmapInv, mapVars
<1>3. UmapKnown'
  BY DEF UmapKnown, PopulateFreed, UmapInv, mapVars, wqVars, jobVars
<1>4. UmapRefsExact'
  BY HoldersSame DEF UmapRefsExact, PopulateFreed, UmapInv, mapVars, jobVars
<1>5. WorkDropsOnce'
  BY DEF WorkDropsOnce, PopulateFreed, UmapInv, mapVars, wqVars
<1>6. FreedOnlyInRelease'
  <2>1. pv[j] \in Vma /\ j \in Holders(pv[j])
    BY DEF UmapInv, TypeOK, UmapKnown, PopulateFreed, Holders
  <2>2. umap[pv[j]] \in {"removing", "freed"}
    BY <2>1 DEF UmapInv, TypeOK, UmapKnown, PopulateFreed
  <2>3. Cardinality(Holders(pv[j])) \in Nat /\ Cardinality(Holders(pv[j])) >= 1
    BY <2>1, HoldersFinite
  <2>4. puts[pv[j]] \in Nat /\ 0 = 1 - puts[pv[j]] + Cardinality(Holders(pv[j]))
    BY <2>1, <2>2 DEF UmapInv, TypeOK, UmapRefsExact
  <2>5. "insert" \in blame
    BY <2>1, <2>3, <2>4 DEF UmapInv, WorkDropsOnce
  <2> QED BY <2>5 DEF PopulateFreed, FreedOnlyInRelease
<1> QED BY <1>1, <1>2, <1>3, <1>4, <1>5, <1>6 DEF UmapInv

(* The other steps change no reference, list or flag.                      *)
LEMMA QuietStep ==
    ASSUME UmapInv, Alive,
           \/ DriverRemove \/ Exit \/ ExitMmap
           \/ \E v \in Vma : VmaGone(v)
           \/ \E j \in Job : \/ JobDone(j) \/ PopulateNone(j) \/ PopulateBegin(j)
                             \/ \E bs \in SUBSET Bo \ {{}} : Submit(j, bs)
    PROVE  UmapInv'
<1>1. CASE DriverRemove \/ Exit \/ ExitMmap
  <2>1. UNCHANGED <<mapVars, inv, map_invalid, work, working, jobVars, moves, puts, mm_kept,
                    blame, oops>>
    BY <1>1 DEF DriverRemove, Exit, ExitMmap, wqVars
  <2>2. wq' \in BOOLEAN /\ mm' \in {"live", "exit", "dead"}
    BY <1>1 DEF UmapInv, TypeOK, DriverRemove, Exit, ExitMmap, wqVars
  <2>3. TypeOK'
    BY <2>1, <2>2 DEF UmapInv, TypeOK, mapVars, jobVars
    <2> QED BY <2>1, <2>3, HoldersSame
       DEF UmapInv, UmapListed, UmapKnown, UmapRefsExact, WorkDropsOnce,
           FreedOnlyInRelease, mapVars, jobVars
<1>2. ASSUME NEW v \in Vma, VmaGone(v) PROVE UmapInv'
    BY <1>2, HoldersSame
       DEF UmapInv, TypeOK, UmapListed, UmapKnown, UmapRefsExact, WorkDropsOnce,
           FreedOnlyInRelease, VmaGone, wqVars, jobVars
<1>3. ASSUME NEW j \in Job,
             \/ JobDone(j) \/ PopulateNone(j) \/ PopulateBegin(j)
             \/ \E bs \in SUBSET Bo \ {{}} : Submit(j, bs)
      PROVE  UmapInv'
  <2>1. UNCHANGED <<mapVars, inv, map_invalid, wqVars, pv, mm, moves, puts, mm_kept, blame, oops>>
    BY <1>3 DEF JobDone, PopulateNone, PopulateBegin, Submit
  <2>2. /\ job' \in [Job -> {"idle", "check", "pushed", "done", "failed", "populate",
                             "begin", "fault"}]
        /\ \A i \in Job : job'[i] \in {"begin", "fault"} <=> job[i] \in {"begin", "fault"}
    <3>1. PICK pc \in {"done", "check", "fault"} :
            /\ job' = [job EXCEPT ![j] = pc]
            /\ pc \in {"begin", "fault"} <=> job[j] \in {"begin", "fault"}
      BY <1>3 DEF JobDone, PopulateNone, PopulateBegin, Submit, Goto
    <3> QED BY <3>1 DEF UmapInv, TypeOK
  <2>3. job_bos' \in [Job -> SUBSET Bo] /\ raced' \in [Job -> BOOLEAN]
    <3>1. CASE \E bs \in SUBSET Bo \ {{}} : Submit(j, bs)
      BY <3>1 DEF UmapInv, TypeOK, Submit
    <3>2. CASE JobDone(j) \/ PopulateNone(j) \/ PopulateBegin(j)
      BY <3>2 DEF UmapInv, TypeOK, JobDone, PopulateNone, PopulateBegin
    <3> QED BY <1>3, <3>1, <3>2
  <2>4. TypeOK'
    BY <2>1, <2>2, <2>3 DEF UmapInv, TypeOK, mapVars, wqVars
    <2> QED BY <2>1, <2>2, <2>4, HoldersSame
       DEF UmapInv, UmapListed, UmapKnown, UmapRefsExact, WorkDropsOnce,
           FreedOnlyInRelease, mapVars, wqVars
<1> QED BY <1>1, <1>2, <1>3

(* In the first state there is no mapping.                                 *)
LEMMA UmapInit == Init => UmapInv
<1> SUFFICES ASSUME Init PROVE UmapInv
  OBVIOUS
<1>1. TypeOK
  <2>1. umap_list \in [Bo -> Seq(Vma)]
    BY DEF Init
  <2>2. pv \in [Job -> Vma \cup {None}] /\ bo_of \in [Vma -> Bo \cup {None}]
    BY DEF Init
  <2>3. job_bos \in [Job -> SUBSET Bo]
    BY DEF Init
  <2>4. refcnt \in [Vma -> Nat] /\ puts \in [Vma -> Nat] /\ moves \in 0..MaxMoves
    BY HmmAssumption DEF Init
  <2> QED BY <2>1, <2>2, <2>3, <2>4 DEF Init, TypeOK, None
<1>2. UmapListed
  BY DEF Init, UmapListed, IsInjective, Contains
<1>3. UmapKnown
  BY HmmAssumption DEF Init, UmapKnown
<1> QED BY <1>1, <1>2, <1>3
     DEF Init, UmapInv, UmapRefsExact, WorkDropsOnce, FreedOnlyInRelease

(* A step of the specification is a step of one of the actions, in a state *)
(* where the kernel has not stopped, or changes nothing.                   *)
LEMMA UmapNext ==
    ASSUME UmapInv, [Next]_vars
    PROVE  UmapInv'
<1>1. CASE UNCHANGED vars
    BY <1>1, HoldersSame
       DEF UmapInv, TypeOK, UmapListed, UmapKnown, UmapRefsExact, WorkDropsOnce,
           FreedOnlyInRelease, Alive, vars, mapVars, wqVars, jobVars
<1>2. ASSUME Alive, NEW v \in Vma,
             \/ MapStep(v) \/ InvalidateEnd(v) \/ UnregWork(v)
             \/ \E why \in {"move", "part", "unmap"} : InvalidateBegin(v, why)
             \/ \E b \in Bo : MmapRegister(v, b)
      PROVE  UmapInv'
  BY <1>2, MmapInsertStep, QuietStep, UmapReleaseStep, InvalidateEndStep, UnregWorkStep,
     InvalidateBeginStep, MmapRegisterStep DEF MapStep
<1>3. ASSUME Alive, NEW j \in Job,
             JobStep(j) \/ \E bs \in SUBSET Bo \ {{}} : Submit(j, bs)
      PROVE  UmapInv'
  BY <1>3, QuietStep, SubmitCheckStep, PopulateScanStep, PopulateFaultStep,
     PopulateFreedStep DEF JobStep
<1>4. CASE Alive /\ (DriverRemove \/ Exit \/ ExitMmap)
  BY <1>4, QuietStep
<1> QED BY <1>1, <1>2, <1>3, <1>4 DEF Next, UnmapForced

(* The lifetime of a mapping, for every number of buffers, mappings and    *)
(* threads: amdxdna_hmm_register(), amdxdna_umap_put() and the work of     *)
(* amdxdna_hmm_invalidate() keep the lists, the references and the single  *)
(* unregistration consistent, and a mapping or its work is used after it   *)
(* was freed only after a failed mmap().                                   *)
THEOREM UmapLifetime == Spec => []UmapInv
<1>1. UmapInv /\ [Next]_vars => UmapInv'
  BY UmapNext
<1> QED BY <1>1, UmapInit, PTL DEF Spec

(* No mapping becomes invalid under a job the device works on without the  *)
(* notifier waiting for it, and the flags of the buffers cover those of    *)
(* their mappings, whatever threads populate at the same time.             *)
THEOREM DmaIsSafe == Spec => []DmaSafe
<1>1. Init => DmaSafe
  BY DEF Init, DmaSafe, NoDmaToInvalid, FlagCoversMappings
<1>2. ASSUME UmapInv, DmaSafe, [Next]_vars PROVE DmaSafe'
  <2>1. CASE UNCHANGED vars
        BY <1>2, <2>1
         DEF DmaSafe, NoDmaToInvalid, FlagCoversMappings, vars, mapVars, jobVars
  <2>2. ASSUME NEW v \in Vma, NEW b \in Bo, MmapRegister(v, b) PROVE DmaSafe'
        BY <1>2, <2>2
         DEF DmaSafe, NoDmaToInvalid, FlagCoversMappings, UmapInv, UmapKnown,
             MmapRegister, jobVars
  <2>3. ASSUME NEW v \in Vma, MapStep(v) \/ UnregWork(v) PROVE DmaSafe'
        BY <1>2, <2>3
         DEF DmaSafe, NoDmaToInvalid, FlagCoversMappings, UmapInv, TypeOK, MapStep,
             MmapInsert, VmaGone, UmapRelease, UnregWork, Put, Fails, Works, jobVars
  <2>4. ASSUME NEW v \in Vma, NEW why \in {"move", "part", "unmap"}, InvalidateBegin(v, why)
        PROVE  DmaSafe'
        BY <1>2, <2>4
         DEF DmaSafe, NoDmaToInvalid, FlagCoversMappings, UmapInv, TypeOK, UmapKnown,
             InvalidateBegin
  <2>5. ASSUME NEW v \in Vma, InvalidateEnd(v) PROVE DmaSafe'
        BY <1>2, <2>5
         DEF DmaSafe, NoDmaToInvalid, FlagCoversMappings, InvalidateEnd, Fenced,
             Fails, Works, jobVars
  <2>6. ASSUME NEW j \in Job, SubmitCheck(j) PROVE DmaSafe'
        BY <1>2, <2>6
         DEF DmaSafe, NoDmaToInvalid, FlagCoversMappings, UmapInv, TypeOK,
             SubmitCheck, InvalidBos, Goto, Fails, Works, mapVars
  <2>7. ASSUME NEW j \in Job, PopulateScan(j) PROVE DmaSafe'
    <3>1. ASSUME NEW b \in Bo, ScanClears(j, b) PROVE DmaSafe'
            BY <1>2, <2>7, <3>1
           DEF DmaSafe, NoDmaToInvalid, FlagCoversMappings, ScanClears, PopulateScan
    <3>2. ASSUME NEW v \in Vma, ScanTakes(j, v) PROVE DmaSafe'
            BY <1>2, <2>7, <3>2
           DEF DmaSafe, NoDmaToInvalid, FlagCoversMappings, ScanTakes, PopulateScan
    <3> QED BY <1>2, <2>7, <3>1, <3>2, ScanEffect
  <2>8. ASSUME NEW j \in Job, PopulateFault(j) PROVE DmaSafe'
        BY <1>2, <2>8
         DEF DmaSafe, NoDmaToInvalid, FlagCoversMappings, UmapInv, TypeOK,
             PopulateFault, Put, Goto, Fails, Works
  <2>9. ASSUME NEW j \in Job,
               \/ JobDone(j) \/ PopulateNone(j) \/ PopulateBegin(j) \/ PopulateFreed(j)
               \/ \E bs \in SUBSET Bo \ {{}} : Submit(j, bs)
        PROVE  DmaSafe'
        BY <1>2, <2>9
         DEF DmaSafe, NoDmaToInvalid, FlagCoversMappings, UmapInv, TypeOK, JobDone,
             PopulateNone, PopulateBegin, PopulateFreed, Submit, Goto, mapVars, jobVars
  <2>10. CASE DriverRemove \/ Exit \/ ExitMmap
        BY <1>2, <2>10
         DEF DmaSafe, NoDmaToInvalid, FlagCoversMappings, DriverRemove, Exit,
             ExitMmap, mapVars, jobVars
  <2> QED BY <1>2, <2>1, <2>2, <2>3, <2>4, <2>5, <2>6, <2>7, <2>8, <2>9, <2>10
          DEF Next, JobStep, UnmapForced
<1>3. UmapInv /\ DmaSafe /\ [Next]_vars => DmaSafe'
  BY <1>2
<1> QED BY <1>1, <1>3, UmapLifetime, PTL DEF Spec
===========================================================================
