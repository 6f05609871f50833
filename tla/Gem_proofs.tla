----------------------------- MODULE Gem_proofs -----------------------------
(***************************************************************************)
(* Proofs about the buffer objects of a client, for any number of objects, *)
(* threads and pages, and whatever fails.                                  *)
(***************************************************************************)
EXTENDS Gem, SeqLemmas, FiniteSetTheorems, TLAPS

(* Sets that differ at most in one element.                                *)
LEMMA CountDiffers ==
    ASSUME NEW S, NEW T, NEW x, IsFiniteSet(S), S \ {x} = T \ {x}
    PROVE  /\ IsFiniteSet(T) /\ Count(S) \in Nat /\ Count(T) \in Nat
           /\ Count(T) = Count(S) - One(x \in S) + One(x \in T)
<1> DEFINE R == S \ {x}
<1>1. IsFiniteSet(R) /\ x \notin R
  BY FS_Subset
<1>2. \A U : U \ {x} = R => /\ IsFiniteSet(U) /\ Count(U) \in Nat
                            /\ Count(U) = Count(R) + One(x \in U)
  <2> SUFFICES ASSUME NEW U, U \ {x} = R
               PROVE  /\ IsFiniteSet(U) /\ Count(U) \in Nat
                      /\ Count(U) = Count(R) + One(x \in U)
    OBVIOUS
  <2>1. U = IF x \in U THEN R \cup {x} ELSE R
    OBVIOUS
  <2> HIDE DEF R
  <2>2. Cardinality(R) \in Nat
    BY <1>1, FS_CardinalityType
  <2>3. IsFiniteSet(R \cup {x}) /\ Cardinality(R \cup {x}) = Cardinality(R) + 1
    BY <1>1, FS_AddElement
  <2>4. CASE x \in U
    <3>1. U = R \cup {x}
      BY <2>1, <2>4
    <3> QED BY <2>2, <2>3, <2>4, <3>1 DEF Count, One
  <2>5. CASE x \notin U
    BY <1>1, <2>1, <2>2, <2>5 DEF Count, One
  <2> QED BY <2>4, <2>5
<1>3. /\ IsFiniteSet(T) /\ Count(S) \in Nat /\ Count(T) \in Nat
      /\ Count(S) = Count(R) + One(x \in S) /\ Count(T) = Count(R) + One(x \in T)
  BY <1>2
<1>4. Count(R) \in Nat
  BY <1>1, FS_CardinalityType DEF Count
<1> HIDE DEF R
<1> QED BY <1>3, <1>4 DEF One

(* What is counted is finite.                                              *)
LEMMA CountsAreNat ==
    /\ IsFiniteSet(Bo) /\ IsFiniteSet(Thread)
    /\ \A S : S \subseteq Bo \/ S \subseteq Thread =>
         IsFiniteSet(S) /\ Count(S) \in Nat /\ (Count(S) = 0 <=> S = {})
<1>1. IsFiniteSet(Bo) /\ IsFiniteSet(Thread)
  BY GemAssumption, FS_Interval DEF Bo
<1> QED BY <1>1, FS_Subset, FS_CardinalityType, FS_EmptySet DEF Count

(* What the operations on objects keep: references counted against owners  *)
(* f, page uses against users g, and the tables of the buffers in C.       *)
Sound(m, f, g, C) ==
    /\ m \in Mem /\ m.oops = "no" /\ f \in [Bo -> Nat] /\ g \in [Bo -> Nat] /\ C \subseteq Bo
    /\ RefsCounted(m, f) /\ PinsCounted(m, g) /\ ForeignCounted(m) /\ ObjectsFormed(m)
    /\ TablesCurrent(m, C)
    /\ \A b \in C : m.type[b] = "dev" => g[dev_heap] > 0

(* The buffers whose pins count for b.                                     *)
PinsOf(m, b) == {x \in m.pinned : b \in PinTarget(m, x)}

(* What is pinned for an object depends on its type alone.                 *)
LEMMA SameTypes ==
    ASSUME NEW m, NEW n, n.type = m.type
    PROVE  /\ HeapBufs(n) = HeapBufs(m)
           /\ \A b : Live(n, b) <=> Live(m, b)
           /\ \A b : Pinnable(n, b) <=> Pinnable(m, b)
           /\ \A b : PinTarget(n, b) = PinTarget(m, b)
           /\ ForeignCounted(m) /\ n.upages = m.upages /\ n.attach = m.attach
                => ForeignCounted(n)
           /\ n.pinned = m.pinned => \A b : PinsOf(n, b) = PinsOf(m, b)
<1>1. /\ HeapBufs(n) = HeapBufs(m)
      /\ \A b : Live(n, b) <=> Live(m, b)
      /\ \A b : Pinnable(n, b) <=> Pinnable(m, b)
      /\ \A b : PinTarget(n, b) = PinTarget(m, b)
  BY DEF HeapBufs, Live, Pinnable, PinTarget
<1>2. ForeignCounted(m) /\ n.upages = m.upages /\ n.attach = m.attach => ForeignCounted(n)
  BY DEF ForeignCounted
<1>3. n.pinned = m.pinned => \A b : PinsOf(n, b) = PinsOf(m, b)
  BY <1>1 DEF PinsOf
<1> QED BY <1>1, <1>2, <1>3

(* One reference more.                                                     *)
LEMMA GetSound ==
    ASSUME NEW m, NEW f, NEW g, NEW C, Sound(m, f, g, C), NEW b \in Bo, Live(m, b)
    PROVE  Sound(Get(m, b), [f EXCEPT ![b] = @ + 1], g, C)
<1> DEFINE n == Get(m, b)
           h == [f EXCEPT ![b] = @ + 1]
<1>1. /\ m \in Mem /\ f \in [Bo -> Nat]
      /\ n = [m EXCEPT !.refcnt = [m.refcnt EXCEPT ![b] = @ + 1]]
  BY DEF Sound, Get, Mem
<1>2. /\ n \in Mem /\ n.type = m.type /\ n.use = m.use /\ n.pages = m.pages /\ n.node = m.node
      /\ n.pinned = m.pinned /\ n.kva = m.kva /\ n.upages = m.upages /\ n.attach = m.attach
      /\ n.oops = m.oops /\ n.refcnt = [m.refcnt EXCEPT ![b] = @ + 1]
      /\ m.refcnt \in [Bo -> Nat] /\ h \in [Bo -> Nat]
  <2>1. m.refcnt \in [Bo -> Nat] /\ h \in [Bo -> Nat]
    BY <1>1 DEF Mem
  <2>2. [m.refcnt EXCEPT ![b] = @ + 1] \in [Bo -> Nat]
    BY <2>1
  <2>3. /\ n.type = m.type /\ n.use = m.use /\ n.pages = m.pages /\ n.node = m.node
        /\ n.pinned = m.pinned /\ n.kva = m.kva /\ n.upages = m.upages /\ n.attach = m.attach
        /\ n.oops = m.oops /\ n.refcnt = [m.refcnt EXCEPT ![b] = @ + 1]
    BY <1>1 DEF Mem
  <2>4. n \in Mem
    BY <1>1, <2>2 DEF Mem
  <2> QED BY <2>1, <2>3, <2>4
<1> HIDE DEF n
<1>3. HeapBufs(n) = HeapBufs(m) /\ (\A x : Live(n, x) <=> Live(m, x)) /\ ForeignCounted(n)
      /\ (\A x : PinsOf(n, x) = PinsOf(m, x)) /\ \A x : Pinnable(n, x) <=> Pinnable(m, x)
  BY <1>2, SameTypes DEF Sound
<1>4. RefsCounted(n, h)
  <2>1. Count(HeapBufs(m)) \in Nat
    BY CountsAreNat DEF HeapBufs
  <2> QED BY <1>1, <1>2, <1>3, <2>1 DEF Sound, RefsCounted
<1>5. PinsCounted(n, g)
  BY <1>2, <1>3 DEF Sound, PinsCounted, PinsOf
<1>6. ObjectsFormed(n) /\ TablesCurrent(n, C)
  BY <1>2, <1>3 DEF Sound, ObjectsFormed, TablesCurrent
<1> QED BY <1>2, <1>3, <1>4, <1>5, <1>6 DEF Sound, n

(* The uses of a shmem object's pages: those of others, the kernel mapping  *)
(* and the pins.                                                           *)
LEMMA UsesAre ==
    ASSUME NEW m, NEW f, NEW g, NEW C, Sound(m, f, g, C), NEW b \in Bo
    PROVE  /\ IsFiniteSet(PinsOf(m, b)) /\ Count(PinsOf(m, b)) \in Nat /\ m.use[b] \in Nat
           /\ g[b] \in Nat /\ One(b \in m.kva) \in {0, 1}
           /\ m.type[b] \in Shmem => m.use[b] = g[b] + One(b \in m.kva) + Count(PinsOf(m, b))
           /\ m.type[b] \notin Shmem => g[b] = 0
           /\ m.type[b] = "none" => m.use[b] = 0
<1>1. PinsOf(m, b) \subseteq Bo
  BY DEF Sound, Mem, PinsOf
<1>2. m.type[b] = "none" => m.use[b] = 0
  BY DEF Sound, ObjectsFormed
<1> QED BY <1>1, <1>2, CountsAreNat DEF Sound, PinsCounted, PinsOf, One, Mem

(* The heap is not freed and not given back while a buffer needs it.       *)
LEMMA GetPagesFields ==
    ASSUME NEW m \in Mem, NEW S
    PROVE  LET n == GetPages(m, S)
           IN  /\ n \in Mem /\ n.type = m.type /\ n.refcnt = m.refcnt /\ n.pages = m.pages
               /\ n.node = m.node /\ n.pinned = m.pinned /\ n.kva = m.kva
               /\ n.upages = m.upages /\ n.attach = m.attach /\ n.oops = m.oops
               /\ n.use = [x \in Bo |-> IF x \in S THEN m.use[x] + 1 ELSE m.use[x]]
<1> DEFINE u == [x \in Bo |-> IF x \in S THEN m.use[x] + 1 ELSE m.use[x]]
<1>1. m.use \in [Bo -> Nat]
  BY DEF Mem
<1>2. u \in [Bo -> Nat]
  BY <1>1
<1>3. GetPages(m, S) = [m EXCEPT !.use = u]
  BY DEF GetPages
<1> HIDE DEF u
<1>4. [m EXCEPT !.use = u] \in Mem
  BY <1>2 DEF Mem
<1> QED BY <1>3, <1>4 DEF Mem, u

(* ... and the table that nobody uses any more is given back.              *)
LEMMA PutPagesFields ==
    ASSUME NEW m \in Mem, NEW S \in SUBSET Bo, \A x \in S : m.use[x] > 0
    PROVE  LET n == PutPages(m, S)
           IN  /\ n \in Mem /\ n.type = m.type /\ n.refcnt = m.refcnt
               /\ n.node = m.node /\ n.pinned = m.pinned /\ n.kva = m.kva
               /\ n.upages = m.upages /\ n.attach = m.attach /\ n.oops = m.oops
               /\ n.use = [x \in Bo |-> IF x \in S THEN m.use[x] - 1 ELSE m.use[x]]
               /\ \/ n.pages = m.pages
                  \/ \E x \in S : m.use[x] = 1 /\ m.type[x] = "heap"
<1> DEFINE u == [x \in Bo |-> IF x \in S THEN m.use[x] - 1 ELSE m.use[x]]
           last == \E b \in S : m.use[b] = 1 /\ m.type[b] = "heap"
           p == [x \in Bo |-> IF last /\ m.pages[x] = "cur" THEN "stale" ELSE m.pages[x]]
<1>1. m.use \in [Bo -> Nat] /\ m.pages \in [Bo -> {"none", "cur", "stale"}]
  BY DEF Mem
<1>2. u \in [Bo -> Nat] /\ p \in [Bo -> {"none", "cur", "stale"}]
  BY <1>1
<1>3. PutPages(m, S) = [m EXCEPT !.use = u, !.pages = p]
  BY DEF PutPages
<1>5. ~last => p = m.pages
  BY <1>1
<1> HIDE DEF u, p
<1>4. [m EXCEPT !.use = u, !.pages = p] \in Mem
  BY <1>2 DEF Mem
<1> QED BY <1>3, <1>4, <1>5 DEF Mem, u
(* A change of the pins and uses alone.                                    *)
LEMMA PinsChange ==
    ASSUME NEW m, NEW f, NEW g, NEW C, Sound(m, f, g, C),
           NEW n \in Mem, n.type = m.type, n.refcnt = m.refcnt, n.node = m.node,
           n.kva = m.kva, n.upages = m.upages, n.attach = m.attach, n.oops = m.oops,
           NEW h \in [Bo -> Nat],
           \A x \in n.pinned : Pinnable(m, x),
           \A x \in Bo : /\ m.type[x] \in Shmem =>
                              n.use[x] = h[x] + One(x \in n.kva) + Count(PinsOf(n, x))
                         /\ m.type[x] \notin Shmem => h[x] = 0
                         /\ m.type[x] = "none" => n.use[x] = 0,
           \A b \in C : m.type[b] = "dev" => n.pages = m.pages /\ h[dev_heap] > 0
    PROVE  Sound(n, f, h, C)
<1>1. /\ HeapBufs(n) = HeapBufs(m) /\ (\A x : Live(n, x) <=> Live(m, x)) /\ ForeignCounted(n)
      /\ \A x : Pinnable(n, x) <=> Pinnable(m, x)
  BY SameTypes DEF Sound
<1>2. RefsCounted(n, f)
  BY <1>1 DEF Sound, RefsCounted
<1>3. PinsCounted(n, h)
  BY DEF PinsCounted, PinsOf
<1>4. ObjectsFormed(n)
  BY <1>1 DEF Sound, ObjectsFormed
<1>5. TablesCurrent(n, C)
  BY DEF Sound, TablesCurrent
<1> QED BY <1>1, <1>2, <1>3, <1>4, <1>5 DEF Sound

(* Somebody begins to use the pages of an object.                          *)
LEMMA GetPagesSound ==
    ASSUME NEW m, NEW f, NEW g, NEW C, Sound(m, f, g, C), NEW x \in Bo, m.type[x] \in Shmem
    PROVE  Sound(GetPages(m, {x}), f, [g EXCEPT ![x] = @ + 1], C)
<1> DEFINE n == GetPages(m, {x})
           h == [g EXCEPT ![x] = @ + 1]
<1>0. m \in Mem /\ g \in [Bo -> Nat] /\ m.use \in [Bo -> Nat]
  BY DEF Sound, Mem
<1>1. /\ n \in Mem /\ n.type = m.type /\ n.refcnt = m.refcnt /\ n.pages = m.pages
      /\ n.node = m.node /\ n.pinned = m.pinned /\ n.kva = m.kva
      /\ n.upages = m.upages /\ n.attach = m.attach /\ n.oops = m.oops
      /\ n.use = [y \in Bo |-> IF y \in {x} THEN m.use[y] + 1 ELSE m.use[y]]
  BY <1>0, GetPagesFields
<1> HIDE DEF n
<1>2. h \in [Bo -> Nat] /\ h[x] = g[x] + 1 /\ \A y \in Bo : y # x => h[y] = g[y]
  BY <1>0
<1> HIDE DEF h
<1>3. \A y : PinsOf(n, y) = PinsOf(m, y)
  BY <1>1, SameTypes
<1>4. \A y \in n.pinned : Pinnable(m, y)
  BY <1>1 DEF Sound, ObjectsFormed, Mem
<1>5. ASSUME NEW y \in Bo
      PROVE  /\ m.type[y] \in Shmem => n.use[y] = h[y] + One(y \in n.kva) + Count(PinsOf(n, y))
             /\ m.type[y] \notin Shmem => h[y] = 0
             /\ m.type[y] = "none" => n.use[y] = 0
  <2>1. PinsOf(n, y) = PinsOf(m, y) /\ n.use[y] = IF y = x THEN m.use[y] + 1 ELSE m.use[y]
    BY <1>1, <1>3
  <2>2. CASE y = x
    <3>1. m.type[x] # "none"
      BY DEF Shmem
    <3> QED BY <1>1, <1>2, <2>1, <2>2, <3>1, UsesAre
  <2>3. CASE y # x
    BY <1>1, <1>2, <2>1, <2>3, UsesAre
  <2> QED BY <2>2, <2>3
<1>6. \A b \in C : m.type[b] = "dev" => n.pages = m.pages /\ h[dev_heap] > 0
  BY <1>0, <1>1, <1>2 DEF Sound, ObjectsFormed
<1>7. Sound(n, f, h, C)
  BY <1>1, <1>2, <1>4, <1>5, <1>6, PinsChange
<1> QED BY <1>7 DEF n, h

(* Somebody stops using them, while the buffers that need them have others. *)
LEMMA PutPagesSound ==
    ASSUME NEW m, NEW f, NEW g, NEW C, Sound(m, f, g, C), NEW x \in Bo, m.type[x] \in Shmem,
           g[x] > 0, \A b \in C : m.type[b] = "dev" /\ x = dev_heap => g[x] > 1
    PROVE  Sound(PutPages(m, {x}), f, [g EXCEPT ![x] = @ - 1], C)
<1> DEFINE n == PutPages(m, {x})
           h == [g EXCEPT ![x] = @ - 1]
<1>0. m \in Mem /\ g \in [Bo -> Nat] /\ m.use \in [Bo -> Nat]
  BY DEF Sound, Mem
<1>a. m.use[x] = g[x] + One(x \in m.kva) + Count(PinsOf(m, x)) /\ m.use[x] >= g[x]
      /\ m.use[x] \in Nat /\ g[x] \in Nat
  BY <1>0, UsesAre
<1>1. /\ n \in Mem /\ n.type = m.type /\ n.refcnt = m.refcnt
      /\ n.node = m.node /\ n.pinned = m.pinned /\ n.kva = m.kva
      /\ n.upages = m.upages /\ n.attach = m.attach /\ n.oops = m.oops
      /\ n.use = [y \in Bo |-> IF y \in {x} THEN m.use[y] - 1 ELSE m.use[y]]
      /\ n.pages = m.pages \/ (m.use[x] = 1 /\ m.type[x] = "heap")
  <2>1. {x} \in SUBSET Bo /\ \A y \in {x} : m.use[y] > 0
    BY <1>a
  <2> QED BY <1>0, <2>1, PutPagesFields
<1> HIDE DEF n
<1>2. h \in [Bo -> Nat] /\ h[x] = g[x] - 1 /\ \A y \in Bo : y # x => h[y] = g[y]
  BY <1>0
<1> HIDE DEF h
<1>3. \A y : PinsOf(n, y) = PinsOf(m, y)
  BY <1>1, SameTypes
<1>4. \A y \in n.pinned : Pinnable(m, y)
  BY <1>1 DEF Sound, ObjectsFormed, Mem
<1>5. ASSUME NEW y \in Bo
      PROVE  /\ m.type[y] \in Shmem => n.use[y] = h[y] + One(y \in n.kva) + Count(PinsOf(n, y))
             /\ m.type[y] \notin Shmem => h[y] = 0
             /\ m.type[y] = "none" => n.use[y] = 0
  <2>1. PinsOf(n, y) = PinsOf(m, y) /\ n.use[y] = IF y = x THEN m.use[y] - 1 ELSE m.use[y]
    BY <1>1, <1>3
  <2>2. CASE y = x
    <3>1. m.type[x] # "none"
      BY DEF Shmem
    <3> QED BY <1>1, <1>2, <1>a, <2>1, <2>2, <3>1, UsesAre
  <2>3. CASE y # x
    BY <1>1, <1>2, <2>1, <2>3, UsesAre
  <2> QED BY <2>2, <2>3
<1>6. ASSUME NEW b \in C, m.type[b] = "dev"
      PROVE  n.pages = m.pages /\ h[dev_heap] > 0
  <2>1. g[dev_heap] > 0 /\ dev_heap \in Bo /\ b \in Bo
    BY <1>6 DEF Sound, ObjectsFormed
  <2>2. m.type[x] = "heap" => x = dev_heap
    BY DEF Sound, ObjectsFormed
  <2>3. CASE x = dev_heap
    BY <1>a, <1>1, <1>2, <1>6, <2>1, <2>3
  <2>4. CASE x # dev_heap
    BY <1>1, <1>2, <2>1, <2>2, <2>4
  <2> QED BY <2>3, <2>4
<1>7. Sound(n, f, h, C)
  BY <1>1, <1>2, <1>4, <1>5, <1>6, PinsChange
<1> QED BY <1>7 DEF n, h
(* What is pinned for an object has pages.                                 *)
LEMMA PinTargetIs ==
    ASSUME NEW m, NEW f, NEW g, NEW C, Sound(m, f, g, C), NEW b \in Bo, Pinnable(m, b)
    PROVE  \/ m.type[b] = "import" /\ PinTarget(m, b) = {}
           \/ \E x \in Bo : /\ PinTarget(m, b) = {x} /\ m.type[x] \in Shmem
                            /\ x = b \/ (x = dev_heap /\ m.type[b] = "dev")
<1>1. m.type[b] = "dev" => dev_heap \in Bo /\ m.type[dev_heap] = "heap"
  BY DEF Sound, ObjectsFormed
<1> QED BY <1>1 DEF Pinnable, PinTarget, Shmem

(* An object that is freed is unpinned first, by what was pinned for it.   *)
LEMMA UnpinnedSound ==
    ASSUME NEW m, NEW f, NEW g, NEW C, Sound(m, f, g, C), NEW b \in Bo
    PROVE  LET n == Unpinned(m, b)
           IN  /\ Sound(n, f, g, C) /\ b \notin n.pinned /\ n.type = m.type
               /\ n.refcnt = m.refcnt /\ n.node = m.node /\ n.kva = m.kva
<1>1. CASE b \notin m.pinned
  BY <1>1 DEF Unpinned
<1>2. CASE b \in m.pinned
  <2>1. m \in Mem /\ g \in [Bo -> Nat] /\ m.use \in [Bo -> Nat] /\ Pinnable(m, b)
    BY <1>2 DEF Sound, Mem, ObjectsFormed
  <2> DEFINE P == PinTarget(m, b)
             k == PutPages(m, P)
             n == [k EXCEPT !.pinned = @ \ {b}]
  <2>2. Unpinned(m, b) = n
    BY <1>2 DEF Unpinned, Unpin
  <2>3. P = {} \/ \E x \in Bo : P = {x} /\ m.type[x] \in Shmem
    BY <2>1, PinTargetIs
  <2>4. ASSUME NEW x \in P
        PROVE  /\ x \in Bo /\ m.type[x] \in Shmem /\ P = {x}
               /\ b \in PinsOf(m, x) /\ Count(PinsOf(m, x)) >= 1
               /\ m.use[x] = g[x] + One(x \in m.kva) + Count(PinsOf(m, x))
               /\ m.use[x] >= g[x] + 1 /\ m.use[x] \in Nat /\ g[x] \in Nat
    <3>1. x \in Bo /\ m.type[x] \in Shmem /\ P = {x} /\ b \in PinsOf(m, x)
      BY <1>2, <2>3, <2>4 DEF PinsOf
    <3>2. Count(PinsOf(m, x)) # 0 /\ Count(PinsOf(m, x)) \in Nat
      BY <3>1, CountsAreNat DEF PinsOf, Sound, Mem
    <3> QED BY <3>1, <3>2, UsesAre
  <2>5. P \in SUBSET Bo /\ \A x \in P : m.use[x] > 0
    BY <2>4
  <2> HIDE DEF P
  <2>6. /\ k \in Mem /\ k.type = m.type /\ k.refcnt = m.refcnt
        /\ k.node = m.node /\ k.pinned = m.pinned /\ k.kva = m.kva
        /\ k.upages = m.upages /\ k.attach = m.attach /\ k.oops = m.oops
        /\ k.use = [y \in Bo |-> IF y \in P THEN m.use[y] - 1 ELSE m.use[y]]
        /\ k.pages = m.pages \/ \E x \in P : m.use[x] = 1 /\ m.type[x] = "heap"
    BY <2>1, <2>5, PutPagesFields
  <2> HIDE DEF k
  <2>7. /\ n \in Mem /\ n.type = m.type /\ n.refcnt = m.refcnt
        /\ n.node = m.node /\ n.pinned = m.pinned \ {b} /\ n.kva = m.kva
        /\ n.upages = m.upages /\ n.attach = m.attach /\ n.oops = m.oops
        /\ n.use = k.use /\ n.pages = k.pages
    BY <2>6 DEF Mem
  <2> HIDE DEF n
  <2>8. \A y \in n.pinned : Pinnable(m, y)
    BY <2>7 DEF Sound, ObjectsFormed, Mem
  <2>9. ASSUME NEW y \in Bo
        PROVE  /\ m.type[y] \in Shmem => n.use[y] = g[y] + One(y \in n.kva) + Count(PinsOf(n, y))
               /\ m.type[y] \notin Shmem => g[y] = 0
               /\ m.type[y] = "none" => n.use[y] = 0
    <3>1. PinsOf(n, y) = PinsOf(m, y) \ {b} /\ (b \in PinsOf(m, y) <=> y \in P)
      <4>1. \A z : PinTarget(n, z) = PinTarget(m, z)
        BY <2>7, SameTypes
      <4> QED BY <1>2, <2>7, <4>1 DEF PinsOf, P
    <3>2. Count(PinsOf(n, y)) = Count(PinsOf(m, y)) - One(b \in PinsOf(m, y))
      <4>1. IsFiniteSet(PinsOf(m, y)) /\ Count(PinsOf(m, y)) \in Nat
        BY UsesAre
      <4>2. b \notin PinsOf(n, y) /\ PinsOf(m, y) \ {b} = PinsOf(n, y) \ {b}
        BY <3>1
      <4> QED BY <4>1, <4>2, CountDiffers DEF One
    <3>3. n.use[y] = IF y \in P THEN m.use[y] - 1 ELSE m.use[y]
      BY <2>6, <2>7
    <3>4. CASE y \in P
      <4>1. Count(PinsOf(n, y)) = Count(PinsOf(m, y)) - 1 /\ n.use[y] = m.use[y] - 1
        BY <3>1, <3>2, <3>3, <3>4 DEF One
      <4>2. m.type[y] # "none"
        BY <2>4, <3>4 DEF Shmem
      <4> QED BY <2>4, <2>7, <3>4, <4>1, <4>2, UsesAre
    <3>5. CASE y \notin P
      BY <2>7, <3>1, <3>2, <3>3, <3>5, UsesAre DEF One
    <3> QED BY <3>4, <3>5
  <2>10. ASSUME NEW c \in C, m.type[c] = "dev"
         PROVE  n.pages = m.pages /\ g[dev_heap] > 0
    <3>1. g[dev_heap] > 0
      BY <2>10 DEF Sound
    <3>2. ASSUME NEW x \in P, m.use[x] = 1, m.type[x] = "heap"
          PROVE  FALSE
      <4>1. x = dev_heap
        BY <2>4, <3>2 DEF Sound, ObjectsFormed
      <4> QED BY <2>4, <3>1, <3>2, <4>1
    <3> QED BY <2>6, <2>7, <3>1, <3>2
  <2>11. Sound(n, f, g, C)
    BY <2>1, <2>7, <2>8, <2>9, <2>10, PinsChange
  <2> QED BY <2>2, <2>7, <2>11
<1> QED BY <1>1, <1>2

(* The first submission of an object pins it.                              *)
LEMMA PinnedSound ==
    ASSUME NEW m, NEW f, NEW g, NEW C, Sound(m, f, g, C), NEW b \in Bo,
           Pinnable(m, b), b \notin m.pinned
    PROVE  LET n == [Pin(m, b) EXCEPT !.pinned = @ \cup {b}]
           IN  Sound(n, f, g, C) /\ n.type = m.type
<1>1. m \in Mem /\ g \in [Bo -> Nat] /\ m.use \in [Bo -> Nat]
  BY DEF Sound, Mem
<1> DEFINE P == PinTarget(m, b)
           k == GetPages(m, P)
           n == [k EXCEPT !.pinned = @ \cup {b}]
<1>2. [Pin(m, b) EXCEPT !.pinned = @ \cup {b}] = n
  BY DEF Pin
<1>3. \A x \in P : x \in Bo /\ m.type[x] \in Shmem
  BY PinTargetIs
<1> HIDE DEF P
<1>6. /\ k \in Mem /\ k.type = m.type /\ k.refcnt = m.refcnt /\ k.pages = m.pages
      /\ k.node = m.node /\ k.pinned = m.pinned /\ k.kva = m.kva
      /\ k.upages = m.upages /\ k.attach = m.attach /\ k.oops = m.oops
      /\ k.use = [y \in Bo |-> IF y \in P THEN m.use[y] + 1 ELSE m.use[y]]
  BY <1>1, GetPagesFields
<1> HIDE DEF k
<1>7. /\ n \in Mem /\ n.type = m.type /\ n.refcnt = m.refcnt
      /\ n.node = m.node /\ n.pinned = m.pinned \cup {b} /\ n.kva = m.kva
      /\ n.upages = m.upages /\ n.attach = m.attach /\ n.oops = m.oops
      /\ n.use = k.use /\ n.pages = m.pages
  BY <1>6 DEF Mem
<1> HIDE DEF n
<1>8. \A y \in n.pinned : Pinnable(m, y)
  BY <1>7 DEF Sound, ObjectsFormed, Mem
<1>9. ASSUME NEW y \in Bo
      PROVE  /\ m.type[y] \in Shmem => n.use[y] = g[y] + One(y \in n.kva) + Count(PinsOf(n, y))
             /\ m.type[y] \notin Shmem => g[y] = 0
             /\ m.type[y] = "none" => n.use[y] = 0
  <2>1. PinsOf(n, y) \ {b} = PinsOf(m, y) \ {b} /\ (b \in PinsOf(n, y) <=> y \in P)
        /\ b \notin PinsOf(m, y)
    <3>1. \A z : PinTarget(n, z) = PinTarget(m, z)
      BY <1>7, SameTypes
    <3> QED BY <1>7, <3>1 DEF PinsOf, P
  <2>2. Count(PinsOf(n, y)) = Count(PinsOf(m, y)) + One(b \in PinsOf(n, y))
    <3>1. IsFiniteSet(PinsOf(m, y)) /\ Count(PinsOf(m, y)) \in Nat
      BY UsesAre
    <3> QED BY <2>1, <3>1, CountDiffers DEF One
  <2>3. n.use[y] = IF y \in P THEN m.use[y] + 1 ELSE m.use[y]
    BY <1>6, <1>7
  <2>4. CASE y \in P
    <3>1. Count(PinsOf(n, y)) = Count(PinsOf(m, y)) + 1 /\ n.use[y] = m.use[y] + 1
      BY <2>1, <2>2, <2>3, <2>4 DEF One
    <3>2. m.type[y] # "none" /\ m.type[y] \in Shmem
      BY <1>3, <2>4 DEF Shmem
    <3> QED BY <1>7, <2>4, <3>1, <3>2, UsesAre
  <2>5. CASE y \notin P
    BY <1>7, <2>1, <2>2, <2>3, <2>5, UsesAre DEF One
  <2> QED BY <2>4, <2>5
<1>10. \A c \in C : m.type[c] = "dev" => n.pages = m.pages /\ g[dev_heap] > 0
  BY <1>7 DEF Sound
<1>11. Sound(n, f, g, C)
  BY <1>1, <1>7, <1>8, <1>9, <1>10, PinsChange
<1> QED BY <1>2, <1>7, <1>11
(* The objects of a type, when the type of one object changes.             *)
OfType(m, s) == {x \in Bo : m.type[x] = s}

LEMMA TypeCounts ==
    ASSUME NEW m \in Mem, NEW n \in Mem, NEW b \in Bo, NEW ty,
           n.type = [m.type EXCEPT ![b] = ty], NEW s
    PROVE  /\ Count(OfType(m, s)) \in Nat
           /\ Count(OfType(n, s)) \in Nat
           /\ m.type[b] = s /\ ty # s => Count(OfType(n, s)) = Count(OfType(m, s)) - 1
           /\ m.type[b] # s /\ ty = s => Count(OfType(n, s)) = Count(OfType(m, s)) + 1
           /\ m.type[b] # s /\ ty # s => Count(OfType(n, s)) = Count(OfType(m, s))
<1> DEFINE S == OfType(m, s)
           T == OfType(n, s)
<1>1. S \ {b} = T \ {b} /\ (b \in S <=> m.type[b] = s) /\ (b \in T <=> ty = s)
  BY DEF Mem, OfType
<1>2. IsFiniteSet(S)
  BY CountsAreNat, FS_Subset DEF OfType
<1> HIDE DEF S, T
<1>3. /\ Count(S) \in Nat /\ Count(T) \in Nat
      /\ Count(T) = Count(S) - One(b \in S) + One(b \in T)
  BY <1>1, <1>2, CountDiffers DEF One
<1>4. /\ m.type[b] = s /\ ty # s => Count(T) = Count(S) - 1
      /\ m.type[b] # s /\ ty = s => Count(T) = Count(S) + 1
      /\ m.type[b] # s /\ ty # s => Count(T) = Count(S)
  BY <1>1, <1>3 DEF One
<1> QED BY <1>3, <1>4 DEF S, T

(* What is left of m when the object b is freed.                           *)
Freed(m, n, b) ==
    /\ n \in Mem /\ n.type = [m.type EXCEPT ![b] = "freed"] /\ n.pinned = m.pinned
    /\ n.kva = m.kva \ {b} /\ n.oops = "no" /\ n.pages = m.pages
    /\ \A x \in Bo : x # b => n.use[x] = m.use[x] /\ n.node[x] = m.node[x]
    /\ \A x \in Bo : n.refcnt[x] = IF x = b THEN 0
                                    ELSE IF x = dev_heap /\ m.type[b] = "dev"
                                    THEN m.refcnt[x] - 1 ELSE m.refcnt[x]
    /\ n.upages = IF m.type[b] = "guest" THEN m.upages - GuestPages ELSE m.upages
    /\ n.attach = IF m.type[b] = "import" THEN m.attach - 1 ELSE m.attach

(* The last owner of an object lets go, and what only it had is given back. *)
LEMMA FreedSound ==
    ASSUME NEW m, NEW f, NEW g, NEW C, Sound(m, f, g, C), NEW b \in Bo, Live(m, b),
           f[b] = 1, g[b] = 0, b \notin m.pinned,
           m.type[b] = "heap" => HeapBufs(m) = {},
           m.type[b] = "dev" => f[dev_heap] > 0,
           NEW n, Freed(m, n, b)
    PROVE  Sound(n, [f EXCEPT ![b] = @ - 1], g, C)
<1> USE DEF Freed
<1> DEFINE h == [f EXCEPT ![b] = @ - 1]
<1>0. /\ m \in Mem /\ f \in [Bo -> Nat] /\ g \in [Bo -> Nat] /\ C \subseteq Bo
      /\ m.type \in [Bo -> Type \cup {"none", "freed"}] /\ m.refcnt \in [Bo -> Nat]
      /\ m.pinned \subseteq Bo /\ m.kva \subseteq Bo
  BY DEF Sound, Mem
<1>1. h \in [Bo -> Nat] /\ h[b] = 0 /\ \A x \in Bo : x # b => h[x] = f[x]
  BY <1>0
<1> HIDE DEF h
<1>2. /\ n.type[b] = "freed" /\ \A x \in Bo : x # b => n.type[x] = m.type[x]
      /\ m.type[b] # "freed" /\ m.type[b] # "none" /\ m.type[b] \in Type
  BY <1>0 DEF Live, Type, Shmem
<1>3. m.type[b] = "dev" => dev_heap \in Bo /\ m.type[dev_heap] = "heap" /\ dev_heap # b
  BY DEF Sound, ObjectsFormed
<1>4. Count(HeapBufs(n)) = Count(HeapBufs(m)) - One(m.type[b] = "dev")
      /\ Count(HeapBufs(m)) \in Nat /\ Count(HeapBufs(n)) \in Nat
  <2>1. /\ Count(OfType(m, "dev")) \in Nat /\ Count(OfType(n, "dev")) \in Nat
        /\ Count(OfType(n, "dev"))
             = Count(OfType(m, "dev")) - One(m.type[b] = "dev") + One("freed" = "dev")
    BY <1>0, <1>2, TypeCounts DEF One
  <2>2. One("freed" = "dev") = 0 /\ One(m.type[b] = "dev") \in {0, 1}
    BY DEF One
  <2> QED BY <2>1, <2>2 DEF HeapBufs, OfType
<1>5. RefsCounted(n, h)
  <2> SUFFICES ASSUME NEW x \in Bo
               PROVE  /\ n.refcnt[x] = IF ~Live(n, x) THEN 0
                             ELSE h[x] + (IF x = dev_heap THEN Count(HeapBufs(n)) ELSE 0)
                      /\ IF Live(n, x) THEN n.refcnt[x] > 0 ELSE h[x] = 0
    BY DEF RefsCounted
  <2>1. CASE x = b
    BY <1>1, <1>2, <2>1 DEF Live, Type, Shmem
  <2>2. CASE x # b
    <3>1. /\ Live(n, x) <=> Live(m, x)
          /\ n.refcnt[x] = m.refcnt[x] - One(x = dev_heap /\ m.type[b] = "dev")
          /\ h[x] = f[x] /\ f[x] \in Nat /\ m.refcnt[x] \in Nat
      BY <1>0, <1>1, <1>2, <2>2 DEF Live, One
    <3>2. /\ m.refcnt[x] = IF ~Live(m, x) THEN 0
                 ELSE f[x] + (IF x = dev_heap THEN Count(HeapBufs(m)) ELSE 0)
          /\ IF Live(m, x) THEN m.refcnt[x] > 0 ELSE f[x] = 0
      BY DEF Sound, RefsCounted
    <3>3. CASE x = dev_heap /\ m.type[b] = "dev"
      <4>1. Live(m, x) /\ f[x] > 0
        BY <1>3, <3>3 DEF Live, Type, Shmem
      <4> QED BY <1>4, <3>1, <3>2, <3>3, <4>1 DEF One
    <3>4. CASE ~(x = dev_heap /\ m.type[b] = "dev")
      BY <1>4, <3>1, <3>2, <3>4 DEF One
    <3> QED BY <3>3, <3>4
  <2> QED BY <2>1, <2>2
<1>6. \A y \in Bo : PinsOf(n, y) = PinsOf(m, y)
  <2>1. \A x \in m.pinned : PinTarget(n, x) = PinTarget(m, x)
    BY <1>0, <1>2 DEF PinTarget
  <2> QED BY <2>1 DEF PinsOf
<1>7. PinsCounted(n, g)
  <2> SUFFICES ASSUME NEW y \in Bo
               PROVE  /\ n.type[y] \in Shmem =>
                           n.use[y] = g[y] + One(y \in n.kva) + Count(PinsOf(n, y))
                      /\ n.type[y] \notin Shmem => g[y] = 0
    BY DEF PinsCounted, PinsOf
  <2>1. CASE y = b
    BY <1>2, <2>1 DEF Shmem
  <2>2. CASE y # b
    <3>1. n.type[y] = m.type[y] /\ n.use[y] = m.use[y] /\ (y \in n.kva <=> y \in m.kva)
      BY <1>2, <2>2
    <3> QED BY <1>6, <3>1, UsesAre DEF One
  <2> QED BY <2>1, <2>2
<1>8. ForeignCounted(n)
  <2> DEFINE A(k) == OfType(k, "guest")
             B(k) == OfType(k, "import")
  <2>1. /\ Count(A(m)) \in Nat /\ Count(A(n)) = Count(A(m)) - One(m.type[b] = "guest")
        /\ Count(B(m)) \in Nat /\ Count(B(n)) = Count(B(m)) - One(m.type[b] = "import")
    <3>1. /\ Count(A(m)) \in Nat /\ Count(A(n)) \in Nat
          /\ Count(A(n)) = Count(A(m)) - One(m.type[b] = "guest") + One("freed" = "guest")
      BY <1>0, <1>2, TypeCounts DEF One
    <3>2. One("freed" = "guest") = 0 /\ One(m.type[b] = "guest") \in {0, 1}
      BY DEF One
    <3>3. /\ Count(B(m)) \in Nat /\ Count(B(n)) \in Nat
          /\ Count(B(n)) = Count(B(m)) - One(m.type[b] = "import") + One("freed" = "import")
      BY <1>0, <1>2, TypeCounts DEF One
    <3>4. One("freed" = "import") = 0 /\ One(m.type[b] = "import") \in {0, 1}
      BY DEF One
    <3> HIDE DEF A, B
    <3> QED BY <3>1, <3>2, <3>3, <3>4
  <2>2. m.upages = GuestPages * Count(A(m)) /\ m.attach = Count(B(m))
    BY DEF Sound, ForeignCounted, OfType
  <2>3. One(m.type[b] = "guest") \in {0, 1} /\ One(m.type[b] = "import") \in {0, 1}
    BY DEF One
  <2> HIDE DEF A, B
  <2>4. n.upages = GuestPages * Count(A(n)) /\ n.attach = Count(B(n))
    BY <2>1, <2>2, <2>3 DEF GuestPages, One
  <2> QED BY <2>4 DEF ForeignCounted, A, B, OfType
<1>9. ObjectsFormed(n)
  <2> SUFFICES ASSUME NEW y \in Bo
               PROVE  /\ n.type[y] = "heap" => y = dev_heap
                      /\ y = dev_heap => n.type[y] \in {"heap", "freed"}
                      /\ n.type[y] = "dev" => /\ dev_heap \in Bo /\ n.type[dev_heap] = "heap"
                                              /\ n.node[y] # {}
                      /\ y \in n.pinned => Pinnable(n, y)
                      /\ y \in n.kva => n.type[y] \in {"cmd", "dev"}
                      /\ n.type[y] = "none" => n.use[y] = 0 /\ n.node[y] = {}
    BY DEF ObjectsFormed
  <2>1. CASE y = b
    BY <1>2, <2>1
  <2>2. CASE y # b
    <3>1. n.type[y] = m.type[y] /\ n.use[y] = m.use[y] /\ n.node[y] = m.node[y]
          /\ (Pinnable(n, y) <=> Pinnable(m, y))
      BY <1>2, <2>2 DEF Pinnable
    <3>2. /\ m.type[y] = "heap" => y = dev_heap
          /\ y = dev_heap => m.type[y] \in {"heap", "freed"}
          /\ m.type[y] = "dev" => /\ dev_heap \in Bo /\ m.type[dev_heap] = "heap"
                                  /\ m.node[y] # {} /\ dev_heap # b
          /\ y \in m.pinned => Pinnable(m, y)
          /\ y \in m.kva => m.type[y] \in {"cmd", "dev"}
          /\ m.type[y] = "none" => m.use[y] = 0 /\ m.node[y] = {}
      <4>1. m.type[y] = "dev" => HeapBufs(m) # {}
        BY DEF HeapBufs
      <4> QED BY <4>1 DEF Sound, ObjectsFormed
    <3> QED BY <1>2, <3>1, <3>2
  <2> QED BY <2>1, <2>2
<1>10. TablesCurrent(n, C) /\ \A c \in C : n.type[c] = "dev" => g[dev_heap] > 0
  <2>1. \A c \in C : n.type[c] = "dev" => m.type[c] = "dev"
    BY <1>0, <1>2
  <2> QED BY <2>1 DEF Sound, TablesCurrent
<1>11. Sound(n, h, g, C)
  BY <1>0, <1>1, <1>5, <1>7, <1>8, <1>9, <1>10 DEF Sound
<1> QED BY <1>11 DEF h

(* What m becomes with a new object b of a type, mapped in the kernel or not. *)
Born(m, n, b, ty) ==
    /\ n \in Mem /\ n.type = [m.type EXCEPT ![b] = ty] /\ n.pinned = m.pinned
    /\ n.kva \ {b} = m.kva \ {b} /\ (b \in n.kva => ty \in {"cmd", "dev"}) /\ n.oops = "no"
    /\ \A x \in Bo : x # b => /\ n.use[x] = m.use[x] /\ n.node[x] = m.node[x]
                               /\ n.pages[x] = m.pages[x]
    /\ n.use[b] = IF ty = "cmd" /\ b \in n.kva THEN 1 ELSE 0
    /\ \A x \in Bo : n.refcnt[x] = IF x = b THEN 1
                                    ELSE IF x = dev_heap /\ ty = "dev"
                                    THEN m.refcnt[x] + 1 ELSE m.refcnt[x]
    /\ ty = "dev" => dev_heap \in Bo /\ m.type[dev_heap] = "heap" /\ n.node[b] # {}
    /\ n.upages = IF ty = "guest" THEN m.upages + GuestPages ELSE m.upages
    /\ n.attach = IF ty = "import" THEN m.attach + 1 ELSE m.attach

(* A new object, with one owner; its page table is current if it has to be. *)
LEMMA BornSound ==
    ASSUME NEW m, NEW f, NEW g, NEW C, Sound(m, f, g, C), NEW b \in Bo, m.type[b] = "none",
           NEW ty \in Type \ {"heap"}, NEW n, Born(m, n, b, ty),
           NEW D \in SUBSET Bo, \A x \in D : x \in C \/ x = b,
           ty = "dev" /\ b \in D => n.pages[b] = "cur" /\ g[dev_heap] > 0
    PROVE  Sound(n, [f EXCEPT ![b] = @ + 1], g, D)
<1> USE DEF Born
<1> DEFINE h == [f EXCEPT ![b] = @ + 1]
<1>0. /\ m \in Mem /\ f \in [Bo -> Nat] /\ g \in [Bo -> Nat] /\ C \subseteq Bo
      /\ m.type \in [Bo -> Type \cup {"none", "freed"}] /\ m.refcnt \in [Bo -> Nat]
      /\ m.pinned \subseteq Bo /\ m.kva \subseteq Bo
  BY DEF Sound, Mem
<1>a. ~Live(m, b) /\ f[b] = 0 /\ b \notin m.pinned /\ g[b] = 0 /\ b \notin m.kva
  <2>1. ~Live(m, b) /\ ~Pinnable(m, b)
    BY DEF Live, Type, Shmem, Pinnable
  <2> QED BY <2>1 DEF Sound, RefsCounted, PinsCounted, ObjectsFormed, Shmem
<1>1. h \in [Bo -> Nat] /\ h[b] = 1 /\ \A x \in Bo : x # b => h[x] = f[x]
  BY <1>0, <1>a
<1> HIDE DEF h
<1>2. /\ n.type[b] = ty /\ \A x \in Bo : x # b => n.type[x] = m.type[x]
      /\ m.type[b] # ty
  BY <1>0 DEF Type, Shmem
<1>3. dev_heap # b
  BY DEF Sound, ObjectsFormed
<1>4. Count(HeapBufs(n)) = Count(HeapBufs(m)) + One(ty = "dev")
      /\ Count(HeapBufs(m)) \in Nat /\ Count(HeapBufs(n)) \in Nat
  <2>1. /\ Count(OfType(m, "dev")) \in Nat /\ Count(OfType(n, "dev")) \in Nat
        /\ Count(OfType(n, "dev"))
             = Count(OfType(m, "dev")) - One(m.type[b] = "dev") + One(ty = "dev")
    BY <1>0, <1>2, TypeCounts DEF One
  <2>2. One(m.type[b] = "dev") = 0 /\ One(ty = "dev") \in {0, 1}
    BY DEF One
  <2> QED BY <2>1, <2>2 DEF HeapBufs, OfType
<1>b. dev_heap = b => HeapBufs(n) = {}
  <2> SUFFICES ASSUME dev_heap = b, NEW x \in Bo, n.type[x] = "dev"
               PROVE  FALSE
    BY DEF HeapBufs
  <2>1. x # b /\ m.type[x] = "dev"
    BY <1>2, <1>3
  <2> QED BY <2>1 DEF Sound, ObjectsFormed
<1>5. RefsCounted(n, h)
  <2> SUFFICES ASSUME NEW x \in Bo
               PROVE  /\ n.refcnt[x] = IF ~Live(n, x) THEN 0
                             ELSE h[x] + (IF x = dev_heap THEN Count(HeapBufs(n)) ELSE 0)
                      /\ IF Live(n, x) THEN n.refcnt[x] > 0 ELSE h[x] = 0
    BY DEF RefsCounted
  <2>1. CASE x = b
    <3>1. Live(n, x)
      BY <1>2, <2>1 DEF Live
    <3>2. x = dev_heap => Count(HeapBufs(n)) = 0
      BY <1>b, <2>1, CountsAreNat DEF HeapBufs
    <3> QED BY <1>1, <2>1, <3>1, <3>2
  <2>2. CASE x # b
    <3>1. /\ Live(n, x) <=> Live(m, x)
          /\ n.refcnt[x] = m.refcnt[x] + One(x = dev_heap /\ ty = "dev")
          /\ h[x] = f[x] /\ f[x] \in Nat /\ m.refcnt[x] \in Nat
      BY <1>0, <1>1, <1>2, <2>2 DEF Live, One
    <3>2. /\ m.refcnt[x] = IF ~Live(m, x) THEN 0
                 ELSE f[x] + (IF x = dev_heap THEN Count(HeapBufs(m)) ELSE 0)
          /\ IF Live(m, x) THEN m.refcnt[x] > 0 ELSE f[x] = 0
      BY DEF Sound, RefsCounted
    <3>3. CASE x = dev_heap /\ ty = "dev"
      <4>1. Live(m, x)
        BY <3>3 DEF Live, Type, Shmem
      <4> QED BY <1>4, <3>1, <3>2, <3>3, <4>1 DEF One
    <3>4. CASE ~(x = dev_heap /\ ty = "dev")
      BY <1>4, <3>1, <3>2, <3>4 DEF One
    <3> QED BY <3>3, <3>4
  <2> QED BY <2>1, <2>2
<1>6. \A y \in Bo : PinsOf(n, y) = PinsOf(m, y)
  <2>1. \A x \in m.pinned : PinTarget(n, x) = PinTarget(m, x)
    BY <1>0, <1>2, <1>a DEF PinTarget
  <2> QED BY <2>1 DEF PinsOf
<1>7. PinsCounted(n, g)
  <2> SUFFICES ASSUME NEW y \in Bo
               PROVE  /\ n.type[y] \in Shmem =>
                           n.use[y] = g[y] + One(y \in n.kva) + Count(PinsOf(n, y))
                      /\ n.type[y] \notin Shmem => g[y] = 0
    BY DEF PinsCounted, PinsOf
  <2>1. CASE y = b
    <3>1. PinsOf(m, b) = {}
      <4> SUFFICES ASSUME NEW z \in m.pinned, b \in PinTarget(m, z)
                   PROVE  FALSE
        BY DEF PinsOf
      <4>1. z \in Bo /\ Pinnable(m, z) /\ z # b
        BY <1>0, <1>a DEF Sound, ObjectsFormed
      <4>2. m.type[b] \in Shmem
        BY <4>1, PinTargetIs
      <4> QED BY <4>2 DEF Shmem
    <3>2. Count(PinsOf(n, b)) = 0
      BY <1>6, <3>1, CountsAreNat
    <3>3. n.type[b] \in Shmem => One(ty = "cmd" /\ b \in n.kva) = One(b \in n.kva)
      BY <1>2 DEF Shmem, One
    <3> QED BY <1>2, <1>a, <2>1, <3>2, <3>3 DEF One
  <2>2. CASE y # b
    <3>1. n.type[y] = m.type[y] /\ n.use[y] = m.use[y] /\ (y \in n.kva <=> y \in m.kva)
      BY <1>2, <2>2
    <3> QED BY <1>6, <3>1, UsesAre DEF One
  <2> QED BY <2>1, <2>2
<1>8. ForeignCounted(n)
  <2> DEFINE A(k) == OfType(k, "guest")
             B(k) == OfType(k, "import")
  <2>1. /\ Count(A(m)) \in Nat /\ Count(A(n)) = Count(A(m)) + One(ty = "guest")
        /\ Count(B(m)) \in Nat /\ Count(B(n)) = Count(B(m)) + One(ty = "import")
    <3>1. /\ Count(A(m)) \in Nat /\ Count(A(n)) \in Nat
          /\ Count(A(n)) = Count(A(m)) - One(m.type[b] = "guest") + One(ty = "guest")
      BY <1>0, <1>2, TypeCounts DEF One
    <3>2. One(m.type[b] = "guest") = 0 /\ One(ty = "guest") \in {0, 1}
      BY DEF One
    <3>3. /\ Count(B(m)) \in Nat /\ Count(B(n)) \in Nat
          /\ Count(B(n)) = Count(B(m)) - One(m.type[b] = "import") + One(ty = "import")
      BY <1>0, <1>2, TypeCounts DEF One
    <3>4. One(m.type[b] = "import") = 0 /\ One(ty = "import") \in {0, 1}
      BY DEF One
    <3> HIDE DEF A, B
    <3> QED BY <3>1, <3>2, <3>3, <3>4
  <2>2. m.upages = GuestPages * Count(A(m)) /\ m.attach = Count(B(m))
    BY DEF Sound, ForeignCounted, OfType
  <2>3. One(ty = "guest") \in {0, 1} /\ One(ty = "import") \in {0, 1}
    BY DEF One
  <2> HIDE DEF A, B
  <2>4. n.upages = GuestPages * Count(A(n)) /\ n.attach = Count(B(n))
    BY <2>1, <2>2, <2>3 DEF GuestPages, One
  <2> QED BY <2>4 DEF ForeignCounted, A, B, OfType
<1>9. ObjectsFormed(n)
  <2> SUFFICES ASSUME NEW y \in Bo
               PROVE  /\ n.type[y] = "heap" => y = dev_heap
                      /\ y = dev_heap => n.type[y] \in {"heap", "freed"}
                      /\ n.type[y] = "dev" => /\ dev_heap \in Bo /\ n.type[dev_heap] = "heap"
                                              /\ n.node[y] # {}
                      /\ y \in n.pinned => Pinnable(n, y)
                      /\ y \in n.kva => n.type[y] \in {"cmd", "dev"}
                      /\ n.type[y] = "none" => n.use[y] = 0 /\ n.node[y] = {}
    BY DEF ObjectsFormed
  <2>1. CASE y = b
    BY <1>2, <1>3, <1>a, <2>1 DEF Type, Shmem
  <2>2. CASE y # b
    <3>1. n.type[y] = m.type[y] /\ n.use[y] = m.use[y] /\ n.node[y] = m.node[y]
          /\ (Pinnable(n, y) <=> Pinnable(m, y)) /\ (y \in n.kva <=> y \in m.kva)
      BY <1>2, <2>2 DEF Pinnable
    <3>2. /\ m.type[y] = "heap" => y = dev_heap
          /\ y = dev_heap => m.type[y] \in {"heap", "freed"}
          /\ m.type[y] = "dev" => /\ dev_heap \in Bo /\ m.type[dev_heap] = "heap"
                                  /\ m.node[y] # {} /\ dev_heap # b
          /\ y \in m.pinned => Pinnable(m, y)
          /\ y \in m.kva => m.type[y] \in {"cmd", "dev"}
          /\ m.type[y] = "none" => m.use[y] = 0 /\ m.node[y] = {}
      BY DEF Sound, ObjectsFormed
    <3> QED BY <1>2, <3>1, <3>2
  <2> QED BY <2>1, <2>2
<1>10. TablesCurrent(n, D) /\ \A c \in D : n.type[c] = "dev" => g[dev_heap] > 0
  <2> SUFFICES ASSUME NEW c \in D, n.type[c] = "dev"
               PROVE  n.pages[c] = "cur" /\ g[dev_heap] > 0
    BY DEF TablesCurrent
  <2>1. CASE c = b
    BY <1>2, <2>1
  <2>2. CASE c # b
    BY <1>2, <2>2 DEF Sound, TablesCurrent
  <2> QED BY <2>1, <2>2
<1>11. Sound(n, h, g, D)
  BY <1>0, <1>1, <1>5, <1>7, <1>8, <1>9, <1>10 DEF Sound
<1> QED BY <1>11 DEF h

(* What the end of an object leaves of it.                                 *)
LEMMA GoneFields ==
    ASSUME NEW m \in Mem, NEW b \in Bo
    PROVE  LET n == Gone(m, b)
           IN  /\ n \in Mem /\ n.type = [m.type EXCEPT ![b] = "freed"]
               /\ n.refcnt = [m.refcnt EXCEPT ![b] = 0] /\ n.kva = m.kva \ {b}
               /\ n.use = m.use /\ n.pages = m.pages /\ n.node = m.node /\ n.pinned = m.pinned
               /\ n.upages = m.upages /\ n.attach = m.attach /\ n.oops = m.oops
<1> DEFINE y == [m.type EXCEPT ![b] = "freed"]
           r == [m.refcnt EXCEPT ![b] = 0]
           k == m.kva \ {b}
<1>1. y \in [Bo -> Type \cup {"none", "freed"}] /\ r \in [Bo -> Nat] /\ k \in SUBSET Bo
  BY DEF Mem
<1>2. Gone(m, b) = [m EXCEPT !.type = y, !.refcnt = r, !.kva = k]
  BY DEF Gone, Mem
<1> HIDE DEF y, r, k
<1>3. [m EXCEPT !.type = y, !.refcnt = r, !.kva = k] \in Mem
  BY <1>1 DEF Mem
<1> QED BY <1>2, <1>3 DEF Mem, y, r, k

(* amdxdna_gem_shmem_obj_free() of an object nobody else has.              *)
LEMMA ShmemFreeSound ==
    ASSUME NEW m, NEW f, NEW g, NEW C, Sound(m, f, g, C), NEW b \in Bo, m.type[b] \in Shmem,
           f[b] = 1, g[b] = 0, m.type[b] = "heap" => HeapBufs(m) = {}
    PROVE  /\ Sound(ShmemFree(m, b), [f EXCEPT ![b] = @ - 1], g, C)
           /\ ShmemFree(m, b).type = [m.type EXCEPT ![b] = "freed"]
<1> DEFINE k == Unpinned(m, b)
           l == IF b \in k.kva THEN PutPages(k, {b}) ELSE k
           n == Gone(l, b)
<1>1. /\ Sound(k, f, g, C) /\ b \notin k.pinned /\ k.type = m.type
      /\ k.refcnt = m.refcnt /\ k.node = m.node /\ k.kva = m.kva
  BY UnpinnedSound
<1>2. ShmemFree(m, b) = n
  BY DEF ShmemFree
<1> HIDE DEF k
<1>3. k \in Mem /\ k.oops = "no"
  BY <1>1 DEF Sound
<1>4. b \in k.kva => k.use[b] > 0 /\ k.type[b] = "cmd"
  <2>1. b \in k.kva => k.type[b] = "cmd"
    BY <1>1 DEF Sound, ObjectsFormed, Shmem
  <2>2. One(b \in k.kva) = IF b \in k.kva THEN 1 ELSE 0
    BY DEF One
  <2>3. /\ Count(PinsOf(k, b)) \in Nat /\ g[b] \in Nat
        /\ k.use[b] = g[b] + One(b \in k.kva) + Count(PinsOf(k, b))
    BY <1>1, UsesAre
  <2> QED BY <2>1, <2>2, <2>3
<1>5. /\ l \in Mem /\ l.type = k.type /\ l.refcnt = k.refcnt /\ l.pages = k.pages
      /\ l.node = k.node /\ l.pinned = k.pinned /\ l.kva = k.kva
      /\ l.upages = k.upages /\ l.attach = k.attach /\ l.oops = k.oops
      /\ \A x \in Bo : x # b => l.use[x] = k.use[x]
  <2>1. CASE b \in k.kva
    <3>1. {b} \in SUBSET Bo /\ \A x \in {b} : k.use[x] > 0
      BY <1>4, <2>1
    <3>2. ~\E x \in {b} : k.use[x] = 1 /\ k.type[x] = "heap"
      BY <1>4, <2>1
    <3> DEFINE q == PutPages(k, {b})
    <3>3. /\ q \in Mem /\ q.type = k.type /\ q.refcnt = k.refcnt
          /\ q.node = k.node /\ q.pinned = k.pinned /\ q.kva = k.kva
          /\ q.upages = k.upages /\ q.attach = k.attach /\ q.oops = k.oops
          /\ q.use = [x \in Bo |-> IF x \in {b} THEN k.use[x] - 1 ELSE k.use[x]]
          /\ q.pages = k.pages
      BY <1>3, <3>1, <3>2, PutPagesFields
    <3>4. l = q
      BY <2>1
    <3> HIDE DEF q, l
    <3> QED BY <3>3, <3>4
  <2>2. CASE b \notin k.kva
    BY <1>3, <2>2
  <2> QED BY <2>1, <2>2
<1> HIDE DEF l
<1>6. /\ n \in Mem /\ n.type = [l.type EXCEPT ![b] = "freed"]
      /\ n.refcnt = [l.refcnt EXCEPT ![b] = 0] /\ n.kva = l.kva \ {b}
      /\ n.use = l.use /\ n.pages = l.pages /\ n.node = l.node /\ n.pinned = l.pinned
      /\ n.upages = l.upages /\ n.attach = l.attach /\ n.oops = l.oops
  BY <1>5, GoneFields
<1> HIDE DEF n
<1>7. Live(k, b) /\ k.type[b] # "dev" /\ k.type[b] # "guest" /\ k.type[b] # "import"
  BY <1>1 DEF Live, Type, Shmem
<1>8. HeapBufs(k) = HeapBufs(m)
  BY <1>1, SameTypes
<1>9. Freed(k, n, b)
  <2>1. \A x \in Bo : n.refcnt[x] = IF x = b THEN 0
                                    ELSE IF x = dev_heap /\ k.type[b] = "dev"
                                    THEN k.refcnt[x] - 1 ELSE k.refcnt[x]
    BY <1>3, <1>5, <1>6, <1>7 DEF Mem
  <2> QED BY <1>3, <1>5, <1>6, <1>7, <2>1 DEF Freed
<1>11. Sound(n, [f EXCEPT ![b] = @ - 1], g, C)
  BY <1>1, <1>7, <1>8, <1>9, FreedSound
<1> QED BY <1>1, <1>2, <1>5, <1>6, <1>11

(* amdxdna_gem_dev_obj_free() while the client is open: the heap stays.    *)
LEMMA DevFreeSound ==
    ASSUME NEW m, NEW f, NEW g, NEW C, Sound(m, f, g, C), NEW b \in Bo, m.type[b] = "dev",
           client = "open", f[b] = 1, f[dev_heap] > 0
    PROVE  /\ Sound(DevFree(m, b), [f EXCEPT ![b] = @ - 1], g, C)
           /\ DevFree(m, b).type = [m.type EXCEPT ![b] = "freed"]
<1> DEFINE k == Unpinned(m, b)
           e == [k.node EXCEPT ![b] = {}]
           r == [k.refcnt EXCEPT ![dev_heap] = @ - 1]
           l == [k EXCEPT !.node[b] = {}, !.refcnt[dev_heap] = @ - 1]
           n == Gone(l, b)
<1>1. /\ Sound(k, f, g, C) /\ b \notin k.pinned /\ k.type = m.type
      /\ k.refcnt = m.refcnt /\ k.node = m.node /\ k.kva = m.kva
  BY UnpinnedSound
<1>2. DevFree(m, b) = HeapFree(k, b)
  BY DEF DevFree
<1> HIDE DEF k
<1>3. /\ k \in Mem /\ k.oops = "no" /\ k.type[b] = "dev" /\ k.node[b] # {}
      /\ dev_heap \in Bo /\ dev_heap # b /\ k.type[dev_heap] = "heap" /\ g[b] = 0
      /\ f \in [Bo -> Nat]
  BY <1>1 DEF Sound, ObjectsFormed, PinsCounted, Shmem
<1>4. k.refcnt \in [Bo -> Nat] /\ k.node \in [Bo -> SUBSET (0..(HeapPages - 1))]
  BY <1>3 DEF Mem
<1>5. k.refcnt[dev_heap] > 1
  <2>1. Live(k, dev_heap)
    BY <1>3 DEF Live, Type, Shmem
  <2>2. b \in HeapBufs(k) /\ HeapBufs(k) \subseteq Bo
    BY <1>3 DEF HeapBufs
  <2>3. Count(HeapBufs(k)) \in Nat /\ Count(HeapBufs(k)) # 0
    BY <2>2, CountsAreNat
  <2>4. k.refcnt[dev_heap] = f[dev_heap] + Count(HeapBufs(k))
    BY <1>1, <1>3, <2>1 DEF Sound, RefsCounted
  <2> QED BY <1>3, <2>3, <2>4
<1>6. l \in Mem /\ l = [k EXCEPT !.node = e, !.refcnt = r]
  <2>1. e \in [Bo -> SUBSET (0..(HeapPages - 1))] /\ r \in [Bo -> Nat]
    BY <1>3, <1>4, <1>5
  <2>2. l = [k EXCEPT !.node = e, !.refcnt = r]
    BY <1>3 DEF Mem
  <2> HIDE DEF e, r, l
  <2>3. [k EXCEPT !.node = e, !.refcnt = r] \in Mem
    BY <1>3, <2>1 DEF Mem
  <2> QED BY <2>2, <2>3
<1> HIDE DEF l
<1>7. /\ l.type = k.type /\ l.use = k.use /\ l.pages = k.pages /\ l.pinned = k.pinned
      /\ l.kva = k.kva /\ l.upages = k.upages /\ l.attach = k.attach /\ l.oops = k.oops
      /\ l.node = e /\ l.refcnt = r
  BY <1>3, <1>6 DEF Mem
<1>8. /\ n \in Mem /\ n.type = [l.type EXCEPT ![b] = "freed"]
      /\ n.refcnt = [l.refcnt EXCEPT ![b] = 0] /\ n.kva = l.kva \ {b}
      /\ n.use = l.use /\ n.pages = l.pages /\ n.node = l.node /\ n.pinned = l.pinned
      /\ n.upages = l.upages /\ n.attach = l.attach /\ n.oops = l.oops
  BY <1>6, GoneFields
<1> HIDE DEF n
<1>9. HeapFree(k, b) = n
  <2>1. n.refcnt[dev_heap] # 0
    BY <1>3, <1>4, <1>5, <1>7, <1>8
  <2> QED BY <1>3, <2>1 DEF HeapFree, n, l
<1>10. Freed(k, n, b)
  <2>1. \A x \in Bo : n.refcnt[x] = IF x = b THEN 0
                                    ELSE IF x = dev_heap /\ k.type[b] = "dev"
                                    THEN k.refcnt[x] - 1 ELSE k.refcnt[x]
    BY <1>3, <1>4, <1>7, <1>8
  <2>2. \A x \in Bo : x # b => n.use[x] = k.use[x] /\ n.node[x] = k.node[x]
    BY <1>4, <1>7, <1>8
  <2> QED BY <1>3, <1>7, <1>8, <2>1, <2>2 DEF Freed
<1>11. Live(k, b) /\ (k.type[b] = "heap" => HeapBufs(k) = {}) /\ (k.type[b] = "dev" => f[dev_heap] > 0)
  BY <1>3 DEF Live, Type
<1>12. Sound(n, [f EXCEPT ![b] = @ - 1], g, C)
  BY <1>1, <1>3, <1>10, <1>11, FreedSound
<1> QED BY <1>1, <1>2, <1>7, <1>8, <1>9, <1>12

(* amdxdna_gem_guest_obj_free(): the user's pages are unpinned.            *)
LEMMA GuestFreeSound ==
    ASSUME NEW m, NEW f, NEW g, NEW C, Sound(m, f, g, C), NEW b \in Bo, m.type[b] = "guest",
           f[b] = 1
    PROVE  /\ Sound(GuestFree(m, b), [f EXCEPT ![b] = @ - 1], g, C)
           /\ GuestFree(m, b).type = [m.type EXCEPT ![b] = "freed"]
<1> DEFINE l == Gone(m, b)
           n == GuestFree(m, b)
<1>1. /\ m \in Mem /\ m.oops = "no" /\ b \notin m.pinned /\ g[b] = 0 /\ Live(m, b)
      /\ m.refcnt \in [Bo -> Nat]
  BY DEF Sound, ObjectsFormed, PinsCounted, Pinnable, Live, Type, Shmem, Mem
<1>2. m.upages - GuestPages \in Nat
  <2>1. b \in OfType(m, "guest") /\ OfType(m, "guest") \subseteq Bo
    BY DEF OfType
  <2>2. Count(OfType(m, "guest")) \in Nat /\ Count(OfType(m, "guest")) # 0
    BY <2>1, CountsAreNat
  <2>3. m.upages = GuestPages * Count(OfType(m, "guest"))
    BY DEF Sound, ForeignCounted, OfType
  <2> QED BY <2>2, <2>3 DEF GuestPages
<1>3. /\ l \in Mem /\ l.type = [m.type EXCEPT ![b] = "freed"]
      /\ l.refcnt = [m.refcnt EXCEPT ![b] = 0] /\ l.kva = m.kva \ {b}
      /\ l.use = m.use /\ l.pages = m.pages /\ l.node = m.node /\ l.pinned = m.pinned
      /\ l.upages = m.upages /\ l.attach = m.attach /\ l.oops = m.oops
  BY <1>1, GoneFields
<1>4. n = [l EXCEPT !.upages = m.upages - GuestPages]
  BY <1>3 DEF GuestFree, Mem
<1> HIDE DEF l, n
<1>5. /\ n \in Mem /\ n.type = l.type /\ n.use = l.use /\ n.pages = l.pages
      /\ n.node = l.node /\ n.pinned = l.pinned /\ n.kva = l.kva /\ n.attach = l.attach
      /\ n.oops = l.oops /\ n.refcnt = l.refcnt /\ n.upages = m.upages - GuestPages
  BY <1>2, <1>3, <1>4 DEF Mem
<1>6. Freed(m, n, b)
  <2>1. \A x \in Bo : n.refcnt[x] = IF x = b THEN 0
                                    ELSE IF x = dev_heap /\ m.type[b] = "dev"
                                    THEN m.refcnt[x] - 1 ELSE m.refcnt[x]
    BY <1>1, <1>3, <1>5
  <2> QED BY <1>1, <1>3, <1>5, <2>1 DEF Freed
<1>7. Sound(n, [f EXCEPT ![b] = @ - 1], g, C)
  BY <1>1, <1>6, FreedSound
<1> QED BY <1>3, <1>5, <1>7 DEF n

(* drm_prime_gem_destroy(): the foreign buffer is detached.                *)
LEMMA ImportFreeSound ==
    ASSUME NEW m, NEW f, NEW g, NEW C, Sound(m, f, g, C), NEW b \in Bo, m.type[b] = "import",
           f[b] = 1
    PROVE  /\ Sound(ImportFree(m, b), [f EXCEPT ![b] = @ - 1], g, C)
           /\ ImportFree(m, b).type = [m.type EXCEPT ![b] = "freed"]
<1> DEFINE k == [m EXCEPT !.pinned = @ \ {b}]
           l == Gone(m, b)
           n == ImportFree(m, b)
<1>1. /\ m \in Mem /\ m.oops = "no" /\ g[b] = 0 /\ Live(m, b) /\ g \in [Bo -> Nat]
      /\ m.refcnt \in [Bo -> Nat] /\ m.pinned \in SUBSET Bo
  BY DEF Sound, PinsCounted, Live, Type, Shmem, Mem
<1>2. m.attach - 1 \in Nat
  <2>1. b \in OfType(m, "import") /\ OfType(m, "import") \subseteq Bo
    BY DEF OfType
  <2>2. Count(OfType(m, "import")) \in Nat /\ Count(OfType(m, "import")) # 0
    BY <2>1, CountsAreNat
  <2>3. m.attach = Count(OfType(m, "import"))
    BY DEF Sound, ForeignCounted, OfType
  <2> QED BY <2>2, <2>3
<1>3. /\ k \in Mem /\ k.type = m.type /\ k.use = m.use /\ k.pages = m.pages /\ k.node = m.node
      /\ k.pinned = m.pinned \ {b} /\ k.kva = m.kva /\ k.upages = m.upages
      /\ k.attach = m.attach /\ k.oops = m.oops /\ k.refcnt = m.refcnt
  BY <1>1 DEF Mem
<1> HIDE DEF k
<1>4. \A y : PinsOf(k, y) = PinsOf(m, y)
  <2>1. PinTarget(m, b) = {}
    BY DEF PinTarget
  <2>2. \A y : PinTarget(k, y) = PinTarget(m, y)
    BY <1>3, SameTypes
  <2> QED BY <1>3, <2>1, <2>2 DEF PinsOf
<1>5. Sound(k, f, g, C)
  <2>1. \A x \in k.pinned : Pinnable(m, x)
    BY <1>1, <1>3 DEF Sound, ObjectsFormed
  <2>2. \A x \in Bo : /\ m.type[x] \in Shmem =>
                           k.use[x] = g[x] + One(x \in k.kva) + Count(PinsOf(k, x))
                      /\ m.type[x] \notin Shmem => g[x] = 0
                      /\ m.type[x] = "none" => k.use[x] = 0
    BY <1>3, <1>4, UsesAre
  <2>3. \A x \in C : m.type[x] = "dev" => k.pages = m.pages /\ g[dev_heap] > 0
    BY <1>3 DEF Sound
  <2> QED BY <1>1, <1>3, <2>1, <2>2, <2>3, PinsChange
<1>6. /\ l \in Mem /\ l.type = [m.type EXCEPT ![b] = "freed"]
      /\ l.refcnt = [m.refcnt EXCEPT ![b] = 0] /\ l.kva = m.kva \ {b}
      /\ l.use = m.use /\ l.pages = m.pages /\ l.node = m.node /\ l.pinned = m.pinned
      /\ l.upages = m.upages /\ l.attach = m.attach /\ l.oops = m.oops
  BY <1>1, GoneFields
<1>7. n = [l EXCEPT !.attach = m.attach - 1, !.pinned = m.pinned \ {b}]
  BY <1>6 DEF ImportFree, Mem
<1> HIDE DEF l, n
<1>8. /\ n \in Mem /\ n.type = l.type /\ n.use = l.use /\ n.pages = l.pages
      /\ n.node = l.node /\ n.pinned = m.pinned \ {b} /\ n.kva = l.kva
      /\ n.attach = m.attach - 1 /\ n.oops = l.oops /\ n.refcnt = l.refcnt
      /\ n.upages = l.upages
  BY <1>1, <1>2, <1>6, <1>7 DEF Mem
<1>9. Freed(k, n, b)
  <2>1. \A x \in Bo : n.refcnt[x] = IF x = b THEN 0
                                    ELSE IF x = dev_heap /\ k.type[b] = "dev"
                                    THEN k.refcnt[x] - 1 ELSE k.refcnt[x]
    BY <1>1, <1>3, <1>6, <1>8
  <2> QED BY <1>1, <1>3, <1>6, <1>8, <2>1 DEF Freed
<1>10. /\ Live(k, b) /\ b \notin k.pinned /\ (k.type[b] = "heap" => HeapBufs(k) = {})
       /\ (k.type[b] = "dev" => f[dev_heap] > 0)
  BY <1>1, <1>3 DEF Live
<1>11. Sound(n, [f EXCEPT ![b] = @ - 1], g, C)
  BY <1>1, <1>5, <1>9, <1>10, FreedSound
<1> QED BY <1>6, <1>8, <1>11 DEF n

(* The objects of n are those of m, but for some that are freed.           *)
Dwindled(m, n) == \A x \in Bo : n.type[x] = m.type[x] \/ n.type[x] = "freed"

(* drm_gem_object_put() by an owner, of an object whose pages nobody uses  *)
(* once its last owner is gone.                                            *)
LEMMA PutSound ==
    ASSUME NEW m, NEW f, NEW g, NEW C, Sound(m, f, g, C), NEW b \in Bo, f[b] > 0,
           f[b] = 1 /\ (b = dev_heap => HeapBufs(m) = {}) => g[b] = 0,
           m.type[b] = "dev" /\ m.refcnt[b] = 1 => client = "open" /\ f[dev_heap] > 0
    PROVE  Sound(Put(m, b), [f EXCEPT ![b] = @ - 1], g, C) /\ Dwindled(m, Put(m, b))
<1>1. /\ m \in Mem /\ f \in [Bo -> Nat] /\ m.refcnt \in [Bo -> Nat]
      /\ m.type \in [Bo -> Type \cup {"none", "freed"}]
  BY DEF Sound, Mem
<1>2. Live(m, b) /\ Count(HeapBufs(m)) \in Nat /\ (Count(HeapBufs(m)) = 0 <=> HeapBufs(m) = {})
      /\ m.refcnt[b] = f[b] + (IF b = dev_heap THEN Count(HeapBufs(m)) ELSE 0)
      /\ m.refcnt[b] > 0
  <2>1. HeapBufs(m) \subseteq Bo
    BY DEF HeapBufs
  <2>2. Live(m, b)
    BY <1>1 DEF Sound, RefsCounted
  <2> QED BY <2>1, <2>2, CountsAreNat DEF Sound, RefsCounted
<1>3. CASE m.refcnt[b] > 1
  <2> DEFINE r == [m.refcnt EXCEPT ![b] = @ - 1]
             n == [m EXCEPT !.refcnt[b] = @ - 1]
             h == [f EXCEPT ![b] = @ - 1]
  <2>1. r \in [Bo -> Nat] /\ h \in [Bo -> Nat]
    BY <1>1, <1>3
  <2>2. n = [m EXCEPT !.refcnt = r]
    BY <1>1 DEF Mem
  <2>a. Put(m, b) = n
    BY <1>3 DEF Put
  <2> HIDE DEF n
  <2>3. /\ n \in Mem /\ n.type = m.type /\ n.use = m.use /\ n.pages = m.pages /\ n.node = m.node
        /\ n.pinned = m.pinned /\ n.kva = m.kva /\ n.upages = m.upages /\ n.attach = m.attach
        /\ n.oops = m.oops /\ n.refcnt = r
    <3> HIDE DEF r
    <3> QED BY <1>1, <2>1, <2>2 DEF Mem
  <2>4. HeapBufs(n) = HeapBufs(m) /\ (\A x : Live(n, x) <=> Live(m, x)) /\ ForeignCounted(n)
        /\ (\A x : PinsOf(n, x) = PinsOf(m, x)) /\ \A x : Pinnable(n, x) <=> Pinnable(m, x)
    BY <2>3, SameTypes DEF Sound
  <2>5. RefsCounted(n, h)
    BY <1>1, <1>2, <1>3, <2>1, <2>3, <2>4 DEF Sound, RefsCounted
  <2>6. PinsCounted(n, g)
    BY <2>3, <2>4 DEF Sound, PinsCounted, PinsOf
  <2>7. ObjectsFormed(n) /\ TablesCurrent(n, C)
    BY <2>3, <2>4 DEF Sound, ObjectsFormed, TablesCurrent
  <2> QED BY <2>1, <2>a, <2>3, <2>4, <2>5, <2>6, <2>7 DEF Sound, Dwindled
<1>4. CASE m.refcnt[b] = 1
  <2>1. f[b] = 1 /\ (b = dev_heap => HeapBufs(m) = {}) /\ g[b] = 0
    BY <1>1, <1>2, <1>4
  <2>2. m.type[b] = "heap" => HeapBufs(m) = {}
    BY <2>1 DEF Sound, ObjectsFormed
  <2>d. ASSUME NEW n, n.type = [m.type EXCEPT ![b] = "freed"]
        PROVE  Dwindled(m, n)
    BY <1>1, <2>d DEF Dwindled
  <2>3. CASE m.type[b] \in Shmem
    <3>1. Put(m, b) = ShmemFree(m, b)
      BY <1>4, <2>3 DEF Put, Shmem
    <3> QED BY <2>1, <2>2, <2>3, <2>d, <3>1, ShmemFreeSound
  <2>4. CASE m.type[b] = "dev"
    <3>1. Put(m, b) = DevFree(m, b)
      BY <1>4, <2>4 DEF Put, Shmem
    <3> QED BY <1>4, <2>1, <2>4, <2>d, <3>1, DevFreeSound
  <2>5. CASE m.type[b] = "guest"
    <3>1. Put(m, b) = GuestFree(m, b)
      BY <1>4, <2>5 DEF Put, Shmem
    <3> QED BY <2>1, <2>5, <2>d, <3>1, GuestFreeSound
  <2>6. CASE m.type[b] = "import"
    <3>1. Put(m, b) = ImportFree(m, b)
      BY <1>4, <2>6 DEF Put, Shmem
    <3> QED BY <2>1, <2>6, <2>d, <3>1, ImportFreeSound
  <2> QED BY <1>2, <2>3, <2>4, <2>5, <2>6 DEF Live, Type
<1> QED BY <1>1, <1>2, <1>3, <1>4
-----------------------------------------------------------------------------
(* Owners and users, as functions of what they are counted from: handles h, *)
(* dma-bufs e, mappings mp, job j, threads' objects a and steps p, the      *)
(* client's state c and context x.                                          *)
OwnersAt(h, e, mp, j, a, c, x) ==
    [b \in Bo |-> One(b \in h) + One(b \in e) + One(b \in mp) + One(b = j)
                  + Count({t \in Thread : a[t] = b}) + One(b = dev_heap /\ c = "open")
                  + One(b = x.heap) + One(b = x.buf)]
Flushers(m, p, a, b) == {t \in Thread : p[t] = "flush" /\ b \in PinTarget(m, a[t])}
UsersAt(m, mp, x, p, a) ==
    [b \in Bo |-> One(b \in mp) + One(b = x.heap /\ \A t \in Thread : p[t] # "ctx_pin")
                  + Count(Flushers(m, p, a, b))]
CurrentAt(x, bl) == {b \in Bo : b = x.buf \/ "munmap" \notin bl}

LEMMA OwnersType ==
    ASSUME NEW h, NEW e, NEW mp, NEW j, NEW a, NEW c, NEW x
    PROVE  OwnersAt(h, e, mp, j, a, c, x) \in [Bo -> Nat]
<1> SUFFICES ASSUME NEW b \in Bo
             PROVE  One(b \in h) + One(b \in e) + One(b \in mp) + One(b = j)
                    + Count({t \in Thread : a[t] = b}) + One(b = dev_heap /\ c = "open")
                    + One(b = x.heap) + One(b = x.buf) \in Nat
  BY DEF OwnersAt
<1>1. Count({t \in Thread : a[t] = b}) \in Nat
  BY CountsAreNat
<1>2. /\ One(b \in h) \in Nat /\ One(b \in e) \in Nat /\ One(b \in mp) \in Nat
      /\ One(b = j) \in Nat /\ One(b = dev_heap /\ c = "open") \in Nat
      /\ One(b = x.heap) \in Nat /\ One(b = x.buf) \in Nat
  BY DEF One
<1> QED BY <1>1, <1>2

LEMMA UsersType ==
    ASSUME NEW m, NEW mp, NEW x, NEW p, NEW a
    PROVE  UsersAt(m, mp, x, p, a) \in [Bo -> Nat]
<1>1. \A b : Count(Flushers(m, p, a, b)) \in Nat
  BY CountsAreNat DEF Flushers
<1>2. \A b \in Bo : One(b \in mp) + One(b = x.heap /\ \A t \in Thread : p[t] # "ctx_pin")
                    + Count(Flushers(m, p, a, b)) \in Nat
  BY <1>1 DEF One
<1> QED BY <1>2 DEF UsersAt

(* A user of an object's pages is one of its owners, or syncs a buffer of   *)
(* the heap.                                                                *)
LEMMA UsersOwn ==
    ASSUME NEW m, NEW h, NEW e, NEW mp, NEW j, NEW a, NEW c, NEW x, NEW p,
           \A t \in Thread : p[t] = "flush" => a[t] \in Bo,
           NEW b \in Bo, OwnersAt(h, e, mp, j, a, c, x)[b] = 0,
           b = dev_heap => HeapBufs(m) = {}
    PROVE  UsersAt(m, mp, x, p, a)[b] = 0
<1> DEFINE A == {t \in Thread : a[t] = b}
<1>1. Count(A) \in Nat /\ (Count(A) = 0 <=> A = {})
  BY CountsAreNat
<1>2. One(b \in h) + One(b \in e) + One(b \in mp) + One(b = j)
      + Count(A) + One(b = dev_heap /\ c = "open") + One(b = x.heap) + One(b = x.buf) = 0
  BY DEF OwnersAt
<1>3. b \notin mp /\ b # x.heap /\ A = {}
  <2> HIDE DEF A
  <2> QED BY <1>1, <1>2 DEF One
<1>4. Flushers(m, p, a, b) = {}
  <2> SUFFICES ASSUME NEW t \in Thread, p[t] = "flush", b \in PinTarget(m, a[t])
               PROVE  FALSE
    BY DEF Flushers
  <2>1. a[t] # b /\ a[t] \in Bo
    BY <1>3
  <2>2. m.type[a[t]] = "dev" /\ b = dev_heap
    BY <2>1 DEF PinTarget
  <2> QED BY <2>1, <2>2 DEF HeapBufs
<1>5. Count(Flushers(m, p, a, b)) = 0
  BY <1>4, CountsAreNat
<1> QED BY <1>3, <1>5 DEF UsersAt, One

(* The thread of an object is one of its owners.                           *)
LEMMA ThreadsOwn ==
    ASSUME NEW h, NEW e, NEW mp, NEW j, NEW a, NEW c, NEW x, NEW b \in Bo,
           \/ b \in h \/ b \in e \/ b \in mp \/ b = j \/ b = x.heap \/ b = x.buf
           \/ (b = dev_heap /\ c = "open")
           \/ \E t \in Thread : a[t] = b
    PROVE  OwnersAt(h, e, mp, j, a, c, x)[b] > 0
<1> DEFINE A == {t \in Thread : a[t] = b}
<1>1. Count(A) \in Nat /\ (Count(A) = 0 <=> A = {})
  BY CountsAreNat
<1>2. OwnersAt(h, e, mp, j, a, c, x)[b] = One(b \in h) + One(b \in e) + One(b \in mp) + One(b = j)
      + Count(A) + One(b = dev_heap /\ c = "open") + One(b = x.heap) + One(b = x.buf)
  BY DEF OwnersAt
<1>3. (\E t \in Thread : a[t] = b) => A # {}
  OBVIOUS
<1> HIDE DEF A
<1> QED BY <1>1, <1>2, <1>3 DEF One

(* What is pinned for the syncs depends on the types of their objects.     *)
LEMMA UsersKeep ==
    ASSUME NEW m, NEW n, NEW mp, NEW x, NEW p, NEW a,
           \A t \in Thread : p[t] = "flush" => n.type[a[t]] = m.type[a[t]]
    PROVE  UsersAt(n, mp, x, p, a) = UsersAt(m, mp, x, p, a)
<1>1. \A b : Flushers(n, p, a, b) = Flushers(m, p, a, b)
  BY DEF Flushers, PinTarget
<1> QED BY <1>1 DEF UsersAt

(* An owned object of a sound memory is live.                              *)
LEMMA OwnedLive ==
    ASSUME NEW m, NEW f, NEW g, NEW C, Sound(m, f, g, C), NEW b \in Bo, f[b] > 0
    PROVE  Live(m, b) /\ m.type[b] # "freed" /\ m.type[b] # "none"
<1>1. Live(m, b)
  BY DEF Sound, RefsCounted
<1> QED BY <1>1 DEF Live, Type, Shmem

SoundAt(m, h, e, mp, j, a, c, x, p, bl) ==
    Sound(m, OwnersAt(h, e, mp, j, a, c, x), UsersAt(m, mp, x, p, a), CurrentAt(x, bl))
IInv == RefsInv /\ PinsInv

(* The invariant in these terms ...                                        *)
LEMMA PreSound ==
    ASSUME IInv, Alive
    PROVE  SoundAt(mem, handle, exported, mapped, job, arg, client, ctx, pc, blame)
<1> DEFINE f == OwnersAt(handle, exported, mapped, job, arg, client, ctx)
           g == UsersAt(mem, mapped, ctx, pc, arg)
           C == CurrentAt(ctx, blame)
<1>1. Owners = f
  BY DEF Owners, OwnersAt, Holders
<1>2. Users = g
  BY DEF Users, UsersAt, Flushers
<1>3. Current = C /\ C \subseteq Bo
  BY DEF Current, CurrentAt
<1>4. f \in [Bo -> Nat] /\ g \in [Bo -> Nat]
  BY OwnersType, UsersType
<1>5. ASSUME NEW b \in C, mem.type[b] = "dev"
      PROVE  g[dev_heap] > 0
  <2>1. dev_heap \in Bo
    BY <1>3, <1>5 DEF IInv, RefsInv, ObjectsSound, ObjectsFormed
  <2>2. Count(Flushers(mem, pc, arg, dev_heap)) \in Nat
    BY CountsAreNat DEF Flushers
  <2>3. g[dev_heap] = One(dev_heap \in mapped)
                      + One(dev_heap = ctx.heap /\ \A t \in Thread : pc[t] # "ctx_pin")
                      + Count(Flushers(mem, pc, arg, dev_heap))
    BY <2>1 DEF UsersAt
  <2>4. CASE "munmap" \notin blame
    <3>1. dev_heap \in mapped
      BY <1>3, <1>5, <2>4 DEF IInv, RefsInv, ObjectsSound, HeapBufs
    <3> QED BY <2>2, <2>3, <3>1 DEF One
  <2>5. CASE b = ctx.buf
    <3>1. ctx.buf # NoBo
      BY <1>3, <2>5 DEF NoBo, Bo
    <3>2. dev_heap = ctx.heap
      BY <3>1 DEF IInv, RefsInv, ClientSound
    <3>3. \A t \in Thread : pc[t] # "ctx_pin"
      BY <3>1 DEF IInv, RefsInv, ThreadsSound, CtxSteps
    <3> QED BY <2>2, <2>3, <3>2, <3>3 DEF One
  <2> QED BY <1>5, <2>4, <2>5 DEF CurrentAt
<1>6. /\ mem \in Mem /\ mem.oops = "no" /\ RefsCounted(mem, f) /\ PinsCounted(mem, g)
      /\ ForeignCounted(mem) /\ ObjectsFormed(mem) /\ TablesCurrent(mem, C)
  <2> HIDE DEF f, g, C
  <2> QED BY <1>1, <1>2, <1>3 DEF IInv, RefsInv, PinsInv, RefsExact, PinsExact, ForeignRefsExact,
        ObjectsSound, CmdBufPagesCurrent, Alive, TypeOK
<1> HIDE DEF f, g, C
<1>7. Sound(mem, f, g, C)
  BY <1>3, <1>4, <1>5, <1>6 DEF Sound
<1> QED BY <1>7 DEF SoundAt, f, g, C

(* ... and back, after a step that keeps the heap.                         *)
LEMMA PostSound ==
    ASSUME dev_heap' = dev_heap,
           SoundAt(mem', handle', exported', mapped', job', arg', client', ctx', pc', blame')
    PROVE  /\ RefsExact' /\ PinsExact' /\ CmdBufPagesCurrent' /\ ForeignRefsExact'
           /\ ObjectsFormed(mem)' /\ mem' \in Mem
<1> DEFINE f == OwnersAt(handle', exported', mapped', job', arg', client', ctx')
           g == UsersAt(mem', mapped', ctx', pc', arg')
           C == CurrentAt(ctx', blame')
<1>1. Owners' = f
  BY DEF Owners, OwnersAt, Holders
<1>2. Users' = g
  BY DEF Users, UsersAt, Flushers, PinTarget
<1>3. Current' = C
  BY DEF Current, CurrentAt
<1> HIDE DEF f, g, C
<1>4. Sound(mem', f, g, C)
  BY DEF SoundAt, f, g, C
<1>5. RefsExact'
  BY <1>1, <1>4 DEF RefsExact, Sound, RefsCounted, Live, HeapBufs
<1>6. PinsExact'
  <2>1. \A b : {x \in mem'.pinned : b \in PinTarget(mem, x)'} = PinsOf(mem', b)
    BY DEF PinsOf, PinTarget
  <2> QED BY <1>2, <1>4, <2>1 DEF PinsExact, Sound, PinsCounted, PinsOf
<1>7. CmdBufPagesCurrent'
  BY <1>3, <1>4 DEF CmdBufPagesCurrent, Sound, TablesCurrent
<1>8. ForeignRefsExact'
  BY <1>4 DEF ForeignRefsExact, Sound, ForeignCounted
<1>9. ObjectsFormed(mem)' /\ mem' \in Mem
  BY <1>4 DEF ObjectsFormed, Sound, Pinnable
<1> QED BY <1>5, <1>6, <1>7, <1>8, <1>9

(* A put, where all but mem is already as after the step.                  *)
CanPut(m, f, h, e, mp, j, a, c, x, p, C, b) ==
    /\ Sound(m, f, UsersAt(m, mp, x, p, a), C) /\ b \in Bo /\ f[b] > 0
    /\ OwnersAt(h, e, mp, j, a, c, x) = [f EXCEPT ![b] = @ - 1]
    /\ \A t \in Thread : p[t] = "flush" => a[t] \in Bo
    /\ m.type[b] = "dev" /\ m.refcnt[b] = 1 => client = "open" /\ f[dev_heap] > 0
LEMMA PutStep ==
    ASSUME NEW m, NEW f, NEW h, NEW e, NEW mp, NEW j, NEW a, NEW c, NEW x, NEW p, NEW C, NEW b,
           CanPut(m, f, h, e, mp, j, a, c, x, p, C, b)
    PROVE  /\ Sound(Put(m, b), OwnersAt(h, e, mp, j, a, c, x),
                    UsersAt(Put(m, b), mp, x, p, a), C)
           /\ Dwindled(m, Put(m, b))
<1>0. /\ Sound(m, f, UsersAt(m, mp, x, p, a), C) /\ b \in Bo /\ f[b] > 0
      /\ OwnersAt(h, e, mp, j, a, c, x) = [f EXCEPT ![b] = @ - 1]
      /\ \A t \in Thread : p[t] = "flush" => a[t] \in Bo
      /\ m.type[b] = "dev" /\ m.refcnt[b] = 1 => client = "open" /\ f[dev_heap] > 0
  BY DEF CanPut
<1> DEFINE F == OwnersAt(h, e, mp, j, a, c, x)
           g == UsersAt(m, mp, x, p, a)
           n == Put(m, b)
<1>1. f \in [Bo -> Nat] /\ F = [f EXCEPT ![b] = @ - 1]
  BY <1>0 DEF Sound
<1>2. f[b] = 1 /\ (b = dev_heap => HeapBufs(m) = {}) => g[b] = 0
  <2>1. f[b] = 1 => F[b] = 0
    BY <1>0, <1>1
  <2> QED BY <1>0, <2>1, UsersOwn
<1> HIDE DEF g
<1>3. Sound(n, F, g, C) /\ Dwindled(m, n)
  <2>1. Sound(m, f, g, C)
    BY <1>0 DEF g
  <2> HIDE DEF F
  <2>2. Sound(Put(m, b), [f EXCEPT ![b] = @ - 1], g, C) /\ Dwindled(m, Put(m, b))
    BY <1>0, <1>2, <2>1, PutSound
  <2> QED BY <1>1, <2>2
<1>4. \A t \in Thread : p[t] = "flush" => n.type[a[t]] = m.type[a[t]]
  <2> SUFFICES ASSUME NEW t \in Thread, p[t] = "flush"
               PROVE  n.type[a[t]] = m.type[a[t]]
    OBVIOUS
  <2>1. a[t] \in Bo /\ F[a[t]] > 0
    BY <1>0, ThreadsOwn
  <2> HIDE DEF F, n
  <2>2. n.type[a[t]] # "freed"
    BY <1>3, <2>1, OwnedLive
  <2> QED BY <1>3, <2>1, <2>2 DEF Dwindled
<1>5. UsersAt(n, mp, x, p, a) = g
  BY <1>4, UsersKeep DEF g
<1> QED BY <1>3, <1>5

(* An object that is still owned keeps its type.                           *)
LEMMA TypesFixed ==
    ASSUME NEW m, NEW n, Dwindled(m, n), NEW h, NEW e, NEW mp, NEW j, NEW a, NEW c, NEW x,
           NEW p, NEW bl, SoundAt(n, h, e, mp, j, a, c, x, p, bl)
    PROVE  /\ \A b \in Bo : (\/ b \in h \/ b \in e \/ b \in mp \/ b = j \/ b = x.heap \/ b = x.buf
                             \/ \E t \in Thread : a[t] = b) => n.type[b] = m.type[b]
           /\ HeapBufs(n) \subseteq HeapBufs(m)
<1>1. ASSUME NEW b \in Bo, \/ b \in h \/ b \in e \/ b \in mp \/ b = j \/ b = x.heap \/ b = x.buf
                           \/ \E t \in Thread : a[t] = b
      PROVE  n.type[b] = m.type[b]
  <2>1. OwnersAt(h, e, mp, j, a, c, x)[b] > 0
    BY <1>1, ThreadsOwn
  <2>2. n.type[b] # "freed"
    BY <2>1, OwnedLive DEF SoundAt
  <2> QED BY <2>2 DEF Dwindled
<1>2. HeapBufs(n) \subseteq HeapBufs(m)
  BY DEF HeapBufs, Dwindled
<1> QED BY <1>1, <1>2

(* F counts one owner of b more than f.                                    *)
OneMore(f, F, b) ==
    /\ f \in [Bo -> Nat] /\ F \in [Bo -> Nat]
    /\ F = [f EXCEPT ![b] = @ + 1] /\ f = [F EXCEPT ![b] = @ - 1] /\ F[b] > 0

LEMMA OneMoreIs ==
    ASSUME NEW f \in [Bo -> Nat], NEW F \in [Bo -> Nat], NEW b \in Bo,
           \A y \in Bo : F[y] = IF y = b THEN f[y] + 1 ELSE f[y]
    PROVE  OneMore(f, F, b)
<1>1. F = [y \in Bo |-> F[y]] /\ f = [y \in Bo |-> f[y]]
  OBVIOUS
<1>2. \A y \in Bo : F[y] = [f EXCEPT ![b] = @ + 1][y] /\ f[y] = [F EXCEPT ![b] = @ - 1][y]
  OBVIOUS
<1>3. F = [f EXCEPT ![b] = @ + 1]
  BY <1>1, <1>2
<1>4. f = [F EXCEPT ![b] = @ - 1]
  BY <1>1, <1>2
<1>5. F[b] > 0
  OBVIOUS
<1> QED BY <1>3, <1>4, <1>5 DEF OneMore

(* A handle ...                                                            *)
LEMMA OwnHandle ==
    ASSUME NEW h, NEW e, NEW mp, NEW j, NEW a, NEW c, NEW x, NEW b \in Bo, b \notin h
    PROVE  OneMore(OwnersAt(h, e, mp, j, a, c, x),
                   OwnersAt((h \cup {b}), e, mp, j, a, c, x), b)
<1> DEFINE f == OwnersAt(h, e, mp, j, a, c, x)
           F == OwnersAt((h \cup {b}), e, mp, j, a, c, x)
<1>1. f \in [Bo -> Nat] /\ F \in [Bo -> Nat]
  BY OwnersType
<1>2. ASSUME NEW y \in Bo
      PROVE  F[y] = IF y = b THEN f[y] + 1 ELSE f[y]
  <2>1. /\ f[y] = One(y \in h) + One(y \in e) + One(y \in mp) + One(y = j)
                   + Count({t \in Thread : a[t] = y}) + One(y = dev_heap /\ c = "open") + One(y = x.heap) + One(y = x.buf)
        /\ F[y] = One(y \in (h \cup {b})) + One(y \in e) + One(y \in mp) + One(y = j)
                   + Count({t \in Thread : a[t] = y}) + One(y = dev_heap /\ c = "open") + One(y = x.heap) + One(y = x.buf)
    BY DEF OwnersAt
  <2>2. One(y \in h) \in Nat /\ One(y \in e) \in Nat /\ One(y \in mp) \in Nat
        /\ One(y = j) \in Nat /\ One(y = dev_heap /\ c = "open") \in Nat
        /\ One(y = x.heap) \in Nat /\ One(y = x.buf) \in Nat
    BY DEF One
  <2>3. Count({t \in Thread : a[t] = y}) \in Nat
    BY CountsAreNat
  <2>4. One(y \in (h \cup {b})) = IF y = b THEN One(y \in h) + 1 ELSE One(y \in h)
    BY DEF One
  <2> QED BY <2>1, <2>2, <2>3, <2>4
<1> HIDE DEF f, F
<1>3. OneMore(f, F, b)
  BY <1>1, <1>2, OneMoreIs
<1> QED BY <1>3 DEF f, F

(* ... a dma-buf ...                                                       *)
LEMMA OwnExport ==
    ASSUME NEW h, NEW e, NEW mp, NEW j, NEW a, NEW c, NEW x, NEW b \in Bo, b \notin e
    PROVE  OneMore(OwnersAt(h, e, mp, j, a, c, x),
                   OwnersAt(h, (e \cup {b}), mp, j, a, c, x), b)
<1> DEFINE f == OwnersAt(h, e, mp, j, a, c, x)
           F == OwnersAt(h, (e \cup {b}), mp, j, a, c, x)
<1>1. f \in [Bo -> Nat] /\ F \in [Bo -> Nat]
  BY OwnersType
<1>2. ASSUME NEW y \in Bo
      PROVE  F[y] = IF y = b THEN f[y] + 1 ELSE f[y]
  <2>1. /\ f[y] = One(y \in h) + One(y \in e) + One(y \in mp) + One(y = j)
                   + Count({t \in Thread : a[t] = y}) + One(y = dev_heap /\ c = "open") + One(y = x.heap) + One(y = x.buf)
        /\ F[y] = One(y \in h) + One(y \in (e \cup {b})) + One(y \in mp) + One(y = j)
                   + Count({t \in Thread : a[t] = y}) + One(y = dev_heap /\ c = "open") + One(y = x.heap) + One(y = x.buf)
    BY DEF OwnersAt
  <2>2. One(y \in h) \in Nat /\ One(y \in e) \in Nat /\ One(y \in mp) \in Nat
        /\ One(y = j) \in Nat /\ One(y = dev_heap /\ c = "open") \in Nat
        /\ One(y = x.heap) \in Nat /\ One(y = x.buf) \in Nat
    BY DEF One
  <2>3. Count({t \in Thread : a[t] = y}) \in Nat
    BY CountsAreNat
  <2>4. One(y \in (e \cup {b})) = IF y = b THEN One(y \in e) + 1 ELSE One(y \in e)
    BY DEF One
  <2> QED BY <2>1, <2>2, <2>3, <2>4
<1> HIDE DEF f, F
<1>3. OneMore(f, F, b)
  BY <1>1, <1>2, OneMoreIs
<1> QED BY <1>3 DEF f, F

(* ... a mapping ...                                                       *)
LEMMA OwnMapped ==
    ASSUME NEW h, NEW e, NEW mp, NEW j, NEW a, NEW c, NEW x, NEW b \in Bo, b \notin mp
    PROVE  OneMore(OwnersAt(h, e, mp, j, a, c, x),
                   OwnersAt(h, e, (mp \cup {b}), j, a, c, x), b)
<1> DEFINE f == OwnersAt(h, e, mp, j, a, c, x)
           F == OwnersAt(h, e, (mp \cup {b}), j, a, c, x)
<1>1. f \in [Bo -> Nat] /\ F \in [Bo -> Nat]
  BY OwnersType
<1>2. ASSUME NEW y \in Bo
      PROVE  F[y] = IF y = b THEN f[y] + 1 ELSE f[y]
  <2>1. /\ f[y] = One(y \in h) + One(y \in e) + One(y \in mp) + One(y = j)
                   + Count({t \in Thread : a[t] = y}) + One(y = dev_heap /\ c = "open") + One(y = x.heap) + One(y = x.buf)
        /\ F[y] = One(y \in h) + One(y \in e) + One(y \in (mp \cup {b})) + One(y = j)
                   + Count({t \in Thread : a[t] = y}) + One(y = dev_heap /\ c = "open") + One(y = x.heap) + One(y = x.buf)
    BY DEF OwnersAt
  <2>2. One(y \in h) \in Nat /\ One(y \in e) \in Nat /\ One(y \in mp) \in Nat
        /\ One(y = j) \in Nat /\ One(y = dev_heap /\ c = "open") \in Nat
        /\ One(y = x.heap) \in Nat /\ One(y = x.buf) \in Nat
    BY DEF One
  <2>3. Count({t \in Thread : a[t] = y}) \in Nat
    BY CountsAreNat
  <2>4. One(y \in (mp \cup {b})) = IF y = b THEN One(y \in mp) + 1 ELSE One(y \in mp)
    BY DEF One
  <2> QED BY <2>1, <2>2, <2>3, <2>4
<1> HIDE DEF f, F
<1>3. OneMore(f, F, b)
  BY <1>1, <1>2, OneMoreIs
<1> QED BY <1>3 DEF f, F

(* ... a job ...                                                           *)
LEMMA OwnJob ==
    ASSUME NEW h, NEW e, NEW mp, NEW j, NEW a, NEW c, NEW x, NEW b \in Bo, j = NoBo
    PROVE  OneMore(OwnersAt(h, e, mp, j, a, c, x),
                   OwnersAt(h, e, mp, b, a, c, x), b)
<1> DEFINE f == OwnersAt(h, e, mp, j, a, c, x)
           F == OwnersAt(h, e, mp, b, a, c, x)
<1>1. f \in [Bo -> Nat] /\ F \in [Bo -> Nat]
  BY OwnersType
<1>2. ASSUME NEW y \in Bo
      PROVE  F[y] = IF y = b THEN f[y] + 1 ELSE f[y]
  <2>1. /\ f[y] = One(y \in h) + One(y \in e) + One(y \in mp) + One(y = j)
                   + Count({t \in Thread : a[t] = y}) + One(y = dev_heap /\ c = "open") + One(y = x.heap) + One(y = x.buf)
        /\ F[y] = One(y \in h) + One(y \in e) + One(y \in mp) + One(y = b)
                   + Count({t \in Thread : a[t] = y}) + One(y = dev_heap /\ c = "open") + One(y = x.heap) + One(y = x.buf)
    BY DEF OwnersAt
  <2>2. One(y \in h) \in Nat /\ One(y \in e) \in Nat /\ One(y \in mp) \in Nat
        /\ One(y = j) \in Nat /\ One(y = dev_heap /\ c = "open") \in Nat
        /\ One(y = x.heap) \in Nat /\ One(y = x.buf) \in Nat
    BY DEF One
  <2>3. Count({t \in Thread : a[t] = y}) \in Nat
    BY CountsAreNat
  <2>4. One(y = b) = IF y = b THEN One(y = j) + 1 ELSE One(y = j)
    BY DEF One, NoBo, Bo
  <2> QED BY <2>1, <2>2, <2>3, <2>4
<1> HIDE DEF f, F
<1>3. OneMore(f, F, b)
  BY <1>1, <1>2, OneMoreIs
<1> QED BY <1>3 DEF f, F

(* ... a thread ...                                                        *)
LEMMA OwnThread ==
    ASSUME NEW h, NEW e, NEW mp, NEW j, NEW a, NEW c, NEW x, NEW b \in Bo,
           a \in [Thread -> Bo \cup {NoBo}], NEW s \in Thread, a[s] = NoBo, NEW a2,
           a2 = [a EXCEPT ![s] = b]
    PROVE  OneMore(OwnersAt(h, e, mp, j, a, c, x),
                   OwnersAt(h, e, mp, j, a2, c, x), b)
<1> DEFINE f == OwnersAt(h, e, mp, j, a, c, x)
           F == OwnersAt(h, e, mp, j, a2, c, x)
<1>1. f \in [Bo -> Nat] /\ F \in [Bo -> Nat]
  BY OwnersType
<1>2. ASSUME NEW y \in Bo
      PROVE  F[y] = IF y = b THEN f[y] + 1 ELSE f[y]
  <2>1. /\ f[y] = One(y \in h) + One(y \in e) + One(y \in mp) + One(y = j)
                   + Count({t \in Thread : a[t] = y}) + One(y = dev_heap /\ c = "open") + One(y = x.heap) + One(y = x.buf)
        /\ F[y] = One(y \in h) + One(y \in e) + One(y \in mp) + One(y = j)
                   + Count({t \in Thread : a2[t] = y}) + One(y = dev_heap /\ c = "open") + One(y = x.heap) + One(y = x.buf)
    BY DEF OwnersAt
  <2>2. One(y \in h) \in Nat /\ One(y \in e) \in Nat /\ One(y \in mp) \in Nat
        /\ One(y = j) \in Nat /\ One(y = dev_heap /\ c = "open") \in Nat
        /\ One(y = x.heap) \in Nat /\ One(y = x.buf) \in Nat
    BY DEF One
  <2>3. Count({t \in Thread : a[t] = y}) \in Nat
    BY CountsAreNat
  <2>4. Count({t \in Thread : a2[t] = y}) = IF y = b THEN Count({t \in Thread : a[t] = y}) + 1 ELSE Count({t \in Thread : a[t] = y})
    <3> DEFINE S == {t \in Thread : a[t] = y}
               T == {t \in Thread : a2[t] = y}
    <3>1. S \ {s} = T \ {s} /\ (s \in T <=> y = b) /\ s \notin S
      BY DEF NoBo, Bo
    <3>2. IsFiniteSet(S)
      BY CountsAreNat
    <3> HIDE DEF S, T
    <3>3. Count(S) \in Nat /\ Count(T) = Count(S) - One(s \in S) + One(s \in T)
      BY <3>1, <3>2, CountDiffers
    <3>4. Count(T) = IF y = b THEN Count(S) + 1 ELSE Count(S)
      BY <3>1, <3>3 DEF One
    <3> QED BY <3>4 DEF S, T
  <2> QED BY <2>1, <2>2, <2>3, <2>4
<1> HIDE DEF f, F
<1>3. OneMore(f, F, b)
  BY <1>1, <1>2, OneMoreIs
<1> QED BY <1>3 DEF f, F

(* ... the client ...                                                      *)
LEMMA OwnClient ==
    ASSUME NEW h, NEW e, NEW mp, NEW j, NEW a, NEW c, NEW x, NEW b \in Bo, b = dev_heap
    PROVE  OneMore(OwnersAt(h, e, mp, j, a, "closed", x),
                   OwnersAt(h, e, mp, j, a, "open", x), b)
<1> DEFINE f == OwnersAt(h, e, mp, j, a, "closed", x)
           F == OwnersAt(h, e, mp, j, a, "open", x)
<1>1. f \in [Bo -> Nat] /\ F \in [Bo -> Nat]
  BY OwnersType
<1>2. ASSUME NEW y \in Bo
      PROVE  F[y] = IF y = b THEN f[y] + 1 ELSE f[y]
  <2>1. /\ f[y] = One(y \in h) + One(y \in e) + One(y \in mp) + One(y = j)
                   + Count({t \in Thread : a[t] = y}) + One(y = dev_heap /\ "closed" = "open") + One(y = x.heap) + One(y = x.buf)
        /\ F[y] = One(y \in h) + One(y \in e) + One(y \in mp) + One(y = j)
                   + Count({t \in Thread : a[t] = y}) + One(y = dev_heap /\ "open" = "open") + One(y = x.heap) + One(y = x.buf)
    BY DEF OwnersAt
  <2>2. One(y \in h) \in Nat /\ One(y \in e) \in Nat /\ One(y \in mp) \in Nat
        /\ One(y = j) \in Nat /\ One(y = dev_heap /\ "closed" = "open") \in Nat
        /\ One(y = x.heap) \in Nat /\ One(y = x.buf) \in Nat
    BY DEF One
  <2>3. Count({t \in Thread : a[t] = y}) \in Nat
    BY CountsAreNat
  <2>4. One(y = dev_heap /\ "open" = "open") = IF y = b THEN One(y = dev_heap /\ "closed" = "open") + 1 ELSE One(y = dev_heap /\ "closed" = "open")
    BY DEF One
  <2> QED BY <2>1, <2>2, <2>3, <2>4
<1> HIDE DEF f, F
<1>3. OneMore(f, F, b)
  BY <1>1, <1>2, OneMoreIs
<1> QED BY <1>3 DEF f, F

(* ... a context, of its heap ...                                          *)
LEMMA OwnCtxHeap ==
    ASSUME NEW h, NEW e, NEW mp, NEW j, NEW a, NEW c, NEW x, NEW b \in Bo, NEW z,
           x.heap = NoBo, z.heap = b, z.buf = x.buf
    PROVE  OneMore(OwnersAt(h, e, mp, j, a, c, x),
                   OwnersAt(h, e, mp, j, a, c, z), b)
<1> DEFINE f == OwnersAt(h, e, mp, j, a, c, x)
           F == OwnersAt(h, e, mp, j, a, c, z)
<1>1. f \in [Bo -> Nat] /\ F \in [Bo -> Nat]
  BY OwnersType
<1>2. ASSUME NEW y \in Bo
      PROVE  F[y] = IF y = b THEN f[y] + 1 ELSE f[y]
  <2>1. /\ f[y] = One(y \in h) + One(y \in e) + One(y \in mp) + One(y = j)
                   + Count({t \in Thread : a[t] = y}) + One(y = dev_heap /\ c = "open") + One(y = x.heap) + One(y = x.buf)
        /\ F[y] = One(y \in h) + One(y \in e) + One(y \in mp) + One(y = j)
                   + Count({t \in Thread : a[t] = y}) + One(y = dev_heap /\ c = "open") + One(y = z.heap) + One(y = z.buf)
    BY DEF OwnersAt
  <2>2. One(y \in h) \in Nat /\ One(y \in e) \in Nat /\ One(y \in mp) \in Nat
        /\ One(y = j) \in Nat /\ One(y = dev_heap /\ c = "open") \in Nat
        /\ One(y = x.heap) \in Nat /\ One(y = x.buf) \in Nat
    BY DEF One
  <2>3. Count({t \in Thread : a[t] = y}) \in Nat
    BY CountsAreNat
  <2>4. One(y = z.heap) = IF y = b THEN One(y = x.heap) + 1 ELSE One(y = x.heap)
    BY DEF One, NoBo, Bo
  <2>5. One(y = z.buf) = One(y = x.buf)
    BY DEF One
  <2> QED BY <2>1, <2>2, <2>3, <2>4, <2>5
<1> HIDE DEF f, F
<1>3. OneMore(f, F, b)
  BY <1>1, <1>2, OneMoreIs
<1> QED BY <1>3 DEF f, F

(* ... and of its command buffer.                                          *)
LEMMA OwnCtxBuf ==
    ASSUME NEW h, NEW e, NEW mp, NEW j, NEW a, NEW c, NEW x, NEW b \in Bo, NEW z,
           x.buf = NoBo, z.buf = b, z.heap = x.heap
    PROVE  OneMore(OwnersAt(h, e, mp, j, a, c, x),
                   OwnersAt(h, e, mp, j, a, c, z), b)
<1> DEFINE f == OwnersAt(h, e, mp, j, a, c, x)
           F == OwnersAt(h, e, mp, j, a, c, z)
<1>1. f \in [Bo -> Nat] /\ F \in [Bo -> Nat]
  BY OwnersType
<1>2. ASSUME NEW y \in Bo
      PROVE  F[y] = IF y = b THEN f[y] + 1 ELSE f[y]
  <2>1. /\ f[y] = One(y \in h) + One(y \in e) + One(y \in mp) + One(y = j)
                   + Count({t \in Thread : a[t] = y}) + One(y = dev_heap /\ c = "open") + One(y = x.heap) + One(y = x.buf)
        /\ F[y] = One(y \in h) + One(y \in e) + One(y \in mp) + One(y = j)
                   + Count({t \in Thread : a[t] = y}) + One(y = dev_heap /\ c = "open") + One(y = z.heap) + One(y = z.buf)
    BY DEF OwnersAt
  <2>2. One(y \in h) \in Nat /\ One(y \in e) \in Nat /\ One(y \in mp) \in Nat
        /\ One(y = j) \in Nat /\ One(y = dev_heap /\ c = "open") \in Nat
        /\ One(y = x.heap) \in Nat /\ One(y = x.buf) \in Nat
    BY DEF One
  <2>3. Count({t \in Thread : a[t] = y}) \in Nat
    BY CountsAreNat
  <2>4. One(y = z.buf) = IF y = b THEN One(y = x.buf) + 1 ELSE One(y = x.buf)
    BY DEF One, NoBo, Bo
  <2>5. One(y = z.heap) = One(y = x.heap)
    BY DEF One
  <2> QED BY <2>1, <2>2, <2>3, <2>4, <2>5
<1> HIDE DEF f, F
<1>3. OneMore(f, F, b)
  BY <1>1, <1>2, OneMoreIs
<1> QED BY <1>3 DEF f, F

(* The users of pages, when no mapping, context or sync comes or goes.     *)
SameUses(x, p, a, z, q, d) ==
    /\ \A t \in Thread : (q[t] = "flush" <=> p[t] = "flush") /\ (p[t] = "flush" => d[t] = a[t])
    /\ \A y \in Bo : (y = z.heap /\ \A t \in Thread : q[t] # "ctx_pin")
                      <=> (y = x.heap /\ \A t \in Thread : p[t] # "ctx_pin")
LEMMA UsersSame ==
    ASSUME NEW m, NEW mp, NEW x, NEW p, NEW a, NEW z, NEW q, NEW d, SameUses(x, p, a, z, q, d)
    PROVE  UsersAt(m, mp, z, q, d) = UsersAt(m, mp, x, p, a)
<1> USE DEF SameUses
<1>1. \A y : Flushers(m, q, d, y) = Flushers(m, p, a, y)
  BY DEF Flushers
<1>2. \A y \in Bo : One(y = z.heap /\ \A t \in Thread : q[t] # "ctx_pin")
                    = One(y = x.heap /\ \A t \in Thread : p[t] # "ctx_pin")
  BY DEF One
<1> QED BY <1>1, <1>2 DEF UsersAt

(* A mapping uses the pages ...                                            *)
LEMMA UsersMapped ==
    ASSUME NEW m, NEW mp, NEW x, NEW p, NEW a, NEW b \in Bo, b \notin mp
    PROVE  OneMore(UsersAt(m, mp, x, p, a), UsersAt(m, (mp \cup {b}), x, p, a), b)
<1> DEFINE f == UsersAt(m, mp, x, p, a)
           F == UsersAt(m, (mp \cup {b}), x, p, a)
<1>1. f \in [Bo -> Nat] /\ F \in [Bo -> Nat]
  BY UsersType
<1>2. ASSUME NEW y \in Bo
      PROVE  F[y] = IF y = b THEN f[y] + 1 ELSE f[y]
  <2>1. /\ f[y] = One(y \in mp) + One(y = x.heap /\ \A t \in Thread : p[t] # "ctx_pin")
                   + Count(Flushers(m, p, a, y))
        /\ F[y] = One(y \in (mp \cup {b})) + One(y = x.heap /\ \A t \in Thread : p[t] # "ctx_pin")
                   + Count(Flushers(m, p, a, y))
    BY DEF UsersAt
  <2>2. One(y \in mp) \in Nat /\ One(y = x.heap /\ \A t \in Thread : p[t] # "ctx_pin") \in Nat
    BY DEF One
  <2>3. Count(Flushers(m, p, a, y)) \in Nat
    BY CountsAreNat DEF Flushers
  <2>4. One(y \in mp \cup {b}) = IF y = b THEN One(y \in mp) + 1 ELSE One(y \in mp)
    BY DEF One
  <2> QED BY <2>1, <2>2, <2>3, <2>4
<1> HIDE DEF f, F
<1>3. OneMore(f, F, b)
  BY <1>1, <1>2, OneMoreIs
<1> QED BY <1>3 DEF f, F

(* ... a context ...                                                       *)
LEMMA UsersCtx ==
    ASSUME NEW m, NEW mp, NEW x, NEW p, NEW a, NEW b \in Bo, NEW z, NEW q, NEW d,
           \A t \in Thread : (q[t] = "flush" <=> p[t] = "flush") /\ (p[t] = "flush" => d[t] = a[t]),
           z.heap = b, \A t \in Thread : q[t] # "ctx_pin",
           x.heap = NoBo \/ (x.heap = b /\ \E t \in Thread : p[t] = "ctx_pin")
    PROVE  OneMore(UsersAt(m, mp, x, p, a), UsersAt(m, mp, z, q, d), b)
<1> DEFINE f == UsersAt(m, mp, x, p, a)
           F == UsersAt(m, mp, z, q, d)
<1>1. f \in [Bo -> Nat] /\ F \in [Bo -> Nat]
  BY UsersType
<1>2. ASSUME NEW y \in Bo
      PROVE  F[y] = IF y = b THEN f[y] + 1 ELSE f[y]
  <2>1. /\ f[y] = One(y \in mp) + One(y = x.heap /\ \A t \in Thread : p[t] # "ctx_pin")
                   + Count(Flushers(m, p, a, y))
        /\ F[y] = One(y \in mp) + One(y = z.heap /\ \A t \in Thread : q[t] # "ctx_pin")
                   + Count(Flushers(m, q, d, y))
    BY DEF UsersAt
  <2>2. One(y \in mp) \in Nat /\ One(y = x.heap /\ \A t \in Thread : p[t] # "ctx_pin") \in Nat
    BY DEF One
  <2>3. Count(Flushers(m, p, a, y)) \in Nat
    BY CountsAreNat DEF Flushers
  <2>4. Flushers(m, q, d, y) = Flushers(m, p, a, y)
    BY DEF Flushers
  <2>5. One(y = x.heap /\ \A t \in Thread : p[t] # "ctx_pin") = 0
    BY DEF One, NoBo, Bo
  <2>6. One(y = z.heap /\ \A t \in Thread : q[t] # "ctx_pin") = IF y = b THEN 1 ELSE 0
    BY DEF One
  <2> QED BY <2>1, <2>2, <2>3, <2>4, <2>5, <2>6
<1> HIDE DEF f, F
<1>3. OneMore(f, F, b)
  BY <1>1, <1>2, OneMoreIs
<1> QED BY <1>3 DEF f, F

(* ... and a sync.                                                         *)
LEMMA UsersFlush ==
    ASSUME NEW m, NEW mp, NEW x, NEW p, NEW a, NEW b \in Bo, NEW q, NEW d, NEW s \in Thread,
           \A t \in Thread : t # s => (q[t] = "flush" <=> p[t] = "flush") /\ d[t] = a[t],
           p[s] # "flush", q[s] = "flush", PinTarget(m, d[s]) = {b},
           (\A t \in Thread : q[t] # "ctx_pin") <=> (\A t \in Thread : p[t] # "ctx_pin")
    PROVE  OneMore(UsersAt(m, mp, x, p, a), UsersAt(m, mp, x, q, d), b)
<1> DEFINE f == UsersAt(m, mp, x, p, a)
           F == UsersAt(m, mp, x, q, d)
<1>1. f \in [Bo -> Nat] /\ F \in [Bo -> Nat]
  BY UsersType
<1>2. ASSUME NEW y \in Bo
      PROVE  F[y] = IF y = b THEN f[y] + 1 ELSE f[y]
  <2>1. /\ f[y] = One(y \in mp) + One(y = x.heap /\ \A t \in Thread : p[t] # "ctx_pin")
                   + Count(Flushers(m, p, a, y))
        /\ F[y] = One(y \in mp) + One(y = x.heap /\ \A t \in Thread : q[t] # "ctx_pin")
                   + Count(Flushers(m, q, d, y))
    BY DEF UsersAt
  <2>2. One(y \in mp) \in Nat /\ One(y = x.heap /\ \A t \in Thread : p[t] # "ctx_pin") \in Nat
    BY DEF One
  <2>3. Count(Flushers(m, p, a, y)) \in Nat
    BY CountsAreNat DEF Flushers
  <2>4. Count(Flushers(m, q, d, y)) = IF y = b THEN Count(Flushers(m, p, a, y)) + 1
                                      ELSE Count(Flushers(m, p, a, y))
    <3> DEFINE S == Flushers(m, p, a, y)
               T == Flushers(m, q, d, y)
    <3>1. S \ {s} = T \ {s} /\ (s \in T <=> y = b) /\ s \notin S
      BY DEF Flushers
    <3>2. IsFiniteSet(S)
      BY CountsAreNat DEF Flushers
    <3> HIDE DEF S, T
    <3>3. Count(S) \in Nat /\ Count(T) = Count(S) - One(s \in S) + One(s \in T)
      BY <3>1, <3>2, CountDiffers
    <3>4. Count(T) = IF y = b THEN Count(S) + 1 ELSE Count(S)
      BY <3>1, <3>3 DEF One
    <3> QED BY <3>4 DEF S, T
  <2>5. One(y = x.heap /\ \A t \in Thread : q[t] # "ctx_pin")
        = One(y = x.heap /\ \A t \in Thread : p[t] # "ctx_pin")
    BY DEF One
  <2> QED BY <2>1, <2>2, <2>3, <2>4, <2>5
<1> HIDE DEF f, F
<1>3. OneMore(f, F, b)
  BY <1>1, <1>2, OneMoreIs
<1> QED BY <1>3 DEF f, F

(* The sync of an imported buffer pins no pages.                           *)
NoFlush(m, p, a, q, d, s) ==
    /\ \A t \in Thread : t # s => (q[t] = "flush" <=> p[t] = "flush") /\ d[t] = a[t]
    /\ p[s] = "flush" => PinTarget(m, a[s]) = {}
    /\ q[s] = "flush" => PinTarget(m, d[s]) = {}
    /\ (\A t \in Thread : q[t] # "ctx_pin") <=> (\A t \in Thread : p[t] # "ctx_pin")
LEMMA UsersNoFlush ==
    ASSUME NEW m, NEW mp, NEW x, NEW p, NEW a, NEW q, NEW d, NEW s \in Thread,
           NoFlush(m, p, a, q, d, s)
    PROVE  UsersAt(m, mp, x, q, d) = UsersAt(m, mp, x, p, a)
<1> USE DEF NoFlush
<1>1. \A y : Flushers(m, q, d, y) = Flushers(m, p, a, y)
  BY DEF Flushers
<1>2. \A y \in Bo : One(y = x.heap /\ \A t \in Thread : q[t] # "ctx_pin")
                    = One(y = x.heap /\ \A t \in Thread : p[t] # "ctx_pin")
  BY DEF One
<1> QED BY <1>1, <1>2 DEF UsersAt
-----------------------------------------------------------------------------
(* What a step leaves that makes no object: the counts are right and every *)
(* object that is still owned has the type it had.                         *)
Settled ==
    /\ SoundAt(mem', handle', exported', mapped', job', arg', client', ctx', pc', blame')
    /\ dev_heap' = dev_heap /\ Dwindled(mem, mem')
OldTypes ==
    /\ \A b \in Bo : (\/ b \in handle' \/ b \in exported' \/ b \in mapped' \/ b = job'
                      \/ b = ctx'.heap \/ b = ctx'.buf \/ \E t \in Thread : arg'[t] = b)
                     => mem'.type[b] = mem.type[b]
    /\ HeapBufs(mem') \subseteq HeapBufs(mem) /\ mem'.oops = "no" /\ mem' \in Mem

LEMMA SettledTypes ==
    ASSUME Settled PROVE OldTypes
<1>1. mem'.oops = "no" /\ mem' \in Mem
  BY DEF Settled, SoundAt, Sound
<1> QED BY <1>1, TypesFixed DEF Settled, OldTypes

VarsOK ==
    /\ handle \subseteq Bo /\ exported \subseteq Bo /\ mapped \subseteq Bo
    /\ job \in Bo \cup {NoBo} /\ dev_heap \in Bo \cup {NoBo} /\ userptr \in BOOLEAN
    /\ ctx \in [state : {"none", "init", "ready", "husk"}, heap : Bo \cup {NoBo},
                buf : Bo \cup {NoBo}]
    /\ client \in {"open", "closed"} /\ arg \in [Thread -> Bo \cup {NoBo}]
    /\ pc \in [Thread -> {"idle"} \cup HeldSteps \cup CtxSteps]
MapsSound ==
    /\ \A b \in mapped : mem.type[b] \in {"share", "heap"}
    /\ HeapBufs(mem) # {} => userptr
    /\ userptr /\ "munmap" \notin blame => dev_heap \in mapped

LEMMA Complete ==
    ASSUME SoundAt(mem', handle', exported', mapped', job', arg', client', ctx', pc', blame'),
           dev_heap' = dev_heap, VarsOK', MapsSound', ThreadsSound', ClientSound'
    PROVE  IInv' /\ OopsNeedsCause'
<1>1. /\ RefsExact' /\ PinsExact' /\ CmdBufPagesCurrent' /\ ForeignRefsExact'
      /\ ObjectsFormed(mem)' /\ mem' \in Mem
  BY PostSound
<1>2. mem'.oops = "no"
  BY DEF SoundAt, Sound
<1>3. TypeOK'
  BY <1>1 DEF VarsOK, TypeOK
<1>4. ObjectsSound'
  BY <1>1 DEF ObjectsSound, MapsSound
<1> QED BY <1>1, <1>2, <1>3, <1>4 DEF IInv, RefsInv, PinsInv, OopsNeedsCause

LEMMA Finish ==
    ASSUME Settled, VarsOK', MapsSound', ThreadsSound', ClientSound'
    PROVE  IInv' /\ OopsNeedsCause'
BY Complete DEF Settled

(* A step that brings the kernel down.                                     *)
LEMMA Crash ==
    ASSUME IInv, Alive, VarsOK', NEW why, mem' = Oops(mem, why),
           why \in {"takedown", "free_node", "freed_client", "bad_pages", "outside", "husk"}
    PROVE  IInv' /\ mem'.oops = why
<1>1. mem \in Mem
  BY DEF IInv, RefsInv, TypeOK
<1>2. mem' \in Mem /\ mem'.oops = why
  BY <1>1 DEF Oops, Mem
<1>3. TypeOK' /\ ~Alive'
  BY <1>2 DEF TypeOK, VarsOK, Alive
<1> QED BY <1>2, <1>3 DEF IInv, RefsInv, PinsInv, RefsExact, PinsExact, CmdBufPagesCurrent,
       ForeignRefsExact, ObjectsSound, ThreadsSound, ClientSound

(* Less has to be current.                                                 *)
LEMMA SoundLess ==
    ASSUME NEW m, NEW f, NEW g, NEW C, Sound(m, f, g, C), NEW D, D \subseteq C
    PROVE  Sound(m, f, g, D)
BY DEF Sound, TablesCurrent

(* A step that only puts an object.                                        *)
LEMMA Dropped ==
    ASSUME IInv, Alive, NEW b \in Bo, mem' = Put(mem, b), dev_heap' = dev_heap,
           OneMore(OwnersAt(handle', exported', mapped', job', arg', client', ctx'),
                   OwnersAt(handle, exported, mapped, job, arg, client, ctx), b),
           UsersAt(mem, mapped', ctx', pc', arg') = UsersAt(mem, mapped, ctx, pc, arg),
           CurrentAt(ctx', blame') \subseteq CurrentAt(ctx, blame),
           \A t \in Thread : pc'[t] = "flush" => arg'[t] \in Bo,
           mem.type[b] = "dev" /\ mem.refcnt[b] = 1 => client = "open"
    PROVE  Settled
<1> DEFINE f == OwnersAt(handle, exported, mapped, job, arg, client, ctx)
           F == OwnersAt(handle', exported', mapped', job', arg', client', ctx')
           g == UsersAt(mem, mapped, ctx, pc, arg)
           D == CurrentAt(ctx', blame')
<1>1. Sound(mem, f, g, D)
  BY PreSound, SoundLess DEF SoundAt
<1>2. F = [f EXCEPT ![b] = @ - 1] /\ f[b] > 0
  BY DEF OneMore
<1>3. mem.type[b] = "dev" /\ mem.refcnt[b] = 1 => client = "open" /\ f[dev_heap] > 0
  <2>1. mem.type[b] = "dev" => dev_heap \in Bo
    BY <1>1 DEF Sound, ObjectsFormed
  <2> QED BY <2>1, ThreadsOwn
<1> HIDE DEF f, D
<1>4. /\ Sound(Put(mem, b), F, UsersAt(Put(mem, b), mapped', ctx', pc', arg'), D)
      /\ Dwindled(mem, Put(mem, b))
  <2>1. Sound(mem, f, UsersAt(mem, mapped', ctx', pc', arg'), D)
    BY <1>1
  <2>2. CanPut(mem, f, handle', exported', mapped', job', arg', client', ctx', pc', D, b)
    BY <1>2, <1>3, <2>1 DEF CanPut
  <2> QED BY <2>2, PutStep
<1> QED BY <1>4 DEF Settled, SoundAt, D

(* A step that only gets an object.                                        *)
LEMMA Gained ==
    ASSUME IInv, Alive, NEW b \in Bo, Live(mem, b), mem' = Get(mem, b), dev_heap' = dev_heap,
           OneMore(OwnersAt(handle, exported, mapped, job, arg, client, ctx),
                   OwnersAt(handle', exported', mapped', job', arg', client', ctx'), b),
           UsersAt(mem, mapped', ctx', pc', arg') = UsersAt(mem, mapped, ctx, pc, arg),
           CurrentAt(ctx', blame') \subseteq CurrentAt(ctx, blame)
    PROVE  Settled
<1> DEFINE f == OwnersAt(handle, exported, mapped, job, arg, client, ctx)
           F == OwnersAt(handle', exported', mapped', job', arg', client', ctx')
           g == UsersAt(mem, mapped, ctx, pc, arg)
           D == CurrentAt(ctx', blame')
<1>1. Sound(mem, f, g, D)
  BY PreSound, SoundLess DEF SoundAt
<1>2. F = [f EXCEPT ![b] = @ + 1]
  BY DEF OneMore
<1> HIDE DEF f, D
<1>3. Sound(mem', F, g, D)
  <2> HIDE DEF F, g
  <2>1. Sound(Get(mem, b), [f EXCEPT ![b] = @ + 1], g, D)
    BY <1>1, GetSound
  <2> QED BY <1>2, <2>1
<1>4. mem'.type = mem.type
  <2>1. mem \in Mem
    BY <1>1 DEF Sound
  <2> QED BY <2>1 DEF Get, Mem
<1>5. UsersAt(mem', mapped', ctx', pc', arg') = g
  BY <1>4, UsersKeep
<1> QED BY <1>3, <1>4, <1>5 DEF Settled, SoundAt, D, Dwindled

(* A step that leaves the objects as they are.                             *)
LEMMA Untouched ==
    ASSUME IInv, Alive, mem' = mem, dev_heap' = dev_heap,
           OwnersAt(handle', exported', mapped', job', arg', client', ctx')
             = OwnersAt(handle, exported, mapped, job, arg, client, ctx),
           UsersAt(mem, mapped', ctx', pc', arg') = UsersAt(mem, mapped, ctx, pc, arg),
           CurrentAt(ctx', blame') \subseteq CurrentAt(ctx, blame)
    PROVE  Settled
<1>1. Sound(mem, OwnersAt(handle, exported, mapped, job, arg, client, ctx),
            UsersAt(mem, mapped, ctx, pc, arg), CurrentAt(ctx', blame'))
  BY PreSound, SoundLess DEF SoundAt
<1> QED BY <1>1 DEF Settled, SoundAt, Dwindled

(* What the invariant says of a state that is alive.                       *)
LEMMA Known ==
    ASSUME IInv, Alive
    PROVE  /\ mem \in Mem /\ mem.oops = "no" /\ VarsOK /\ MapsSound /\ ObjectsFormed(mem)
           /\ \A b \in Bo : (\/ b \in handle \/ b \in exported \/ b \in mapped \/ b = job
                             \/ b = ctx.heap \/ b = ctx.buf \/ (b = dev_heap /\ client = "open")
                             \/ \E t \in Thread : arg[t] = b)
                            => Live(mem, b) /\ mem.type[b] # "none" /\ mem.type[b] # "freed"
           /\ NoBo \notin Bo
<1>1. /\ mem \in Mem /\ mem.oops = "no" /\ VarsOK /\ MapsSound /\ ObjectsFormed(mem)
  BY DEF IInv, RefsInv, TypeOK, Alive, VarsOK, MapsSound, ObjectsSound
<1>2. ASSUME NEW b \in Bo, (\/ b \in handle \/ b \in exported \/ b \in mapped \/ b = job
                            \/ b = ctx.heap \/ b = ctx.buf \/ (b = dev_heap /\ client = "open")
                            \/ \E t \in Thread : arg[t] = b)
      PROVE  Live(mem, b) /\ mem.type[b] # "none" /\ mem.type[b] # "freed"
  <2>1. OwnersAt(handle, exported, mapped, job, arg, client, ctx)[b] > 0
    BY <1>2, ThreadsOwn
  <2> QED BY <2>1, PreSound, OwnedLive DEF SoundAt
<1> QED BY <1>1, <1>2 DEF NoBo, Bo

LEMMA GemCloseKeeps ==
    ASSUME IInv, Alive, NEW b \in Bo, GemClose(b)
    PROVE  IInv' /\ OopsNeedsCause'
<1> USE DEF GemClose, heapVars, thrVars
<1>0. VarsOK /\ MapsSound
  BY Known
<1>1. VarsOK /\ MapsSound /\ client = "open"
  BY <1>0 DEF IInv, RefsInv, ClientSound, VarsOK
<1>2. OneMore(OwnersAt(handle', exported', mapped', job', arg', client', ctx'),
              OwnersAt(handle, exported, mapped, job, arg, client, ctx), b)
  <2>1. OneMore(OwnersAt(handle \ {b}, exported, mapped, job, arg, client, ctx),
                OwnersAt((handle \ {b}) \cup {b}, exported, mapped, job, arg, client, ctx), b)
    BY OwnHandle
  <2>2. (handle \ {b}) \cup {b} = handle
    OBVIOUS
  <2> QED BY <2>1, <2>2
<1>3. \A t \in Thread : pc'[t] = "flush" => arg'[t] \in Bo
  BY <1>1 DEF IInv, RefsInv, ThreadsSound, VarsOK, HeldSteps
<1>4. Settled
  BY <1>1, <1>2, <1>3, Dropped
<1>5. OldTypes
  BY <1>4, SettledTypes
<1>6. VarsOK'
  BY <1>1 DEF VarsOK
<1>7. MapsSound'
  BY <1>1, <1>5, <1>6 DEF MapsSound, OldTypes, HeapBufs, VarsOK
<1>8. ThreadsSound'
  BY <1>1, <1>5, <1>6 DEF ThreadsSound, IInv, RefsInv, OldTypes, Pinnable, VarsOK, HeldSteps
<1>9. ClientSound'
  BY <1>1, <1>5, <1>6 DEF ClientSound, IInv, RefsInv, OldTypes, VarsOK
<1> QED BY <1>4, <1>6, <1>7, <1>8, <1>9, Finish

(* A step of a thread that neither begins nor ends a use of pages.         *)
Quiet(t, from, to, b) ==
    /\ Goto(t, to, b) /\ pc[t] = from /\ {from, to} \cap {"flush", "ctx_pin"} = {}
    /\ UNCHANGED <<mapped, ctx>>
LEMMA QuietUsers ==
    ASSUME VarsOK, NEW t \in Thread, NEW from, NEW to, NEW b, Quiet(t, from, to, b)
    PROVE  UsersAt(mem, mapped', ctx', pc', arg') = UsersAt(mem, mapped, ctx, pc, arg)
<1>1. /\ pc' = [pc EXCEPT ![t] = to] /\ arg' = [arg EXCEPT ![t] = b] /\ pc[t] = from
      /\ from # "flush" /\ from # "ctx_pin" /\ to # "flush" /\ to # "ctx_pin"
      /\ mapped' = mapped /\ ctx' = ctx
  BY DEF Quiet, Goto
<1>2. \A u \in Thread : (pc'[u] = "flush" <=> pc[u] = "flush") /\ (pc[u] = "flush" => arg'[u] = arg[u])
  BY <1>1 DEF VarsOK
<1>3. (\A u \in Thread : pc'[u] # "ctx_pin") <=> (\A u \in Thread : pc[u] # "ctx_pin")
  BY <1>1 DEF VarsOK
<1>4. \A y \in Bo : (y = ctx'.heap /\ \A u \in Thread : pc'[u] # "ctx_pin")
                     <=> (y = ctx.heap /\ \A u \in Thread : pc[u] # "ctx_pin")
  BY <1>1, <1>3
<1>5. UsersAt(mem, mapped, ctx', pc', arg') = UsersAt(mem, mapped, ctx, pc, arg)
  <2>1. SameUses(ctx, pc, arg, ctx', pc', arg')
    BY <1>2, <1>4 DEF SameUses
  <2> QED BY <2>1, UsersSame
<1> QED BY <1>1, <1>5

LEMMA JobDoneKeeps ==
    ASSUME IInv, Alive, NEW b \in Bo, JobDone(b)
    PROVE  IInv' /\ OopsNeedsCause'
<1> USE DEF JobDone, heapVars, thrVars
<1>0. VarsOK /\ MapsSound
  BY Known
<1>1. VarsOK /\ MapsSound /\ client = "open"
  BY <1>0, Known DEF IInv, RefsInv, ClientSound, VarsOK
<1>2. OneMore(OwnersAt(handle', exported', mapped', job', arg', client', ctx'),
              OwnersAt(handle, exported, mapped, job, arg, client, ctx), b)
  BY OwnJob
<1>3. \A t \in Thread : pc'[t] = "flush" => arg'[t] \in Bo
  BY <1>1 DEF IInv, RefsInv, ThreadsSound, VarsOK, HeldSteps
<1>4. Settled
  BY <1>1, <1>2, <1>3, Dropped
<1>5. OldTypes
  BY <1>4, SettledTypes
<1>6. VarsOK'
  BY <1>1, Known DEF VarsOK
<1>7. MapsSound'
  BY <1>1, Known, <1>5, <1>6 DEF MapsSound, OldTypes, HeapBufs, VarsOK
<1>8. ThreadsSound'
  BY <1>1, Known, <1>5, <1>6 DEF ThreadsSound, IInv, RefsInv, OldTypes, Pinnable, VarsOK, HeldSteps, CtxSteps
<1>9. ClientSound'
  BY <1>1, Known, <1>5, <1>6 DEF ClientSound, IInv, RefsInv, OldTypes, VarsOK
<1> QED BY <1>4, <1>6, <1>7, <1>8, <1>9, Finish

LEMMA PutObjKeeps ==
    ASSUME IInv, Alive, NEW t \in Thread, PutObj(t)
    PROVE  IInv' /\ OopsNeedsCause'
<1> USE DEF PutObj, Returns, Goto, bookVars, heapVars
<1>0. VarsOK /\ MapsSound
  BY Known
<1>1. VarsOK /\ MapsSound /\ client = "open" /\ arg[t] \in Bo /\ NoBo \notin Bo
  BY <1>0, Known DEF IInv, RefsInv, ClientSound, ThreadsSound, VarsOK, HeldSteps
<1>2. OneMore(OwnersAt(handle', exported', mapped', job', arg', client', ctx'),
              OwnersAt(handle, exported, mapped, job, arg, client, ctx), arg[t])
  <2>1. arg' \in [Thread -> Bo \cup {NoBo}] /\ arg'[t] = NoBo /\ arg = [arg' EXCEPT ![t] = arg[t]]
    BY <1>1 DEF VarsOK
  <2> QED BY <1>1, <2>1, OwnThread
<1>3. \A u \in Thread : pc'[u] = "flush" => arg'[u] \in Bo
  BY <1>1 DEF IInv, RefsInv, ThreadsSound, VarsOK, HeldSteps
<1>a. UsersAt(mem, mapped', ctx', pc', arg') = UsersAt(mem, mapped, ctx, pc, arg)
  <2>1. Quiet(t, pc[t], "idle", NoBo)
    BY DEF Quiet
  <2> QED BY <1>1, <2>1, QuietUsers
<1>4. Settled
  BY <1>1, <1>2, <1>3, <1>a, Dropped
<1>5. OldTypes
  BY <1>4, SettledTypes
<1>6. VarsOK'
  BY <1>1 DEF VarsOK
<1>7. MapsSound'
  BY <1>1, <1>5, <1>6 DEF MapsSound, OldTypes, HeapBufs, VarsOK
<1>8. ThreadsSound'
  BY <1>1, <1>5, <1>6 DEF ThreadsSound, IInv, RefsInv, OldTypes, Pinnable, VarsOK, HeldSteps, CtxSteps
<1>9. ClientSound'
  BY <1>1, <1>5, <1>6 DEF ClientSound, IInv, RefsInv, OldTypes, VarsOK
<1> QED BY <1>4, <1>6, <1>7, <1>8, <1>9, Finish

(* The converse: what is owned has an owner.                               *)
LEMMA OwnedBy ==
    ASSUME NEW h, NEW e, NEW mp, NEW j, NEW a, NEW c, NEW x, NEW b \in Bo,
           OwnersAt(h, e, mp, j, a, c, x)[b] > 0
    PROVE  \/ b \in h \/ b \in e \/ b \in mp \/ b = j \/ b = x.heap \/ b = x.buf
           \/ (b = dev_heap /\ c = "open")
           \/ \E t \in Thread : a[t] = b
<1> DEFINE A == {t \in Thread : a[t] = b}
<1>1. Count(A) \in Nat /\ (Count(A) = 0 <=> A = {})
  BY CountsAreNat
<1>2. OwnersAt(h, e, mp, j, a, c, x)[b] = One(b \in h) + One(b \in e) + One(b \in mp) + One(b = j)
      + Count(A) + One(b = dev_heap /\ c = "open") + One(b = x.heap) + One(b = x.buf)
  BY DEF OwnersAt
<1>3. A # {} => \E t \in Thread : a[t] = b
  OBVIOUS
<1> HIDE DEF A
<1> QED BY <1>1, <1>2, <1>3 DEF One

LEMMA ExportReleaseKeeps ==
    ASSUME IInv, Alive, NEW b \in Bo, ExportRelease(b)
    PROVE  IInv' /\ OopsNeedsCause'
<1> USE DEF ExportRelease, heapVars, thrVars
<1>0. VarsOK /\ MapsSound
  BY Known
<1>1. VarsOK /\ MapsSound
  BY <1>0
<1>a. CASE mem.type[b] = "dev" /\ mem.refcnt[b] = 1 /\ client # "open"
  <2>1. client = "closed" /\ VarsOK'
    BY <1>1, <1>a DEF VarsOK
  <2>2. mem' = Oops(mem, "freed_client")
    BY <1>a, <2>1 DEF Put, DevFree, Shmem
  <2>3. IInv' /\ mem'.oops = "freed_client"
    BY <2>1, <2>2, Crash
  <2>4. "export" \in blame
    BY <1>a, <2>1 DEF IInv, RefsInv, ClientSound, HeapBufs
  <2> QED BY <2>3, <2>4 DEF OopsNeedsCause
<1>b. CASE ~(mem.type[b] = "dev" /\ mem.refcnt[b] = 1 /\ client # "open")
  <2>2. OneMore(OwnersAt(handle', exported', mapped', job', arg', client', ctx'),
                OwnersAt(handle, exported, mapped, job, arg, client, ctx), b)
    <3>1. OneMore(OwnersAt(handle, exported \ {b}, mapped, job, arg, client, ctx),
                  OwnersAt(handle, (exported \ {b}) \cup {b}, mapped, job, arg, client, ctx), b)
      BY OwnExport
    <3>2. (exported \ {b}) \cup {b} = exported
      OBVIOUS
    <3> QED BY <3>1, <3>2
  <2>3. \A t \in Thread : pc'[t] = "flush" => arg'[t] \in Bo
    BY <1>1 DEF IInv, RefsInv, ThreadsSound, VarsOK, HeldSteps
  <2>4. Settled
    BY <1>1, <1>b, <2>2, <2>3, Dropped
<2>5. OldTypes
  BY <2>4, SettledTypes
<2>6. VarsOK'
  BY <1>1 DEF VarsOK
<2>7. MapsSound'
  BY <1>1, <2>5, <2>6 DEF MapsSound, OldTypes, HeapBufs, VarsOK
<2>8. ThreadsSound'
  BY <1>1, <2>5, <2>6 DEF ThreadsSound, IInv, RefsInv, OldTypes, Pinnable, VarsOK, HeldSteps, CtxSteps
<2>9. ClientSound'
  BY <1>1, <2>5, <2>6 DEF ClientSound, IInv, RefsInv, OldTypes, VarsOK
<2> QED BY <2>4, <2>6, <2>7, <2>8, <2>9, Finish
<1> QED BY <1>a, <1>b

LEMMA PublishKeeps ==
    ASSUME IInv, Alive, NEW t \in Thread, Publish(t)
    PROVE  IInv' /\ OopsNeedsCause'
<1> USE DEF Publish, Goto, Works, Fails, heapVars
<1>0. VarsOK /\ MapsSound
  BY Known
<1>1. /\ VarsOK /\ MapsSound /\ client = "open" /\ arg[t] \in Bo /\ arg[t] \notin handle
      /\ Live(mem, arg[t]) /\ arg' = arg
  <2>1. arg[t] \in Bo /\ arg' = arg
    BY <1>0 DEF IInv, RefsInv, ThreadsSound, VarsOK, HeldSteps
  <2> QED BY <1>0, <2>1, Known DEF IInv, RefsInv, ClientSound, ThreadsSound, VarsOK
<1>a. UsersAt(mem, mapped', ctx', pc', arg') = UsersAt(mem, mapped, ctx, pc, arg)
  <2>1. Quiet(t, pc[t], "put", arg[t])
    BY DEF Quiet
  <2> QED BY <1>1, <2>1, QuietUsers
<1>4. Settled
  <2>1. CASE handle' = handle \cup {arg[t]} /\ mem' = Get(mem, arg[t])
    <3>1. OneMore(OwnersAt(handle, exported, mapped, job, arg, client, ctx),
                  OwnersAt(handle', exported', mapped', job', arg', client', ctx'), arg[t])
      BY <1>1, <2>1, OwnHandle
    <3> QED BY <1>1, <1>a, <2>1, <3>1, Gained
  <2>2. CASE UNCHANGED <<handle, mem>>
    BY <1>1, <1>a, <2>2, Untouched
  <2> QED BY <2>1, <2>2
<1>5. OldTypes
  BY <1>4, SettledTypes
<1>6. VarsOK'
  BY <1>1 DEF VarsOK, HeldSteps
<1>7. MapsSound'
  BY <1>1, <1>5, <1>6 DEF MapsSound, OldTypes, HeapBufs, VarsOK
<1>8. ThreadsSound'
  BY <1>1, <1>5, <1>6 DEF ThreadsSound, IInv, RefsInv, OldTypes, Pinnable, VarsOK, HeldSteps, CtxSteps
<1>9. ClientSound'
  BY <1>1, <1>5, <1>6 DEF ClientSound, IInv, RefsInv, OldTypes, VarsOK
<1> QED BY <1>4, <1>6, <1>7, <1>8, <1>9, Finish

LEMMA ExportKeeps ==
    ASSUME IInv, Alive, NEW b \in Bo, Export(b)
    PROVE  IInv' /\ OopsNeedsCause'
<1> USE DEF Export, heapVars, thrVars
<1>0. VarsOK /\ MapsSound
  BY Known
<1>1. VarsOK /\ MapsSound /\ Live(mem, b)
  BY <1>0, Known
<1>2. OneMore(OwnersAt(handle, exported, mapped, job, arg, client, ctx),
              OwnersAt(handle', exported', mapped', job', arg', client', ctx'), b)
  BY OwnExport
<1>4. Settled
  BY <1>1, <1>2, Gained
<1>5. OldTypes
  BY <1>4, SettledTypes
<1>6. VarsOK'
  BY <1>1 DEF VarsOK
<1>7. MapsSound'
  BY <1>1, <1>5, <1>6 DEF MapsSound, OldTypes, HeapBufs, VarsOK
<1>8. ThreadsSound'
  BY <1>1, <1>5, <1>6 DEF ThreadsSound, IInv, RefsInv, OldTypes, Pinnable, VarsOK, HeldSteps, CtxSteps
<1>9. ClientSound'
  BY <1>1, <1>5, <1>6 DEF ClientSound, IInv, RefsInv, OldTypes, VarsOK
<1> QED BY <1>4, <1>6, <1>7, <1>8, <1>9, Finish

LEMMA SyncLookupKeeps ==
    ASSUME IInv, Alive, NEW t \in Thread, NEW b \in Bo, SyncLookup(t, b)
    PROVE  IInv' /\ OopsNeedsCause'
<1> USE DEF SyncLookup, Goto, bookVars, heapVars
<1>0. VarsOK /\ MapsSound
  BY Known
<1>1. VarsOK /\ MapsSound /\ Live(mem, b) /\ arg[t] = NoBo /\ client = "open" /\ NoBo \notin Bo
  BY <1>0, Known DEF IInv, RefsInv, ThreadsSound, ClientSound, HeldSteps, VarsOK
<1>2. OneMore(OwnersAt(handle, exported, mapped, job, arg, client, ctx),
              OwnersAt(handle', exported', mapped', job', arg', client', ctx'), b)
  BY <1>1, OwnThread DEF VarsOK
<1>a. UsersAt(mem, mapped', ctx', pc', arg') = UsersAt(mem, mapped, ctx, pc, arg)
  <2>1. Quiet(t, pc[t], "pin", b)
    BY DEF Quiet
  <2> QED BY <1>1, <2>1, QuietUsers
<1>4. Settled
  BY <1>1, <1>2, <1>a, Gained
<1>5. OldTypes
  BY <1>4, SettledTypes
<1>6. VarsOK'
  BY <1>1 DEF VarsOK, HeldSteps
<1>7. MapsSound'
  BY <1>1, <1>5, <1>6 DEF MapsSound, OldTypes, HeapBufs, VarsOK
<1>8. ThreadsSound'
  BY <1>1, <1>5, <1>6 DEF ThreadsSound, IInv, RefsInv, OldTypes, Pinnable, VarsOK, HeldSteps, CtxSteps
<1>9. ClientSound'
  BY <1>1, <1>5, <1>6 DEF ClientSound, IInv, RefsInv, OldTypes, VarsOK
<1> QED BY <1>4, <1>6, <1>7, <1>8, <1>9, Finish

LEMMA CtxHeapKeeps ==
    ASSUME IInv, Alive, NEW t \in Thread, CtxHeap(t)
    PROVE  IInv' /\ OopsNeedsCause'
<1> USE DEF CtxHeap, Goto, bookVars, heapVars
<1>0. VarsOK /\ MapsSound
  BY Known
<1>1. /\ VarsOK /\ MapsSound /\ dev_heap \in Bo /\ Live(mem, dev_heap) /\ arg' = arg
      /\ ctx.heap = NoBo /\ ctx.buf = NoBo /\ NoBo \notin Bo
      /\ \A u \in Thread : pc[u] \notin CtxSteps
  <2>1. dev_heap \in Bo /\ arg[t] = NoBo /\ ctx.heap = NoBo /\ ctx.buf = NoBo
    BY <1>0 DEF IInv, RefsInv, ThreadsSound, ClientSound, HeldSteps, VarsOK
  <2>2. arg' = arg /\ \A u \in Thread : pc[u] \notin CtxSteps
    BY <1>0, <2>1 DEF VarsOK, IInv, RefsInv, ThreadsSound
  <2> QED BY <1>0, <2>1, <2>2, Known
<1>2. OneMore(OwnersAt(handle, exported, mapped, job, arg, client, ctx),
              OwnersAt(handle', exported', mapped', job', arg', client', ctx'), dev_heap)
  <2>1. ctx'.heap = dev_heap /\ ctx'.buf = ctx.buf
    BY <1>1
  <2> QED BY <1>1, <2>1, OwnCtxHeap
<1>a. UsersAt(mem, mapped', ctx', pc', arg') = UsersAt(mem, mapped, ctx, pc, arg)
  <2>1. \A u \in Thread : (pc'[u] = "flush" <=> pc[u] = "flush") /\ (pc[u] = "flush" => arg'[u] = arg[u])
    BY <1>1 DEF VarsOK
  <2>2. \A y \in Bo : (y = ctx'.heap /\ \A u \in Thread : pc'[u] # "ctx_pin")
                     <=> (y = ctx.heap /\ \A u \in Thread : pc[u] # "ctx_pin")
    BY <1>1 DEF VarsOK
  <2>3. SameUses(ctx, pc, arg, ctx', pc', arg')
    BY <2>1, <2>2 DEF SameUses
  <2> QED BY <2>3, UsersSame
<1>3. CurrentAt(ctx', blame') \subseteq CurrentAt(ctx, blame)
  BY <1>1 DEF CurrentAt
<1>4. Settled
  BY <1>1, <1>2, <1>3, <1>a, Gained
<1>5. OldTypes
  BY <1>4, SettledTypes
<1>6. VarsOK'
  BY <1>1 DEF VarsOK, HeldSteps, CtxSteps
<1>7. MapsSound'
  BY <1>1, <1>5, <1>6 DEF MapsSound, OldTypes, HeapBufs, VarsOK
<1>8. ThreadsSound'
  BY <1>1, <1>5, <1>6 DEF ThreadsSound, IInv, RefsInv, OldTypes, Pinnable, VarsOK, HeldSteps, CtxSteps
<1>9. ClientSound'
  BY <1>1, <1>5, <1>6 DEF ClientSound, IInv, RefsInv, OldTypes, VarsOK
<1> QED BY <1>4, <1>6, <1>7, <1>8, <1>9, Finish

LEMMA CloseKeeps ==
    ASSUME IInv, Alive, Close
    PROVE  IInv' /\ OopsNeedsCause'
<1> USE DEF Close, bookVars, heapVars, thrVars
<1>0. VarsOK /\ MapsSound
  BY Known
<1>1. /\ VarsOK /\ MapsSound /\ NoBo \notin Bo /\ job = NoBo /\ ctx.heap = NoBo /\ ctx.buf = NoBo
      /\ \A t \in Thread : arg[t] = NoBo
  BY <1>0, Known DEF IInv, RefsInv, ThreadsSound, ClientSound, HeldSteps, VarsOK
<1>a. exported \cap HeapBufs(mem) = {} => HeapBufs(mem) = {}
  <2> SUFFICES ASSUME NEW b \in Bo, mem.type[b] = "dev", b \notin exported
               PROVE  FALSE
    BY DEF HeapBufs
  <2> DEFINE f == OwnersAt(handle, exported, mapped, job, arg, client, ctx)
  <2>1. Sound(mem, f, UsersAt(mem, mapped, ctx, pc, arg), CurrentAt(ctx, blame))
    BY PreSound DEF SoundAt
  <2>2. b # dev_heap
    BY <2>1 DEF Sound, ObjectsFormed
  <2>3. f[b] > 0
    <3> HIDE DEF f
    <3>1. Live(mem, b)
      BY DEF Live, Type
    <3>2. mem.refcnt[b] > 0 /\ mem.refcnt[b] = f[b]
      BY <2>1, <2>2, <3>1 DEF Sound, RefsCounted
    <3>3. f[b] \in Nat
      BY <2>1 DEF Sound
    <3> QED BY <3>2, <3>3
  <2> QED BY <1>1, <2>2, <2>3, OwnedBy
<1>b. \A t \in Thread : pc'[t] = "flush" => arg'[t] \in Bo
  OBVIOUS
<1>c. CurrentAt(ctx', blame') \subseteq CurrentAt(ctx, blame)
  BY DEF CurrentAt
<1>4. Settled
  <2>1. CASE dev_heap = NoBo
    <3>1. OwnersAt(handle, exported, mapped, job, arg, "closed", ctx)
          = OwnersAt(handle, exported, mapped, job, arg, "open", ctx)
      BY <1>1, <2>1 DEF OwnersAt, One
    <3> QED BY <1>c, <2>1, <3>1, Untouched
  <2>2. CASE dev_heap # NoBo
    <3>1. dev_heap \in Bo /\ mem.type[dev_heap] # "dev"
      <4>1. dev_heap \in Bo
        BY <1>1, <2>2 DEF VarsOK
      <4> QED BY <4>1, Known DEF ObjectsFormed
    <3>2. OneMore(OwnersAt(handle', exported', mapped', job', arg', client', ctx'),
                  OwnersAt(handle, exported, mapped, job, arg, client, ctx), dev_heap)
      BY <3>1, OwnClient
    <3> QED BY <1>b, <1>c, <2>2, <3>1, <3>2, Dropped
  <2> QED BY <2>1, <2>2
<1>5. OldTypes
  BY <1>4, SettledTypes
<1>6. VarsOK'
  BY <1>1 DEF VarsOK
<1>7. MapsSound'
  BY <1>1, <1>a, <1>5, <1>6 DEF MapsSound, OldTypes, HeapBufs, VarsOK
<1>8. ThreadsSound'
  BY <1>1, <1>a, <1>5, <1>6 DEF ThreadsSound, IInv, RefsInv, OldTypes, Pinnable, VarsOK, HeldSteps, CtxSteps
<1>9. ClientSound'
  BY <1>1, <1>a, <1>5, <1>6 DEF ClientSound, IInv, RefsInv, OldTypes, VarsOK
<1> QED BY <1>4, <1>6, <1>7, <1>8, <1>9, Finish

(* A step that only changes references, pins and uses.                     *)
LEMMA Shaped ==
    ASSUME dev_heap' = dev_heap, mem'.type = mem.type,
           Sound(mem', OwnersAt(handle', exported', mapped', job', arg', client', ctx'),
                 UsersAt(mem, mapped', ctx', pc', arg'), CurrentAt(ctx', blame'))
    PROVE  Settled
<1>1. UsersAt(mem', mapped', ctx', pc', arg') = UsersAt(mem, mapped', ctx', pc', arg')
  BY UsersKeep
<1> QED BY <1>1 DEF Settled, SoundAt, Dwindled

(* The parts of a count of users.                                          *)
LEMMA UsersParts ==
    ASSUME NEW m, NEW mp, NEW x, NEW p, NEW a, NEW b \in Bo
    PROVE  /\ UsersAt(m, mp, x, p, a)[b] \in Nat
           /\ b \in mp => UsersAt(m, mp, x, p, a)[b] > 0
           /\ b = x.heap /\ (\A t \in Thread : p[t] # "ctx_pin") =>
                /\ UsersAt(m, mp, x, p, a)[b] > 0
                /\ b \in mp => UsersAt(m, mp, x, p, a)[b] > 1
           /\ \A t \in Thread : p[t] = "flush" /\ b \in PinTarget(m, a[t]) =>
                /\ UsersAt(m, mp, x, p, a)[b] > 0
                /\ b \in mp => UsersAt(m, mp, x, p, a)[b] > 1
                /\ b = x.heap /\ (\A u \in Thread : p[u] # "ctx_pin") =>
                     UsersAt(m, mp, x, p, a)[b] > 1
<1> DEFINE S == Flushers(m, p, a, b)
<1>1. UsersAt(m, mp, x, p, a)[b]
      = One(b \in mp) + One(b = x.heap /\ \A t \in Thread : p[t] # "ctx_pin") + Count(S)
  BY DEF UsersAt
<1>2. Count(S) \in Nat /\ (Count(S) = 0 <=> S = {})
  BY CountsAreNat DEF Flushers
<1>3. \A t \in Thread : p[t] = "flush" /\ b \in PinTarget(m, a[t]) => S # {}
  BY DEF Flushers
<1> HIDE DEF S
<1> QED BY <1>1, <1>2, <1>3 DEF One

LEMMA MmapKeeps ==
    ASSUME IInv, Alive, NEW b \in Bo, Mmap(b)
    PROVE  IInv' /\ OopsNeedsCause'
<1> USE DEF Mmap, thrVars
<1> DEFINE f == OwnersAt(handle, exported, mapped, job, arg, client, ctx)
           F == OwnersAt(handle', exported', mapped', job', arg', client', ctx')
           g == UsersAt(mem, mapped, ctx, pc, arg)
           G == UsersAt(mem, mapped', ctx', pc', arg')
           D == CurrentAt(ctx', blame')
<1>0. VarsOK /\ MapsSound
  BY Known
<1>1. VarsOK /\ MapsSound /\ Live(mem, b) /\ mem.type[b] \in Shmem /\ mem \in Mem
  BY <1>0, Known DEF Shmem
<1>2. Sound(mem, f, g, D)
  BY PreSound DEF SoundAt
<1>3. F = [f EXCEPT ![b] = @ + 1] /\ G = [g EXCEPT ![b] = @ + 1]
  <2>1. OneMore(f, F, b)
    BY OwnMapped
  <2>2. OneMore(g, G, b)
    BY UsersMapped
  <2> QED BY <2>1, <2>2 DEF OneMore
<1> HIDE DEF f, F, g, G, D
<1>4. Settled
  <2> DEFINE m == Get(mem, b)
  <2>1. Sound(m, F, g, D)
    BY <1>1, <1>2, <1>3, GetSound
  <2>2. m.type = mem.type
    BY <1>1 DEF Get, Mem
  <2>3. mem' = GetPages(m, {b})
    OBVIOUS
  <2> HIDE DEF m
  <2>4. Sound(GetPages(m, {b}), F, [g EXCEPT ![b] = @ + 1], D)
    BY <1>1, <2>1, <2>2, GetPagesSound
  <2>5. GetPages(m, {b}).type = m.type
    <3>1. m \in Mem
      BY <2>1 DEF Sound
    <3> QED BY <3>1, GetPagesFields
  <2>6. Sound(mem', F, G, D) /\ mem'.type = mem.type
    BY <1>3, <2>2, <2>3, <2>4, <2>5
  <2> QED BY <2>6, Shaped DEF F, G, D
<1>5. OldTypes
  BY <1>4, SettledTypes
<1>6. VarsOK'
  BY <1>1 DEF VarsOK
<1>7. MapsSound'
  BY <1>1, <1>5, <1>6 DEF MapsSound, OldTypes, HeapBufs, VarsOK
<1>8. ThreadsSound'
  BY <1>1, <1>5, <1>6 DEF ThreadsSound, IInv, RefsInv, OldTypes, Pinnable, VarsOK, HeldSteps, CtxSteps
<1>9. ClientSound'
  BY <1>1, <1>5, <1>6 DEF ClientSound, IInv, RefsInv, OldTypes, VarsOK
<1> QED BY <1>4, <1>6, <1>7, <1>8, <1>9, Finish

LEMMA MunmapKeeps ==
    ASSUME IInv, Alive, NEW b \in Bo, Munmap(b)
    PROVE  IInv' /\ OopsNeedsCause'
<1> USE DEF Munmap, heapVars, thrVars
<1> DEFINE f == OwnersAt(handle, exported, mapped, job, arg, client, ctx)
           F == OwnersAt(handle', exported', mapped', job', arg', client', ctx')
           g == UsersAt(mem, mapped, ctx, pc, arg)
           G == UsersAt(mem, mapped', ctx', pc', arg')
           D == CurrentAt(ctx', blame')
           m == PutPages(mem, {b})
<1>0. VarsOK /\ MapsSound
  BY Known
<1>1. VarsOK /\ MapsSound /\ mem.type[b] \in {"share", "heap"} /\ mem \in Mem /\ NoBo \notin Bo
  BY <1>0, Known DEF MapsSound
<1>a. mem.type[b] \in Shmem /\ mem.type[b] # "dev"
  BY <1>1 DEF Shmem
<1>2. Sound(mem, f, g, D)
  <2>1. D \subseteq CurrentAt(ctx, blame)
    BY DEF CurrentAt
  <2> QED BY <2>1, PreSound, SoundLess DEF SoundAt
<1>3. F = [f EXCEPT ![b] = @ - 1] /\ f[b] > 0 /\ G = [g EXCEPT ![b] = @ - 1] /\ g[b] > 0
  <2>0. (mapped \ {b}) \cup {b} = mapped
    OBVIOUS
  <2>1. OneMore(F, OwnersAt(handle, exported, (mapped \ {b}) \cup {b}, job, arg, client, ctx), b)
    BY OwnMapped
  <2>2. OneMore(G, UsersAt(mem, (mapped \ {b}) \cup {b}, ctx, pc, arg), b)
    BY UsersMapped
  <2> QED BY <2>0, <2>1, <2>2 DEF OneMore
<1>b. ASSUME NEW c \in D, mem.type[c] = "dev", b = dev_heap
      PROVE  g[b] > 1
  <2>1. c = ctx.buf /\ c \in Bo
    BY <1>b DEF CurrentAt
  <2>2. ctx.heap = b /\ \A t \in Thread : pc[t] # "ctx_pin"
    BY <1>1, <1>b, <2>1 DEF IInv, RefsInv, ClientSound, ThreadsSound, CtxSteps
  <2> QED BY <2>2, UsersParts
<1>c. G = UsersAt(m, mapped', ctx', pc', arg') /\ m.type = mem.type
  <2>1. {b} \in SUBSET Bo /\ \A x \in {b} : mem.use[x] > 0
    <3> HIDE DEF f, g, D
    <3>1. /\ Count(PinsOf(mem, b)) \in Nat /\ g[b] \in Nat /\ One(b \in mem.kva) \in {0, 1}
          /\ mem.use[b] = g[b] + One(b \in mem.kva) + Count(PinsOf(mem, b))
      BY <1>2, <1>a, UsesAre
    <3> QED BY <1>3, <3>1
  <2>2. m.type = mem.type
    BY <1>1, <2>1, PutPagesFields
  <2> HIDE DEF m
  <2> QED BY <2>2, UsersKeep
<1>d. \A t \in Thread : pc'[t] = "flush" => arg'[t] \in Bo
  BY <1>1 DEF IInv, RefsInv, ThreadsSound, VarsOK, HeldSteps
<1>e. mem' = Put(m, b)
  OBVIOUS
<1>f. Sound(m, f, G, D)
  <2> HIDE DEF f, F, g, G, D
  <2> QED BY <1>2, <1>3, <1>a, <1>b, PutPagesSound
<1>g. CanPut(m, f, handle', exported', mapped', job', arg', client', ctx', pc', D, b)
  <2> HIDE DEF f, g, G, D, m
  <2> QED BY <1>3, <1>a, <1>c, <1>d, <1>f DEF CanPut
<1> HIDE DEF f, F, g, G, D, m
<1>4. Settled
  <2>1. /\ Sound(mem', F, UsersAt(mem', mapped', ctx', pc', arg'), D) /\ Dwindled(m, mem')
    BY <1>e, <1>g, PutStep DEF F
  <2>2. Dwindled(mem, mem')
    BY <1>c, <2>1 DEF Dwindled
  <2> QED BY <2>1, <2>2 DEF Settled, SoundAt, F, D
<1>5. OldTypes
  BY <1>4, SettledTypes
<1>6. VarsOK'
  BY <1>1 DEF VarsOK
<1>7. MapsSound'
  BY <1>1, <1>5, <1>6 DEF MapsSound, OldTypes, HeapBufs, VarsOK
<1>8. ThreadsSound'
  BY <1>1, <1>5, <1>6 DEF ThreadsSound, IInv, RefsInv, OldTypes, Pinnable, VarsOK, HeldSteps, CtxSteps
<1>9. ClientSound'
  BY <1>1, <1>5, <1>6 DEF ClientSound, IInv, RefsInv, OldTypes, VarsOK
<1> QED BY <1>4, <1>6, <1>7, <1>8, <1>9, Finish

(* Without a target nothing is pinned or unpinned.                         *)
LEMMA NoTarget ==
    ASSUME NEW m \in Mem
    PROVE  GetPages(m, {}) = m /\ PutPages(m, {}) = m
<1>1. m.use \in [Bo -> Nat] /\ m.pages \in [Bo -> {"none", "cur", "stale"}]
  BY DEF Mem
<1>2. [x \in Bo |-> m.use[x]] = m.use /\ [x \in Bo |-> m.pages[x]] = m.pages
  BY <1>1
<1>3. GetPages(m, {}) = [m EXCEPT !.use = [x \in Bo |-> m.use[x]]]
  BY DEF GetPages
<1>4. PutPages(m, {}) = [m EXCEPT !.use = [x \in Bo |-> m.use[x]], !.pages = [x \in Bo |-> m.pages[x]]]
  BY DEF PutPages
<1>5. [m EXCEPT !.use = m.use] = m /\ [m EXCEPT !.use = m.use, !.pages = m.pages] = m
  BY DEF Mem
<1> QED BY <1>2, <1>3, <1>4, <1>5

LEMMA SyncPinKeeps ==
    ASSUME IInv, Alive, NEW t \in Thread, SyncPin(t)
    PROVE  IInv' /\ OopsNeedsCause'
<1> DEFINE f == OwnersAt(handle, exported, mapped, job, arg, client, ctx)
           F == OwnersAt(handle', exported', mapped', job', arg', client', ctx')
           g == UsersAt(mem, mapped, ctx, pc, arg)
           G == UsersAt(mem, mapped', ctx', pc', arg')
           D == CurrentAt(ctx', blame')
<1>0. VarsOK /\ MapsSound
  BY Known
<1>d. /\ UNCHANGED <<handle, exported, mapped, job, dev_heap, userptr, ctx, client, missed, blame>>
      /\ pc[t] = "pin" /\ arg' = [arg EXCEPT ![t] = arg[t]]
      /\ \/ Pinnable(mem, arg[t]) /\ pc' = [pc EXCEPT ![t] = "flush"] /\ mem' = Pin(mem, arg[t])
         \/ pc' = [pc EXCEPT ![t] = "put"] /\ mem' = mem
  BY DEF SyncPin, Goto, Works, Fails, bookVars, heapVars
<1>1. /\ VarsOK /\ MapsSound /\ client = "open" /\ arg[t] \in Bo /\ mem \in Mem /\ arg' = arg
      /\ blame' = blame
  <2>1. arg[t] \in Bo /\ arg' = arg /\ client = "open"
    BY <1>0, <1>d DEF IInv, RefsInv, ThreadsSound, ClientSound, VarsOK, HeldSteps
  <2> QED BY <1>0, <1>d, <2>1, Known
<1>2. Sound(mem, f, g, D) /\ F = f
  BY <1>1, <1>d, PreSound DEF SoundAt
<1>3. (\A u \in Thread : pc'[u] # "ctx_pin") <=> (\A u \in Thread : pc[u] # "ctx_pin")
  BY <1>1, <1>d DEF VarsOK
<1>a. ASSUME Pinnable(mem, arg[t]), pc' = [pc EXCEPT ![t] = "flush"], mem' = Pin(mem, arg[t])
      PROVE  Settled
  <2>1. CASE PinTarget(mem, arg[t]) = {}
    <3>1. mem' = mem
      BY <1>1, <1>a, <2>1, NoTarget DEF Pin
    <3>2. G = g
      <4>1. \A u \in Thread : u # t => (pc'[u] = "flush" <=> pc[u] = "flush") /\ arg'[u] = arg[u]
        BY <1>1, <1>a, <1>d DEF VarsOK
      <4>2. pc[t] # "flush" /\ (pc'[t] = "flush" => PinTarget(mem, arg'[t]) = {})
        BY <1>1, <1>a, <1>d, <2>1 DEF VarsOK
      <4>3. NoFlush(mem, pc, arg, pc', arg', t)
        BY <1>3, <4>1, <4>2 DEF NoFlush
      <4> QED BY <1>d, <4>3, UsersNoFlush
    <3> QED BY <1>1, <1>2, <1>d, <3>1, <3>2, Untouched
  <2>2. ASSUME NEW x \in Bo, PinTarget(mem, arg[t]) = {x}, mem.type[x] \in Shmem
        PROVE  Settled
    <3>1. OneMore(g, G, x)
      <4>1. \A u \in Thread : u # t => (pc'[u] = "flush" <=> pc[u] = "flush") /\ arg'[u] = arg[u]
        BY <1>1, <1>a, <1>d DEF VarsOK
      <4>2. pc[t] # "flush" /\ pc'[t] = "flush" /\ PinTarget(mem, arg'[t]) = {x}
        BY <1>1, <1>a, <1>d, <2>2 DEF VarsOK
      <4> QED BY <1>3, <1>d, <4>1, <4>2, UsersFlush
    <3> HIDE DEF f, F, g, G, D
    <3>2. Sound(GetPages(mem, {x}), f, [g EXCEPT ![x] = @ + 1], D)
      BY <1>2, <2>2, GetPagesSound
    <3>3. GetPages(mem, {x}).type = mem.type
      BY <1>1, GetPagesFields
    <3>4. mem' = GetPages(mem, {x})
      BY <1>a, <2>2 DEF Pin
    <3>5. Sound(mem', F, G, D) /\ mem'.type = mem.type
      BY <1>2, <3>1, <3>2, <3>3, <3>4 DEF OneMore
    <3> QED BY <1>d, <3>5, Shaped DEF F, G, D
  <2>3. \/ PinTarget(mem, arg[t]) = {}
        \/ \E x \in Bo : PinTarget(mem, arg[t]) = {x} /\ mem.type[x] \in Shmem
    <3> HIDE DEF f, g, D
    <3> QED BY <1>1, <1>2, <1>a, PinTargetIs
  <2> QED BY <2>1, <2>2, <2>3
<1>b. ASSUME pc' = [pc EXCEPT ![t] = "put"], mem' = mem
      PROVE  Settled
  <2>1. Quiet(t, pc[t], "put", arg[t])
    BY <1>1, <1>b, <1>d DEF Quiet, Goto
  <2>2. G = g
    BY <1>1, <2>1, QuietUsers
  <2> QED BY <1>1, <1>2, <1>b, <1>d, <2>2, Untouched
<1>4. Settled
  BY <1>a, <1>b, <1>d
<1>c. pc' = [pc EXCEPT ![t] = "put"] \/ (pc' = [pc EXCEPT ![t] = "flush"] /\ Pinnable(mem, arg[t]))
  BY <1>d
<1>5. OldTypes
  BY <1>4, SettledTypes
<1>6. VarsOK'
  BY <1>1, <1>c, <1>d DEF VarsOK, HeldSteps
<1>7. MapsSound'
  BY <1>1, <1>c, <1>d, <1>5, <1>6 DEF MapsSound, OldTypes, HeapBufs, VarsOK
<1>8. ThreadsSound'
  BY <1>1, <1>c, <1>d, <1>5, <1>6 DEF ThreadsSound, IInv, RefsInv, OldTypes, Pinnable, VarsOK, HeldSteps, CtxSteps
<1>9. ClientSound'
  BY <1>1, <1>c, <1>d, <1>5, <1>6 DEF ClientSound, IInv, RefsInv, OldTypes, VarsOK
<1> QED BY <1>4, <1>6, <1>7, <1>8, <1>9, Finish

LEMMA SubmitKeeps ==
    ASSUME IInv, Alive, NEW b \in Bo, Submit(b)
    PROVE  IInv' /\ OopsNeedsCause'
<1> USE DEF Submit, heapVars, thrVars
<1> DEFINE f == OwnersAt(handle, exported, mapped, job, arg, client, ctx)
           F == OwnersAt(handle', exported', mapped', job', arg', client', ctx')
           g == UsersAt(mem, mapped, ctx, pc, arg)
           G == UsersAt(mem, mapped', ctx', pc', arg')
           D == CurrentAt(ctx', blame')
<1>0. VarsOK /\ MapsSound
  BY Known
<1>1. VarsOK /\ MapsSound /\ Live(mem, b) /\ mem \in Mem /\ NoBo \notin Bo
  BY <1>0, Known
<1>2. Sound(mem, f, g, D) /\ G = g
  BY PreSound DEF SoundAt
<1>3. OneMore(f, F, b)
  BY OwnJob
<1>4. Settled
  <2>1. CASE b \in mem.pinned
    <3>1. mem' = Get(mem, b)
      BY <2>1
    <3> QED BY <1>1, <1>3, <3>1, Gained
  <2>2. CASE b \notin mem.pinned
    <3> DEFINE m == [Pin(mem, b) EXCEPT !.pinned = @ \cup {b}]
    <3> HIDE DEF f, F, g, G, D
    <3>1. Sound(m, f, g, D) /\ m.type = mem.type
      BY <1>2, <2>2, PinnedSound
    <3>2. mem' = Get(m, b)
      BY <2>2
    <3> HIDE DEF m
    <3>3. Live(m, b) /\ m \in Mem
      BY <1>1, <3>1, SameTypes DEF Sound
    <3>4. Sound(Get(m, b), [f EXCEPT ![b] = @ + 1], g, D)
      BY <3>1, <3>3, GetSound
    <3>5. Get(m, b).type = mem.type
      BY <3>1, <3>3 DEF Get, Mem
    <3>6. Sound(mem', F, G, D) /\ mem'.type = mem.type
      BY <1>2, <1>3, <3>2, <3>4, <3>5 DEF OneMore
    <3> QED BY <3>6, Shaped DEF F, G, D
  <2> QED BY <2>1, <2>2
<1>a. /\ UNCHANGED <<handle, exported, mapped, dev_heap, userptr, ctx, client, pc, arg, missed, blame>>
      /\ job' = b /\ ctx.state = "ready" /\ client = "open"
  OBVIOUS
<1> HIDE DEF Submit
<1>5. OldTypes
  BY <1>4, SettledTypes
<1>6. VarsOK'
  BY <1>1, <1>a DEF VarsOK
<1>7. MapsSound'
  BY <1>1, <1>a, <1>5, <1>6 DEF MapsSound, OldTypes, HeapBufs, VarsOK
<1>8. ThreadsSound'
  BY <1>1, <1>a, <1>5, <1>6 DEF ThreadsSound, IInv, RefsInv, OldTypes, Pinnable, VarsOK, HeldSteps, CtxSteps
<1>9. ClientSound'
  BY <1>1, <1>a, <1>5, <1>6 DEF ClientSound, IInv, RefsInv, OldTypes, VarsOK
<1> QED BY <1>4, <1>6, <1>7, <1>8, <1>9, Finish

LEMMA CtxPinKeeps ==
    ASSUME IInv, Alive, NEW t \in Thread, CtxPin(t)
    PROVE  IInv' /\ OopsNeedsCause'
<1> DEFINE f == OwnersAt(handle, exported, mapped, job, arg, client, ctx)
           F == OwnersAt(handle', exported', mapped', job', arg', client', ctx')
           g == UsersAt(mem, mapped, ctx, pc, arg)
           G == UsersAt(mem, mapped', ctx', pc', arg')
           D == CurrentAt(ctx', blame')
<1>0. VarsOK /\ MapsSound
  BY Known
<1>d. /\ UNCHANGED <<handle, exported, mapped, job, dev_heap, userptr, client, missed, blame>>
      /\ pc[t] = "ctx_pin" /\ arg' = [arg EXCEPT ![t] = NoBo]
      /\ \/ mem' = Pin(mem, ctx.heap) /\ pc' = [pc EXCEPT ![t] = "ctx_buf"] /\ ctx' = ctx
         \/ mem' = Put(mem, ctx.heap) /\ pc' = [pc EXCEPT ![t] = "idle"] /\ ctx' = NoCtx
  BY DEF CtxPin, Goto, Works, Fails, Returns, bookVars, heapVars
<1>1. /\ VarsOK /\ MapsSound /\ client = "open" /\ mem \in Mem /\ NoBo \notin Bo /\ ctx.state = "init"
      /\ ctx.heap = dev_heap /\ ctx.buf = NoBo /\ dev_heap \in Bo /\ mem.type[dev_heap] = "heap"
      /\ arg' = arg /\ (\A u \in Thread : pc[u] \in CtxSteps => u = t)
  <2>1. /\ client = "open" /\ ctx.heap = dev_heap /\ ctx.buf = NoBo /\ dev_heap \in Bo
        /\ arg[t] = NoBo /\ ctx.state = "init" /\ (\A u \in Thread : pc[u] \in CtxSteps => u = t)
    BY <1>0, <1>d DEF IInv, RefsInv, ThreadsSound, ClientSound, VarsOK, HeldSteps, CtxSteps
  <2>2. arg' = arg
    BY <1>0, <1>d, <2>1 DEF VarsOK
  <2>3. mem.type[dev_heap] = "heap"
    BY <2>1, Known DEF ObjectsFormed
  <2> QED BY <1>0, <2>1, <2>2, <2>3, Known
<1>2. Sound(mem, f, g, CurrentAt(ctx, blame))
  BY PreSound DEF SoundAt
<1>a. ASSUME mem' = Pin(mem, ctx.heap), pc' = [pc EXCEPT ![t] = "ctx_buf"], ctx' = ctx
      PROVE  Settled
  <2>1. OneMore(g, G, dev_heap)
    <3>1. \A u \in Thread : (pc'[u] = "flush" <=> pc[u] = "flush") /\ (pc[u] = "flush" => arg'[u] = arg[u])
      BY <1>1, <1>a, <1>d DEF VarsOK
    <3>2. \A u \in Thread : pc'[u] # "ctx_pin"
      BY <1>1, <1>a, <1>d DEF VarsOK, CtxSteps
    <3> QED BY <1>1, <1>a, <1>d, <3>1, <3>2, UsersCtx
  <2>2. F = f /\ D = CurrentAt(ctx, blame)
    BY <1>1, <1>a, <1>d
  <2> HIDE DEF f, F, g, G, D
  <2>3. Sound(GetPages(mem, {dev_heap}), f, [g EXCEPT ![dev_heap] = @ + 1], D)
    <3>1. mem.type[dev_heap] \in Shmem
      BY <1>1 DEF Shmem
    <3> QED BY <1>1, <1>2, <2>2, <3>1, GetPagesSound
  <2>4. GetPages(mem, {dev_heap}).type = mem.type
    BY <1>1, GetPagesFields
  <2>5. mem' = GetPages(mem, {dev_heap})
    BY <1>1, <1>a DEF Pin, PinTarget
  <2>6. Sound(mem', F, G, D) /\ mem'.type = mem.type
    BY <2>1, <2>2, <2>3, <2>4, <2>5 DEF OneMore
  <2> QED BY <1>d, <2>6, Shaped DEF F, G, D
<1>b. ASSUME mem' = Put(mem, ctx.heap), pc' = [pc EXCEPT ![t] = "idle"], ctx' = NoCtx
      PROVE  Settled
  <2>0. ctx'.heap = NoBo /\ ctx'.buf = NoBo
    BY <1>b DEF NoCtx
  <2>1. OneMore(F, f, dev_heap)
    BY <1>1, <1>d, <2>0, OwnCtxHeap
  <2>2. G = g
    <3>1. SameUses(ctx, pc, arg, ctx', pc', arg')
      <4>1. \A u \in Thread : (pc'[u] = "flush" <=> pc[u] = "flush") /\ (pc[u] = "flush" => arg'[u] = arg[u])
        BY <1>1, <1>b, <1>d DEF VarsOK
      <4>2. \A y \in Bo : (y = ctx'.heap /\ \A u \in Thread : pc'[u] # "ctx_pin")
                           <=> (y = ctx.heap /\ \A u \in Thread : pc[u] # "ctx_pin")
        BY <1>1, <1>d, <2>0
      <4> QED BY <4>1, <4>2 DEF SameUses
    <3> QED BY <1>d, <3>1, UsersSame
  <2>3. D \subseteq CurrentAt(ctx, blame)
    BY <1>1, <1>d, <2>0 DEF CurrentAt
  <2>4. \A u \in Thread : pc'[u] = "flush" => arg'[u] \in Bo
    BY <1>1, <1>b, <1>d DEF IInv, RefsInv, ThreadsSound, VarsOK, HeldSteps
  <2> QED BY <1>1, <1>b, <1>d, <2>1, <2>2, <2>3, <2>4, Dropped
<1>4. Settled
  BY <1>a, <1>b, <1>d
<1>c. \/ pc' = [pc EXCEPT ![t] = "ctx_buf"] /\ ctx' = ctx
      \/ pc' = [pc EXCEPT ![t] = "idle"] /\ ctx' = [state |-> "none", heap |-> NoBo, buf |-> NoBo]
  BY <1>d DEF NoCtx
<1>e. UNCHANGED <<handle, exported, mapped, job, dev_heap, userptr, client, missed, blame>> /\ pc[t] = "ctx_pin"
  BY <1>d
<1>5. OldTypes
  BY <1>4, SettledTypes
<1>6. VarsOK'
  BY <1>1, <1>c, <1>e DEF VarsOK, CtxSteps
<1>7. MapsSound'
  BY <1>1, <1>c, <1>e, <1>5, <1>6 DEF MapsSound, OldTypes, HeapBufs, VarsOK
<1>8. ThreadsSound'
  BY <1>1, <1>c, <1>e, <1>5, <1>6 DEF ThreadsSound, IInv, RefsInv, OldTypes, Pinnable, VarsOK, HeldSteps, CtxSteps
<1>9. ClientSound'
  BY <1>1, <1>c, <1>e, <1>5, <1>6 DEF ClientSound, IInv, RefsInv, OldTypes, VarsOK
<1> QED BY <1>4, <1>6, <1>7, <1>8, <1>9, Finish

(* A context lets go of the heap: what it pinned of it, and its reference. *)
LEMMA Undone ==
    ASSUME IInv, Alive, client = "open",
           UNCHANGED <<handle, exported, mapped, job, arg, dev_heap, client, blame>>,
           ctx.heap = dev_heap, dev_heap \in Bo, ctx'.heap = NoBo, ctx'.buf = NoBo,
           \A t \in Thread : pc[t] # "ctx_pin" /\ (pc'[t] = "flush" <=> pc[t] = "flush"),
           NEW m, NEW z, z.heap = dev_heap, z.buf = NoBo, Dwindled(mem, m),
           Sound(m, OwnersAt(handle, exported, mapped, job, arg, client, z),
                 UsersAt(m, mapped, ctx, pc, arg), CurrentAt(ctx', blame')),
           mem' = CtxUndo(m)
    PROVE  Settled
<1> DEFINE f == OwnersAt(handle, exported, mapped, job, arg, client, z)
           F == OwnersAt(handle', exported', mapped', job', arg', client', ctx')
           g == UsersAt(m, mapped, ctx, pc, arg)
           G == UsersAt(m, mapped', ctx', pc', arg')
           D == CurrentAt(ctx', blame')
           n == PutPages(m, {dev_heap})
<1>0. VarsOK /\ MapsSound /\ NoBo \notin Bo
  BY Known
<1>1. OneMore(F, f, dev_heap)
  BY <1>0, OwnCtxHeap
<1>2. OneMore(G, g, dev_heap)
  BY <1>0, UsersCtx
<1>3. m \in Mem /\ m.type[dev_heap] = "heap" /\ m.type[dev_heap] \in Shmem
  <2>1. f[dev_heap] > 0
    BY ThreadsOwn
  <2>2. m.type[dev_heap] # "freed"
    BY <2>1, OwnedLive
  <2> QED BY <2>2 DEF Sound, ObjectsFormed, Shmem
<1>4. mem' = Put(n, dev_heap)
  BY <1>3 DEF CtxUndo, Unpin, PinTarget
<1>5. ASSUME NEW c \in D, m.type[c] = "dev"
      PROVE  g[dev_heap] > 1
  <2>1. c \in Bo /\ "munmap" \notin blame
    BY <1>0, <1>5 DEF CurrentAt
  <2>2. c \in HeapBufs(mem)
    BY <1>5, <2>1 DEF Dwindled, HeapBufs
  <2>3. dev_heap \in mapped
    BY <1>0, <2>1, <2>2 DEF MapsSound
  <2> QED BY <2>3, UsersParts
<1> HIDE DEF f, F, g, G, D
<1>6. /\ Count(PinsOf(m, dev_heap)) \in Nat /\ g[dev_heap] \in Nat
      /\ One(dev_heap \in m.kva) \in {0, 1}
      /\ m.use[dev_heap] = g[dev_heap] + One(dev_heap \in m.kva) + Count(PinsOf(m, dev_heap))
  <2>1. Sound(m, f, g, D)
    BY DEF f, g, D
  <2> QED BY <1>3, <2>1, UsesAre
<1>7. n.type = m.type
  <2>1. g[dev_heap] > 0
    BY <1>2 DEF OneMore
  <2>2. {dev_heap} \in SUBSET Bo /\ \A x \in {dev_heap} : m.use[x] > 0
    BY <1>6, <2>1
  <2> QED BY <1>3, <2>2, PutPagesFields
<1>8. Sound(n, f, G, D)
  <2>1. Sound(m, f, g, D) /\ g[dev_heap] > 0 /\ G = [g EXCEPT ![dev_heap] = @ - 1]
    BY <1>2 DEF f, g, D, OneMore
  <2>2. Sound(PutPages(m, {dev_heap}), f, [g EXCEPT ![dev_heap] = @ - 1], D)
    BY <1>3, <1>5, <2>1, PutPagesSound
  <2> QED BY <2>1, <2>2
<1> HIDE DEF n
<1>9. CanPut(n, f, handle', exported', mapped', job', arg', client', ctx', pc', D, dev_heap)
  <2>1. UsersAt(n, mapped', ctx', pc', arg') = G
    BY <1>7, UsersKeep DEF G
  <2>2. \A t \in Thread : pc'[t] = "flush" => arg'[t] \in Bo
    BY <1>0 DEF IInv, RefsInv, ThreadsSound, VarsOK, HeldSteps
  <2>3. OwnersAt(handle', exported', mapped', job', arg', client', ctx') = [f EXCEPT ![dev_heap] = @ - 1] /\ f[dev_heap] > 0
    BY <1>1 DEF OneMore, F
  <2> QED BY <1>3, <1>7, <1>8, <2>1, <2>2, <2>3 DEF CanPut
<1>10. Sound(mem', F, UsersAt(mem', mapped', ctx', pc', arg'), D) /\ Dwindled(n, mem')
  BY <1>4, <1>9, PutStep DEF F
<1>11. Dwindled(mem, mem')
  BY <1>7, <1>10 DEF Dwindled
<1> QED BY <1>10, <1>11 DEF Settled, SoundAt, F, D

(* aie2_ctx_fini(), and the last ladder of aie2_ctx_init(): the command     *)
(* buffer first.                                                           *)
LEMMA Unwound ==
    ASSUME IInv, Alive, client = "open",
           UNCHANGED <<handle, exported, mapped, job, arg, dev_heap, client, blame>>,
           ctx.heap = dev_heap, dev_heap \in Bo, ctx.buf \in Bo, ctx'.heap = NoBo, ctx'.buf = NoBo,
           \A t \in Thread : pc[t] # "ctx_pin" /\ (pc'[t] = "flush" <=> pc[t] = "flush"),
           mem' = CtxUndoBuf(mem)
    PROVE  Settled
<1> DEFINE z == [ctx EXCEPT !.buf = NoBo]
           f == OwnersAt(handle, exported, mapped, job, arg, client, ctx)
           D == CurrentAt(ctx', blame')
           m == Put(mem, ctx.buf)
<1>0. VarsOK /\ MapsSound /\ NoBo \notin Bo
  BY Known
<1>1. z.heap = dev_heap /\ z.buf = NoBo
  BY <1>0 DEF VarsOK
<1> HIDE DEF z
<1>2. OneMore(OwnersAt(handle, exported, mapped, job, arg, client, z), f, ctx.buf)
  BY <1>1, OwnCtxBuf
<1>3. Sound(mem, f, UsersAt(mem, mapped, ctx, pc, arg), D)
  <2>1. D \subseteq CurrentAt(ctx, blame)
    BY <1>0 DEF CurrentAt
  <2> QED BY <2>1, PreSound, SoundLess DEF SoundAt
<1>4. \A k : UsersAt(k, mapped, z, pc, arg) = UsersAt(k, mapped, ctx, pc, arg)
  <2>1. SameUses(ctx, pc, arg, z, pc, arg)
    BY <1>1 DEF SameUses
  <2> QED BY <2>1, UsersSame
<1>5. CanPut(mem, f, handle, exported, mapped, job, arg, client, z, pc, D, ctx.buf)
  <2>1. \A t \in Thread : pc[t] = "flush" => arg[t] \in Bo
    BY <1>0 DEF IInv, RefsInv, ThreadsSound, VarsOK, HeldSteps
  <2>2. f[dev_heap] > 0
    BY ThreadsOwn
  <2>3. OwnersAt(handle, exported, mapped, job, arg, client, z) = [f EXCEPT ![ctx.buf] = @ - 1] /\ f[ctx.buf] > 0
    BY <1>2 DEF OneMore
  <2>4. Sound(mem, f, UsersAt(mem, mapped, z, pc, arg), D)
    BY <1>3, <1>4
  <2> HIDE DEF f, D
  <2> QED BY <2>1, <2>2, <2>3, <2>4 DEF CanPut
<1>6. /\ Sound(m, OwnersAt(handle, exported, mapped, job, arg, client, z),
               UsersAt(m, mapped, z, pc, arg), D)
      /\ Dwindled(mem, m)
  <2> HIDE DEF f, D
  <2> QED BY <1>5, PutStep
<1>7. Sound(m, OwnersAt(handle, exported, mapped, job, arg, client, z),
            UsersAt(m, mapped, ctx, pc, arg), CurrentAt(ctx', blame')) /\ Dwindled(mem, m)
  BY <1>4, <1>6
<1>8. mem' = CtxUndo(m)
  BY DEF CtxUndoBuf
<1> HIDE DEF m
<1> QED BY <1>1, <1>7, <1>8, Undone

LEMMA CtxRestKeeps ==
    ASSUME IInv, Alive, NEW t \in Thread, CtxRest(t)
    PROVE  IInv' /\ OopsNeedsCause'
<1>0. VarsOK /\ MapsSound
  BY Known
<1>d. /\ UNCHANGED <<handle, exported, mapped, job, dev_heap, userptr, client, missed, blame>>
      /\ pc[t] = "ctx_wq" /\ arg' = [arg EXCEPT ![t] = NoBo] /\ pc' = [pc EXCEPT ![t] = "idle"]
      /\ \/ mem' = mem /\ ctx' = [ctx EXCEPT !.state = "ready"]
         \/ /\ mem' = CtxUndoBuf(mem)
            /\ \/ ctx' = [state |-> "none", heap |-> NoBo, buf |-> NoBo]
               \/ ctx' = [state |-> "husk", heap |-> NoBo, buf |-> NoBo] /\ "wq" \in Faults
  BY DEF CtxRest, Goto, Works, Fails, Returns, bookVars, heapVars, NoCtx
<1>1. /\ VarsOK /\ MapsSound /\ client = "open" /\ NoBo \notin Bo /\ ctx.state = "init"
      /\ ctx.heap = dev_heap /\ ctx.buf \in Bo /\ dev_heap \in Bo /\ job = NoBo
      /\ arg' = arg /\ (\A u \in Thread : pc[u] \in CtxSteps => u = t)
  <2>1. /\ client = "open" /\ ctx.heap = dev_heap /\ ctx.buf # NoBo /\ dev_heap \in Bo
        /\ arg[t] = NoBo /\ ctx.state = "init" /\ (\A u \in Thread : pc[u] \in CtxSteps => u = t)
        /\ job = NoBo
    BY <1>0, <1>d DEF IInv, RefsInv, ThreadsSound, ClientSound, VarsOK, HeldSteps, CtxSteps
  <2>2. arg' = arg
    BY <1>0, <1>d, <2>1 DEF VarsOK
  <2>3. ctx.buf \in Bo
    BY <1>0, <2>1 DEF VarsOK
  <2> QED BY <1>0, <2>1, <2>2, <2>3, Known
<1>2. \A u \in Thread : pc[u] # "ctx_pin" /\ pc'[u] # "ctx_pin" /\ (pc'[u] = "flush" <=> pc[u] = "flush")
  <2>1. \A u \in Thread : pc[u] # "ctx_pin"
    BY <1>1, <1>d DEF CtxSteps
  <2> QED BY <1>1, <1>d, <2>1 DEF VarsOK
<1>a. ASSUME mem' = mem, ctx' = [ctx EXCEPT !.state = "ready"]
      PROVE  Settled
  <2>1. ctx'.heap = ctx.heap /\ ctx'.buf = ctx.buf
    BY <1>1, <1>a DEF VarsOK
  <2>2. OwnersAt(handle', exported', mapped', job', arg', client', ctx')
        = OwnersAt(handle, exported, mapped, job, arg, client, ctx)
    BY <1>1, <1>d, <2>1 DEF OwnersAt
  <2>3. UsersAt(mem, mapped', ctx', pc', arg') = UsersAt(mem, mapped, ctx, pc, arg)
    <3>1. SameUses(ctx, pc, arg, ctx', pc', arg')
      BY <1>1, <1>2, <2>1 DEF SameUses
    <3> QED BY <1>d, <3>1, UsersSame
  <2>4. CurrentAt(ctx', blame') \subseteq CurrentAt(ctx, blame)
    BY <1>d, <2>1 DEF CurrentAt
  <2> QED BY <1>a, <1>d, <2>2, <2>3, <2>4, Untouched
<1>b. ASSUME mem' = CtxUndoBuf(mem), ctx'.heap = NoBo, ctx'.buf = NoBo
      PROVE  Settled
  BY <1>1, <1>2, <1>b, <1>d, Unwound
<1>4. Settled
  BY <1>a, <1>b, <1>d
<1>c. \/ ctx' = [ctx EXCEPT !.state = "ready"]
      \/ ctx' = [state |-> "none", heap |-> NoBo, buf |-> NoBo]
      \/ ctx' = [state |-> "husk", heap |-> NoBo, buf |-> NoBo] /\ "wq" \in Faults
  BY <1>d
<1>e. UNCHANGED <<handle, exported, mapped, job, dev_heap, userptr, client, missed, blame>> /\ pc[t] = "ctx_wq"
      /\ pc' = [pc EXCEPT ![t] = "idle"]
  BY <1>d
<1>5. OldTypes
  BY <1>4, SettledTypes
<1>6. VarsOK'
  BY <1>1, <1>c, <1>e DEF VarsOK, CtxSteps
<1>7. MapsSound'
  BY <1>1, <1>c, <1>e, <1>5, <1>6 DEF MapsSound, OldTypes, HeapBufs, VarsOK
<1>8. ThreadsSound'
  BY <1>1, <1>c, <1>e, <1>5, <1>6 DEF ThreadsSound, IInv, RefsInv, OldTypes, Pinnable, VarsOK, HeldSteps, CtxSteps
<1>9. ClientSound'
  BY <1>1, <1>c, <1>e, <1>5, <1>6 DEF ClientSound, IInv, RefsInv, OldTypes, VarsOK
<1> QED BY <1>4, <1>6, <1>7, <1>8, <1>9, Finish


LEMMA CtxFiniKeeps ==
    ASSUME IInv, Alive, CtxFini
    PROVE  IInv' /\ OopsNeedsCause'
<1>0. VarsOK /\ MapsSound
  BY Known
<1>d. /\ UNCHANGED <<handle, exported, mapped, job, dev_heap, userptr, client, missed, blame, pc, arg>>
      /\ ctx' = [state |-> "none", heap |-> NoBo, buf |-> NoBo] /\ job = NoBo
      /\ \/ ctx.state = "husk" /\ mem' = Oops(mem, "husk")
         \/ ctx.state = "ready" /\ mem' = CtxUndoBuf(mem)
  BY DEF CtxFini, bookVars, heapVars, thrVars, NoCtx
<1>v. VarsOK'
  BY <1>0, <1>d DEF VarsOK
<1>a. CASE ctx.state = "husk"
  <2>1. mem' = Oops(mem, "husk") /\ "wq" \in Faults
    BY <1>a, <1>d DEF IInv, RefsInv, ClientSound
  <2>2. IInv' /\ mem'.oops = "husk"
    BY <1>v, <2>1, Crash
  <2> QED BY <2>1, <2>2 DEF OopsNeedsCause
<1>b. CASE ctx.state = "ready"
  <2>d. UNCHANGED <<handle, exported, mapped, job, dev_heap, userptr, client, missed, blame, pc, arg>>
        /\ ctx' = [state |-> "none", heap |-> NoBo, buf |-> NoBo] /\ mem' = CtxUndoBuf(mem)
    BY <1>b, <1>d
  <2>1. /\ VarsOK /\ MapsSound /\ client = "open" /\ ctx.heap = dev_heap /\ ctx.buf \in Bo
        /\ dev_heap \in Bo /\ (\A u \in Thread : pc[u] \notin CtxSteps) /\ job = NoBo
    BY <1>0, <1>b, <1>d DEF IInv, RefsInv, ThreadsSound, ClientSound, VarsOK
  <2>2. \A u \in Thread : pc[u] # "ctx_pin"
    BY <2>1 DEF CtxSteps
  <2>4. Settled
    BY <2>1, <2>2, <2>d, Unwound
  <2>5. OldTypes
    BY <2>4, SettledTypes
  <2>6. VarsOK'
    BY <2>1, <2>d DEF VarsOK, CtxSteps
  <2>7. MapsSound'
    BY <2>1, <2>d, <2>5, <2>6 DEF MapsSound, OldTypes, HeapBufs, VarsOK
  <2>8. ThreadsSound'
    BY <2>1, <2>d, <2>5, <2>6 DEF ThreadsSound, IInv, RefsInv, OldTypes, Pinnable, VarsOK, HeldSteps, CtxSteps
  <2>9. ClientSound'
    BY <2>1, <2>d, <2>5, <2>6 DEF ClientSound, IInv, RefsInv, OldTypes, VarsOK
  <2> QED BY <2>4, <2>6, <2>7, <2>8, <2>9, Finish
<1> QED BY <1>a, <1>b, <1>d
-----------------------------------------------------------------------------
(* Quotients and remainders.                                               *)
LEMMA DivMod ==
    ASSUME NEW x \in Nat, NEW d \in Nat \ {0}
    PROVE  /\ x \div d \in Nat /\ x % d \in 0..(d - 1) /\ x = d * (x \div d) + (x % d)
           /\ x < d => x \div d = 0 /\ x % d = x
<1>1. x % d \in 0..(d - 1) /\ x \div d \in Int /\ x = d * (x \div d) + (x % d)
  OBVIOUS
<1> DEFINE q == x \div d
           r == x % d
<1>2. q \in Int /\ r \in 0..(d - 1) /\ x = d * q + r
  BY <1>1
<1> HIDE DEF q, r
<1>3. q >= 0
  <2>1. q < 0 => d * q + d <= 0
    BY <1>2
  <2> QED BY <1>2, <2>1
<1>4. x < d => q = 0
  <2>1. q > 0 => d * q >= d
    BY <1>2
  <2> QED BY <1>2, <1>3, <2>1
<1>5. q = 0 => d * q = 0
  OBVIOUS
<1>6. q \in Nat /\ r \in 0..(d - 1) /\ x = d * q + r /\ (x < d => q = 0 /\ r = x)
  BY <1>2, <1>3, <1>4, <1>5
<1> QED BY <1>6 DEF q, r

LEMMA TimesMore ==
    ASSUME NEW d \in Nat \ {0}, NEW p \in Nat, NEW q \in Nat, p < q
    PROVE  d * p + d <= d * q
OBVIOUS

(* A page number grows with the address, and the place in a page with it.  *)
LEMMA DivGrows ==
    ASSUME NEW x \in Nat, NEW y \in Nat, x <= y, NEW d \in Nat \ {0}
    PROVE  /\ x \div d <= y \div d
           /\ x \div d = y \div d => x % d <= y % d
<1>1. /\ x \div d \in Nat /\ x % d \in 0..(d - 1) /\ x = d * (x \div d) + (x % d)
      /\ y \div d \in Nat /\ y % d \in 0..(d - 1) /\ y = d * (y \div d) + (y % d)
  BY DivMod
<1> DEFINE p == x \div d
           q == y \div d
           r == x % d
           s == y % d
           dp == d * p
           dq == d * q
<1>2. q < p => dq + d <= dp
  BY <1>1, TimesMore
<1>3. p \in Nat /\ q \in Nat /\ r \in 0..(d-1) /\ s \in 0..(d-1) /\ x = dp + r /\ y = dq + s /\ dp \in Nat /\ dq \in Nat
  BY <1>1
<1>4. p = q => dp = dq
  OBVIOUS
<1> HIDE DEF p, q, r, s, dp, dq
<1>5. p <= q /\ (p = q => r <= s)
  BY <1>2, <1>3, <1>4
<1> QED BY <1>5 DEF p, q, r, s

(* A byte before the end of page n lies in one of the pages before.        *)
LEMMA DivBelow ==
    ASSUME NEW x \in Nat, NEW d \in Nat \ {0}, NEW n \in Nat, x < n * d
    PROVE  x \div d < n
<1>1. /\ x \div d \in Nat /\ x % d \in 0..(d - 1) /\ x = d * (x \div d) + (x % d)
  BY DivMod
<1> DEFINE p == x \div d
           dp == d * p
           dn == n * d
<1>2. n < p => dn + d <= dp
  BY <1>1, TimesMore
<1>3. n = p => dn = dp
  OBVIOUS
<1>4. p \in Nat /\ dp \in Nat /\ dn \in Nat /\ x >= dp /\ x < dn
  BY <1>1
<1> HIDE DEF p, dp, dn
<1>5. p < n
  BY <1>2, <1>3, <1>4
<1> QED BY <1>5 DEF p

(* What amdxdna_drm_clflush() does for a range within a buffer of less than *)
(* 2^32 bytes: it reads pages of the buffer, and flushes the range if that  *)
(* begins in the first page.                                                *)
LEMMA FlushWithin ==
    ASSUME NEW n \in Nat \ {0}, n * PageSize < U32, NEW start \in Nat, NEW size \in Nat \ {0},
           start + size <= n * PageSize
    PROVE  /\ PagesRead(start, size) \subseteq 0..(n - 1)
           /\ start < PageSize => Asked(start, size) \subseteq Flushed(start, size)
<1>0. PageSize \in Nat \ {0} /\ U32 \in Nat \ {0}
  BY GemAssumption
<1> DEFINE end == start + size - 1
           sp == start \div PageSize
           ep == end \div PageSize
           off == start % PageSize
           mid == ep - sp - 1
<1>1. end \in Nat /\ start <= end /\ end < n * PageSize /\ n * PageSize \in Nat /\ end < U32
  BY <1>0
<1>2. FlushEnd(start, size) = end
  BY <1>0, <1>1, DivMod DEF FlushEnd
<1>3. sp \in Nat /\ ep \in Nat /\ sp <= ep /\ ep < n /\ off \in InPage /\ end % PageSize \in InPage
  BY <1>0, <1>1, DivMod, DivGrows, DivBelow DEF InPage
<1>b. n < U32 \/ n = U32
  <2>1. n <= n * PageSize
    BY <1>0
  <2> QED BY <1>0, <1>1, <2>1
<1>4. sp # ep => FlushMiddle(start, end) = mid
  <2>1. sp # ep => mid \in Nat /\ mid < U32
    <3> HIDE DEF sp, ep
    <3> QED BY <1>0, <1>3, <1>b
  <2>2. sp # ep => mid % U32 = mid
    BY <1>0, <2>1, DivMod
  <2> QED BY <2>2 DEF FlushMiddle
<1>5. Flushed(start, size) =
        IF sp = ep THEN {sp} \X (off..(off + size - 1))
        ELSE UNION {(IF off > 0 THEN {sp} \X (off..(PageSize - 1)) ELSE {0} \X InPage),
                    (1..mid) \X InPage, {ep} \X (0..(end % PageSize))}
  BY <1>2, <1>4 DEF Flushed
<1> HIDE DEF sp, ep, off, mid
<1>6. PagesRead(start, size) \subseteq 0..(n - 1)
  <2>1. \A f \in Flushed(start, size) : f[1] \in 0..(n - 1)
    <3>1. sp \in 0..(n - 1) /\ ep \in 0..(n - 1) /\ 0 \in 0..(n - 1)
      BY <1>3
    <3>2. sp # ep => \A i \in 1..mid : i \in 0..(n - 1)
      BY <1>3 DEF mid
    <3> QED BY <1>5, <3>1, <3>2
  <2>2. sp \in 0..(n - 1) /\ ep \in 0..(n - 1)
    BY <1>3
  <2> QED BY <1>2, <2>1, <2>2 DEF PagesRead, sp, ep
<1>7. ASSUME start < PageSize
      PROVE  Asked(start, size) \subseteq Flushed(start, size)
  <2>1. sp = 0 /\ off = start
    BY <1>0, <1>7, DivMod DEF sp, off
  <2> SUFFICES ASSUME NEW x \in start..(start + size - 1)
               PROVE  <<x \div PageSize, x % PageSize>> \in Flushed(start, size)
    BY DEF Asked
  <2> DEFINE p == x \div PageSize
             r == x % PageSize
  <2>2. x \in Nat /\ start <= x /\ x <= end
    BY <1>0
  <2>3. /\ p \in Nat /\ r \in InPage /\ sp <= p /\ p <= ep
        /\ p = sp => off <= r
        /\ p = ep => r <= end % PageSize
    BY <1>0, <1>1, <2>2, DivMod, DivGrows DEF sp, ep, off, InPage
  <2>4. x < PageSize => r = x
    BY <1>0, <2>2, DivMod
  <2>5. p = 0 => x < PageSize
    <3>1. x = PageSize * p + r
      BY <1>0, <2>2, DivMod
    <3>2. p = 0 => PageSize * p = 0
      BY <1>0
    <3> HIDE DEF p, r
    <3> QED BY <1>0, <2>2, <2>3, <3>1, <3>2 DEF InPage
  <2> HIDE DEF p, r
  <2>6. CASE sp = ep
    <3>1. p = sp /\ r \in off..(off + size - 1)
      BY <2>1, <2>2, <2>3, <2>4, <2>5, <2>6
    <3>2. <<p, r>> \in Flushed(start, size)
      BY <1>5, <2>6, <3>1
    <3> QED BY <3>2 DEF p, r
  <2>7. CASE sp # ep
    <3>1. /\ r \in 0..(PageSize - 1) /\ (p = sp => r \in off..(PageSize - 1))
          /\ (p = ep => r \in 0..(end % PageSize))
      BY <1>0, <1>3, <2>3 DEF InPage
    <3>2. p = 0 \/ p = ep \/ p \in 1..mid
      BY <1>3, <2>1, <2>3 DEF mid
    <3>3. <<p, r>> \in Flushed(start, size)
      <4>1. CASE p = 0
        BY <1>5, <2>1, <2>7, <3>1, <4>1 DEF InPage
      <4>2. CASE p = ep
        BY <1>5, <2>7, <3>1, <4>2
      <4>3. CASE p \in 1..mid
        BY <1>5, <2>7, <3>1, <4>3 DEF InPage
      <4> QED BY <3>2, <4>1, <4>2, <4>3
    <3> QED BY <3>3 DEF p, r
  <2> QED BY <2>6, <2>7
<1> QED BY <1>6, <1>7

(* Buffers of less than 2^32 bytes, as the heap is.                        *)
SmallObjects == HeapPages * PageSize < U32 /\ SharePages * PageSize < U32
Sizes == 1..HeapPages \cup {SharePages}

LEMMA FlushKnown ==
    ASSUME NEW n \in Sizes, NEW res \in FlushResults[n]
    PROVE  /\ res.blame \subseteq {"size0", "wrap"}
           /\ SmallObjects /\ res.oops => {"size0", "wrap"} \cap res.blame # {}
           /\ SmallObjects => res.missed # "first"
<1>0. PageSize \in Nat \ {0} /\ U32 \in Nat \ {0} /\ U64 \in Nat \ {0} /\ U32 <= U64
      /\ HeapPages \in Nat \ {0} /\ SharePages \in Nat \ {0}
  BY GemAssumption
<1>1. PICK offset \in Ends(n), size \in Ends(n) :
         InRange(n, offset, size) /\ res = FlushResult(n, offset, size)
  BY DEF FlushResults, Sizes
<1> DEFINE start == offset % U32
           len == size % U32
           wraps == offset + size >= U64
           outside == ~(PagesRead(start, len) \subseteq 0..(n - 1))
<1>2. res = [oops |-> outside,
             blame |-> CASE outside /\ size = 0 -> {"size0"}
                         [] outside /\ size # 0 /\ wraps -> {"wrap"}
                         [] OTHER -> {},
             missed |-> CASE outside \/ Asked(start, len) \subseteq Flushed(start, len) -> "no"
                          [] wraps -> "wrapped"
                          [] OTHER -> IF start < PageSize THEN "first" ELSE "later"]
  BY <1>1 DEF FlushResult
<1>3. n \in Nat \ {0} /\ offset \in Nat /\ size \in Nat
  <2>1. n \in Nat \ {0}
    BY <1>0 DEF Sizes
  <2>2. n * PageSize \in Nat
    BY <1>0, <2>1
  <2> QED BY <1>0, <2>1, <2>2 DEF Ends
<1>4. ASSUME SmallObjects, ~wraps, size # 0
      PROVE  ~outside /\ (start < PageSize => Asked(start, len) \subseteq Flushed(start, len))
  <2>1. n * PageSize < U32 /\ n * PageSize \in Nat
    <3>1. CASE n = SharePages
      BY <1>0, <1>4, <3>1 DEF SmallObjects
    <3>2. CASE n \in 1..HeapPages
      <4>1. n * PageSize <= HeapPages * PageSize
        BY <1>0, <3>2
      <4>2. n * PageSize \in Nat /\ HeapPages * PageSize \in Nat
        BY <1>0, <3>2
      <4> QED BY <1>0, <1>4, <4>1, <4>2 DEF SmallObjects
    <3> QED BY <3>1, <3>2 DEF Sizes
  <2>2. offset + size <= n * PageSize
    <3>1. offset + size \in Nat /\ offset + size < U64
      BY <1>0, <1>3, <1>4
    <3>2. (offset + size) % U64 = offset + size
      BY <1>0, <3>1, DivMod
    <3> QED BY <1>1, <3>2 DEF InRange
  <2>3. start = offset /\ len = size
    <3>1. offset < U32 /\ size < U32
      BY <1>0, <1>3, <1>4, <2>1, <2>2
    <3> QED BY <1>0, <1>3, <3>1, DivMod
  <2> QED BY <1>3, <1>4, <2>1, <2>2, <2>3, FlushWithin
<1>5. size = 0 => Asked(start, len) = {}
  <2>1. size = 0 => len = 0
    BY <1>0, DivMod
  <2>2. start \in Nat
    BY <1>0, <1>3, DivMod
  <2> HIDE DEF start, len
  <2>3. size = 0 => start..(start + len - 1) = {}
    BY <2>1, <2>2
  <2> QED BY <2>3 DEF Asked
<1> HIDE DEF start, len, wraps, outside
<1>6. res.blame \subseteq {"size0", "wrap"}
  BY <1>2
<1>7. SmallObjects /\ res.oops => {"size0", "wrap"} \cap res.blame # {}
  BY <1>2, <1>4
<1>8. SmallObjects => res.missed # "first"
  BY <1>2, <1>4, <1>5
<1> QED BY <1>6, <1>7, <1>8

(* A live buffer has pages to flush.                                       *)
LEMMA BoHasPages ==
    ASSUME IInv, Alive, NEW b \in Bo
    PROVE  BoPages(b) \in Sizes
<1>0. HeapPages \in Nat \ {0} /\ mem \in Mem /\ ObjectsFormed(mem)
  BY GemAssumption, Known
<1>1. CASE mem.type[b] = "dev"
  <2> DEFINE S == mem.node[b]
             I == 0..(HeapPages - 1)
  <2>1. S \subseteq I /\ S # {}
    BY <1>0, <1>1 DEF Mem, ObjectsFormed
  <2>2. IsFiniteSet(I) /\ Cardinality(I) = HeapPages
    BY <1>0, FS_Interval
  <2> HIDE DEF S, I
  <2>3. Cardinality(S) \in Nat /\ Cardinality(S) <= HeapPages /\ Cardinality(S) # 0
    BY <2>1, <2>2, FS_Subset, FS_EmptySet, FS_CardinalityType
  <2> QED BY <1>0, <1>1, <2>3 DEF BoPages, Sizes, S
<1>2. CASE mem.type[b] # "dev"
  BY <1>0, <1>2 DEF BoPages, Sizes
<1> QED BY <1>1, <1>2

LEMMA SyncFlushKeeps ==
    ASSUME IInv, Alive, NEW t \in Thread, SyncFlush(t)
    PROVE  IInv' /\ (SmallObjects => OopsNeedsCause' /\ missed' # "first")
<1> DEFINE f == OwnersAt(handle, exported, mapped, job, arg, client, ctx)
           F == OwnersAt(handle', exported', mapped', job', arg', client', ctx')
           g == UsersAt(mem, mapped, ctx, pc, arg)
           G == UsersAt(mem, mapped', ctx', pc', arg')
           D == CurrentAt(ctx', blame')
<1>0. VarsOK /\ MapsSound
  BY Known
<1>d. /\ UNCHANGED <<handle, exported, mapped, job, dev_heap, userptr, ctx, client>>
      /\ pc[t] = "flush" /\ arg' = [arg EXCEPT ![t] = arg[t]] /\ pc' = [pc EXCEPT ![t] = "put"]
      /\ \/ mem' = Unpin(mem, arg[t]) /\ blame' = blame /\ missed' = "no"
         \/ /\ mem.type[arg[t]] = "dev" /\ mem.pages[arg[t]] # "cur" /\ mem' = Oops(mem, "bad_pages")
            /\ blame' = blame /\ missed' = "no"
         \/ \E res \in FlushResults[BoPages(arg[t])] :
              /\ mem' = IF res.oops THEN Oops(mem, "outside") ELSE Unpin(mem, arg[t])
              /\ missed' = res.missed /\ blame' = blame \cup res.blame
  BY DEF SyncFlush, Flush, Goto, Works, bookVars, heapVars
<1>1. /\ VarsOK /\ MapsSound /\ client = "open" /\ arg[t] \in Bo /\ mem \in Mem /\ arg' = arg
      /\ Pinnable(mem, arg[t])
  <2>1. arg[t] \in Bo /\ arg' = arg /\ client = "open" /\ Pinnable(mem, arg[t])
    BY <1>0, <1>d DEF IInv, RefsInv, ThreadsSound, ClientSound, VarsOK, HeldSteps
  <2> QED BY <1>0, <1>d, <2>1, Known
<1>e. UNCHANGED <<handle, exported, mapped, job, dev_heap, userptr, ctx, client>> /\ pc[t] = "flush"
      /\ pc' = [pc EXCEPT ![t] = "put"]
  BY <1>d
<1>v. VarsOK'
  BY <1>1, <1>e DEF VarsOK, HeldSteps
<1>3. (\A u \in Thread : pc'[u] # "ctx_pin") <=> (\A u \in Thread : pc[u] # "ctx_pin")
  BY <1>1, <1>e DEF VarsOK
<1>a. ASSUME mem' = Unpin(mem, arg[t]), "munmap" \in blame' <=> "munmap" \in blame
      PROVE  Settled
  <2>0. Sound(mem, f, g, D) /\ F = f
    <3>1. D = CurrentAt(ctx, blame) /\ F = f
      BY <1>1, <1>a, <1>e DEF CurrentAt
    <3> QED BY <3>1, PreSound DEF SoundAt
  <2>1. CASE PinTarget(mem, arg[t]) = {}
    <3>1. mem' = mem
      BY <1>1, <1>a, <2>1, NoTarget DEF Unpin
    <3>2. G = g
      <4>1. \A u \in Thread : u # t => (pc'[u] = "flush" <=> pc[u] = "flush") /\ arg'[u] = arg[u]
        BY <1>1, <1>e DEF VarsOK
      <4>2. pc'[t] # "flush"
        BY <1>1, <1>e DEF VarsOK
      <4>3. NoFlush(mem, pc, arg, pc', arg', t)
        BY <1>3, <2>1, <4>1, <4>2 DEF NoFlush
      <4> QED BY <1>e, <4>3, UsersNoFlush
    <3>3. D \subseteq CurrentAt(ctx, blame)
      BY <1>a, <1>e DEF CurrentAt
    <3> QED BY <1>e, <2>0, <3>1, <3>2, <3>3, Untouched
  <2>2. ASSUME NEW x \in Bo, PinTarget(mem, arg[t]) = {x}, mem.type[x] \in Shmem
        PROVE  Settled
    <3>1. OneMore(G, g, x)
      <4>1. \A u \in Thread : u # t => (pc'[u] = "flush" <=> pc[u] = "flush") /\ arg'[u] = arg[u]
        BY <1>1, <1>e DEF VarsOK
      <4>2. pc[t] = "flush" /\ pc'[t] # "flush"
        BY <1>1, <1>e DEF VarsOK
      <4> QED BY <1>3, <1>e, <2>2, <4>1, <4>2, UsersFlush
    <3>2. ASSUME NEW c \in D, mem.type[c] = "dev", x = dev_heap
          PROVE  g[x] > 1
      <4>1. x \in mapped => g[x] > 1
        BY <1>e, <2>2, UsersParts
      <4>2. x = ctx.heap /\ (\A u \in Thread : pc[u] # "ctx_pin") => g[x] > 1
        BY <1>e, <2>2, UsersParts
      <4>3. c \in Bo /\ (c = ctx.buf \/ "munmap" \notin blame)
        BY <1>a, <1>e, <3>2 DEF CurrentAt
      <4>4. CASE "munmap" \notin blame
        <5>1. c \in HeapBufs(mem)
          BY <3>2, <4>3 DEF HeapBufs
        <5> QED BY <1>1, <3>2, <4>1, <4>4, <5>1 DEF MapsSound
      <4>5. CASE c = ctx.buf
        <5>1. ctx.buf # NoBo
          BY <4>3, <4>5, Known
        <5>2. ctx.heap = dev_heap /\ \A u \in Thread : pc[u] # "ctx_pin"
          BY <5>1 DEF IInv, RefsInv, ClientSound, ThreadsSound, CtxSteps
        <5> QED BY <3>2, <4>2, <5>2
      <4> QED BY <4>3, <4>4, <4>5
    <3> HIDE DEF f, F, g, G, D
    <3>3. Sound(PutPages(mem, {x}), f, [g EXCEPT ![x] = @ - 1], D)
      <4>1. g[x] > 0
        BY <3>1 DEF OneMore
      <4> QED BY <2>0, <2>2, <3>2, <4>1, PutPagesSound
    <3>4. PutPages(mem, {x}).type = mem.type
      <4>1. mem.use[x] > 0
        <5>1. /\ Count(PinsOf(mem, x)) \in Nat /\ g[x] \in Nat /\ One(x \in mem.kva) \in {0, 1}
              /\ mem.use[x] = g[x] + One(x \in mem.kva) + Count(PinsOf(mem, x))
          BY <2>0, <2>2, UsesAre
        <5>2. g[x] > 0
          BY <3>1 DEF OneMore
        <5> QED BY <5>1, <5>2
      <4>2. {x} \in SUBSET Bo /\ \A y \in {x} : mem.use[y] > 0
        BY <4>1
      <4> QED BY <1>1, <4>2, PutPagesFields
    <3>5. mem' = PutPages(mem, {x})
      BY <1>a, <2>2 DEF Unpin
    <3>6. Sound(mem', F, G, D) /\ mem'.type = mem.type
      BY <2>0, <3>1, <3>3, <3>4, <3>5 DEF OneMore
    <3> QED BY <1>e, <3>6, Shaped DEF F, G, D
  <2>3. \/ PinTarget(mem, arg[t]) = {}
        \/ \E x \in Bo : PinTarget(mem, arg[t]) = {x} /\ mem.type[x] \in Shmem
    <3> HIDE DEF f, g, D
    <3> QED BY <1>1, <2>0, <1>a, PinTargetIs
  <2> QED BY <2>1, <2>2, <2>3
<1>b. ASSUME mem' = Unpin(mem, arg[t]), "munmap" \in blame' <=> "munmap" \in blame,
             "export" \in blame => "export" \in blame'
      PROVE  IInv' /\ OopsNeedsCause'
  <2>1. VarsOK /\ MapsSound /\ client = "open" /\ arg[t] \in Bo /\ arg' = arg /\ VarsOK'
    BY <1>1, <1>v
  <2>3. ("munmap" \in blame' <=> "munmap" \in blame) /\ ("export" \in blame => "export" \in blame')
    BY <1>b
  <2>4. Settled
    BY <1>a, <1>b
  <2>5. OldTypes
    BY <2>4, SettledTypes
  <2>6. VarsOK'
    BY <2>1, <2>3, <1>e DEF VarsOK
  <2>7. MapsSound'
    BY <2>1, <2>3, <1>e, <2>5, <2>6 DEF MapsSound, OldTypes, HeapBufs, VarsOK
  <2>8. ThreadsSound'
    BY <2>1, <2>3, <1>e, <2>5, <2>6 DEF ThreadsSound, IInv, RefsInv, OldTypes, Pinnable, VarsOK, HeldSteps, CtxSteps
  <2>9. ClientSound'
    BY <2>1, <2>3, <1>e, <2>5, <2>6 DEF ClientSound, IInv, RefsInv, OldTypes, VarsOK
  <2> QED BY <2>4, <2>6, <2>7, <2>8, <2>9, Finish
<1>c. ASSUME mem.type[arg[t]] = "dev", mem.pages[arg[t]] # "cur", mem' = Oops(mem, "bad_pages"), blame' = blame
      PROVE  IInv' /\ OopsNeedsCause'
  <2>1. IInv' /\ mem'.oops = "bad_pages"
    BY <1>v, <1>c, Crash
  <2>2. "munmap" \in blame
    BY <1>1, <1>c DEF IInv, PinsInv, CmdBufPagesCurrent, TablesCurrent, Current
  <2> QED BY <1>c, <2>1, <2>2 DEF OopsNeedsCause
<1>f. ASSUME NEW res \in FlushResults[BoPages(arg[t])],
             mem' = IF res.oops THEN Oops(mem, "outside") ELSE Unpin(mem, arg[t]),
             missed' = res.missed, blame' = blame \cup res.blame
      PROVE  IInv' /\ (SmallObjects => OopsNeedsCause' /\ missed' # "first")
  <2>1. /\ res.blame \subseteq {"size0", "wrap"}
        /\ SmallObjects /\ res.oops => {"size0", "wrap"} \cap res.blame # {}
        /\ SmallObjects => res.missed # "first"
    <3>1. BoPages(arg[t]) \in Sizes
      BY <1>1, BoHasPages
    <3> QED BY <3>1, FlushKnown
  <2>2. CASE res.oops
    <3>1. IInv' /\ mem'.oops = "outside"
      BY <1>v, <1>f, <2>2, Crash
    <3> QED BY <1>f, <2>1, <2>2, <3>1 DEF OopsNeedsCause
  <2>3. CASE ~res.oops
    <3>1. ("munmap" \in blame' <=> "munmap" \in blame) /\ ("export" \in blame => "export" \in blame')
      BY <1>f, <2>1
    <3>2. IInv' /\ OopsNeedsCause'
      BY <1>b, <1>f, <2>3, <3>1
    <3> QED BY <1>f, <2>1, <3>2
  <2> QED BY <2>2, <2>3
<1> QED BY <1>b, <1>c, <1>d, <1>f

(* A number that was not given out has no owner.                           *)
Stranger(b) ==
    /\ b \notin handle /\ b \notin exported /\ b \notin mapped /\ b # job /\ b # ctx.heap
    /\ b # ctx.buf /\ b # dev_heap /\ \A u \in Thread : arg[u] # b
LEMMA FreshIsStranger ==
    ASSUME IInv, Alive, NEW b \in Bo, mem.type[b] = "none"
    PROVE  Stranger(b)
<1>1. b # dev_heap
  BY Known DEF ObjectsFormed
<1> QED BY <1>1, Known DEF Stranger

(* A device buffer whose table must be the heap's gets it from the heap.   *)
LEMMA HeapInUse ==
    ASSUME IInv, Alive, dev_heap \in Bo, mem.type[dev_heap] = "heap",
           \/ dev_heap \in mapped
           \/ dev_heap = ctx.heap /\ \A t \in Thread : pc[t] # "ctx_pin"
    PROVE  UsersAt(mem, mapped, ctx, pc, arg)[dev_heap] > 0 /\ mem.use[dev_heap] > 0
<1> DEFINE f == OwnersAt(handle, exported, mapped, job, arg, client, ctx)
           g == UsersAt(mem, mapped, ctx, pc, arg)
           C == CurrentAt(ctx, blame)
<1>1. g[dev_heap] > 0
  BY UsersParts
<1>2. Sound(mem, f, g, C) /\ mem.type[dev_heap] \in Shmem
  BY PreSound DEF SoundAt, Shmem
<1> HIDE DEF f, g, C
<1>3. /\ Count(PinsOf(mem, dev_heap)) \in Nat /\ g[dev_heap] \in Nat
      /\ One(dev_heap \in mem.kva) \in {0, 1}
      /\ mem.use[dev_heap] = g[dev_heap] + One(dev_heap \in mem.kva) + Count(PinsOf(mem, dev_heap))
  BY <1>2, UsesAre
<1>4. mem.use[dev_heap] > 0
  BY <1>1, <1>3
<1> QED BY <1>1, <1>4 DEF g

SameFlushed(m, n, p, a) == \A t \in Thread : p[t] = "flush" => n.type[a[t]] = m.type[a[t]]
LEMMA UsersKept ==
    ASSUME NEW m, NEW n, NEW mp, NEW x, NEW p, NEW a, SameFlushed(m, n, p, a)
    PROVE  UsersAt(n, mp, x, p, a) = UsersAt(m, mp, x, p, a)
BY UsersKeep DEF SameFlushed

(* The end of a create ioctl that made an object, other than the heap.     *)
LEMMA Made ==
    ASSUME IInv, Alive, NEW t \in Thread, NEW b \in Bo, mem.type[b] = "none", client = "open",
           pc[t] = "idle", pc' = [pc EXCEPT ![t] = "publish"], arg' = [arg EXCEPT ![t] = b],
           UNCHANGED <<handle, exported, mapped, job, dev_heap, userptr, ctx, client, missed, blame>>,
           NEW ty \in Type \ {"heap"}, Born(mem, mem', b, ty),
           ty = "dev" => userptr /\ (mem.use[dev_heap] > 0 => mem'.pages[b] = "cur")
    PROVE  IInv' /\ OopsNeedsCause'
<1> DEFINE f == OwnersAt(handle, exported, mapped, job, arg, client, ctx)
           F == OwnersAt(handle', exported', mapped', job', arg', client', ctx')
           g == UsersAt(mem, mapped, ctx, pc, arg)
           C == CurrentAt(ctx, blame)
<1>0. VarsOK /\ MapsSound
  BY Known
<1>1. Stranger(b) /\ arg[t] = NoBo
  <2>1. arg[t] = NoBo
    BY DEF IInv, RefsInv, ThreadsSound, HeldSteps
  <2> QED BY <2>1, FreshIsStranger
<1>2. OneMore(f, F, b)
  BY <1>0, <1>1, OwnThread DEF VarsOK
<1>3. UsersAt(mem', mapped', ctx', pc', arg') = g
  <2>1. Quiet(t, pc[t], "publish", b)
    BY DEF Quiet, Goto
  <2>2. UsersAt(mem, mapped', ctx', pc', arg') = g
    BY <1>0, <2>1, QuietUsers
  <2>3. \A u \in Thread : pc'[u] = "flush" => mem'.type[arg'[u]] = mem.type[arg'[u]]
    <3> SUFFICES ASSUME NEW u \in Thread, pc'[u] = "flush"
                 PROVE  mem'.type[arg'[u]] = mem.type[arg'[u]]
      OBVIOUS
    <3>1. u # t /\ pc[u] = "flush" /\ arg'[u] = arg[u]
      BY <1>0 DEF VarsOK
    <3>2. arg[u] \in Bo /\ arg[u] # b
      BY <1>0, <1>1, <3>1 DEF IInv, RefsInv, ThreadsSound, VarsOK, HeldSteps, Stranger
    <3>3. mem.type \in [Bo -> Type \cup {"none", "freed"}]
      BY Known DEF Mem
    <3> QED BY <3>1, <3>2, <3>3 DEF Born
  <2>4. UsersAt(mem', mapped', ctx', pc', arg') = UsersAt(mem, mapped', ctx', pc', arg')
    <3>1. SameFlushed(mem, mem', pc', arg')
      BY <2>3 DEF SameFlushed
    <3> QED BY <3>1, UsersKept
  <2> QED BY <2>2, <2>4
<1>4. ty = "dev" /\ b \in C => mem'.pages[b] = "cur" /\ g[dev_heap] > 0
  <2> SUFFICES ASSUME ty = "dev", b \in C
               PROVE  mem'.pages[b] = "cur" /\ g[dev_heap] > 0
    OBVIOUS
  <2>1. dev_heap \in Bo /\ mem.type[dev_heap] = "heap"
    BY DEF Born
  <2>2. dev_heap \in mapped
    BY <1>0, <1>1 DEF CurrentAt, Stranger, MapsSound
  <2> QED BY <2>1, <2>2, HeapInUse
<1>5. Sound(mem, f, g, C)
  BY PreSound DEF SoundAt
<1>a. CurrentAt(ctx', blame') = C
  OBVIOUS
<1> HIDE DEF f, F, g, C
<1>6. Sound(mem', F, g, C)
  <2>1. C \in SUBSET Bo
    BY <1>5 DEF Sound
  <2>2. Sound(mem', [f EXCEPT ![b] = @ + 1], g, C)
    BY <1>4, <1>5, <2>1, BornSound
  <2> QED BY <1>2, <2>2 DEF OneMore
<1>7. SoundAt(mem', handle', exported', mapped', job', arg', client', ctx', pc', blame')
  BY <1>3, <1>6, <1>a DEF SoundAt, F
<1>8. VarsOK'
  BY <1>0 DEF VarsOK, HeldSteps
<1>b. /\ mem'.oops = "no" /\ mem'.type[b] = ty /\ mem'.type \in [Bo -> Type \cup {"none", "freed"}]
      /\ \A x \in Bo : x # b => mem'.type[x] = mem.type[x]
  <2>1. mem.type \in [Bo -> Type \cup {"none", "freed"}]
    BY Known DEF Mem
  <2>2. mem'.oops = "no" /\ mem' \in Mem
    BY DEF Born
  <2>3. mem'.type = [mem.type EXCEPT ![b] = ty]
    BY DEF Born
  <2> QED BY <2>1, <2>2, <2>3 DEF Mem
<1>9. MapsSound'
  <2>1. HeapBufs(mem') # {} => userptr
    <3>1. \A x \in HeapBufs(mem') : x = b \/ x \in HeapBufs(mem)
      BY <1>b DEF HeapBufs
    <3>2. b \in HeapBufs(mem') => ty = "dev"
      BY <1>b DEF HeapBufs
    <3> QED BY <1>0, <3>1, <3>2 DEF MapsSound
  <2> QED BY <1>0, <1>1, <1>b, <2>1 DEF MapsSound, Stranger, VarsOK, HeapBufs
<1>10. ThreadsSound'
  BY <1>0, <1>1, <1>8, <1>b DEF ThreadsSound, IInv, RefsInv, Pinnable, VarsOK, HeldSteps, CtxSteps, Stranger
<1>11. ClientSound'
  BY <1>0, <1>1, <1>8, <1>b DEF ClientSound, IInv, RefsInv, VarsOK, Stranger
<1> QED BY <1>7, <1>8, <1>9, <1>10, <1>11, Complete

(* ... and of one that made none, or freed it again.                       *)
LEMMA NotMade ==
    ASSUME IInv, Alive, NEW t \in Thread, pc[t] = "idle", Returns(t),
           UNCHANGED <<handle, exported, mapped, job, dev_heap, userptr, ctx, client, missed, blame>>,
           Sound(mem', OwnersAt(handle, exported, mapped, job, arg, client, ctx),
                 UsersAt(mem, mapped, ctx, pc, arg), CurrentAt(ctx, blame)),
           Dwindled(mem, mem')
    PROVE  IInv' /\ OopsNeedsCause'
<1>0. VarsOK /\ MapsSound
  BY Known
<1>1. /\ pc' = pc /\ arg' = arg /\ VarsOK /\ MapsSound
  <2>1. pc' = [pc EXCEPT ![t] = "idle"] /\ arg' = [arg EXCEPT ![t] = NoBo] /\ arg[t] = NoBo
    BY DEF IInv, RefsInv, ThreadsSound, HeldSteps, Returns, Goto
  <2> QED BY <1>0, <2>1 DEF VarsOK
<1>2. UsersAt(mem', mapped, ctx, pc, arg) = UsersAt(mem, mapped, ctx, pc, arg)
  <2> SUFFICES ASSUME NEW u \in Thread, pc[u] = "flush"
               PROVE  mem'.type[arg[u]] = mem.type[arg[u]]
    BY UsersKeep
  <2>1. arg[u] \in Bo
    BY <1>0 DEF IInv, RefsInv, ThreadsSound, VarsOK, HeldSteps
  <2>2. OwnersAt(handle, exported, mapped, job, arg, client, ctx)[arg[u]] > 0
    BY <2>1, ThreadsOwn
  <2>3. mem'.type[arg[u]] # "freed"
    BY <2>1, <2>2, OwnedLive
  <2> QED BY <2>1, <2>3 DEF Dwindled
<1>4. Settled
  BY <1>1, <1>2 DEF Settled, SoundAt
<1>5. OldTypes
  BY <1>4, SettledTypes
<1>6. VarsOK'
  BY <1>1 DEF VarsOK
<1>7. MapsSound'
  BY <1>1, <1>5, <1>6 DEF MapsSound, OldTypes, HeapBufs, VarsOK
<1>8. ThreadsSound'
  BY <1>1, <1>5, <1>6 DEF ThreadsSound, IInv, RefsInv, OldTypes, Pinnable, VarsOK, HeldSteps, CtxSteps
<1>9. ClientSound'
  BY <1>1, <1>5, <1>6 DEF ClientSound, IInv, RefsInv, OldTypes, VarsOK
<1> QED BY <1>4, <1>6, <1>7, <1>8, <1>9, Finish

(* drm_gem_object_init(): a new object.                                    *)
LEMMA NewFields ==
    ASSUME NEW m \in Mem, NEW b \in Bo, NEW ty \in Type
    PROVE  LET n == New(m, b, ty)
           IN  /\ n \in Mem /\ n.type = [m.type EXCEPT ![b] = ty]
               /\ n.refcnt = [m.refcnt EXCEPT ![b] = 1] /\ n.kva = m.kva
               /\ n.use = m.use /\ n.pages = m.pages /\ n.node = m.node /\ n.pinned = m.pinned
               /\ n.upages = m.upages /\ n.attach = m.attach /\ n.oops = m.oops
<1> DEFINE y == [m.type EXCEPT ![b] = ty]
           r == [m.refcnt EXCEPT ![b] = 1]
<1>1. y \in [Bo -> Type \cup {"none", "freed"}] /\ r \in [Bo -> Nat]
  BY DEF Mem
<1>2. New(m, b, ty) = [m EXCEPT !.type = y, !.refcnt = r]
  BY DEF New, Mem
<1> HIDE DEF y, r
<1>3. [m EXCEPT !.type = y, !.refcnt = r] \in Mem
  BY <1>1 DEF Mem
<1> QED BY <1>2, <1>3 DEF Mem, y, r

(* What the create functions start from.                                   *)
Creating(t, b) ==
    /\ client = "open" /\ pc[t] = "idle" /\ mem.type[b] = "none"
    /\ UNCHANGED <<handle, exported, mapped, job, ctx, client, missed>>

LEMMA RefusedKeeps ==
    ASSUME IInv, Alive, NEW t \in Thread, NEW b, Creating(t, b), Returns(t), mem' = mem,
           UNCHANGED <<dev_heap, userptr, blame>>
    PROVE  IInv' /\ OopsNeedsCause'
<1>1. Dwindled(mem, mem')
  BY DEF Dwindled
<1>2. Sound(mem', OwnersAt(handle, exported, mapped, job, arg, client, ctx),
            UsersAt(mem, mapped, ctx, pc, arg), CurrentAt(ctx, blame))
  BY PreSound DEF SoundAt
<1> QED BY <1>1, <1>2, NotMade DEF Creating

LEMMA CreateShareKeeps ==
    ASSUME IInv, Alive, NEW t \in Thread, NEW b \in Bo, Creating(t, b), CreateShare(t, b)
    PROVE  IInv' /\ OopsNeedsCause'
<1>1. CASE mem' = mem /\ Returns(t) /\ UNCHANGED <<dev_heap, userptr, blame>>
  BY <1>1, RefusedKeeps
<1>2. ASSUME mem' = New(mem, b, "share"), Goto(t, "publish", b), UNCHANGED <<dev_heap, userptr, blame>>
      PROVE  IInv' /\ OopsNeedsCause'
  <2>1. mem \in Mem /\ mem.oops = "no" /\ mem.use[b] = 0 /\ b \notin mem.kva /\ "share" \in Type \ {"heap"}
    BY Known DEF Creating, ObjectsFormed, Type, Shmem
  <2>2. Born(mem, mem', b, "share")
    <3>1. /\ mem' \in Mem /\ mem'.type = [mem.type EXCEPT ![b] = "share"]
          /\ mem'.refcnt = [mem.refcnt EXCEPT ![b] = 1] /\ mem'.kva = mem.kva
          /\ mem'.use = mem.use /\ mem'.pages = mem.pages /\ mem'.node = mem.node /\ mem'.pinned = mem.pinned
          /\ mem'.upages = mem.upages /\ mem'.attach = mem.attach /\ mem'.oops = mem.oops
      BY <1>2, <2>1, NewFields
    <3> QED BY <2>1, <3>1 DEF Born, Mem
  <2> QED BY <1>2, <2>1, <2>2, Made DEF Creating, Goto
<1> QED BY <1>1, <1>2 DEF CreateShare, Works, Fails, Refused, heapVars

LEMMA CreateCmdKeeps ==
    ASSUME IInv, Alive, NEW t \in Thread, NEW b \in Bo, Creating(t, b), CreateCmd(t, b)
    PROVE  IInv' /\ OopsNeedsCause'
<1>1. CASE mem' = mem /\ Returns(t) /\ UNCHANGED <<dev_heap, userptr, blame>>
  BY <1>1, RefusedKeeps
<1>2. ASSUME mem' = GetPages([New(mem, b, "cmd") EXCEPT !.kva = @ \cup {b}], {b}),
             Goto(t, "publish", b), UNCHANGED <<dev_heap, userptr, blame>>
      PROVE  IInv' /\ OopsNeedsCause'
  <2> DEFINE n == New(mem, b, "cmd")
             k == [n EXCEPT !.kva = @ \cup {b}]
  <2>1. mem \in Mem /\ mem.oops = "no" /\ mem.use[b] = 0 /\ "cmd" \in Type \ {"heap"}
    BY Known DEF Creating, ObjectsFormed, Type, Shmem
  <2>2. /\ n \in Mem /\ n.type = [mem.type EXCEPT ![b] = "cmd"]
        /\ n.refcnt = [mem.refcnt EXCEPT ![b] = 1] /\ n.kva = mem.kva
        /\ n.use = mem.use /\ n.pages = mem.pages /\ n.node = mem.node /\ n.pinned = mem.pinned
        /\ n.upages = mem.upages /\ n.attach = mem.attach /\ n.oops = mem.oops
    BY <2>1, NewFields
  <2> HIDE DEF n
  <2>3. /\ k \in Mem /\ k.type = n.type /\ k.refcnt = n.refcnt /\ k.kva = n.kva \cup {b}
        /\ k.use = n.use /\ k.pages = n.pages /\ k.node = n.node /\ k.pinned = n.pinned
        /\ k.upages = n.upages /\ k.attach = n.attach /\ k.oops = n.oops
    BY <2>2 DEF Mem
  <2>4. mem' = GetPages(k, {b})
    BY <1>2 DEF n
  <2> HIDE DEF k
  <2>5. /\ mem' \in Mem /\ mem'.type = k.type /\ mem'.refcnt = k.refcnt /\ mem'.kva = k.kva
        /\ mem'.pages = k.pages /\ mem'.node = k.node /\ mem'.pinned = k.pinned
        /\ mem'.upages = k.upages /\ mem'.attach = k.attach /\ mem'.oops = k.oops
        /\ mem'.use = [x \in Bo |-> IF x \in {b} THEN k.use[x] + 1 ELSE k.use[x]]
    BY <2>3, <2>4, GetPagesFields
  <2>6. Born(mem, mem', b, "cmd")
    BY <2>1, <2>2, <2>3, <2>5 DEF Born, Mem
  <2> QED BY <1>2, <2>1, <2>6, Made DEF Creating, Goto
<1> QED BY <1>1, <1>2 DEF CreateCmd, Works, Fails, Refused, heapVars

LEMMA CreateGuestKeeps ==
    ASSUME IInv, Alive, NEW t \in Thread, NEW b \in Bo, Creating(t, b), CreateGuest(t, b)
    PROVE  IInv' /\ OopsNeedsCause'
<1>0. mem \in Mem /\ mem.oops = "no" /\ mem.use[b] = 0 /\ b \notin mem.kva /\ "guest" \in Type \ {"heap"}
  BY Known DEF Creating, ObjectsFormed, Type, Shmem
<1>1. ASSUME mem' = mem, Returns(t), UNCHANGED <<dev_heap, userptr, blame>>
      PROVE  IInv' /\ OopsNeedsCause'
  BY <1>1, RefusedKeeps
<1>2. ASSUME mem' = [New(mem, b, "guest") EXCEPT !.upages = @ + GuestPages],
             Goto(t, "publish", b), UNCHANGED <<dev_heap, userptr, blame>>
      PROVE  IInv' /\ OopsNeedsCause'
  <2> DEFINE n == New(mem, b, "guest")
  <2>2. /\ n \in Mem /\ n.type = [mem.type EXCEPT ![b] = "guest"]
        /\ n.refcnt = [mem.refcnt EXCEPT ![b] = 1] /\ n.kva = mem.kva
        /\ n.use = mem.use /\ n.pages = mem.pages /\ n.node = mem.node /\ n.pinned = mem.pinned
        /\ n.upages = mem.upages /\ n.attach = mem.attach /\ n.oops = mem.oops
    BY <1>0, NewFields
  <2> HIDE DEF n
  <2>3. mem' = [n EXCEPT !.upages = @ + GuestPages]
    BY <1>2 DEF n
  <2>4. /\ mem' \in Mem /\ mem'.type = n.type /\ mem'.refcnt = n.refcnt /\ mem'.kva = n.kva
        /\ mem'.use = n.use /\ mem'.pages = n.pages /\ mem'.node = n.node /\ mem'.pinned = n.pinned
        /\ mem'.upages = n.upages + GuestPages /\ mem'.attach = n.attach /\ mem'.oops = n.oops
    BY <2>2, <2>3 DEF Mem, GuestPages
  <2>5. Born(mem, mem', b, "guest")
    BY <1>0, <2>2, <2>4 DEF Born, Mem
  <2> QED BY <1>0, <1>2, <2>5, Made DEF Creating, Goto
<1>3. ASSUME NEW k \in 0..GuestPages, mem' = [mem EXCEPT !.upages = @ + k - GuestUnpin(k)]
      PROVE  mem' = mem
  <2>1. mem.upages + k - GuestUnpin(k) = mem.upages
    BY <1>0 DEF Mem, GuestUnpin, GuestPages
  <2>2. [mem EXCEPT !.upages = mem.upages] = mem
    BY <1>0 DEF Mem
  <2> QED BY <1>3, <2>1, <2>2
<1> QED BY <1>1, <1>2, <1>3 DEF CreateGuest, Works, Fails, Refused, heapVars

LEMMA ImportKeeps ==
    ASSUME IInv, Alive, NEW t \in Thread, NEW b \in Bo, Creating(t, b), Import(t, b)
    PROVE  IInv' /\ OopsNeedsCause'
<1>0. mem \in Mem /\ mem.oops = "no" /\ mem.use[b] = 0 /\ b \notin mem.kva /\ "import" \in Type \ {"heap"}
  BY Known DEF Creating, ObjectsFormed, Type, Shmem
<1>1. ASSUME mem' = mem, Returns(t), UNCHANGED <<dev_heap, userptr, blame>>
      PROVE  IInv' /\ OopsNeedsCause'
  BY <1>1, RefusedKeeps
<1>2. ASSUME mem' = [New(mem, b, "import") EXCEPT !.attach = @ + 1],
             Goto(t, "publish", b), UNCHANGED <<dev_heap, userptr, blame>>
      PROVE  IInv' /\ OopsNeedsCause'
  <2> DEFINE n == New(mem, b, "import")
  <2>2. /\ n \in Mem /\ n.type = [mem.type EXCEPT ![b] = "import"]
        /\ n.refcnt = [mem.refcnt EXCEPT ![b] = 1] /\ n.kva = mem.kva
        /\ n.use = mem.use /\ n.pages = mem.pages /\ n.node = mem.node /\ n.pinned = mem.pinned
        /\ n.upages = mem.upages /\ n.attach = mem.attach /\ n.oops = mem.oops
    BY <1>0, NewFields
  <2> HIDE DEF n
  <2>3. mem' = [n EXCEPT !.attach = @ + 1]
    BY <1>2 DEF n
  <2>4. /\ mem' \in Mem /\ mem'.type = n.type /\ mem'.refcnt = n.refcnt /\ mem'.kva = n.kva
        /\ mem'.use = n.use /\ mem'.pages = n.pages /\ mem'.node = n.node /\ mem'.pinned = n.pinned
        /\ mem'.upages = n.upages /\ mem'.attach = n.attach + 1 /\ mem'.oops = n.oops
    BY <2>2, <2>3 DEF Mem
  <2>5. Born(mem, mem', b, "import")
    BY <1>0, <2>2, <2>4 DEF Born, Mem
  <2> QED BY <1>0, <1>2, <2>5, Made DEF Creating, Goto
<1>3. ASSUME NEW step \in ImportSteps,
             mem' = [mem EXCEPT !.attach = @ + (IF step = "attach" THEN 0 ELSE 1) - ImportUndo(step)]
      PROVE  mem' = mem
  <2>1. mem.attach + (IF step = "attach" THEN 0 ELSE 1) - ImportUndo(step) = mem.attach
    BY <1>0 DEF Mem, ImportUndo
  <2>2. [mem EXCEPT !.attach = mem.attach] = mem
    BY <1>0 DEF Mem
  <2> QED BY <1>3, <2>1, <2>2
<1> QED BY <1>1, <1>2, <1>3 DEF Import, Works, Fails, Refused, heapVars

(* amdxdna_gem_heap_alloc(): the buffer lies in the heap, which it keeps.  *)
LEMMA HeapAllocBorn ==
    ASSUME IInv, Alive, NEW b \in Bo, mem.type[b] = "none", client = "open", NEW n,
           HasRoom(mem, n)
    PROVE  LET k == HeapAlloc(mem, b, n)
               v == [k EXCEPT !.kva = @ \cup {b}]
           IN  /\ Born(mem, k, b, "dev") /\ Born(mem, v, b, "dev")
               /\ mem.use[dev_heap] > 0 => k.pages[b] = "cur" /\ v.pages[b] = "cur"
<1> DEFINE s == Min(Holes(mem, n))
           N == s..(s + n - 1)
           P == IF mem.use[dev_heap] > 0 THEN "cur" ELSE "none"
           w == New(mem, b, "dev")
           d == [w.node EXCEPT ![b] = N]
           p == [w.pages EXCEPT ![b] = P]
           l == [w EXCEPT !.node[b] = N, !.pages[b] = P]
           r == [l.refcnt EXCEPT ![dev_heap] = @ + 1]
           k == HeapAlloc(mem, b, n)
           v == [k EXCEPT !.kva = @ \cup {b}]
<1>1. /\ mem \in Mem /\ mem.oops = "no" /\ mem.use[b] = 0 /\ b \notin mem.kva /\ "dev" \in Type
      /\ dev_heap \in Bo /\ mem.type[dev_heap] = "heap" /\ dev_heap # b
  <2>1. dev_heap \in Bo
    BY Known DEF HasRoom, HeapUsable, VarsOK
  <2>2. mem.type[dev_heap] # "freed"
    BY <2>1, Known
  <2> QED BY <2>1, <2>2, Known DEF ObjectsFormed, Type
<1>2. N \subseteq 0..(HeapPages - 1) /\ N # {}
  <2>1. HeapPages \in Nat /\ n \in 1..HeapPages /\ Holes(mem, n) # {}
    BY GemAssumption DEF HasRoom, HeapUsable
  <2>2. Holes(mem, n) \subseteq 0..(HeapPages - n)
    BY DEF Holes
  <2>3. s \in Holes(mem, n)
    <3>1. Holes(mem, n) \subseteq Nat
      BY <2>1, <2>2
    <3>2. \E x \in Holes(mem, n) : \A y \in Holes(mem, n) : x <= y
      BY <2>1, <3>1, NatHasMin
    <3> HIDE DEF s
    <3>3. s = CHOOSE x \in Holes(mem, n) : \A y \in Holes(mem, n) : x <= y
      BY DEF s, Min
    <3> QED BY <3>2, <3>3
  <2> HIDE DEF s
  <2>4. s \in 0..(HeapPages - n)
    BY <2>2, <2>3
  <2>5. s \in N
    BY <2>1, <2>4
  <2>6. \A x \in N : x \in 0..(HeapPages - 1)
    BY <2>1, <2>4
  <2> QED BY <2>5, <2>6
<1> HIDE DEF s, N, P
<1>3. /\ w \in Mem /\ w.type = [mem.type EXCEPT ![b] = "dev"]
      /\ w.refcnt = [mem.refcnt EXCEPT ![b] = 1] /\ w.kva = mem.kva
      /\ w.use = mem.use /\ w.pages = mem.pages /\ w.node = mem.node /\ w.pinned = mem.pinned
      /\ w.upages = mem.upages /\ w.attach = mem.attach /\ w.oops = mem.oops
  BY <1>1, NewFields
<1>a. k = Get(l, dev_heap)
  BY DEF HeapAlloc, s, N, P
<1> HIDE DEF w, k
<1>4. l = [w EXCEPT !.node = d, !.pages = p]
  BY <1>3 DEF Mem
<1>5. d \in [Bo -> SUBSET (0..(HeapPages - 1))] /\ p \in [Bo -> {"none", "cur", "stale"}]
  BY <1>2, <1>3 DEF Mem, P
<1> HIDE DEF l
<1>6. /\ l \in Mem /\ l.type = w.type /\ l.refcnt = w.refcnt /\ l.kva = w.kva /\ l.use = w.use
      /\ l.pages = p /\ l.node = d /\ l.pinned = w.pinned /\ l.upages = w.upages
      /\ l.attach = w.attach /\ l.oops = w.oops
  <2> HIDE DEF d, p
  <2> QED BY <1>3, <1>4, <1>5 DEF Mem
<1>7. k = [l EXCEPT !.refcnt = r] /\ r \in [Bo -> Nat]
  BY <1>1, <1>6, <1>a DEF Mem, Get
<1>8. /\ k \in Mem /\ k.type = l.type /\ k.refcnt = r /\ k.kva = l.kva /\ k.use = l.use
      /\ k.pages = l.pages /\ k.node = l.node /\ k.pinned = l.pinned /\ k.upages = l.upages
      /\ k.attach = l.attach /\ k.oops = l.oops
  <2> HIDE DEF r
  <2> QED BY <1>6, <1>7 DEF Mem
<1>9. /\ v \in Mem /\ v.type = k.type /\ v.refcnt = k.refcnt /\ v.kva = k.kva \cup {b}
      /\ v.use = k.use /\ v.pages = k.pages /\ v.node = k.node /\ v.pinned = k.pinned
      /\ v.upages = k.upages /\ v.attach = k.attach /\ v.oops = k.oops
  BY <1>8 DEF Mem
<1>10. /\ k.type = [mem.type EXCEPT ![b] = "dev"] /\ k.kva = mem.kva /\ k.use = mem.use
       /\ k.pages = p /\ k.node = d /\ k.pinned = mem.pinned /\ k.upages = mem.upages
       /\ k.attach = mem.attach /\ k.oops = "no" /\ k \in Mem
       /\ \A x \in Bo : k.refcnt[x] = IF x = b THEN 1 ELSE IF x = dev_heap THEN mem.refcnt[x] + 1
                                        ELSE mem.refcnt[x]
  <2>1. mem.refcnt \in [Bo -> Nat] /\ l.refcnt = [mem.refcnt EXCEPT ![b] = 1]
    BY <1>1, <1>3, <1>6 DEF Mem
  <2> QED BY <1>1, <1>3, <1>6, <1>8, <2>1
<1>b. \A x \in Bo : x # b => p[x] = mem.pages[x] /\ d[x] = mem.node[x]
  BY <1>3
<1>c. p[b] = P /\ d[b] = N
  BY <1>1, <1>3 DEF Mem
<1> HIDE DEF d, p, r, v
<1>11. Born(mem, k, b, "dev")
  BY <1>1, <1>2, <1>10, <1>b, <1>c DEF Born
<1>12. Born(mem, v, b, "dev")
  BY <1>1, <1>2, <1>9, <1>10, <1>b, <1>c DEF Born
<1>13. mem.use[dev_heap] > 0 => k.pages[b] = "cur" /\ v.pages[b] = "cur"
  BY <1>9, <1>10, <1>c DEF P
<1> QED BY <1>11, <1>12, <1>13 DEF k, v

(* A buffer the heap has no room for: its node was never inserted.         *)
LEMMA NoRoom ==
    ASSUME IInv, Alive, NEW b \in Bo, mem.type[b] = "none", mem' = HeapFree(New(mem, b, "dev"), b)
    PROVE  mem' \in Mem /\ mem'.oops = "free_node" /\ mem'.type[b] = "dev"
<1> DEFINE w == New(mem, b, "dev")
<1>1. mem \in Mem /\ mem.node[b] = {} /\ "dev" \in Type
  BY Known DEF ObjectsFormed, Type
<1>2. w \in Mem /\ w.node = mem.node /\ w.type = [mem.type EXCEPT ![b] = "dev"]
  BY <1>1, NewFields
<1> HIDE DEF w
<1>3. mem' = Oops(w, "free_node")
  BY <1>1, <1>2 DEF HeapFree, w
<1>4. mem' \in Mem /\ mem'.oops = "free_node" /\ mem'.type = w.type
  BY <1>2, <1>3 DEF Oops, Mem
<1>6. mem'.type[b] = "dev"
  BY <1>1, <1>2, <1>4 DEF Mem
<1> QED BY <1>4, <1>6

LEMMA NoRoomKeeps ==
    ASSUME mem' \in Mem, mem'.oops = "free_node", VarsOK', "dev_fail" \in blame'
    PROVE  IInv' /\ OopsNeedsCause'
<1>1. TypeOK' /\ ~Alive'
  BY DEF TypeOK, VarsOK, Alive
<1> QED BY <1>1 DEF IInv, RefsInv, PinsInv, RefsExact, PinsExact, CmdBufPagesCurrent,
       ForeignRefsExact, ObjectsSound, ThreadsSound, ClientSound, OopsNeedsCause

(* A buffer that is freed again because it cannot be mapped.               *)
LEMMA AllocUndone ==
    ASSUME IInv, Alive, NEW b \in Bo, mem.type[b] = "none", client = "open", NEW n,
           HasRoom(mem, n)
    PROVE  LET m == DevFree(HeapAlloc(mem, b, n), b)
           IN  /\ Sound(m, OwnersAt(handle, exported, mapped, job, arg, client, ctx),
                        UsersAt(mem, mapped, ctx, pc, arg), CurrentAt(ctx, blame))
               /\ Dwindled(mem, m) /\ m.type = [mem.type EXCEPT ![b] = "freed"]
<1> DEFINE f == OwnersAt(handle, exported, mapped, job, arg, client, ctx)
           g == UsersAt(mem, mapped, ctx, pc, arg)
           C == CurrentAt(ctx, blame)
           D == C \ {b}
           k == HeapAlloc(mem, b, n)
           h == [f EXCEPT ![b] = @ + 1]
           m == DevFree(k, b)
<1>1. Born(mem, k, b, "dev")
  BY HeapAllocBorn
<1>2. Sound(mem, f, g, C) /\ f[dev_heap] > 0 /\ dev_heap \in Bo /\ dev_heap # b /\ "dev" \in Type \ {"heap"}
  <2>1. dev_heap \in Bo /\ mem.type[dev_heap] = "heap"
    BY <1>1 DEF Born
  <2> QED BY <2>1, PreSound, ThreadsOwn DEF SoundAt, Type
<1>3. D \subseteq C /\ b \notin D /\ D \in SUBSET Bo
  BY DEF CurrentAt
<1>4. k.type = [mem.type EXCEPT ![b] = "dev"] /\ mem.type \in [Bo -> Type \cup {"none", "freed"}]
  BY <1>1, Known DEF Born, Mem
<1> HIDE DEF f, g, C, D, k
<1>5. Sound(k, h, g, D)
  BY <1>1, <1>2, <1>3, BornSound
<1>6. f \in [Bo -> Nat] /\ f[b] = 0
  <2>1. ~Live(mem, b)
    BY DEF Live, Type, Shmem
  <2> QED BY <1>2, <2>1 DEF Sound, RefsCounted
<1>7. h \in [Bo -> Nat] /\ h[b] = 1 /\ h[dev_heap] > 0 /\ k.type[b] = "dev" /\ [h EXCEPT ![b] = @ - 1] = f
  <2>1. h \in [Bo -> Nat] /\ h[b] = 1 /\ h[dev_heap] > 0 /\ k.type[b] = "dev"
    BY <1>2, <1>4, <1>6
  <2>2. OneMore(f, h, b)
    <3>1. \A y \in Bo : h[y] = IF y = b THEN f[y] + 1 ELSE f[y]
      BY <1>6
    <3> HIDE DEF h
    <3> QED BY <1>6, <2>1, <3>1, OneMoreIs
  <2> QED BY <2>1, <2>2 DEF OneMore
<1> HIDE DEF h
<1>8. /\ Sound(DevFree(k, b), [h EXCEPT ![b] = @ - 1], g, D)
      /\ DevFree(k, b).type = [k.type EXCEPT ![b] = "freed"]
  BY <1>5, <1>7, DevFreeSound
<1>9. Sound(m, f, g, D) /\ m.type = [mem.type EXCEPT ![b] = "freed"]
  BY <1>4, <1>7, <1>8
<1> HIDE DEF m
<1>10. Dwindled(mem, m)
  BY <1>4, <1>9 DEF Dwindled
<1>11. m.type[b] = "freed" /\ C \subseteq Bo /\ (\A x \in C : x \in D \/ x = b)
  BY <1>2, <1>4, <1>9 DEF D, Sound
<1>12. Sound(m, f, g, C)
  BY <1>9, <1>11 DEF Sound, TablesCurrent
<1> QED BY <1>9, <1>10, <1>12 DEF f, g, C, k, m

LEMMA CreateDevKeeps ==
    ASSUME IInv, Alive, NEW t \in Thread, NEW b \in Bo, Creating(t, b), NEW n, CreateDev(t, b, n)
    PROVE  IInv' /\ OopsNeedsCause'
<1>0. VarsOK /\ MapsSound
  BY Known
<1>1. /\ client = "open" /\ pc[t] = "idle" /\ mem.type[b] = "none" /\ UNCHANGED <<dev_heap, userptr>>
      /\ UNCHANGED <<handle, exported, mapped, job, ctx, client, missed>>
      /\ Live(mem', b) => pc' = [pc EXCEPT ![t] = "publish"] /\ arg' = [arg EXCEPT ![t] = b]
      /\ ~Live(mem', b) => Returns(t)
      /\ \/ mem' = DevBo(mem, b, n) /\ IF mem'.oops = "no" THEN blame' = blame
                                                          ELSE "dev_fail" \in blame'
         \/ HasRoom(mem, n) /\ mem' = DevFree(HeapAlloc(mem, b, n), b) /\ blame' = blame
  BY DEF CreateDev, Creating, Works, Fails, DevFailed, Goto, heapVars
<1>u. UNCHANGED <<handle, exported, mapped, job, ctx, client, missed, dev_heap, userptr>>
  BY <1>1
<1>2. ASSUME HasRoom(mem, n), mem' = DevBo(mem, b, n)
      PROVE  IInv' /\ OopsNeedsCause'
  <2>1. mem' = [HeapAlloc(mem, b, n) EXCEPT !.kva = @ \cup {b}]
    BY <1>2 DEF DevBo
  <2>2. Born(mem, mem', b, "dev") /\ (mem.use[dev_heap] > 0 => mem'.pages[b] = "cur")
    BY <1>1, <1>2, <2>1, HeapAllocBorn
  <2>3. mem'.oops = "no" /\ mem'.type[b] = "dev" /\ "dev" \in Type \ {"heap"} /\ userptr
    BY <1>2, <2>2, Known DEF Born, Mem, Type, HasRoom, HeapUsable
  <2>4. Live(mem', b) /\ mem.oops = "no"
    BY <2>3, Known DEF Live, Type
  <2>5. blame' = blame
    <3>1. CASE mem' = DevBo(mem, b, n) /\ IF mem'.oops = "no" THEN blame' = blame
                                                          ELSE "dev_fail" \in blame'
      BY <2>3, <3>1
    <3> QED BY <1>1, <3>1
  <2>6. pc' = [pc EXCEPT ![t] = "publish"] /\ arg' = [arg EXCEPT ![t] = b]
    BY <1>1, <2>4
  <2>7. client = "open" /\ pc[t] = "idle" /\ mem.type[b] = "none"
    BY <1>1
  <2> QED BY <1>u, <2>2, <2>3, <2>5, <2>6, <2>7, Made
<1>3. ASSUME HasRoom(mem, n), mem' = DevFree(HeapAlloc(mem, b, n), b)
      PROVE  IInv' /\ OopsNeedsCause'
  <2>1. /\ Sound(mem', OwnersAt(handle, exported, mapped, job, arg, client, ctx),
                 UsersAt(mem, mapped, ctx, pc, arg), CurrentAt(ctx, blame))
        /\ Dwindled(mem, mem') /\ mem'.type = [mem.type EXCEPT ![b] = "freed"]
    BY <1>1, <1>3, AllocUndone
  <2>2. mem'.type[b] = "freed" /\ mem'.oops = "no"
    BY <2>1, Known DEF Mem, Sound
  <2>3. Returns(t)
    BY <1>1, <2>2 DEF Live, Type, Shmem
  <2>4. blame' = blame
    BY <1>1, <2>2
  <2>5. pc[t] = "idle"
    BY <1>1
  <2> QED BY <1>u, <2>1, <2>3, <2>4, <2>5, NotMade
<1>4. ASSUME ~HasRoom(mem, n), mem' = DevBo(mem, b, n)
      PROVE  IInv' /\ OopsNeedsCause'
  <2>1. mem' \in Mem /\ mem'.oops = "free_node" /\ mem'.type[b] = "dev"
    BY <1>1, <1>4, NoRoom DEF DevBo
  <2>2. "dev_fail" \in blame'
    BY <1>1, <1>4, <2>1
  <2>3. VarsOK'
    <3>1. Live(mem', b)
      BY <2>1 DEF Live, Type
    <3>2. pc' = [pc EXCEPT ![t] = "publish"] /\ arg' = [arg EXCEPT ![t] = b]
      BY <1>1, <3>1
    <3> QED BY <1>0, <1>u, <3>2 DEF VarsOK, HeldSteps
  <2> QED BY <2>1, <2>2, <2>3, NoRoomKeeps
<1> QED BY <1>1, <1>2, <1>3, <1>4

LEMMA CtxBufKeeps ==
    ASSUME IInv, Alive, NEW t \in Thread, NEW b \in Bo, CtxBuf(t, b)
    PROVE  IInv' /\ OopsNeedsCause'
<1>0. VarsOK /\ MapsSound
  BY Known
<1>d. /\ UNCHANGED <<handle, exported, mapped, job, dev_heap, userptr, client, missed>>
      /\ pc[t] = "ctx_buf" /\ arg' = [arg EXCEPT ![t] = NoBo] /\ mem.type[b] = "none"
      /\ \/ /\ mem' = DevBo(mem, b, 1) /\ pc' = [pc EXCEPT ![t] = "ctx_wq"]
            /\ ctx' = [ctx EXCEPT !.buf = b]
            /\ IF mem'.oops = "no" THEN blame' = blame ELSE "dev_fail" \in blame'
         \/ /\ HasRoom(mem, 1) /\ mem' = CtxUndo(DevFree(HeapAlloc(mem, b, 1), b))
            /\ blame' = blame /\ ctx' = [state |-> "none", heap |-> NoBo, buf |-> NoBo]
            /\ pc' = [pc EXCEPT ![t] = "idle"]
  BY DEF CtxBuf, Goto, Works, Fails, Returns, DevFailed, Fresh, bookVars, heapVars, NoCtx
<1>1. /\ VarsOK /\ MapsSound /\ client = "open" /\ NoBo \notin Bo /\ ctx.state = "init"
      /\ ctx.heap = dev_heap /\ ctx.buf = NoBo /\ dev_heap \in Bo /\ job = NoBo
      /\ arg' = arg /\ (\A u \in Thread : pc[u] \in CtxSteps => u = t)
      /\ mem.type[b] = "none" /\ pc[t] = "ctx_buf" /\ Stranger(b) /\ mem.type[dev_heap] = "heap"
  <2>1. /\ client = "open" /\ ctx.heap = dev_heap /\ ctx.buf = NoBo /\ dev_heap \in Bo
        /\ arg[t] = NoBo /\ ctx.state = "init" /\ (\A u \in Thread : pc[u] \in CtxSteps => u = t)
        /\ job = NoBo
    BY <1>0, <1>d DEF IInv, RefsInv, ThreadsSound, ClientSound, VarsOK, HeldSteps, CtxSteps
  <2>2. arg' = arg
    BY <1>0, <1>d, <2>1 DEF VarsOK
  <2>3. mem.type[dev_heap] = "heap"
    BY <2>1, Known DEF ObjectsFormed
  <2>4. Stranger(b)
    BY <1>d, FreshIsStranger
  <2> QED BY <1>0, <1>d, <2>1, <2>2, <2>3, <2>4, Known
<1>u. UNCHANGED <<handle, exported, mapped, job, dev_heap, userptr, client, missed>>
  BY <1>d
<1>2. \A u \in Thread : pc[u] # "ctx_pin"
  BY <1>1 DEF CtxSteps
<1>f. \A u \in Thread : pc[u] = "flush" => arg[u] \in Bo /\ arg[u] # b
  BY <1>1 DEF IInv, RefsInv, ThreadsSound, VarsOK, HeldSteps, Stranger
<1>t. mem.type \in [Bo -> Type \cup {"none", "freed"}]
  BY Known DEF Mem
<1>a. ASSUME HasRoom(mem, 1), mem' = DevBo(mem, b, 1), pc' = [pc EXCEPT ![t] = "ctx_wq"],
             ctx' = [ctx EXCEPT !.buf = b], IF mem'.oops = "no" THEN blame' = blame ELSE "dev_fail" \in blame'
      PROVE  IInv' /\ OopsNeedsCause'
  <2> DEFINE f == OwnersAt(handle, exported, mapped, job, arg, client, ctx)
             F == OwnersAt(handle', exported', mapped', job', arg', client', ctx')
             g == UsersAt(mem, mapped, ctx, pc, arg)
             C == CurrentAt(ctx, blame)
             D == CurrentAt(ctx', blame')
  <2>1. mem' = [HeapAlloc(mem, b, 1) EXCEPT !.kva = @ \cup {b}]
    BY <1>a DEF DevBo
  <2>2. Born(mem, mem', b, "dev") /\ (mem.use[dev_heap] > 0 => mem'.pages[b] = "cur")
    BY <1>1, <1>a, <2>1, HeapAllocBorn
  <2>3. /\ mem'.oops = "no" /\ "dev" \in Type \ {"heap"} /\ userptr
        /\ mem'.type[b] = "dev" /\ (\A x \in Bo : x # b => mem'.type[x] = mem.type[x])
        /\ mem'.type \in [Bo -> Type \cup {"none", "freed"}]
    BY <1>a, <1>t, <2>2 DEF Born, Mem, Type, HasRoom, HeapUsable
  <2>4. blame' = blame
    BY <1>a, <2>3
  <2>5. ctx'.heap = ctx.heap /\ ctx'.buf = b /\ ctx'.state = "init" /\ ctx' \in
          [state : {"none", "init", "ready", "husk"}, heap : Bo \cup {NoBo}, buf : Bo \cup {NoBo}]
    BY <1>1, <1>a DEF VarsOK
  <2>6. OneMore(f, F, b)
    <3>1. F = OwnersAt(handle, exported, mapped, job, arg, client, ctx')
      BY <1>1, <1>u
    <3> HIDE DEF F
    <3>2. OneMore(f, OwnersAt(handle, exported, mapped, job, arg, client, ctx'), b)
      BY <1>1, <2>5, OwnCtxBuf
    <3> QED BY <3>1, <3>2
  <2>7. UsersAt(mem', mapped', ctx', pc', arg') = g
    <3>1. \A u \in Thread : (pc'[u] = "flush" <=> pc[u] = "flush") /\ pc'[u] # "ctx_pin" /\ arg'[u] = arg[u]
      BY <1>1, <1>2, <1>a DEF VarsOK
    <3>2. SameUses(ctx, pc, arg, ctx', pc', arg')
      BY <1>2, <2>5, <3>1 DEF SameUses
    <3>3. UsersAt(mem, mapped, ctx', pc', arg') = g
      BY <3>2, UsersSame
    <3>4. SameFlushed(mem, mem', pc', arg')
      BY <1>f, <2>3, <3>1 DEF SameFlushed
    <3>5. UsersAt(mem', mapped, ctx', pc', arg') = UsersAt(mem, mapped, ctx', pc', arg')
      BY <3>4, UsersKept
    <3> QED BY <1>u, <3>3, <3>5
  <2>8. mem'.pages[b] = "cur" /\ g[dev_heap] > 0
    BY <1>1, <1>2, <2>2, HeapInUse
  <2>9. Sound(mem, f, g, C)
    BY PreSound DEF SoundAt
  <2>10. D \in SUBSET Bo /\ \A x \in D : x \in C \/ x = b
    BY <2>4, <2>5 DEF CurrentAt
  <2> HIDE DEF f, F, g, C, D
  <2>11. Sound(mem', F, g, D)
    <3>1. Sound(mem', [f EXCEPT ![b] = @ + 1], g, D)
      BY <1>1, <2>2, <2>3, <2>8, <2>9, <2>10, BornSound
    <3> QED BY <2>6, <3>1 DEF OneMore
  <2>12. SoundAt(mem', handle', exported', mapped', job', arg', client', ctx', pc', blame')
    BY <2>7, <2>11 DEF SoundAt, F, D
  <2>13. VarsOK'
    BY <1>1, <1>u, <1>a, <2>5 DEF VarsOK, CtxSteps
  <2>14. MapsSound'
    BY <1>1, <1>u, <2>3, <2>4 DEF MapsSound, Stranger, VarsOK, HeapBufs
  <2>15. ThreadsSound'
    BY <1>1, <1>u, <1>a, <2>3, <2>5, <2>13 DEF ThreadsSound, IInv, RefsInv, Pinnable, VarsOK, HeldSteps, CtxSteps, Stranger
  <2>16. ClientSound'
    BY <1>1, <1>u, <2>3, <2>5, <2>13 DEF ClientSound, IInv, RefsInv, VarsOK, Stranger
  <2> QED BY <1>u, <2>12, <2>13, <2>14, <2>15, <2>16, Complete
<1>b. ASSUME ~HasRoom(mem, 1), mem' = DevBo(mem, b, 1), pc' = [pc EXCEPT ![t] = "ctx_wq"],
             ctx' = [ctx EXCEPT !.buf = b], IF mem'.oops = "no" THEN blame' = blame ELSE "dev_fail" \in blame'
      PROVE  IInv' /\ OopsNeedsCause'
  <2>1. mem' \in Mem /\ mem'.oops = "free_node" /\ mem'.type[b] = "dev"
    BY <1>1, <1>b, NoRoom DEF DevBo
  <2>2. "dev_fail" \in blame'
    BY <1>b, <2>1
  <2>3. VarsOK'
    BY <1>1, <1>u, <1>b DEF VarsOK, CtxSteps
  <2> QED BY <2>1, <2>2, <2>3, NoRoomKeeps
<1>c. ASSUME HasRoom(mem, 1), mem' = CtxUndo(DevFree(HeapAlloc(mem, b, 1), b)), blame' = blame,
             ctx' = [state |-> "none", heap |-> NoBo, buf |-> NoBo], pc' = [pc EXCEPT ![t] = "idle"]
      PROVE  IInv' /\ OopsNeedsCause'
  <2> DEFINE m == DevFree(HeapAlloc(mem, b, 1), b)
  <2>1. /\ Sound(m, OwnersAt(handle, exported, mapped, job, arg, client, ctx),
                 UsersAt(mem, mapped, ctx, pc, arg), CurrentAt(ctx, blame))
        /\ Dwindled(mem, m) /\ m.type = [mem.type EXCEPT ![b] = "freed"]
    BY <1>1, <1>c, AllocUndone
  <2> HIDE DEF m
  <2>2. UsersAt(m, mapped, ctx, pc, arg) = UsersAt(mem, mapped, ctx, pc, arg)
    <3>1. SameFlushed(mem, m, pc, arg)
      BY <1>f, <1>t, <2>1 DEF SameFlushed
    <3> QED BY <3>1, UsersKept
  <2>3. CurrentAt(ctx', blame') \subseteq CurrentAt(ctx, blame)
    BY <1>1, <1>c DEF CurrentAt
  <2>a. Sound(m, OwnersAt(handle, exported, mapped, job, arg, client, ctx),
             UsersAt(m, mapped, ctx, pc, arg), CurrentAt(ctx', blame'))
    BY <2>1, <2>2, <2>3, SoundLess
  <2>b. \A u \in Thread : pc[u] # "ctx_pin" /\ (pc'[u] = "flush" <=> pc[u] = "flush")
    BY <1>1, <1>2, <1>c DEF VarsOK
  <2>c. ctx'.heap = NoBo /\ ctx'.buf = NoBo /\ mem' = CtxUndo(m)
    BY <1>c DEF m
  <2>4. Settled
    BY <1>1, <1>u, <1>c, <2>1, <2>a, <2>b, <2>c, Undone
  <2>e. blame' = blame /\ pc' = [pc EXCEPT ![t] = "idle"]
        /\ ctx' = [state |-> "none", heap |-> NoBo, buf |-> NoBo]
    BY <1>c
  <2>5. OldTypes
    BY <2>4, SettledTypes
  <2>6. VarsOK'
    BY <1>1, <1>u, <2>e DEF VarsOK, CtxSteps
  <2>7. MapsSound'
    BY <1>1, <1>u, <2>e, <2>5, <2>6 DEF MapsSound, OldTypes, HeapBufs, VarsOK
  <2>8. ThreadsSound'
    BY <1>1, <1>u, <2>e, <2>5, <2>6 DEF ThreadsSound, IInv, RefsInv, OldTypes, Pinnable, VarsOK, HeldSteps, CtxSteps
  <2>9. ClientSound'
    BY <1>1, <1>u, <2>e, <2>5, <2>6 DEF ClientSound, IInv, RefsInv, OldTypes, VarsOK
  <2> QED BY <2>4, <2>6, <2>7, <2>8, <2>9, Finish
<1> QED BY <1>a, <1>b, <1>c, <1>d

(* The heap of a client that had none, so no device buffers either.        *)
LEMMA HeapMade ==
    ASSUME IInv, Alive, NEW t \in Thread, NEW b \in Bo, Creating(t, b), dev_heap = NoBo, blame' = blame,
           dev_heap' = b, userptr' = FALSE, mem' = Get(New(mem, b, "heap"), b), Goto(t, "publish", b)
    PROVE  IInv' /\ OopsNeedsCause'
<1> DEFINE f == OwnersAt(handle, exported, mapped, job, arg, client, ctx)
           F == OwnersAt(handle', exported', mapped', job', arg', client', ctx')
           g == UsersAt(mem, mapped, ctx, pc, arg)
           w == New(mem, b, "heap")
           r == [w.refcnt EXCEPT ![b] = @ + 1]
<1>0. VarsOK /\ MapsSound
  BY Known
<1>d. /\ UNCHANGED <<handle, exported, mapped, job, ctx, client, missed>> /\ client = "open"
      /\ pc' = [pc EXCEPT ![t] = "publish"] /\ arg' = [arg EXCEPT ![t] = b] /\ pc[t] = "idle"
      /\ mem.type[b] = "none" /\ blame' = blame /\ dev_heap' = b /\ userptr' = FALSE
  BY DEF Creating, Goto
<1>1. /\ Stranger(b) /\ arg[t] = NoBo /\ NoBo \notin Bo /\ ctx.heap = NoBo /\ ctx.buf = NoBo
      /\ (\A u \in Thread : pc[u] = "flush" => arg[u] \in Bo)
      /\ ctx.state \in {"none", "husk"}
  <2>1. arg[t] = NoBo /\ (\A u \in Thread : pc[u] = "flush" => arg[u] \in Bo)
    BY <1>0, <1>d DEF IInv, RefsInv, ThreadsSound, HeldSteps, VarsOK
  <2>2. ctx.heap = NoBo /\ ctx.buf = NoBo /\ ctx.state \in {"none", "husk"}
    BY DEF IInv, RefsInv, ClientSound
  <2> QED BY <1>d, <2>1, <2>2, FreshIsStranger, Known
<1>2. /\ mem \in Mem /\ mem.oops = "no" /\ mem.use[b] = 0 /\ b \notin mem.kva /\ b \notin mem.pinned
      /\ \A x \in Bo : mem.type[x] # "heap" /\ mem.type[x] # "dev"
  <2>1. ~Pinnable(mem, b)
    BY <1>d DEF Pinnable
  <2> QED BY <1>1, <1>d, <2>1, Known DEF ObjectsFormed
<1>3. /\ w \in Mem /\ w.type = [mem.type EXCEPT ![b] = "heap"]
      /\ w.refcnt = [mem.refcnt EXCEPT ![b] = 1] /\ w.kva = mem.kva
      /\ w.use = mem.use /\ w.pages = mem.pages /\ w.node = mem.node /\ w.pinned = mem.pinned
      /\ w.upages = mem.upages /\ w.attach = mem.attach /\ w.oops = mem.oops
  <2>1. "heap" \in Type
    BY DEF Type, Shmem
  <2> QED BY <1>2, <2>1, NewFields
<1>4. mem' = Get(w, b)
  OBVIOUS
<1> HIDE DEF w
<1>5. mem' = [w EXCEPT !.refcnt = r] /\ r \in [Bo -> Nat]
  BY <1>3, <1>4 DEF Get, Mem
<1>6. /\ mem' \in Mem /\ mem'.type = w.type /\ mem'.kva = w.kva /\ mem'.refcnt = r
      /\ mem'.use = w.use /\ mem'.pages = w.pages /\ mem'.node = w.node /\ mem'.pinned = w.pinned
      /\ mem'.upages = w.upages /\ mem'.attach = w.attach /\ mem'.oops = w.oops
  <2> HIDE DEF r
  <2> QED BY <1>3, <1>5 DEF Mem
<1>7. /\ mem'.type[b] = "heap" /\ mem'.refcnt[b] = 2 /\ mem'.oops = "no"
      /\ mem'.type \in [Bo -> Type \cup {"none", "freed"}]
      /\ \A x \in Bo : x # b => mem'.type[x] = mem.type[x] /\ mem'.refcnt[x] = mem.refcnt[x]
  <2>1. mem.type \in [Bo -> Type \cup {"none", "freed"}] /\ mem.refcnt \in [Bo -> Nat]
    BY <1>2 DEF Mem
  <2>2. mem'.type \in [Bo -> Type \cup {"none", "freed"}]
    BY <1>6 DEF Mem
  <2> QED BY <1>2, <1>3, <1>6, <2>1, <2>2
<1>8. Sound(mem, f, g, CurrentAt(ctx, blame))
  BY PreSound DEF SoundAt
<1>9. f \in [Bo -> Nat] /\ g \in [Bo -> Nat] /\ f[b] = 0 /\ g[b] = 0
  <2> HIDE DEF f, g
  <2>1. ~Live(mem, b) /\ mem.type[b] \notin Shmem
    BY <1>d DEF Live, Type, Shmem
  <2> QED BY <1>8, <2>1 DEF Sound, RefsCounted, PinsCounted
<1>10. HeapBufs(mem) = {} /\ HeapBufs(mem)' = {}
  BY <1>2, <1>7 DEF HeapBufs
<1>a. OneMore(f, F, b)
  BY <1>0, <1>1, <1>d, OwnThread DEF VarsOK
<1>b. \A x \in Bo : Owners'[x] = IF x = b THEN 2 ELSE f[x]
  <2> SUFFICES ASSUME NEW x \in Bo
               PROVE  Owners'[x] = IF x = b THEN 2 ELSE f[x]
    OBVIOUS
  <2>1. F[x] = IF x = b THEN 1 ELSE f[x]
    <3> HIDE DEF f, F
    <3> QED BY <1>9, <1>a DEF OneMore
  <2> DEFINE A == {u \in Thread : arg'[u] = x}
  <2>2. Count(A) \in Nat
    BY CountsAreNat
  <2>3. /\ Owners'[x] = One(x \in handle') + One(x \in exported') + One(x \in mapped') + One(x = job')
             + Count(A) + One(x = b /\ client' = "open") + One(x = ctx'.heap) + One(x = ctx'.buf)
        /\ F[x] = One(x \in handle') + One(x \in exported') + One(x \in mapped') + One(x = job')
             + Count(A) + One(x = NoBo /\ client' = "open") + One(x = ctx'.heap) + One(x = ctx'.buf)
    BY <1>d DEF Owners, OwnersAt, Holders
  <2>4. One(x = NoBo /\ client' = "open") = 0 /\ One(x = b /\ client' = "open") = IF x = b THEN 1 ELSE 0
    BY <1>1, <1>d DEF One
  <2>5. /\ One(x \in handle') \in Nat /\ One(x \in exported') \in Nat /\ One(x \in mapped') \in Nat
        /\ One(x = job') \in Nat /\ One(x = ctx'.heap) \in Nat /\ One(x = ctx'.buf) \in Nat
    BY DEF One
  <2>6. f[x] \in Nat
    BY <1>9
  <2> HIDE DEF A, f, F
  <2> QED BY <2>1, <2>2, <2>3, <2>4, <2>5, <2>6
<1> HIDE DEF f, F
<1>c. RefsExact'
  <2> SUFFICES ASSUME NEW x \in Bo
               PROVE  /\ mem'.refcnt[x] = IF ~Live(mem, x)' THEN 0
                                           ELSE Owners'[x] + (IF x = b THEN Count(HeapBufs(mem)') ELSE 0)
                      /\ IF Live(mem, x)' THEN mem'.refcnt[x] > 0 ELSE Owners'[x] = 0
    BY <1>d DEF RefsExact, RefsCounted
  <2>1. Count(HeapBufs(mem)') = 0
    BY <1>10, CountsAreNat
  <2>2. CASE x = b
    BY <1>7, <1>b, <2>1, <2>2 DEF Live, Type, Shmem
  <2>3. CASE x # b
    <3>1. (Live(mem, x)' <=> Live(mem, x)) /\ mem'.refcnt[x] = mem.refcnt[x] /\ Owners'[x] = f[x]
      BY <1>7, <1>b, <2>3 DEF Live
    <3>2. /\ mem.refcnt[x] = IF ~Live(mem, x) THEN 0 ELSE f[x] + 0
          /\ IF Live(mem, x) THEN mem.refcnt[x] > 0 ELSE f[x] = 0
      BY <1>1, <1>8 DEF Sound, RefsCounted
    <3>3. f[x] \in Nat
      BY <1>9
    <3> QED BY <2>3, <3>1, <3>2, <3>3
  <2> QED BY <2>2, <2>3
<1>e. \A y \in Bo : y # b => PinTarget(mem, y)' = PinTarget(mem, y) /\ b \notin PinTarget(mem, y)
  BY <1>2, <1>7 DEF PinTarget
<1>f. \A x \in Bo : Users'[x] = g[x]
  <2>1. \A x \in Bo : {u \in Thread : pc'[u] = "flush" /\ x \in PinTarget(mem, arg[u])'}
                       = Flushers(mem, pc, arg, x)
    <3>1. \A u \in Thread : (pc'[u] = "flush" <=> pc[u] = "flush")
                             /\ (pc[u] = "flush" => PinTarget(mem, arg[u])' = PinTarget(mem, arg[u]))
      <4> SUFFICES ASSUME NEW u \in Thread
                   PROVE  (pc'[u] = "flush" <=> pc[u] = "flush")
                          /\ (pc[u] = "flush" => PinTarget(mem, arg[u])' = PinTarget(mem, arg[u]))
        OBVIOUS
      <4>1. pc'[u] = "flush" <=> pc[u] = "flush"
        BY <1>0, <1>d DEF VarsOK
      <4>2. ASSUME pc[u] = "flush"
            PROVE  PinTarget(mem, arg[u])' = PinTarget(mem, arg[u])
        <5>1. arg'[u] = arg[u] /\ arg[u] \in Bo /\ arg[u] # b
          BY <1>0, <1>1, <1>d, <4>2 DEF VarsOK, Stranger
        <5> QED BY <1>2, <1>7, <5>1 DEF PinTarget
      <4> QED BY <4>1, <4>2
    <3> QED BY <3>1 DEF Flushers
  <2>2. \A x \in Bo : One(x = ctx'.heap /\ \A u \in Thread : pc'[u] # "ctx_pin") = 0
                       /\ One(x = ctx.heap /\ \A u \in Thread : pc[u] # "ctx_pin") = 0
    BY <1>1, <1>d DEF One
  <2> SUFFICES ASSUME NEW x \in Bo
               PROVE  Users'[x] = g[x]
    OBVIOUS
  <2>3. Users'[x] = One(x \in mapped') + One(x = ctx'.heap /\ \A u \in Thread : pc'[u] # "ctx_pin")
             + Count({u \in Thread : pc'[u] = "flush" /\ x \in PinTarget(mem, arg[u])'})
    BY DEF Users
  <2>4. g[x] = One(x \in mapped) + One(x = ctx.heap /\ \A u \in Thread : pc[u] # "ctx_pin")
             + Count(Flushers(mem, pc, arg, x))
    BY DEF UsersAt
  <2> QED BY <1>d, <2>1, <2>2, <2>3, <2>4
<1> HIDE DEF g
<1>g. PinsExact'
  <2> DEFINE Q(x) == {y \in mem'.pinned : x \in PinTarget(mem, y)'}
  <2> SUFFICES ASSUME NEW x \in Bo
               PROVE  /\ mem'.type[x] \in Shmem => mem'.use[x] = Users'[x] + One(x \in mem'.kva) + Count(Q(x))
                      /\ mem'.type[x] \notin Shmem => Users'[x] = 0
    BY DEF PinsExact, PinsCounted
  <2>1. Q(x) = PinsOf(mem, x)
    <3>1. mem'.pinned = mem.pinned /\ \A y \in mem.pinned : y \in Bo /\ y # b
      BY <1>2, <1>3, <1>6 DEF Mem
    <3> QED BY <1>e, <3>1 DEF PinsOf
  <2>2. x = b => PinsOf(mem, x) = {}
    <3>1. \A y \in mem.pinned : y \in Bo /\ y # b
      BY <1>2 DEF Mem
    <3> QED BY <1>e, <3>1 DEF PinsOf
  <2> HIDE DEF Q
  <2>3. CASE x = b
    <3>1. Count(PinsOf(mem, x)) = 0
      BY <2>2, <2>3, CountsAreNat
    <3>2. One(x \in mem'.kva) = 0 /\ mem'.use[x] = 0
      BY <1>2, <1>3, <1>6, <2>3 DEF One
    <3> QED BY <1>7, <1>9, <1>f, <2>1, <2>3, <3>1, <3>2 DEF Shmem
  <2>4. CASE x # b
    <3>1. /\ mem.type[x] \in Shmem => mem.use[x] = g[x] + One(x \in mem.kva) + Count(PinsOf(mem, x))
          /\ mem.type[x] \notin Shmem => g[x] = 0
      BY <1>8 DEF Sound, PinsCounted, PinsOf
    <3>2. mem'.kva = mem.kva /\ mem'.use = mem.use /\ mem'.type[x] = mem.type[x]
      BY <1>3, <1>6, <1>7, <2>4
    <3> QED BY <1>f, <2>1, <3>1, <3>2
  <2> QED BY <2>3, <2>4
<1>h. CmdBufPagesCurrent'
  BY <1>2, <1>7 DEF CmdBufPagesCurrent, TablesCurrent, Current
<1>i. ForeignRefsExact'
  <2>1. /\ {x \in Bo : mem'.type[x] = "guest"} = {x \in Bo : mem.type[x] = "guest"}
        /\ {x \in Bo : mem'.type[x] = "import"} = {x \in Bo : mem.type[x] = "import"}
    BY <1>d, <1>7
  <2>2. mem'.upages = mem.upages /\ mem'.attach = mem.attach
    BY <1>3, <1>6
  <2> QED BY <1>8, <2>1, <2>2 DEF ForeignRefsExact, ForeignCounted, Sound
<1>j. VarsOK'
  BY <1>0, <1>d DEF VarsOK, HeldSteps
<1>k. TypeOK'
  BY <1>6, <1>j DEF TypeOK, VarsOK
<1>l. ObjectsFormed(mem)'
  <2> SUFFICES ASSUME NEW x \in Bo
               PROVE  /\ mem'.type[x] = "heap" => x = b
                      /\ x = b => mem'.type[x] \in {"heap", "freed"}
                      /\ mem'.type[x] # "dev"
                      /\ x \in mem'.pinned => Pinnable(mem, x)'
                      /\ x \in mem'.kva => mem'.type[x] \in {"cmd", "dev"}
                      /\ mem'.type[x] = "none" => mem'.use[x] = 0 /\ mem'.node[x] = {}
    BY <1>d DEF ObjectsFormed
  <2>1. CASE x = b
    BY <1>2, <1>3, <1>6, <1>7, <2>1
  <2>2. CASE x # b
    <3>1. /\ x \in mem.pinned => Pinnable(mem, x)
          /\ x \in mem.kva => mem.type[x] \in {"cmd", "dev"}
          /\ mem.type[x] = "none" => mem.use[x] = 0 /\ mem.node[x] = {}
      BY Known DEF ObjectsFormed
    <3> QED BY <1>2, <1>3, <1>6, <1>7, <2>2, <3>1 DEF Pinnable
  <2> QED BY <2>1, <2>2
<1>m. ObjectsSound'
  <2>1. \A x \in mapped' : mem'.type[x] \in {"share", "heap"}
    BY <1>0, <1>1, <1>7, <1>d DEF MapsSound, Stranger, VarsOK
  <2> QED BY <1>10, <1>d, <1>l, <2>1 DEF ObjectsSound
<1>n. ThreadsSound'
  BY <1>0, <1>1, <1>7, <1>d, <1>j DEF ThreadsSound, IInv, RefsInv, Pinnable, VarsOK, HeldSteps, CtxSteps, Stranger
<1>o. ClientSound'
  BY <1>0, <1>1, <1>7, <1>d, <1>j DEF ClientSound, IInv, RefsInv, VarsOK, Stranger
<1> QED BY <1>7, <1>c, <1>g, <1>h, <1>i, <1>k, <1>m, <1>n, <1>o DEF IInv, RefsInv, PinsInv, OopsNeedsCause

LEMMA CreateHeapKeeps ==
    ASSUME IInv, Alive, NEW t \in Thread, NEW b \in Bo, Creating(t, b), CreateHeap(t, b)
    PROVE  IInv' /\ OopsNeedsCause'
<1>1. CASE mem' = mem /\ Returns(t) /\ UNCHANGED <<dev_heap, userptr, blame>>
  BY <1>1, RefusedKeeps
<1>2. CASE /\ dev_heap = NoBo /\ blame' = blame /\ dev_heap' = b /\ userptr' = FALSE
           /\ mem' = Get(New(mem, b, "heap"), b) /\ Goto(t, "publish", b)
  BY <1>2, HeapMade
<1> QED BY <1>1, <1>2 DEF CreateHeap, Works, Fails, Refused, heapVars

LEMMA CreateBoKeeps ==
    ASSUME IInv, Alive, NEW t \in Thread, NEW b \in Bo, CreateBo(t, b)
    PROVE  IInv' /\ OopsNeedsCause'
<1>1. Creating(t, b)
  BY DEF CreateBo, Creating, Fresh, bookVars
<1> QED BY <1>1, CreateHeapKeeps, CreateDevKeeps, CreateShareKeeps, CreateCmdKeeps,
       CreateGuestKeeps, ImportKeeps DEF CreateBo
-----------------------------------------------------------------------------
LEMMA InitSound ==
    ASSUME Init
    PROVE  IInv /\ OopsNeedsCause /\ FirstPageFlushed
<1> USE DEF Init, MemInit, NoCtx
<1>0. NoBo \notin Bo /\ \A S : S = {} => Count(S) = 0
  BY CountsAreNat DEF NoBo, Bo
<1>1. TypeOK
  BY GemAssumption DEF TypeOK, Mem
<1>2. /\ mem.oops = "no" /\ mem.pinned = {} /\ mem.kva = {}
      /\ \A b \in Bo : /\ mem.type[b] = "none" /\ mem.refcnt[b] = 0 /\ mem.use[b] = 0
                       /\ mem.node[b] = {}
  OBVIOUS
<1>3. \A b \in Bo : Owners[b] = 0
  <2> SUFFICES ASSUME NEW b \in Bo PROVE Owners[b] = 0
    OBVIOUS
  <2>1. Holders(b) = {}
    BY <1>0 DEF Holders
  <2>2. Count(Holders(b)) = 0
    BY <1>0, <2>1
  <2>3. /\ One(b \in handle) = 0 /\ One(b \in exported) = 0 /\ One(b \in mapped) = 0 /\ One(b = job) = 0
        /\ One(b = dev_heap /\ client = "open") = 0 /\ One(b = ctx.heap) = 0 /\ One(b = ctx.buf) = 0
    BY <1>0 DEF One
  <2> QED BY <2>2, <2>3 DEF Owners
<1>4. \A b \in Bo : Users[b] = 0
  <2> SUFFICES ASSUME NEW b \in Bo PROVE Users[b] = 0
    OBVIOUS
  <2>1. {t \in Thread : pc[t] = "flush" /\ b \in PinTarget(mem, arg[t])} = {}
    OBVIOUS
  <2>2. Count({t \in Thread : pc[t] = "flush" /\ b \in PinTarget(mem, arg[t])}) = 0
    BY <1>0, <2>1
  <2>3. One(b \in mapped) = 0 /\ One(b = ctx.heap /\ \A t \in Thread : pc[t] # "ctx_pin") = 0
    BY <1>0 DEF One
  <2> QED BY <2>2, <2>3 DEF Users
<1>5. RefsExact
  BY <1>2, <1>3 DEF RefsExact, RefsCounted, Live, Type, Shmem
<1>6. PinsExact
  BY <1>2, <1>4 DEF PinsExact, PinsCounted, Shmem
<1>7. CmdBufPagesCurrent
  BY <1>2 DEF CmdBufPagesCurrent, TablesCurrent, Current
<1>8. ForeignRefsExact
  <2>1. {b \in Bo : mem.type[b] = "guest"} = {} /\ {b \in Bo : mem.type[b] = "import"} = {}
    BY <1>2
  <2>2. /\ Count({b \in Bo : mem.type[b] = "guest"}) = 0
        /\ Count({b \in Bo : mem.type[b] = "import"}) = 0
    BY <1>0, <2>1
  <2> QED BY <2>2 DEF ForeignRefsExact, ForeignCounted, GuestPages
<1>9. ObjectsSound
  <2>1. HeapBufs(mem) = {}
    BY <1>2 DEF HeapBufs
  <2> QED BY <1>0, <1>2, <2>1 DEF ObjectsSound, ObjectsFormed
<1>10. ThreadsSound /\ ClientSound
  BY DEF ThreadsSound, ClientSound, HeldSteps, CtxSteps
<1> QED BY <1>1, <1>5, <1>6, <1>7, <1>8, <1>9, <1>10
        DEF IInv, RefsInv, PinsInv, OopsNeedsCause, FirstPageFlushed

LEMMA StutterSound ==
    ASSUME IInv, UNCHANGED vars
    PROVE  IInv'
<1> USE DEF vars, bookVars, heapVars, thrVars
<1>1. RefsInv'
  <2>1. TypeOK'
    BY DEF IInv, RefsInv, TypeOK
  <2>2. RefsExact'
    BY DEF IInv, RefsInv, RefsExact, Alive, RefsCounted, Owners, Holders, Live, HeapBufs
  <2>3. ForeignRefsExact'
    BY DEF IInv, RefsInv, ForeignRefsExact, Alive, ForeignCounted
  <2>4. ObjectsSound'
    BY DEF IInv, RefsInv, ObjectsSound, Alive, ObjectsFormed, Pinnable, HeapBufs
  <2>5. ThreadsSound'
    BY DEF IInv, RefsInv, ThreadsSound, Alive, Pinnable
  <2>6. ClientSound'
    BY DEF IInv, RefsInv, ClientSound, Alive, HeapBufs
  <2> QED BY <2>1, <2>2, <2>3, <2>4, <2>5, <2>6 DEF RefsInv
<1>2. PinsInv'
  BY DEF IInv, PinsInv, PinsExact, CmdBufPagesCurrent, Alive, PinsCounted, Users, PinTarget,
         TablesCurrent, Current
<1> QED BY <1>1, <1>2 DEF IInv

(* A step keeps the invariant, and is blamed on its cause.                 *)
LEMMA NextSound ==
    ASSUME IInv, Next
    PROVE  IInv' /\ (SmallObjects => OopsNeedsCause')
<1>0. Alive
  BY DEF Next
<1>1. ASSUME NEW t \in Thread, ThreadStep(t)
      PROVE  IInv' /\ (SmallObjects => OopsNeedsCause')
  <2>1. CASE Publish(t) \/ PutObj(t) \/ SyncPin(t) \/ SyncFlush(t)
    BY <1>0, <2>1, PublishKeeps, PutObjKeeps, SyncPinKeeps, SyncFlushKeeps
  <2>2. CASE CtxHeap(t) \/ CtxPin(t) \/ CtxRest(t)
    BY <1>0, <2>2, CtxHeapKeeps, CtxPinKeeps, CtxRestKeeps
  <2>3. ASSUME NEW b \in Bo, CreateBo(t, b) \/ SyncLookup(t, b) \/ CtxBuf(t, b)
        PROVE  IInv' /\ OopsNeedsCause'
    BY <1>0, <2>3, CreateBoKeeps, SyncLookupKeeps, CtxBufKeeps
  <2> QED BY <1>1, <2>1, <2>2, <2>3 DEF ThreadStep
<1>2. ASSUME NEW b \in Bo, BoStep(b)
      PROVE  IInv' /\ OopsNeedsCause'
  BY <1>0, <1>2, GemCloseKeeps, MmapKeeps, MunmapKeeps, ExportKeeps, ExportReleaseKeeps, SubmitKeeps,
     JobDoneKeeps DEF BoStep
<1>3. CASE Close
  BY <1>0, <1>3, CloseKeeps
<1>4. CASE CtxFini
  BY <1>0, <1>4, CtxFiniKeeps
<1> QED BY <1>1, <1>2, <1>3, <1>4 DEF Next

(* What a sync missed is only ever noted by a sync.                        *)
LEMMA NextMissed ==
    ASSUME IInv, Next, SmallObjects, FirstPageFlushed
    PROVE  FirstPageFlushed'
<1> USE DEF FirstPageFlushed
<1>0. Alive
  BY DEF Next
<1>1. ASSUME NEW t \in Thread, ThreadStep(t)
      PROVE  missed' # "first"
  <2>1. CASE SyncFlush(t)
    BY <1>0, <2>1, SyncFlushKeeps
  <2>2. CASE PutObj(t)
    BY <2>2 DEF PutObj
  <2>3. CASE Publish(t) \/ SyncPin(t) \/ CtxHeap(t) \/ CtxPin(t) \/ CtxRest(t)
    BY <2>3 DEF Publish, SyncPin, CtxHeap, CtxPin, CtxRest
  <2>4. ASSUME NEW b \in Bo, CreateBo(t, b) \/ SyncLookup(t, b) \/ CtxBuf(t, b)
        PROVE  missed' # "first"
    <3>1. CASE CreateBo(t, b)
      BY <3>1 DEF CreateBo
    <3>2. CASE SyncLookup(t, b)
      BY <3>2 DEF SyncLookup
    <3>3. CASE CtxBuf(t, b)
      BY <3>3 DEF CtxBuf
    <3> QED BY <2>4, <3>1, <3>2, <3>3
  <2> QED BY <1>1, <2>1, <2>2, <2>3, <2>4 DEF ThreadStep
<1>2. ASSUME NEW b \in Bo, BoStep(b)
      PROVE  missed' # "first"
  BY <1>2 DEF BoStep, GemClose, Mmap, Munmap, Export, ExportRelease, Submit, JobDone
<1>3. CASE Close \/ CtxFini
  BY <1>3 DEF Close, CtxFini
<1> QED BY <1>1, <1>2, <1>3 DEF Next
-----------------------------------------------------------------------------
(* The two invariants are inductive together.                              *)
LEMMA Invariant == Spec => []IInv
<1>1. Init => IInv
  BY InitSound
<1>2. IInv /\ [Next]_vars => IInv'
  BY NextSound, StutterSound
<1> QED BY <1>1, <1>2, PTL DEF Spec

(* Every reference to a buffer object, to pinned user pages and to a foreign *)
(* buffer has an owner and every owner its reference, whichever of the       *)
(* ladders of amdxdna_gem.c and aie2_ctx_init() a failed call took: what     *)
(* somebody holds is never freed, and what nobody holds always is.           *)
THEOREM ReferencesCounted == Spec => []RefsInv
BY Invariant, PTL DEF IInv

(* The use count of the pages of every shmem object is exactly the mappings, *)
(* contexts, syncs and submitted buffers that use them, so amdxdna_gem_unpin() *)
(* undoes amdxdna_gem_pin() for the same object; and the page table of a     *)
(* context's command buffer is always the heap's.                            *)
THEOREM PagesCounted == Spec => []PinsInv
BY Invariant, PTL DEF IInv

(* Whatever brings the kernel down has one of the known causes; in           *)
(* particular the heap is never torn down with a buffer in it.  Buffers are  *)
(* smaller than 2^32 bytes, the width amdxdna_drm_clflush() computes in.     *)
THEOREM CrashesHaveCause ==
    ASSUME SmallObjects
    PROVE  Spec => []OopsNeedsCause
<1>1. Init => OopsNeedsCause
  BY InitSound
<1>2. IInv /\ OopsNeedsCause /\ [Next]_vars => OopsNeedsCause'
  <2>1. OopsNeedsCause /\ UNCHANGED vars => OopsNeedsCause'
    BY DEF OopsNeedsCause, vars
  <2> QED BY <2>1, NextSound
<1> QED BY <1>1, <1>2, Invariant, PTL DEF Spec

(* A sync of a range that begins in the first page of such a buffer and does *)
(* not wrap leaves no byte of it in the cache.                               *)
THEOREM FirstPageIsFlushed ==
    ASSUME SmallObjects
    PROVE  Spec => []FirstPageFlushed
<1>1. Init => FirstPageFlushed
  BY InitSound
<1>2. IInv /\ FirstPageFlushed /\ [Next]_vars => FirstPageFlushed'
  <2>1. FirstPageFlushed /\ UNCHANGED vars => FirstPageFlushed'
    BY DEF FirstPageFlushed, vars
  <2> QED BY <2>1, NextMissed
<1> QED BY <1>1, <1>2, Invariant, PTL DEF Spec
=============================================================================
