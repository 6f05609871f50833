-------------------------------- MODULE Gem ---------------------------------
(***************************************************************************)
(* The buffer objects of a client (amdxdna_gem.c): creation of each type,  *)
(* handles, references, the pages of shmem objects and who pins them, the  *)
(* device heap with the buffers allocated from it, and the sync ioctl;     *)
(* with what contexts and submissions hold of them (aie2_ctx_init(),       *)
(* amdxdna_arg_bos_lookup()).                                              *)
(*                                                                         *)
(* Memory is shmem: no carved-out chunk, IOMMU with PASID.  The functions  *)
(* of an ioctl are steps of a thread wherever another thread can come in   *)
(* between; mm_lock and the lock of an object are held within a step.      *)
(***************************************************************************)
EXTENDS Integers, FiniteSets, FiniteSetsExt

CONSTANTS
    NumBo,        \* bound: objects ever created
    Thread,       \* threads of the client in an ioctl
    HeapPages,    \* pages of the device heap
    SharePages,   \* pages of another object
    MaxExports,   \* bound: dma-bufs at a time
    MaxOther,     \* bound: objects ever created outside the heap
    PageSize,     \* bytes of a page
    U32, U64,     \* how many values the integers of the sync ioctl have
    Faults        \* what may go wrong in this instance

\* Out of memory, no handle, no mapping in the kernel, no work queue for a
\* context, user pages that cannot be pinned, a foreign buffer that cannot be
\* mapped.
Fault == {"nomem", "handle", "vmap", "wq", "pin_user", "attach"}
ASSUME GemAssumption ==
    /\ NumBo \in Nat /\ HeapPages \in Nat \ {0} /\ SharePages \in Nat \ {0} /\ PageSize \in Nat \ {0}
    /\ U32 \in Nat \ {0} /\ U64 \in Nat \ {0} /\ Faults \subseteq Fault
    /\ U32 <= U64 /\ IsFiniteSet(Thread)

Bo == 1..NumBo
NoBo == 0
Shmem == {"share", "heap", "cmd"}
Type == Shmem \cup {"dev", "guest", "import"}

VARIABLES
    mem,          \* the objects, see MemInit
    handle,       \* the objects with a handle
    exported,     \* the objects a dma-buf keeps
    mapped,       \* the objects user space has mapped
    dev_heap, userptr,   \* client->dev_heap, and whether it was ever mapped
    job,          \* the object of the job in flight
    ctx,          \* [state, heap, buf] of the client's context
    client,       \* "open" or "closed"
    pc, arg,      \* the next step of a thread and its object
    missed,       \* what the last sync left in the cache: "no", or bytes of a
                  \* range that begins in the "first" or a "later" page, or
                  \* that wrapped at 2^64
    blame         \* history: what the user did that the driver does not stand

bookVars == <<handle, exported, mapped, job>>
heapVars == <<dev_heap, userptr>>
thrVars == <<pc, arg>>
vars == <<mem, bookVars, heapVars, ctx, client, thrVars, missed, blame>>

\* use: pages_use_count of a shmem object.  pages: whether the page table a
\* buffer of the heap remembers is the heap's ("cur"), one the heap has given
\* back since ("stale") or none.  node: its pages of the heap.
\* upages: user pages a guest buffer pins.  attach: foreign buffers attached.
MemInit == [type |-> [b \in Bo |-> "none"], refcnt |-> [b \in Bo |-> 0],
            use |-> [b \in Bo |-> 0], pages |-> [b \in Bo |-> "none"],
            node |-> [b \in Bo |-> {}], pinned |-> {}, kva |-> {},
            upages |-> 0, attach |-> 0, oops |-> "no"]
NoCtx == [state |-> "none", heap |-> NoBo, buf |-> NoBo]

Init ==
    /\ mem = MemInit /\ handle = {} /\ exported = {} /\ mapped = {}
    /\ job = NoBo /\ dev_heap = NoBo /\ userptr = FALSE
    /\ ctx = NoCtx /\ client = "open" /\ pc = [t \in Thread |-> "idle"]
    /\ arg = [t \in Thread |-> NoBo] /\ missed = "no" /\ blame = {}

Alive == mem.oops = "no"
Fails(f) == f \in Faults /\ UNCHANGED blame
Works == UNCHANGED blame
Oops(m, why) == [m EXCEPT !.oops = why]
Goto(t, next, b) == pc' = [pc EXCEPT ![t] = next] /\ arg' = [arg EXCEPT ![t] = b]

\* Objects are numbered in the order of their creation.
Fresh(b) == b \in Bo /\ mem.type[b] = "none" /\ \A x \in 1..(b - 1) : mem.type[x] # "none"
Other == {b \in Bo : mem.type[b] \in {"share", "cmd", "guest", "import", "freed"}}
Live(m, b) == m.type[b] \in Type
HeapBufs(m) == {b \in Bo : m.type[b] = "dev"}
-----------------------------------------------------------------------------
(* Pages of shmem objects: drm_gem_shmem_get_pages() and _put_pages().     *)

GetPages(m, S) ==
    [m EXCEPT !.use = [x \in Bo |-> IF x \in S THEN m.use[x] + 1 ELSE m.use[x]]]
\* The last user gives the page table back, whoever remembers it.
PutPages(m, S) ==
    LET last == \E b \in S : m.use[b] = 1 /\ m.type[b] = "heap"
    IN  [m EXCEPT !.use = [x \in Bo |-> IF x \in S THEN m.use[x] - 1 ELSE m.use[x]],
                  !.pages = [x \in Bo |-> IF last /\ m.pages[x] = "cur" THEN "stale"
                                                                     ELSE m.pages[x]]]

\* amdxdna_gem_pin_nolock(): the object whose pages are pinned for b.
Pinnable(m, b) == m.type[b] \in {"share", "heap", "dev", "import"}
PinTarget(m, b) == CASE m.type[b] = "dev" -> {dev_heap}
                     [] m.type[b] \in {"share", "heap"} -> {b}
                     [] OTHER -> {}
Pin(m, b) == GetPages(m, PinTarget(m, b))
\* The buffer itself is unpinned, whatever was pinned for it.
Unpin_self(m, b) == PutPages(m, {b})
Unpin(m, b) == PutPages(m, PinTarget(m, b))
-----------------------------------------------------------------------------
(* References and the free functions.                                      *)

Get(m, b) == [m EXCEPT !.refcnt[b] = @ + 1]
Unpinned(m, b) == IF b \in m.pinned THEN [Unpin(m, b) EXCEPT !.pinned = @ \ {b}] ELSE m
Gone(m, b) == [m EXCEPT !.type[b] = "freed", !.refcnt[b] = 0, !.kva = @ \ {b}]

\* amdxdna_gem_shmem_obj_free(): the heap is torn down empty.
ShmemFree(m, b) ==
    IF m.type[b] = "heap" /\ HeapBufs(m) # {} THEN Oops(m, "takedown")
    ELSE LET n == Unpinned(m, b)
         IN  Gone(IF b \in n.kva THEN PutPages(n, {b}) ELSE n, b)

\* amdxdna_gem_heap_free(): a node that was never inserted is removed all the
\* same; then the heap loses a reference.
HeapFree(m, b) ==
    IF m.node[b] = {} THEN Oops(m, "free_node")
    ELSE LET n == Gone([m EXCEPT !.node[b] = {}, !.refcnt[dev_heap] = @ - 1], b)
         IN  IF n.refcnt[dev_heap] = 0 THEN ShmemFree(n, dev_heap) ELSE n

\* amdxdna_gem_dev_obj_free(): through the client, which may be gone.
DevFree(m, b) == IF client = "closed" THEN Oops(m, "freed_client")
                 ELSE HeapFree(Unpinned(m, b), b)

GuestPages == 2   \* user pages of a guest buffer
GuestFree(m, b) == [Gone(m, b) EXCEPT !.upages = @ - GuestPages]
ImportFree(m, b) == [Gone(m, b) EXCEPT !.attach = @ - 1, !.pinned = @ \ {b}]

Put(m, b) ==
    IF m.refcnt[b] > 1 THEN [m EXCEPT !.refcnt[b] = @ - 1]
    ELSE CASE m.type[b] \in Shmem -> ShmemFree(m, b)
           [] m.type[b] = "dev" -> DevFree(m, b)
           [] m.type[b] = "guest" -> GuestFree(m, b)
           [] m.type[b] = "import" -> ImportFree(m, b)
-----------------------------------------------------------------------------
(* amdxdna_drm_create_bo_ioctl().                                          *)

New(m, b, type) == [m EXCEPT !.type[b] = type, !.refcnt[b] = 1]
Returns(t) == Goto(t, "idle", NoBo)
Refused(t) == Returns(t) /\ UNCHANGED <<mem, heapVars>>

CreateShare(t, b) ==
    \/ Works /\ mem' = New(mem, b, "share") /\ Goto(t, "publish", b) /\ UNCHANGED heapVars
    \/ Fails("nomem") /\ Refused(t)

\* One heap for a client, for good.
CreateHeap(t, b) ==
    \/ /\ dev_heap = NoBo /\ Works /\ dev_heap' = b /\ userptr' = FALSE
       /\ mem' = Get(New(mem, b, "heap"), b) /\ Goto(t, "publish", b)
    \/ Fails("nomem") /\ Refused(t)
    \/ dev_heap # NoBo /\ Works /\ Refused(t)

CreateCmd(t, b) ==
    LET n == New(mem, b, "cmd")
    IN  \/ /\ Works /\ mem' = GetPages([n EXCEPT !.kva = @ \cup {b}], {b})
           /\ Goto(t, "publish", b) /\ UNCHANGED heapVars
        \/ (Fails("nomem") \/ Fails("vmap")) /\ Refused(t)

\* amdxdna_gem_heap_alloc(): a hole of the heap.
Holes(m, n) == {s \in 0..(HeapPages - n) :
                  \A b \in HeapBufs(m) : (s..(s + n - 1)) \cap m.node[b] = {}}
HeapUsable(n) == dev_heap # NoBo /\ userptr /\ n \in 1..HeapPages
HasRoom(m, n) == HeapUsable(n) /\ Holes(m, n) # {}
\* A buffer does not keep its heap.
HeapAlloc_noref(m, b, n) ==
    LET s == Min(Holes(m, n))
    IN  [New(m, b, "dev") EXCEPT !.node[b] = s..(s + n - 1), !.pages[b] = "cur"]
HeapAlloc(m, b, n) ==
    LET s == Min(Holes(m, n))
    IN  Get([New(m, b, "dev") EXCEPT !.node[b] = s..(s + n - 1),
                !.pages[b] = IF m.use[dev_heap] > 0 THEN "cur" ELSE "none"], dev_heap)
\* amdxdna_drm_create_dev_bo(): whatever fails, the object is freed.  The
\* kernel maps the pages the table names.
DevBo(m, b, n) ==
    IF HasRoom(m, n)
    THEN [HeapAlloc(m, b, n) EXCEPT !.kva = @ \cup {b}]
    ELSE HeapFree(New(m, b, "dev"), b)
DevFailed == blame' = blame \cup {"dev_fail"}

CreateDev(t, b, n) ==
    /\ \/ mem' = DevBo(mem, b, n) /\ IF mem'.oops = "no" THEN Works ELSE DevFailed
       \/ HasRoom(mem, n) /\ mem' = DevFree(HeapAlloc(mem, b, n), b) /\ Fails("vmap")
    /\ IF Live(mem', b) THEN Goto(t, "publish", b) ELSE Returns(t)
    /\ UNCHANGED heapVars

\* The pages pinned when the k-th of the user's ranges stops short are all
\* unpinned again, those of that range too.
GuestUnpin(k) == k
\* amdxdna_drm_create_guest_bo(): one page in each of the user's ranges.
CreateGuest(t, b) ==
    \/ /\ Works /\ mem' = [New(mem, b, "guest") EXCEPT !.upages = @ + GuestPages]
       /\ Goto(t, "publish", b) /\ UNCHANGED heapVars
    \/ /\ Fails("pin_user") /\ Returns(t) /\ UNCHANGED heapVars
       /\ \E k \in 0..GuestPages : mem' = [mem EXCEPT !.upages = @ + k - GuestUnpin(k)]
    \/ Fails("nomem") /\ Refused(t)

\* The steps of amdxdna_gem_prime_import(): each undoes the ones before it.
ImportSteps == {"attach", "map", "object"}
ImportUndo(step) == IF step = "attach" THEN 0 ELSE 1
Import(t, b) ==
    \/ /\ Works /\ mem' = [New(mem, b, "import") EXCEPT !.attach = @ + 1]
       /\ Goto(t, "publish", b) /\ UNCHANGED heapVars
    \/ /\ Fails("attach") /\ Returns(t) /\ UNCHANGED heapVars
       /\ \E step \in ImportSteps :
            mem' = [mem EXCEPT !.attach = @ + (IF step = "attach" THEN 0 ELSE 1)
                                            - ImportUndo(step)]

CreateBo(t, b) ==
    /\ client = "open" /\ pc[t] = "idle" /\ Fresh(b)
    /\ \/ CreateHeap(t, b) \/ \E n \in 0..(HeapPages + 1) : CreateDev(t, b, n)
       \/ /\ Cardinality(Other) < MaxOther
          /\ CreateShare(t, b) \/ CreateCmd(t, b) \/ CreateGuest(t, b) \/ Import(t, b)
    /\ UNCHANGED <<bookVars, ctx, client, missed>>

\* The handle takes a reference of its own; the object becomes visible to
\* other threads.
Publish(t) ==
    LET b == arg[t]
    IN  /\ pc[t] = "publish" /\ Goto(t, "put", b)
        /\ \/ Works /\ handle' = handle \cup {b} /\ mem' = Get(mem, b)
           \/ Fails("handle") /\ UNCHANGED <<handle, mem>>
        /\ UNCHANGED <<exported, mapped, job, heapVars, ctx, client, missed>>
\* The end of create_bo and of sync_bo.
PutObj(t) ==
    /\ pc[t] = "put" /\ mem' = Put(mem, arg[t]) /\ Returns(t) /\ missed' = "no"
    /\ UNCHANGED <<bookVars, heapVars, ctx, client, blame>>

\* DRM_IOCTL_GEM_CLOSE, and the close of the file.
GemClose(b) ==
    /\ b \in handle /\ handle' = handle \ {b} /\ mem' = Put(mem, b)
    /\ UNCHANGED <<exported, mapped, job, heapVars, ctx, client, thrVars, missed, blame>>
-----------------------------------------------------------------------------
(* Mappings and dma-bufs.                                                  *)

\* The first mapping of the heap gives it its address.
Mmap(b) ==
    /\ client = "open" /\ b \in handle \ mapped /\ mem.type[b] \in {"heap", "share"}
    /\ mapped' = mapped \cup {b} /\ mem' = GetPages(Get(mem, b), {b})
    /\ userptr' = (userptr \/ b = dev_heap)
    /\ UNCHANGED <<handle, exported, job, dev_heap, ctx, client, thrVars, missed, blame>>
\* userptr stays what it was.
Munmap(b) ==
    /\ b \in mapped /\ mapped' = mapped \ {b}
    /\ mem' = Put(PutPages(mem, {b}), b)
    /\ blame' = IF b = dev_heap THEN blame \cup {"munmap"} ELSE blame
    /\ UNCHANGED <<handle, exported, job, heapVars, ctx, client, thrVars, missed>>

\* A dma-buf keeps its object, also when the file is closed.
Export(b) ==
    /\ Cardinality(exported) < MaxExports
    /\ client = "open" /\ b \in handle \ exported /\ exported' = exported \cup {b}
    /\ mem' = Get(mem, b)
    /\ UNCHANGED <<handle, mapped, job, heapVars, ctx, client, thrVars, missed, blame>>
ExportRelease(b) ==
    /\ b \in exported /\ exported' = exported \ {b} /\ mem' = Put(mem, b)
    /\ UNCHANGED <<handle, mapped, job, heapVars, ctx, client, thrVars, missed, blame>>

\* amdxdna_drm_close(): the last reference to the file is gone, its handles
\* and contexts with it.
Close ==
    /\ client = "open" /\ client' = "closed" /\ \A t \in Thread : pc[t] = "idle"
    /\ handle = {} /\ mapped = {} /\ ctx.state = "none"
    /\ mem' = IF dev_heap = NoBo THEN mem ELSE Put(mem, dev_heap)
    /\ blame' = IF exported \cap HeapBufs(mem) = {} THEN blame ELSE blame \cup {"export"}
    /\ UNCHANGED <<bookVars, heapVars, ctx, thrVars, missed>>
-----------------------------------------------------------------------------
(* amdxdna_drm_sync_bo_ioctl().                                            *)

BoPages(b) == CASE mem.type[b] = "dev" -> Cardinality(mem.node[b])
                [] mem.type[b] = "heap" -> HeapPages
                [] OTHER -> SharePages

SyncLookup(t, b) ==
    /\ pc[t] = "idle" /\ b \in handle /\ mem' = Get(mem, b) /\ Goto(t, "pin", b)
    /\ UNCHANGED <<bookVars, heapVars, ctx, client, missed, blame>>
SyncPin(t) ==
    LET b == arg[t]
    IN  /\ pc[t] = "pin"
        /\ \/ /\ Pinnable(mem, b) /\ Works /\ Goto(t, "flush", b) /\ mem' = Pin(mem, b)
           \/ /\ IF Pinnable(mem, b) THEN PinTarget(mem, b) # {} /\ Fails("nomem") ELSE Works
              /\ Goto(t, "put", b) /\ UNCHANGED mem
        /\ UNCHANGED <<bookVars, heapVars, ctx, client, missed>>

InPage == 0..(PageSize - 1)
\* amdxdna_drm_clflush(): the pages whose table entries it reads, and the
\* bytes of them it flushes.
FlushEnd(start, size) == (start + size - 1) % U32
\* The last whole page is forgotten.
FlushMiddle_short(start, end) == ((end \div PageSize) - (start \div PageSize) - 2) % U32
FlushMiddle(start, end) == ((end \div PageSize) - (start \div PageSize) - 1) % U32
Flushed(start, size) ==
    LET end == FlushEnd(start, size)
        sp == start \div PageSize   ep == end \div PageSize
        off == start % PageSize
    IN  IF sp = ep THEN {sp} \X (off..(off + size - 1))
        ELSE UNION {(IF off > 0 THEN {sp} \X (off..(PageSize - 1)) ELSE {0} \X InPage),
                    (1..FlushMiddle(start, end)) \X InPage,
                    {ep} \X (0..(end % PageSize))}
PagesRead(start, size) ==
    {start \div PageSize, FlushEnd(start, size) \div PageSize}
        \cup {f[1] : f \in Flushed(start, size)}
Asked(start, size) ==
    {<<x \div PageSize, x % PageSize>> : x \in start..(start + size - 1)}

\* The range the user may ask for, of a buffer of n pages or around 2^64, is
\* checked in 64 bits ...
Ends(n) == 0..(n * PageSize) \cup {U64 - 1}
InRange(n, offset, size) == (offset + size) % U64 <= n * PageSize
\* ... and flushed in 32.
FlushResult(n, offset, size) ==
    LET start == offset % U32
        len == size % U32
        wraps == offset + size >= U64
        outside == ~(PagesRead(start, len) \subseteq 0..(n - 1))
    IN  [oops |-> outside,
         blame |-> CASE outside /\ size = 0 -> {"size0"}
                     [] outside /\ size # 0 /\ wraps -> {"wrap"}
                     [] OTHER -> {},
         missed |-> CASE outside \/ Asked(start, len) \subseteq Flushed(start, len) -> "no"
                      [] wraps -> "wrapped"
                      [] OTHER -> IF start < PageSize THEN "first" ELSE "later"]
FlushResults ==
    [n \in 1..HeapPages \cup {SharePages} |->
        UNION {{FlushResult(n, offset, size) :
                  size \in {s \in Ends(n) : InRange(n, offset, s)}} : offset \in Ends(n)}]

Flush(b, res) ==
    LET table == IF mem.type[b] = "dev" THEN mem.pages[b] ELSE "cur"
    IN  IF table # "cur" THEN mem' = Oops(mem, "bad_pages") /\ missed' = "no" /\ Works
        ELSE /\ mem' = IF res.oops THEN Oops(mem, "outside") ELSE Unpin(mem, b)
             /\ missed' = res.missed /\ blame' = blame \cup res.blame

SyncFlush(t) ==
    LET b == arg[t]
    IN  /\ pc[t] = "flush" /\ Goto(t, "put", b)
        /\ IF mem.type[b] = "import" THEN mem' = Unpin(mem, b) /\ missed' = "no" /\ Works
           ELSE \E res \in FlushResults[BoPages(b)] : Flush(b, res)
        /\ UNCHANGED <<bookVars, heapVars, ctx, client>>
-----------------------------------------------------------------------------
(* Contexts and submissions.                                               *)

\* aie2_ctx_init(): the heap, under mm_lock ...
CtxHeap(t) ==
    /\ pc[t] = "idle" /\ client = "open" /\ ctx.state = "none" /\ dev_heap # NoBo
    /\ ctx' = [state |-> "init", heap |-> dev_heap, buf |-> NoBo]
    /\ mem' = Get(mem, dev_heap) /\ Goto(t, "ctx_pin", NoBo)
    /\ UNCHANGED <<bookVars, heapVars, client, missed, blame>>
\* ... its pages ...
CtxPin(t) ==
    /\ pc[t] = "ctx_pin"
    /\ \/ /\ Works /\ mem' = Pin(mem, ctx.heap) /\ Goto(t, "ctx_buf", NoBo) /\ UNCHANGED ctx
       \/ /\ Fails("nomem") /\ mem' = Put(mem, ctx.heap) /\ ctx' = NoCtx /\ Returns(t)
    /\ UNCHANGED <<bookVars, heapVars, client, missed>>
\* ... a command buffer of one page ...
CtxUndo(m) == Put(Unpin(m, ctx.heap), ctx.heap)
CtxBuf(t, b) ==
    /\ pc[t] = "ctx_buf" /\ Fresh(b)
    /\ \/ /\ mem' = DevBo(mem, b, 1) /\ IF mem'.oops = "no" THEN Works ELSE DevFailed
          /\ Goto(t, "ctx_wq", NoBo) /\ ctx' = [ctx EXCEPT !.buf = b]
       \/ /\ HasRoom(mem, 1) /\ mem' = CtxUndo(DevFree(HeapAlloc(mem, b, 1), b))
          /\ Fails("vmap") /\ Returns(t) /\ ctx' = NoCtx
    /\ UNCHANGED <<bookVars, heapVars, client, missed>>
\* ... and the rest.  Without a work queue everything is undone, and success
\* returned for a context whose private part is freed.
\* The command buffer is left to whoever comes next.
CtxUndoBuf_keep(m) == CtxUndo(m)
CtxUndoBuf(m) == CtxUndo(Put(m, ctx.buf))
CtxRest(t) ==
    /\ pc[t] = "ctx_wq" /\ Returns(t)
    /\ \/ Works /\ ctx' = [ctx EXCEPT !.state = "ready"] /\ UNCHANGED mem
       \/ Fails("nomem") /\ ctx' = NoCtx /\ mem' = CtxUndoBuf(mem)
       \/ Fails("wq") /\ ctx' = [NoCtx EXCEPT !.state = "husk"] /\ mem' = CtxUndoBuf(mem)
    /\ UNCHANGED <<bookVars, heapVars, client, missed>>
\* aie2_ctx_fini(), when the jobs are gone.
CtxFini ==
    /\ ctx.state \in {"ready", "husk"} /\ job = NoBo
    /\ ctx' = NoCtx
    /\ mem' = IF ctx.state = "husk" THEN Oops(mem, "husk") ELSE CtxUndoBuf(mem)
    /\ UNCHANGED <<bookVars, heapVars, client, thrVars, missed, blame>>

\* amdxdna_arg_bos_lookup(): pinned at its first submission, until it is freed.
Submit(b) ==
    /\ client = "open" /\ ctx.state = "ready" /\ b \in handle /\ job = NoBo
    /\ Pinnable(mem, b) /\ job' = b
    /\ mem' = IF b \in mem.pinned THEN Get(mem, b)
              ELSE Get([Pin(mem, b) EXCEPT !.pinned = @ \cup {b}], b)
    /\ UNCHANGED <<handle, exported, mapped, heapVars, ctx, client, thrVars, missed, blame>>
\* amdxdna_arg_bos_put() at the end of a job.
JobDone(b) ==
    /\ job = b /\ job' = NoBo /\ mem' = Put(mem, b)
    /\ UNCHANGED <<handle, exported, mapped, heapVars, ctx, client, thrVars, missed, blame>>
-----------------------------------------------------------------------------
ThreadStep(t) ==
    \/ Publish(t) \/ PutObj(t) \/ SyncPin(t) \/ SyncFlush(t)
    \/ CtxHeap(t) \/ CtxPin(t) \/ CtxRest(t)
    \/ \E b \in Bo : CreateBo(t, b) \/ SyncLookup(t, b) \/ CtxBuf(t, b)
BoStep(b) == \/ GemClose(b) \/ Mmap(b) \/ Munmap(b) \/ Export(b) \/ ExportRelease(b)
             \/ Submit(b) \/ JobDone(b)
Next == Alive /\ ((\E t \in Thread : ThreadStep(t)) \/ (\E b \in Bo : BoStep(b))
                  \/ Close \/ CtxFini)
Spec == Init /\ [][Next]_vars
-----------------------------------------------------------------------------
HeldSteps == {"publish", "put", "pin", "flush"}
CtxSteps == {"ctx_pin", "ctx_buf", "ctx_wq"}
Mem == [type : [Bo -> Type \cup {"none", "freed"}], refcnt : [Bo -> Nat],
        use : [Bo -> Nat], pages : [Bo -> {"none", "cur", "stale"}],
        node : [Bo -> SUBSET (0..(HeapPages - 1))], pinned : SUBSET Bo, kva : SUBSET Bo,
        upages : Nat, attach : Nat,
        oops : {"no", "takedown", "free_node", "freed_client", "bad_pages", "outside", "husk"}]

\* Type invariant.
TypeOK ==
    /\ mem \in Mem /\ handle \subseteq Bo /\ exported \subseteq Bo /\ mapped \subseteq Bo
    /\ job \in Bo \cup {NoBo} /\ dev_heap \in Bo \cup {NoBo} /\ userptr \in BOOLEAN
    /\ ctx \in [state : {"none", "init", "ready", "husk"}, heap : Bo \cup {NoBo},
                buf : Bo \cup {NoBo}]
    /\ client \in {"open", "closed"} /\ arg \in [Thread -> Bo \cup {NoBo}]
    /\ pc \in [Thread -> {"idle"} \cup HeldSteps \cup CtxSteps]

Count(S) == Cardinality(S)
One(p) == IF p THEN 1 ELSE 0
Holders(b) == {t \in Thread : arg[t] = b}

\* Who keeps an object: a handle, a dma-buf, a mapping, a job, a thread in an
\* ioctl, the client and the context for the heap, the context for its command
\* buffer.
Owners ==
    [b \in Bo |-> One(b \in handle) + One(b \in exported) + One(b \in mapped) + One(b = job)
                  + Count(Holders(b)) + One(b = dev_heap /\ client = "open")
                  + One(b = ctx.heap) + One(b = ctx.buf)]

\* Every reference to an object has an owner and every owner one reference,
\* and the heap has one for each buffer allocated from it.  So an object is
\* freed when, and only when, the last of them is gone, whatever ladder a
\* failed call took.
RefsCounted(m, own) ==
    \A b \in Bo :
        /\ m.refcnt[b] = IF ~Live(m, b) THEN 0
                         ELSE own[b] + (IF b = dev_heap THEN Count(HeapBufs(m)) ELSE 0)
        /\ IF Live(m, b) THEN m.refcnt[b] > 0 ELSE own[b] = 0
RefsExact == Alive => RefsCounted(mem, Owners)

\* The pages of an object are in use as often as it is mapped, pinned by a
\* context and by a sync ...
Users ==
    [b \in Bo |-> One(b \in mapped) + One(b = ctx.heap /\ \A t \in Thread : pc[t] # "ctx_pin")
                  + Count({t \in Thread : pc[t] = "flush" /\ b \in PinTarget(mem, arg[t])})]

\* ... mapped in the kernel, and once for it and for each buffer of the heap
\* that was ever submitted: amdxdna_gem_unpin() undoes what amdxdna_gem_pin()
\* did, for the same object.
PinsCounted(m, users) ==
    \A b \in Bo :
        /\ m.type[b] \in Shmem =>
             m.use[b] = users[b] + One(b \in m.kva)
                        + Count({x \in m.pinned : b \in PinTarget(m, x)})
        /\ m.type[b] \notin Shmem => users[b] = 0
PinsExact == Alive => PinsCounted(mem, Users)

\* The buffers whose page table must be the heap's: a context's command
\* buffer, although the user may unmap the heap at any time, and all of them
\* as long as he has not.
Current == {b \in Bo : b = ctx.buf \/ "munmap" \notin blame}
TablesCurrent(m, C) == \A b \in C : m.type[b] = "dev" => m.pages[b] = "cur"
CmdBufPagesCurrent == Alive => TablesCurrent(mem, Current)

\* Pinned user pages and foreign attachments belong to live objects.
ForeignCounted(m) == /\ m.upages = GuestPages * Count({b \in Bo : m.type[b] = "guest"})
                     /\ m.attach = Count({b \in Bo : m.type[b] = "import"})
ForeignRefsExact == Alive => ForeignCounted(mem)

\* A client has one heap, which its device buffers lie in; only what can be
\* pinned is, and only command and device buffers are mapped in the kernel; a
\* number not given out yet has nothing.
ObjectsFormed(m) ==
    \A b \in Bo :
        /\ m.type[b] = "heap" => b = dev_heap
        /\ b = dev_heap => m.type[b] \in {"heap", "freed"}
        /\ m.type[b] = "dev" => /\ dev_heap \in Bo /\ m.type[dev_heap] = "heap"
                                /\ m.node[b] # {}
        /\ b \in m.pinned => Pinnable(m, b)
        /\ b \in m.kva => m.type[b] \in {"cmd", "dev"}
        /\ m.type[b] = "none" => m.use[b] = 0 /\ m.node[b] = {}
ObjectsSound ==
    Alive => /\ ObjectsFormed(mem)
             /\ \A b \in mapped : mem.type[b] \in {"share", "heap"}
             /\ HeapBufs(mem) # {} => userptr
             /\ userptr /\ "munmap" \notin blame => dev_heap \in mapped

\* A thread in an ioctl has an object, which nobody knows before it has a
\* handle, or is the one that makes the context.
ThreadsSound ==
    Alive =>
        /\ \A t \in Thread :
             /\ arg[t] # NoBo <=> pc[t] \in HeldSteps
             /\ pc[t] = "flush" => Pinnable(mem, arg[t])
             /\ pc[t] = "publish" => /\ arg[t] \notin handle
                                     /\ \A u \in Thread : arg[u] = arg[t] => u = t
             /\ pc[t] \in CtxSteps => /\ ctx.state = "init"
                                      /\ \A u \in Thread : pc[u] \in CtxSteps => u = t
                                      /\ pc[t] = "ctx_wq" <=> ctx.buf # NoBo
        /\ ctx.state = "init" => \E t \in Thread : pc[t] \in CtxSteps

\* A context has the heap and, when it is ready, a command buffer in it; jobs
\* run in a context that is ready.  A closed file has no handle, mapping,
\* thread or context, and leaves device buffers only to a dma-buf.
ClientSound ==
    Alive =>
        /\ IF ctx.state \in {"none", "husk"} THEN ctx.heap = NoBo /\ ctx.buf = NoBo
           ELSE ctx.heap = dev_heap /\ dev_heap # NoBo
        /\ ctx.state = "ready" => ctx.buf # NoBo
        /\ ctx.state = "husk" => "wq" \in Faults
        /\ ctx.buf # NoBo => mem.type[ctx.buf] = "dev"
        /\ job # NoBo => ctx.state = "ready"
        /\ client = "closed" => /\ handle = {} /\ mapped = {} /\ ctx.state = "none"
                                /\ \A t \in Thread : pc[t] = "idle"
                                /\ "export" \in blame \/ HeapBufs(mem) = {}

\* What brings the kernel down is known: a buffer the heap has no room for; a
\* buffer of the heap that its dma-buf keeps after the file is closed; a heap
\* that was unmapped, synced through the table of before; a sync of no bytes or
\* one that wraps; a context without a work queue.
OopsNeedsCause ==
    /\ mem.oops = "free_node" => "dev_fail" \in blame
    /\ mem.oops = "freed_client" => "export" \in blame
    /\ mem.oops = "bad_pages" => "munmap" \in blame
    /\ mem.oops = "outside" => {"size0", "wrap"} \cap blame # {}
    /\ mem.oops = "husk" => "wq" \in Faults
    /\ mem.oops # "takedown"

\* A sync that begins in the first page, and whose range does not wrap, flushes
\* every byte asked for.
FirstPageFlushed == missed # "first"

\* A sync flushes every byte asked for: "The sync bo ioctl is to make sure the
\* CPU cache is in sync with memory".
FlushCovers == missed = "no"

\* References, to objects, user pages and foreign buffers, are all accounted
\* for.
RefsInv == /\ TypeOK /\ RefsExact /\ ForeignRefsExact
           /\ ObjectsSound /\ ThreadsSound /\ ClientSound

\* Pages stay where they are as long as somebody needs them, and no longer.
PinsInv == PinsExact /\ CmdBufPagesCurrent
=============================================================================
