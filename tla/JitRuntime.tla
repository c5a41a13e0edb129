------------------------------ MODULE JitRuntime ------------------------------
(***************************************************************************)
(* The tiered-execution runtime of crates/aero-cpu-core/src/jit: the code  *)
(* cache (cache.rs), the hotness profile (profile.rs), the page-version    *)
(* tracker and JitRuntime itself (runtime.rs), with the compile queue of   *)
(* crates/aero-jit-x86 and the background compilations that race the       *)
(* guest's own stores.                                                     *)
(*                                                                         *)
(* The runtime runs on the CPU thread, so each of its methods is one       *)
(* action.  A compilation takes its version snapshot on that thread, then  *)
(* a JIT worker reads the guest's bytes page by page, and its result comes *)
(* back later; device DMA stores to guest RAM and tells the runtime later. *)
(*                                                                         *)
(* Guest bytes are abstracted to one number per page, `mem`, raised by     *)
(* every store.  The cache's index-linked list is the sequence it links,   *)
(* most recently used first; the profile's clock is the order `recency` it *)
(* puts the counters in, least recently hit first.                         *)
(***************************************************************************)
EXTENDS Integers, Sequences, FiniteSets, SequencesExt, FiniteSetsExt

CONSTANTS
  Rips,             \* entry RIPs the guest executes; code_paddr = rip
  Compilable(_, _), \* whether Tier-1 can compile a RIP from the code bytes read
  Lens,             \* byte lengths the block discovery may find
  PageSize,         \* 4096
  VersionsLen,      \* pages in the version table: all of guest RAM
  VersionMod,       \* values of a page version (2^32)
  SnapshotLen,      \* bytes snapshotted before a compilation: max_bytes + 15
  MaxSnapshotPages, \* MAX_SNAPSHOT_PAGES
  MaxBlocks,        \* cache_max_blocks
  MaxBytes,         \* cache_max_bytes; 0 is no limit
  Threshold,        \* hot_threshold
  Capacity,         \* of the hotness profile
  CountMax,         \* where a hit counter saturates (2^32 - 1)
  Jobs,             \* compilations that may be in flight at once
  MaxStores,        \* bound: stores to guest RAM
  MaxResets         \* bound: resets of the runtime

ASSUME JitAssumption ==
  /\ Rips \subseteq Nat
  /\ Lens \subseteq Nat \ {0}
  /\ PageSize \in Nat \ {0} /\ VersionsLen \in Nat \ {0}
  /\ VersionMod \in Nat \ {0} /\ SnapshotLen \in Nat \ {0}
  /\ MaxSnapshotPages \in Nat \ {0}
  /\ MaxBlocks \in Nat /\ MaxBytes \in Nat
  /\ Threshold \in Nat /\ Capacity \in Nat \ {0} /\ CountMax \in Nat \ {0}
  /\ MaxStores \in Nat /\ MaxResets \in Nat

VARIABLES
  mem,           \* guest RAM: the contents of each page
  unnotified,    \* pages a device stored to before telling the runtime
  page_versions, generation,
  writes,        \* history: bumps of each page since the table was zeroed
  cache,         \* the compiled blocks, most recently used first
  current_bytes,
  profile,       \* counters, their recency, and the requested RIPs
  queue,         \* Tier1CompileQueue
  jobs,          \* the compilations in flight
  failed,        \* history: RIPs whose compilation failed, and none was begun since
  prepared,      \* the block the last prepare_block handed to execution
  resets         \* history: number of resets

guestVars == <<mem, unnotified>>
trackerVars == <<page_versions, generation, writes, resets>>
cacheVars == <<cache, current_bytes>>
vars == <<mem, unnotified, page_versions, generation, writes, cache,
          current_bytes, profile, queue, jobs, failed, prepared, resets>>

None == [rip |-> -1]     \* Option::None, and an unused job
Pages == 0 .. VersionsLen - 1

-----------------------------------------------------------------------------
(* PageVersionTracker.                                                     *)

PageOf(paddr) == paddr \div PageSize

\* The pages of the span [paddr, paddr + len).
SpannedPages(paddr, len) ==
  IF len = 0 THEN {} ELSE PageOf(paddr) .. PageOf(paddr + len - 1)

Version(page) == IF page < VersionsLen THEN page_versions[page] ELSE 0

\* Slip: the version is not wrapped.
BumpWriteUnwrapped(paddr, len) ==
  LET bumped == SpannedPages(paddr, len) \cap Pages
  IN  /\ page_versions' = [p \in Pages |-> page_versions[p] + IF p \in bumped THEN 1 ELSE 0]
      /\ writes' = [p \in Pages |-> writes[p] + IF p \in bumped THEN 1 ELSE 0]

\* Every page of the span that the table tracks.
BumpWrite(paddr, len) ==
  LET bumped == SpannedPages(paddr, len) \cap Pages
  IN  /\ page_versions' = [p \in Pages |-> IF p \in bumped
                            THEN (page_versions[p] + 1) % VersionMod
                            ELSE page_versions[p]]
      /\ writes' = [p \in Pages |-> IF p \in bumped THEN writes[p] + 1 ELSE writes[p]]

\* The versions of the span's first MaxSnapshotPages pages.
Snapshot(paddr, len) ==
  [p \in {q \in SpannedPages(paddr, len) : q < PageOf(paddr) + MaxSnapshotPages}
     |-> Version(p)]

SnapshotMeta(paddr, len) ==
  [gen |-> generation, page_versions |-> Snapshot(paddr, len), byte_len |-> len,
   at |-> [p \in SpannedPages(paddr, len) \cap Pages |-> writes[p]]]

\* shrink_meta: keep the part of a snapshot that the compiled bytes cover.
ShrinkMeta(meta, paddr, len) ==
  [meta EXCEPT !.byte_len = len,
               !.page_versions = [p \in DOMAIN @ \cap SpannedPages(paddr, len) |-> @[p]]]

-----------------------------------------------------------------------------
(* CodeCache, as operators on the sequence of its blocks.                  *)

HasRip(c, rip) == \E i \in DOMAIN c : c[i].rip = rip
CacheIndex(c, rip) == CHOOSE i \in DOMAIN c : c[i].rip = rip
IsCompiled(rip) == HasRip(cache, rip)

Touch(c, i) == <<c[i]>> \o RemoveAt(c, i)

\* get_cloned: the block, made the most recently used one.
TouchRip(c, rip) == IF HasRip(c, rip) THEN Touch(c, CacheIndex(c, rip)) ELSE c

RemoveRip(c, rip) == IF HasRip(c, rip) THEN RemoveAt(c, CacheIndex(c, rip)) ELSE c

ByteLenOf(c, rip) == IF HasRip(c, rip) THEN c[CacheIndex(c, rip)].meta.byte_len ELSE 0

\* The sum of a sequence of numbers.
Total(w) ==
  LET sum[k \in 0 .. Len(w)] == IF k = 0 THEN 0 ELSE sum[k - 1] + w[k]
  IN  sum[Len(w)]

Bytes(c) == Total([i \in DOMAIN c |-> c[i].meta.byte_len])

OverLimit(len, bytes) == len > MaxBlocks \/ (MaxBytes # 0 /\ bytes > MaxBytes)

\* evict_if_needed drops blocks from the least recently used end until the
\* rest is within both limits: how many blocks it keeps.
Kept(c, bytes) ==
  Max({0} \cup {k \in 1 .. Len(c) :
                  ~OverLimit(k, bytes - Bytes(SubSeq(c, k + 1, Len(c))))})

\* Slip: the bytes of a replaced block stay counted.
InsertForgetsReplaced(handle) ==
  LET c     == <<handle>> \o RemoveRip(cache, handle.rip)
      bytes == current_bytes + handle.meta.byte_len
      k     == Kept(c, bytes)
      gone  == SubSeq(c, k + 1, Len(c))
  IN  [cache |-> SubSeq(c, 1, k), bytes |-> bytes - Bytes(gone),
       evicted |-> {gone[i].rip : i \in DOMAIN gone}]

\* insert: a new block goes to the front; one that replaces another takes
\* over its place in the map and is touched.
Insert(handle) ==
  LET c     == <<handle>> \o RemoveRip(cache, handle.rip)
      bytes == current_bytes - ByteLenOf(cache, handle.rip) + handle.meta.byte_len
      k     == Kept(c, bytes)
      gone  == SubSeq(c, k + 1, Len(c))
  IN  [cache |-> SubSeq(c, 1, k), bytes |-> bytes - Bytes(gone),
       evicted |-> {gone[i].rip : i \in DOMAIN gone}]

-----------------------------------------------------------------------------
(* HotnessProfile, as operators on a profile value.                        *)

EmptyProfile == [counters |-> << >>, recency |-> << >>, requested |-> {}]

Tracked(pf) == DOMAIN pf.counters

ClearRequested(pf, rips) == [pf EXCEPT !.requested = @ \ rips]

Position(order, rip) == CHOOSE i \in DOMAIN order : order[i] = rip
Without(order, rip) ==
  IF rip \in Range(order) THEN RemoveAt(order, Position(order, rip)) ELSE order

\* The counter of rip becomes the most recently hit one.
Refresh(pf, rip) == [pf EXCEPT !.recency = Append(Without(@, rip), rip)]

Count(pf, rip, n) ==
  [pf EXCEPT !.counters = [r \in DOMAIN @ \cup {rip} |-> IF r = rip THEN n ELSE @[r]]]

\* pick_victim: the least (count, last_hit) among the candidates.
PickVictim(pf, candidates) ==
  CHOOSE r \in candidates : \A s \in candidates :
    \/ pf.counters[r] < pf.counters[s]
    \/ pf.counters[r] = pf.counters[s] /\ Position(pf.recency, r) <= Position(pf.recency, s)

EvictCounter(pf, rip) ==
  [counters  |-> [r \in Tracked(pf) \ {rip} |-> pf.counters[r]],
   recency   |-> Without(pf.recency, rip),
   requested |-> pf.requested \ {rip}]

Full(pf) == Cardinality(Tracked(pf)) >= Capacity
Unrequested(pf) == Tracked(pf) \ pf.requested

\* ensure_space_for_new_requested_entry: an unrequested victim if there is one.
SpaceForRequested(pf) ==
  IF ~Full(pf) THEN pf
  ELSE EvictCounter(pf, PickVictim(pf, IF Unrequested(pf) # {} THEN Unrequested(pf)
                                       ELSE Tracked(pf)))

\* Slip: a requested RIP is tracked without making space for it.
MarkRequestedUnbounded(pf, rip) ==
  LET q == IF rip \in Tracked(pf) THEN pf ELSE Count(pf, rip, Max({Threshold, 1}))
  IN  [Refresh(q, rip) EXCEPT !.requested = @ \cup {rip}]

MarkRequested(pf, rip) ==
  LET q == IF rip \in Tracked(pf) THEN pf
           ELSE Count(SpaceForRequested(pf), rip, Max({Threshold, 1}))
  IN  [Refresh(q, rip) EXCEPT !.requested = @ \cup {rip}]

\* record_hit drops a hit of a new RIP when only requested ones are tracked.
Saturated(pf, rip) == rip \notin Tracked(pf) /\ Full(pf) /\ Unrequested(pf) = {}

\* record_hit's update of the counters, once the profile is not saturated.
CountHit(pf, rip) ==
  LET n == IF rip \in Tracked(pf) THEN Min({pf.counters[rip] + 1, CountMax}) ELSE 1
      q == IF rip \in Tracked(pf) \/ ~Full(pf) THEN pf
           ELSE EvictCounter(pf, PickVictim(pf, Unrequested(pf)))
  IN  Refresh(Count(q, rip, n), rip)

\* record_hit: the profile after it, and whether a compilation is now due.
RecordHit(pf, rip, compiled) ==
  LET q   == CountHit(pf, rip)
      due == ~compiled /\ q.counters[rip] >= Threshold /\ rip \notin q.requested
  IN  IF Saturated(pf, rip) THEN [profile |-> pf, due |-> FALSE]
      ELSE [profile |-> IF due THEN [q EXCEPT !.requested = @ \cup {rip}] ELSE q,
            due |-> due]

-----------------------------------------------------------------------------
(* JitRuntime.                                                             *)

\* Tier1CompileQueue::request_compile: `pending` is the set of queued RIPs.
Requested(q, rip) == IF rip \in Range(q) THEN q ELSE Append(q, rip)

\* Slip: the generation is not compared.
IsBlockValidAcrossResets(h) ==
  \/ DOMAIN h.meta.page_versions = {}
  \/ /\ Cardinality(SpannedPages(h.rip, h.meta.byte_len))
          <= Cardinality(DOMAIN h.meta.page_versions)
     /\ \A p \in DOMAIN h.meta.page_versions : Version(p) = h.meta.page_versions[p]

\* An empty snapshot means no validation; a truncated one is stale.
IsBlockValid(h) ==
  \/ DOMAIN h.meta.page_versions = {}
  \/ /\ h.meta.gen = generation
     /\ Cardinality(SpannedPages(h.rip, h.meta.byte_len))
          <= Cardinality(DOMAIN h.meta.page_versions)
     /\ \A p \in DOMAIN h.meta.page_versions : Version(p) = h.meta.page_versions[p]

Init ==
  /\ mem = [p \in Pages |-> 0] /\ unnotified = {}
  /\ page_versions = [p \in Pages |-> 0] /\ generation = 0
  /\ writes = [p \in Pages |-> 0] /\ resets = 0
  /\ cache = << >> /\ current_bytes = 0
  /\ profile = EmptyProfile
  /\ queue = << >>
  /\ jobs = [j \in Jobs |-> None] /\ failed = {}
  /\ prepared = None

\* prepare_block finds a valid block: it is touched, counted and handed out.
PrepareHit(rip) ==
  /\ IsCompiled(rip)
  /\ LET h == cache[CacheIndex(cache, rip)]
     IN  IsBlockValid(h) /\ prepared' = h
  /\ cache' = TouchRip(cache, rip)
  /\ profile' = RecordHit(profile, rip, TRUE).profile
  /\ UNCHANGED <<guestVars, trackerVars, current_bytes, queue, jobs, failed>>

\* prepare_block finds a stale block: it is dropped and requested again.
PrepareStale(rip) ==
  /\ IsCompiled(rip)
  /\ ~IsBlockValid(cache[CacheIndex(cache, rip)])
  /\ cache' = RemoveRip(cache, rip)
  /\ current_bytes' = current_bytes - ByteLenOf(cache, rip)
  /\ profile' = RecordHit(MarkRequested(ClearRequested(profile, {rip}), rip),
                          rip, FALSE).profile
  /\ queue' = Requested(queue, rip)
  /\ prepared' = None
  /\ UNCHANGED <<guestVars, trackerVars, jobs, failed>>

\* prepare_block finds nothing: the hit may make the RIP hot.
PrepareMiss(rip) ==
  /\ ~IsCompiled(rip)
  /\ LET hit == RecordHit(profile, rip, FALSE)
     IN  /\ profile' = hit.profile
         /\ queue' = IF hit.due THEN Requested(queue, rip) ELSE queue
  /\ prepared' = None
  /\ UNCHANGED <<guestVars, trackerVars, cacheVars, jobs, failed>>

PrepareBlock(rip) == PrepareHit(rip) \/ PrepareStale(rip) \/ PrepareMiss(rip)

\* Slip: evicted blocks stay marked as requested.
InstallValidKeepsRequested(h) ==
  /\ IsBlockValid(h)
  /\ LET ins == Insert(h) IN cache' = ins.cache /\ current_bytes' = ins.bytes
  /\ UNCHANGED <<profile, queue>>

\* install_handle of a valid block.
InstallValid(h) ==
  /\ IsBlockValid(h)
  /\ LET ins == Insert(h)
     IN  /\ cache' = ins.cache /\ current_bytes' = ins.bytes
         /\ profile' = ClearRequested(profile, ins.evicted)
  /\ queue' = queue

\* install_handle of a stale block over a valid one, which stays.
InstallIgnored(h) ==
  /\ ~IsBlockValid(h)
  /\ IsCompiled(h.rip) /\ IsBlockValid(cache[CacheIndex(cache, h.rip)])
  /\ cache' = TouchRip(cache, h.rip)
  /\ UNCHANGED <<current_bytes, profile, queue>>

\* Slip: a rejected block is marked but not requested again.
InstallRejectedSilently(h) ==
  /\ ~IsBlockValid(h)
  /\ IsCompiled(h.rip) => ~IsBlockValid(cache[CacheIndex(cache, h.rip)])
  /\ cache' = RemoveRip(cache, h.rip)
  /\ current_bytes' = current_bytes - ByteLenOf(cache, h.rip)
  /\ profile' = MarkRequested(profile, h.rip)
  /\ queue' = queue

\* install_handle of a stale block: rejected with any stale block it would
\* have replaced, and requested again.
InstallRejected(h) ==
  /\ ~IsBlockValid(h)
  /\ IsCompiled(h.rip) => ~IsBlockValid(cache[CacheIndex(cache, h.rip)])
  /\ cache' = RemoveRip(cache, h.rip)
  /\ current_bytes' = current_bytes - ByteLenOf(cache, h.rip)
  /\ profile' = MarkRequested(IF IsCompiled(h.rip) THEN ClearRequested(profile, {h.rip})
                              ELSE profile, h.rip)
  /\ queue' = Requested(queue, h.rip)

InstallHandle(h) == InstallValid(h) \/ InstallIgnored(h) \/ InstallRejected(h)

\* install_block: the caller compiled the bytes that are in RAM now.
InstallBlock(rip, len) ==
  /\ InstallHandle([rip |-> rip, meta |-> SnapshotMeta(rip, len),
                    code |-> [p \in SpannedPages(rip, len) \cap Pages |-> mem[p]]])
  /\ prepared' = None
  /\ UNCHANGED <<guestVars, trackerVars, jobs, failed>>

InvalidateBlock(rip) ==
  /\ IsCompiled(rip)
  /\ cache' = RemoveRip(cache, rip)
  /\ current_bytes' = current_bytes - ByteLenOf(cache, rip)
  /\ profile' = ClearRequested(profile, {rip})
  /\ prepared' = None
  /\ UNCHANGED <<guestVars, trackerVars, queue, jobs, failed>>

\* JitRuntime::reset, when the embedder has restored guest RAM.
Reset ==
  /\ resets < MaxResets /\ resets' = resets + 1
  /\ mem' = [p \in Pages |-> mem[p] + 1]
  /\ cache' = << >> /\ current_bytes' = 0
  /\ profile' = EmptyProfile
  /\ generation' = generation + 1
  /\ page_versions' = [p \in Pages |-> 0] /\ writes' = [p \in Pages |-> 0]
  /\ prepared' = None
  /\ failed' = {}
  /\ UNCHANGED <<unnotified, queue, jobs>>

\* WasmTieredVm::reset_real_mode: a new runtime and an empty compile queue.
ResetRealMode ==
  /\ resets < MaxResets /\ resets' = resets + 1
  /\ mem' = [p \in Pages |-> mem[p] + 1]
  /\ cache' = << >> /\ current_bytes' = 0
  /\ profile' = EmptyProfile
  /\ queue' = << >>
  /\ generation' = 0
  /\ page_versions' = [p \in Pages |-> 0] /\ writes' = [p \in Pages |-> 0]
  /\ prepared' = None
  /\ failed' = {}
  /\ UNCHANGED <<unnotified, jobs>>

-----------------------------------------------------------------------------
(* Guest RAM changes.                                                      *)

\* A reset changes every page, a store the pages it covers.
Stores == Total([i \in 1 .. VersionsLen |-> mem[i - 1] - resets])

Stored(pages) ==
  /\ Stores < MaxStores
  /\ mem' = [p \in Pages |-> IF p \in pages THEN mem[p] + 1 ELSE mem[p]]

\* A store of the CPU, which reports it on the same thread: on_guest_write.
GuestWrite(paddr, len) ==
  /\ Stored(SpannedPages(paddr, len) \cap Pages)
  /\ BumpWrite(paddr, len)
  /\ prepared' = None
  /\ UNCHANGED <<unnotified, generation, resets, cacheVars, profile, queue, jobs, failed>>

\* A store of a device or another worker, which reports it afterwards ...
DmaStore(page) ==
  /\ page \notin unnotified
  /\ Stored({page})
  /\ unnotified' = unnotified \cup {page}
  /\ prepared' = None
  /\ UNCHANGED <<trackerVars, cacheVars, profile, queue, jobs, failed>>

\* ... with jit_on_guest_write.
DmaNotify(page) ==
  /\ page \in unnotified
  /\ unnotified' = unnotified \ {page}
  /\ BumpWrite(page * PageSize, 1)
  /\ prepared' = None
  /\ UNCHANGED <<mem, generation, resets, cacheVars, profile, queue, jobs, failed>>

-----------------------------------------------------------------------------
(* Background compilation.                                                 *)

\* The driver takes a request and snapshots the versions of every page the
\* block discovery may read, before it reads one.
StartCompile(j) ==
  /\ jobs[j] = None /\ queue # << >>
  /\ jobs' = [jobs EXCEPT ![j] =
                [rip |-> Head(queue), meta |-> SnapshotMeta(Head(queue), SnapshotLen),
                 code |-> << >>]]
  /\ queue' = Tail(queue) /\ failed' = failed \ {Head(queue)}
  /\ prepared' = None
  /\ UNCHANGED <<guestVars, trackerVars, cacheVars, profile>>

Unread(j) ==
  (SpannedPages(jobs[j].rip, SnapshotLen) \cap Pages) \ DOMAIN jobs[j].code

\* The JIT worker decodes on into the next page and reads its code bytes.
ReadCode(j) ==
  /\ jobs[j] # None
  /\ Unread(j) # {}
  /\ LET p == Min(Unread(j))
     IN  jobs' = [jobs EXCEPT ![j].code =
                    [q \in DOMAIN @ \cup {p} |-> IF q = p THEN mem[p] ELSE @[q]]]
  /\ prepared' = None
  /\ UNCHANGED <<guestVars, trackerVars, cacheVars, profile, queue, failed>>

\* The block a compilation has produced when its discovery found len bytes.
Compiled(j, len) ==
  [rip |-> jobs[j].rip, meta |-> ShrinkMeta(jobs[j].meta, jobs[j].rip, len),
   code |-> [p \in SpannedPages(jobs[j].rip, len) \cap Pages |-> jobs[j].code[p]]]

\* The result arrives and is installed.
FinishCompile(j, len) ==
  /\ jobs[j] # None
  /\ SpannedPages(jobs[j].rip, len) \cap Pages \subseteq DOMAIN jobs[j].code
  /\ Compilable(jobs[j].rip, jobs[j].code)
  /\ InstallHandle(Compiled(j, len))
  /\ jobs' = [jobs EXCEPT ![j] = None]
  /\ prepared' = None
  /\ UNCHANGED <<guestVars, trackerVars, failed>>

\* Tier1CompileError: Tier-1 cannot compile the bytes it has read.  Nothing is
\* installed and the request stays marked, also when the bytes change later.
FailCompile(j) ==
  /\ jobs[j] # None
  /\ PageOf(jobs[j].rip) \in DOMAIN jobs[j].code
  /\ ~Compilable(jobs[j].rip, jobs[j].code)
  /\ jobs' = [jobs EXCEPT ![j] = None] /\ failed' = failed \cup {jobs[j].rip}
  /\ prepared' = None
  /\ UNCHANGED <<guestVars, trackerVars, cacheVars, profile, queue>>

-----------------------------------------------------------------------------
CompileStep(j) ==
  \/ StartCompile(j)
  \/ ReadCode(j)
  \/ \E len \in Lens : FinishCompile(j, len)
  \/ FailCompile(j)

\* What the guest, its devices and the compiler do to the runtime.
RunStep ==
  \/ \E rip \in Rips : PrepareBlock(rip)
  \/ \E p \in Pages, len \in Lens : GuestWrite((p + 1) * PageSize - 1, len)
  \/ \E p \in Pages : DmaStore(p) \/ DmaNotify(p)
  \/ \E j \in Jobs : CompileStep(j)

Next ==
  \/ RunStep
  \/ \E rip \in Rips, len \in Lens : InstallBlock(rip, len)
  \/ \E rip \in Rips : InvalidateBlock(rip)
  \/ Reset

Spec == Init /\ [][Next]_vars

\* The tiered VM of the browser build resets by building a new runtime.
TieredVmSpec == Init /\ [][RunStep \/ ResetRealMode]_vars

\* The guest keeps executing its RIPs and the compiler keeps compiling; its
\* stores are finitely many by their bound.
RunFairness ==
  /\ \A rip \in Rips : WF_vars(PrepareBlock(rip))
  /\ \A j \in Jobs : WF_vars(CompileStep(j))
FairSpec == Init /\ [][RunStep \/ Reset]_vars /\ RunFairness

-----------------------------------------------------------------------------
(* Properties.                                                             *)

Handle(h) ==
  /\ h.rip \in Rips
  /\ h.meta.gen \in 0 .. MaxResets /\ h.meta.byte_len \in Lens
  /\ \A p \in DOMAIN h.meta.page_versions : h.meta.page_versions[p] \in 0 .. VersionMod - 1

\* Types, for every structure of the runtime.
TypeOK ==
  /\ mem \in [Pages -> 0 .. MaxStores + MaxResets + 1] /\ unnotified \subseteq Pages
  /\ page_versions \in [Pages -> 0 .. VersionMod - 1]
  /\ generation \in 0 .. MaxResets /\ resets \in 0 .. MaxResets
  /\ writes \in [Pages -> Nat]
  /\ \A i \in DOMAIN cache : Handle(cache[i])
  /\ current_bytes \in Nat
  /\ Tracked(profile) \subseteq Rips
  /\ \A r \in Tracked(profile) : profile.counters[r] \in 1 .. Max({CountMax, Threshold})
  /\ Range(profile.recency) = Tracked(profile) /\ profile.requested \subseteq Rips
  /\ Range(queue) \subseteq Rips
  /\ \A j \in Jobs : jobs[j] = None \/ jobs[j].rip \in Rips
  /\ failed \subseteq Rips
  /\ prepared = None \/ Handle(prepared)

\* A block is fresh when the bytes it was compiled from are the bytes now in
\* RAM, on every page that no device has an unreported store to and that was
\* not written a whole cycle of its version counter since the snapshot.
Fresh(h) ==
  \A p \in DOMAIN h.code :
    \/ h.code[p] = mem[p]
    \/ p \in unnotified
    \/ writes[p] - h.meta.at[p] >= VersionMod

\* prepare_block never hands out a block compiled from other bytes than the
\* guest's code has now, whatever stores, resets and compilations raced.
PreparedIsFresh == prepared # None => Fresh(prepared)

\* insert, remove and eviction keep the byte count equal to the blocks that
\* are cached, one per RIP, and within both limits.
CacheWithinLimits ==
  /\ \A i, k \in DOMAIN cache : cache[i].rip = cache[k].rip => i = k
  /\ current_bytes = Bytes(cache)
  /\ ~OverLimit(Len(cache), current_bytes)

\* The profile never outgrows its capacity, and so neither does the set of
\* requested RIPs, although stale blocks are marked when it is full.
ProfileWithinCapacity ==
  /\ Cardinality(Tracked(profile)) <= Capacity
  /\ profile.requested \subseteq Tracked(profile)

InFlight(rip) == rip \in Range(queue) \/ \E j \in Jobs : jobs[j].rip = rip

\* A requested RIP is not forgotten: it has its block, its request or its
\* compilation is under way, or the last compilation begun for it failed on
\* the bytes it read.  Otherwise record_hit would never ask for it again.
RequestedIsBacked ==
  \A rip \in profile.requested : IsCompiled(rip) \/ InFlight(rip) \/ rip \in failed

CompilableNow(rip) ==
  Compilable(rip, [p \in SpannedPages(rip, SnapshotLen) \cap Pages |-> mem[p]])

\* What record_hit says of the requested RIPs it does not evict, each an
\* "in-flight compilation or already compiled" block, with the exception that
\* Tier-1 asks for: non-compilable code may stay marked.
RequestedIsCompiling ==
  \A rip \in profile.requested : IsCompiled(rip) \/ InFlight(rip) \/ ~CompilableNow(rip)

\* A RIP the guest keeps executing is compiled again and again, through stale
\* results, evictions and resets, unless Tier-1 has failed on its bytes.
HotBlocksGetCompiled == \A rip \in Rips : []<>(IsCompiled(rip) \/ rip \in failed)
=============================================================================
