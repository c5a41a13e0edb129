# A TLA+ model of Aero's shared-memory, storage, device and JIT core

Aero (`src/`) is a PC emulator that runs in a browser: a Rust virtual machine
compiled to WebAssembly, spread over web workers that share memory. This
directory holds TLA+ modules for the parts of it in which several threads, a
device and its driver, or a thread and an asynchronous compiler act on the same
state, or in which a crash or a failing access leaves state behind; the TLC
configurations that check them on small instances; and TLAPS proofs.

All statements below are about the code as it is in the repository.
Paths are relative to `src/`.

## 1. The system

| Part | State | Operations | Talks to |
|---|---|---|---|
| **IPC ring** `crates/aero-ipc/src/ring.rs`, `layout.rs` | `head`, `tail_reserve`, `tail_commit` (u32 byte counters), a byte buffer | `try_push`, `push_spinning`, `try_pop`, `try_pop_capped` | every pair of workers: commands, events, network frames, HID reports |
| **IPC blocking layer** `crates/aero-ipc/src/wasm.rs`, `apps/web/src/ipc/ring_buffer.ts` | the same control words, the wait lists of `Atomics` | `push_blocking`, `pop_blocking`, `wait_for_data`, `pushBlocking` with a timeout | the same |
| **Scanout / cursor descriptors** `crates/aero-shared/src/scanout_state.rs`, `cursor_state.rs` | a generation word with a busy bit, 7 or 11 payload words | `try_publish`, `publish`, `try_snapshot`, `snapshot` | device worker (writer), VGA/BIOS path (writer), presenter (reader) |
| **Shared framebuffer** `crates/aero-shared/src/shared_framebuffer.rs` | two slots, active index, sequence, dirty words | publish a frame, read the active slot | CPU worker, presenter |
| **JIT runtime** `crates/aero-cpu-core/src/jit` | code cache with an LRU list and two limits, hotness profile, page versions, generation | `prepare_block`, `install_handle`, `install_block`, `invalidate_block`, `on_guest_write`, `snapshot_meta`, `reset` | the CPU's dispatch loop, the compile queue, devices that write guest RAM |
| **Tier-1 pipeline** `crates/aero-jit-x86/src/tier1_pipeline.rs`, `crates/aero-wasm/src/tiered_vm.rs` | the queue of requested RIPs; compilations in flight | `request_compile`, `compile_and_install`, drain, `reset_real_mode` | JIT runtime, JIT worker |
| **CPU, MMU** `crates/aero-cpu-core`, `crates/aero-mmu` | architectural state, TLB | step, translate, `INVLPG` | everything |
| **Interrupts, timers, SMP** `crates/aero-interrupts`, `aero-timers`, `aero-smp` | IRR/ISR, pin levels, countdowns | raise, acknowledge, EOI, SIPI | CPU, devices |
| **AeroGPU** `crates/aero-devices-gpu`, `crates/aero-aerogpu` | command ring, fence page, pending completions | doorbell, execute, complete fence, reset | guest driver, GPU worker |
| **Virtio transport and virtio-input** `crates/aero-virtio`, `crates/aero-wasm/src/virtio_input_bridge.rs` | queue progress, ISR and INTx, queued events, cached chains | notify, poll, pop chain, fill, add used, signal, reset, snapshot and restore | the driver, over guest memory and registers |
| **Windows virtio-input driver** `drivers/windows7/virtio-input`, `drivers/windows/virtio`, `drivers/win7/virtio` | its end of the virtqueue, interrupt latch, power state | ISR, DPC, drain, repost, HID activation and deactivation, D0 entry and exit | the device |
| **Disk images** `crates/aero-storage/src/sparse.rs`, `cow.rs` | header, allocation table, data; the same in memory, with a bitmap of slots | create, open, write, discard | the storage backend (OPFS, files) |
| **Block cache** `crates/aero-storage/src/cache.rs` | cached blocks in LRU order, dirty marks | read, write, flush, discard | a disk image below |
| **Other storage** `aero-devices-storage`, `aero-devices-nvme`, `aero-opfs` | NVMe, AHCI and IDE queues, other image formats | commands, DMA, interrupts | guest driver, disks |
| **USB, input, network, audio** | controller schedules, tunnels, sample rings | transfers, frames, samples | browser APIs, proxies |
| **Snapshot, machine, firmware, web host, drivers, services, tools** | see `PROJECT.json` | | |

### What is hard in it

* *Lock-free rings.* Producers race for a range of bytes, write it outside any
  lock and commit in claim order; the head a producer tests is stale; u32 byte
  counters wrap; records wrap at the end of the buffer.
* *Sleeping.* Several agents sleep on one control word, and a notify wakes one
  of them. The value a wait is armed with may be newer or older than the value
  that made the caller wait.
* *Seqlocks.* A reader loads many words with no lock. A worker may be killed
  while it holds the busy bit. The generation wraps.
* *Asynchronous compilation.* A compiler reads guest code while guest and
  devices overwrite it; results come late, twice, out of order, or after a
  reset; page versions are finite counters; caches and profiles are bounded and
  evict each other's assumptions.

* *Device and driver.* The device completes buffers while an interrupt service
  routine, its DPC and a power transition run in the guest; 16-bit ring indices
  wrap; a snapshot is taken while the device holds buffers it has not completed.
* *Crash and partial failure.* A disk call is several writes, each of which may
  fail or be the last; the tables in memory and on disk then disagree, and the
  next call starts from there. A write-back cache holds the only copy of data.

Each of these is a hazard in `PROJECT.json`, at the line where it bites.

## 2. The modules

| Module | Role |
|---|---|
| `IpcQueue` | abstract FIFO with many producers, one consumer and a fair dequeue |
| `IpcRing` | `ring.rs`, one atomic or buffer access per step; implements `IpcQueue` |
| `IpcRingWait` | `wasm.rs` and `ring_buffer.ts`: who sleeps on which word |
| `Seqlock` | both descriptors, one atomic access per step |
| `BasicLemmas` | lemmas on `%` and on sequences that the proofs share |
| `IpcRingProofs` | the theorems about `IpcRing`, and that it implements `IpcQueue` |
| `IpcRingWaitProofs` | the theorems about `IpcRingWait` |
| `SeqlockProofs` | the theorems about `Seqlock` |
| `JitRuntime` | JIT runtime, compile queue and background compilations |
| `JitRuntimeProofs` | the theorems about `JitRuntime` |
| `SparseDisk` | `sparse.rs` bare or as the overlay of `cow.rs`, one backend access per step |
| `CachedDisk` | `cache.rs` composed with `SparseDisk` |
| `SparseDiskProofs` | the theorems about `SparseDisk`: who owns a slot; what an image holds |
| `CachedDiskProofs` | the theorems about `CachedDisk`: what a read returns and what survives a crash |
| `VirtioInput` | the event queue of virtio-input: device, bridge and Windows driver composed |
| `VirtioInputProofs` | the theorems about `VirtioInput` |
| `MC*` | instances: the uses of a ring, and the code Tier-1 cannot compile |

Definitions introduced as "Slip" state how a plausible mistake in the code would
look; each takes the place of the definition after it when the sensitivity of a
property is tested, and nothing else refers to them.

### IpcRing

`head`, `tail_reserve` and `tail_commit` hold unbounded totals, and every test or
index of the code goes through `Word` (the u32) first; the totals serve the
properties. `data` maps each 4-byte offset to a symbolic word (a length, the wrap
marker, or the k-th word of a particular payload): all positions that are ever
read are multiples of `RECORD_ALIGN`, which `TypeOK` checks. A payload word read
where a length is expected may look like any length. The
load of `head`, the load of `tail_reserve`, the compare-exchange, the marker, the
length, the payload copy, the wait for the turn and the store of `tail_commit` are
separate steps, as are the consumer's load, read, copy and store of `head`.
A producer may die between any two of its steps (`Crash`): its claim is then never
committed, and producers behind it wait for their turn for ever.
`"corrupt"` ends the consumer: in the code the record stays at the head, and every
further pop fails on it. Payload copies are one step: `Exclusive` shows that nobody else touches those words
during the copy, so splitting it would add no behaviour.

### IpcRingWait

Records are units and cursors do not wrap here: layout is `IpcRing`'s subject.
A corrupt record, after which `wasm.rs` drops everything committed, has no place here
either: `IpcRing` shows there is none. `waiters` holds the FIFO wait list that ECMAScript gives each word.
A constant `Uses` lists the ways a ring may be used, and the initial state picks
one: which producers block or drop, and whether the consumer sleeps or polls.
`use` never changes.

### Seqlock

`gen` and `busy` are the two parts of the generation word. A payload word is
abstracted to the update it comes from; that is all a torn read can confuse. A
failed weak compare-exchange may be spurious, so `SpinWriter` is always possible
before the iteration bound. `Crash` leaves the busy bit set. One module serves
both descriptors: they differ in the number of words, a parameter.

### JitRuntime

The runtime runs on the CPU thread, so each method is one action
(`prepare_block` is three, by its outcome: hit, stale, miss; `install_handle` is
three: valid, ignored, rejected). What interleaves with it is modelled step by step: the
JIT worker reads the code page by page in address order (`ReadCode`; in the browser
`startCompileOn` in `cpu-worker.ts` takes the snapshot and posts the request), a device
stores and reports later (`DmaStore`, `DmaNotify`), results arrive in any order. The bytes of a page
are one number, raised by each store; a block remembers the numbers it was
compiled from, so freshness can be stated. The LRU list is the sequence its links
describe and the profile's `last_hit` clock is the order of the counters. `Reset` is
`JitRuntime::reset` after the embedder restored RAM; `ResetRealMode` is what
`WasmTieredVm::reset_real_mode` does instead.

Whether Tier-1 can compile a block depends on the bytes it has read, as in
`compiler/tier1.rs`: `Compilable(rip, code)` is a parameter, and `FailCompile` is the
error that `compile_and_install` passes on, with the mark of the request left in
place. The history variable `failed` records whose last compilation ended so.
Addresses do not wrap: the snapshot of 16- and 32-bit code, whose pages wrap at the
instruction pointer's mask (`tier1_pipeline.rs:191-204` and `279-289`), is not
modelled.

### SparseDisk and CachedDisk

The file is the header's `allocated_blocks`, the table and the data region; the disk
in memory copies the first two and adds the bitmap of slots. Offsets are slots, and
bytes are grouped in cells, of which only the write they come from matters. Each
backend access of `write_at`, `discard_range` and the trim is a step; before any of
them the process may die (`Crash`: memory is gone, the file stays, `Open` validates
and rebuilds) and each may fail (`Fault`: the call returns, what it changed in memory
stays). Writes reach the file in the order they are made: a host that reorders
unflushed writes is not modelled, so `flush` of the image changes nothing. The size
of a disk is a multiple of its block size: the shorter last block that `cow.rs:126`
allows for is not modelled.

`CachedDisk` puts `BlockCachedDisk` in front. A step of the cache is what it does
between two calls below; a call below is `SparseDisk`'s, step by step, so failures
and crashes strike in the middle of a write-back. Eviction, the put-back of an entry
whose write-back failed, the reordering that `get_mut` does in a flush, and the
flush-then-invalidate of a discard are as in the code. `want` and `durable` record
what reads may return and what a crash may leave.

### VirtioInput

Every access to guest memory is a step: the device's in `queue.rs` (`ReadAvailIdx`,
`PopChain`, `FlushEvent`, `WriteUsedElem`, `WriteUsedIdx`), the driver's in
`virtqueue_split.c` (`ReadUsedIdx`, `TakeUsed`, `PublishSlot`, `Publish`), and
between them the driver's test of `VirtioStarted` and `VirtioInputIsHidActive`
(`CheckEvent`, which drops the event or goes on) and the processing of the event
(`ProcessEvent`). A register access is a call the I/O worker answers between two of its own
calls: it waits until `io` is idle, and a notifying write serves the queue before it
returns, as the bridge's `mmio_write` does. The driver's service routine, DPC and
power thread interleave, with `lock` the queue's spin lock and one step per
`ResetInProgress` test. `Restore` is `save_state` and `load_state`: the guest and the
transport are as saved, queued events and cached chains are gone, and
`rewind_queue_next_avail_to_next_used` makes the device pop the chains again.

`hid` is `HidActivated` and the progress of a deactivation: `active`; `emit` or
`quiet` once `VirtioInputHidDeactivateDevice` has found whether there is a release
report to emit; `sync` once the flag is cleared and the queue's lock must still be
taken and released; `released` once the report is out. The requests come at any
moment, in D0 or not, which is more often than the framework delivers them, but one
after the other, as the HID class driver makes them. `InD0` is set just before
`VirtioStarted` and cleared just after it, and `HardwareReady` holds from before the
first D0Entry on, so `started` stands for the three.

Left out: the status queue, MSI-X, indirect and malformed chains, failing D0
transitions, and what becomes of an event once it is processed.

## 3. What the runs check

| Run | Result | What it shows |
|---|---|---|
| `ring` | pass | no data race on the buffer (`Exclusive`), no write outside it (`RecordFits`), records delivered once, whole and in commit order (`DeliversInOrder`), `NeverCorrupt`, `CursorsOrdered`; the ring implements `IpcQueue`; `push_spinning` of a record that fits behind the worst padding returns unless a claim was lost; what was committed is delivered even when a producer died |
| `wait_safe` | pass | no lost wake-up for the consumer (`ConsumerNotForgotten`) or a producer awaiting its turn (`TurnNotForgotten`), committed records are popped, pushes return |
| `wait_blocking` | violation | `push_blocking` sleeps beside an empty ring (finding 1) |
| `seqlock` | pass | one holder of the busy bit, no torn snapshot, readers never go back, every call returns although a writer died |
| `jit_fresh` | pass | a block handed out by `prepare_block` was compiled from the bytes now in RAM, across wraps of the page version; the profile's capacity; no RIP stays requested without a block, request or compilation, unless its last compilation failed |
| `jit_live` | pass | hot RIPs are compiled again and again through stale results, evictions by the byte limit and a reset, unless a compilation failed; the cache's accounting and limits, with two compilations in flight |
| `jit_failed` | violation | bytes that cannot be compiled only for a while leave their RIP marked, with no block, request or compilation (finding 5) |
| `jit_tiered_vm` | violation | after `reset_real_mode` a block of the previous session is executed (finding 2) |
| `disk_calls` | pass | no two blocks share a slot; a crash leaves a valid table, and an image that opens if it falls between calls; reads return what was written, but for blocks whose allocation or release was cut short; discarded space is given back; through the cache: reads return what was written, failed write-backs lose nothing, and what was flushed survives a crash |
| `disk_crash` | violation | a crash while a block is allocated leaves an image that `open` rejects (finding 3) |
| `disk_fault` | violation | a failed allocation leaves an overlay block without the base's bytes (finding 4) |
| `virtio` | pass | every buffer has one owner, whatever snapshot is restored; events are processed in order and once, through a full event queue, wraps and a move out of D0 and back; none is processed after the report that released the keys, although a DPC is draining; no completed buffer is overlooked; an event is processed in the end, unless the event queue was full, a snapshot was restored, the driver was stopped or HID was not active when the driver took it |

### Bounds, and why they suffice

* `ring`: a dropping and a spinning producer, two pushes each, ring of 16 bytes,
  cursors modulo 32, payloads of 3 (8-byte record), 8 (12-byte record) and 13 bytes
  (rejected), pops capped at 4, one death. The wrap marker, a claim refused for its
  padding alone, a full ring, a dropped record, the cursors' wrap and the "head moved
  on" retry all occur. No symmetry, as it checks liveness.
* `wait_safe`: a ring of two records and up to six pushes: it fills and drains
  several times.
* `seqlock`: two writers with two calls each, two words, generation modulo 3: it
  wraps at the third completed update; spin bound 2.
* `jit_fresh`: two RIPs, the block of one across two pages, that compete for a cache
  of one block and a profile of one counter; two stores, versions modulo 2 (they
  wrap), one reset. A saturated profile, a replaced and an evicted block, and a
  compilation that fails on the bytes it read occur. One compilation at a time; that two
  results in either order leave no stale block is proved.
* `jit_live`: two RIPs whose blocks do not fit together in a cache of three bytes,
  two compilations in flight, a store and a reset; the first RIP cannot be compiled
  until the store.
* `jit_failed`: three RIPs, one of which cannot be compiled before a store and another
  not after it. `jit_tiered_vm`: one RIP and one compilation.
* `disk_calls`: two blocks of two cells, so that a write has a prefix, a suffix or
  both blocks; three calls, which is enough to write, discard and reuse a slot; two
  failures and one crash. The cache has blocks of three cells, which overlap the
  disk's in every way, and room for one, so that every miss evicts (the theorems are
  about caches of any size); it is put over the
  bare disk only (over the overlay it adds states and no step of the cache).
* `virtio`: one buffer, indices modulo 2 (they wrap), one injection of three events
  with room for two: one is dropped, and one waits for the buffer to be reposted and
  for the notification; one D0 exit and entry, one snapshot; HID is activated and
  deactivated without bound. These are the bounds liveness leaves room for; the
  invariants are proved for queues of any size and any number of injections.

Two bounds restrict behaviours rather than sizes, and are named: `NoCursorLap`
(no 4 GiB pass through the ring during one attempt of another producer) and
`NoGenerationLap` (no 2^31 updates during one attempt of another thread). Both are
limits of the code's design. `PreparedIsFresh` excuses pages with an unreported
device store and pages written a full cycle of the version counter since the
snapshot, which the code accepts too.

A capacity must divide 2^32 for `tail % cap` to survive the wrap of the cursors.
`RingBuffer::new` asks only for a multiple of 4; all capacities in the repository are
powers of two (32 KiB, 512 KiB, 1 MiB). With `Cap = 12` and `CursorMod = 32`,
`NeverCorrupt` fails. The theorems about the ring have it as their hypothesis
`CapacityDivides`.

### Memory model

Steps interleave, which is sequential consistency. The descriptors use `SeqCst`
throughout, so this is exact for them. The ring uses Acquire/Release: the payload is
published by the release store of `tail_commit` and read after an acquire load of
it, and `Exclusive` shows there is no other sharing; behaviours that need a weaker
order of the control words themselves are not covered. The browser's `Atomics`
are sequentially consistent.

### Fairness

A thread inside a call keeps being scheduled (`WF` on its steps); nobody is obliged
to start a call. The ring's consumer polls for ever, as the workers' loops do. A
sleeper in `Atomics.wait` has no enabled step until it is notified. A timer of
`pushBlocking` fires. The guest keeps executing its hot RIPs and the compile driver
keeps draining its queue; stores and resets are finitely many by their bounds, as no
compiler can keep up with a guest that rewrites its code for ever.

In `VirtioInput` the I/O worker finishes the call it is in (`WF` of `Device`); it
answers a register access in the end although other calls may come first, and the
spin lock is handed out fairly, hence `SF` for the drain, a power transition that has
begun, the ISR and the DPC's lock. Nobody has to inject, poll, start a transition, or
activate or deactivate HID: an event that the driver takes while HID is not active is
dropped, and `EventsArrive` counts it as such.

`CHECK_DEADLOCK FALSE` appears only in `wait_blocking`, which exhibits sleeping for
ever. Elsewhere a bounded instance that has done everything loops in
`Terminated`, or something is always enabled (a guest that executes, a HID request):
there waiting for ever is the liveness property's subject, not deadlock's.

## 4. Findings

1. `wasm.rs:263`: `push_blocking` waits for a change of a `head` it loaded after
   `try_push` failed; pops in between are missed. `wasm.rs` has no timeout that would
   bound the wait. (`pushBlocking` of `ring_buffer.ts` has an optional one.)
2. `tiered_vm.rs:1339`: `reset_real_mode` replaces the runtime, so generation and
   versions restart at 0 and results of earlier compilations validate again;
   `JitRuntime::reset` is immune.
3. `sparse.rs:677`: `ensure_block_allocated` persists the header, then the table entry,
   and grows the file last. A crash before that leaves `allocated_blocks` covering data
   beyond the end, which `open` rejects; the trim is ordered against just this.
4. `cow.rs:100`: the overlay's block is mapped in memory before the first backend
   access, so after an error the retry takes it for an existing block and does not seed
   it from the base.
5. `tier1_pipeline.rs:240`: a failed compilation leaves its RIP marked as requested.
   Bytes that cannot be compiled only at that moment, because they are read between two
   stores or are replaced later, leave the RIP with no block, request or compilation,
   and no number of hits requests it again while it is marked. A reset removes the mark,
   or a stale block of another RIP that takes its place in a saturated profile.
   `profile.rs:91` says that the marked RIPs are in flight or compiled. That code which cannot be compiled stays
   marked is meant (`compiler/tier1.rs:95`), and `RequestedIsCompiling` allows it.

Two more were met and are recorded as hazards, with a note instead of a run: a claim
needs `padding + record_size <= free`, so a payload within
`max_payload_len_for_capacity` can be refused for ever at some tails (`ring.rs:113`;
payloads with `2 * record_size - 4 <= capacity` are safe, `SpinningPushReturns`);
producers awaiting their turn and the sleeping consumer share `tail_commit`, and only
one of them is notified (`wasm.rs:159`).

## 5. What is proved

All theorems hold for every value of the constants that the modules' assumptions
allow: any number of threads, any sizes and widths, any number of calls, failures and
deaths. Each inductive invariant was checked by TLC before it was proved.

| Module | Theorem | Statement |
|---|---|---|
| `IpcRingProofs` | `RingTypeOK`, `RingCursorsOrdered`, `RingExclusive`, `RingRecordFits`, `RingDeliversInOrder`, `RingNeverCorrupt` | `Spec => []P` for every invariant of the run `ring`, given `CapacityDivides` |
| | `RingImplementsQueue` | `Spec => Abstract!QSafe`, given `CapacityDivides` |
| `IpcRingWaitProofs` | `WaitTypeOK` | `Spec => []TypeOK` |
| | `ConsumerNeverForgotten`, `TurnNeverForgotten` | `Spec => []P` for the two lost-wake-up invariants, given `FewPushers` |
| `SeqlockProofs` | `TypeCorrect`, `WritersAreExclusive`, `SnapshotsAreCoherent`, `GenerationIsCount` | `Spec => []P` for every invariant of the run `seqlock`, and that generation g is the g-th completed update |
| | `SnapshotsAreMonotonic` | `Spec => SnapshotsMonotonic`, an action property |
| `JitRuntimeProofs` | `PreparedBlocksAreFresh`, `RequestsStayBacked`, `ProfileStaysWithinCapacity`, `CacheStaysWithinLimits`, `JitTypeOK` | `Spec => []P` for every invariant of the runs `jit_fresh` and `jit_live`, whatever `Compilable` is |
| `SparseDiskProofs` | `SlotsAreNotShared` | `Spec => []SlotsNotShared` |
| | `SparseDiskTypeOK`, `TableAlwaysSurvivesCrash`, `IdleImageAlwaysOpens`, `SpaceIsAlwaysReclaimed`, `ReadsAlwaysReturnWrites` | `Spec => []P` for the other invariants of `SparseDisk` |
| `CachedDiskProofs` | `CachedReadsAlwaysReturnWrites`, `FlushedAlwaysSurvivesCrash` | `CachedSpec => []P` for the two invariants of `CachedDisk` |
| | `DiskBelowIsSound` | `CachedSpec => []P` for all the invariants of `SparseDisk` |
| `VirtioInputProofs` | `VirtioTypeOK`, `BuffersOwnedOnce`, `EventsInOrder`, `ReleaseStaysLast`, `UsedNeverForgotten` | `Spec => []P` for every invariant of the run `virtio` |

### The ring

None of the properties is inductive, since none says what is in the buffer.
`IInv` describes it by cursors, never by offsets: uncommitted claims are disjoint
ranges between `tail_commit` and `tail_reserve` (`ClaimsApart`) and hold what their
owner has written so far (`ClaimsWritten`); the bytes from `head` to `tail_commit` are
the committed records not yet popped, end to end (`Laid`, whose witness `pos` says
where each record was claimed); what a producer loaded is old, but less than a lap of
the cursors (`LoadedView`). All of it lies within `Cap` bytes, where different cursors
have different offsets; that is the place where `CapacityDivides` is needed, and
`LoadedView` is where `NoCursorLap` is. So a write into a claim changes nothing that
anybody else has written or will read.

The refinement maps the queue to the records committed and not popped. It adds that a
producer that is pushing has not committed the record with its current number
(`PushNumbers`). The store of `tail_commit` then enqueues, the store of `head`
dequeues and every other step stutters. `QSafe` is the queue without its fairness.

### Sleeping on the ring

A notify wakes one agent. Both results need that it is the right one, and that is so
only if few agents share the word: `FewPushers` says that at most two producers push,
and only one beside a consumer that sleeps. Beyond that the code does lose wake-ups
(three producers on `tail_commit` deadlock in TLC), so the hypothesis is a limit
of the code, recorded as a hazard at `wasm.rs:159`. `BaseInv`, which needs no
hypothesis, says that the uncommitted claims are exactly the numbers from `tail_commit`
to `tail_reserve`, one owner each; that a producer about to sleep has seen a
`tail_commit` that is not its own claim; and that who is on a list is where it went to
sleep. From it follows that while anybody is about to notify at most one agent sleeps
on `tail_commit` (`LoneSleeper`). `TurnInv` adds the two properties, and that beside a
sleeping consumer the one producer never awaits its turn.

### Descriptors

`SnapshotCoherent` says nothing of a read in progress. `IInv`
adds that the busy bit is set exactly while a writer, dead or alive, is inside an update
(`BusyMeansHeld`); that this writer holds the current generation, and any other
writer one less than `GenMod` old (`WriterView`); that the payload is whole when
nobody writes and a prefix of the new update when somebody does (`PayloadWhole`,
`PayloadPrefix`); and that a reader whose generation is still current has read words of
that update only (`ReaderView`). `BasicLemmas` supplies the step from "equal
as words and less than `GenMod` apart" to "equal", which is where
`NoGenerationLap` is needed. Monotonicity follows from `ReaderView`, which bounds the
generation in progress by the latest snapshot from below.

### JIT runtime

That a block is fresh when it is handed out rests on a snapshot taken long before, for
a job that was still reading bytes. `IInv` says of every job and of every cached block
(`Snapshotted`): if its generation is still current, a page whose write count is still
the one of the snapshot holds the bytes that were read, unless a device owes a report.
Stores, device reports, resets, results in any order, eviction and invalidation all
keep it. On top of it, `BInv` relates the profile's marks to the queue, jobs
and cache, with a failed compilation the only excuse for a mark without any of them:
`RequestsStayBacked` says that this is the one way to lose a request, and finding 5
that the code does lose it so; the cache's byte count is the sum over its blocks; `TInv` gives the
types. The theorems are about `Spec`, whose reset is `JitRuntime::reset`;
`TieredVmSpec`, with `reset_real_mode`, violates freshness (finding 2).

### Disk images

`SlotsNotShared` is not inductive, because after a failure
memory and file map different blocks. `IInv` adds that the bitmap covers the slots of
both tables (`BitmapCovers`), that no slot belongs to one block in memory and another
on disk (`OneBlockPerSlot`), that a closed disk holds nothing in memory
(`ClosedIsEmpty`), and that the call in progress stays within the disk
(`OpWithinDisk`). The new slot is then outside both tables, releasing a block frees no
slot the file uses for another, and copying an entry to the file repeats none.

Three invariants follow the contents. `TInv` gives the call in progress its shape.
`FInv`, for images no access of which has failed, relates header, bitmap and file
length at each step of an allocation and of a trim; the high-water mark stays below the
number of blocks by counting (`RoomForOne`: slots in use are exactly those of the
table). `RInv` follows the cells: memory and file map the same blocks but for the one
being allocated, the file holds what the calls wrote, a new block is filled but for
the regions still to do, and cells already passed by the call hold its data or, for a
discard, have no slot. The steps are proved for `DiskNext`, which
allows a write of any buffer and not only of one value, so that it covers the
calls of the cache too.

### Block cache

`FlushedSurvivesCrash` and `CachedReadsReturnWrites` speak of moments when nothing is
under way; between them the only copy of a value may be a dirty entry, an entry being
written back, or the one that waits for space. `CacheInv` follows all of these,
cell by cell. `Sound` says that what may be read may become durable; that every entry
holds values that may be read; and that where no dirty entry covers a cell, what the
disk holds may be read. The write in progress has its value wherever its chunks have
passed. `BackInv` says that while an entry is written back it is the last one
(eviction) or the first one (flush), still dirty, and that once the disk's call has
returned the disk holds exactly its values: so it may be dropped or marked clean. When
the write fails the entry is still there, dirty. `SweepShape` says that a flush has left
clean what it has passed, so that when it returns no dirty entry is left to hide the
disk, and that a discard knows of every entry overlapping its range, so that none
survives it. `DropInv` says that the discarded cells are gone below before the entries
are dropped.

The blocks of the cache and of the disk may overlap in any way; the proof goes through
`expect` of `SparseDisk`, which `RInv` ties to the file. `DiskBelowIsSound` is what it
rests on: the disk's invariants do not depend on who makes the calls.

### Virtio-input

`IInv` says where everything is by counting from the indices, and the only assumption
on them is that `IdxMod` is a multiple of `QueueSize` and larger (65536 and a power of
two below it in the code). From `next_used` to `avail_idx` the available ring lists the
device's buffers: the one being completed, the cached ones, those not taken yet
(`DevRing`). From `last_used` to `used_idx` the used ring lists the completed ones, the
rest are in the driver's hands, and together these are all the buffers, once each
(`Owned`). The restore of a snapshot, which forgets the cached chains and moves
`next_avail` back to `next_used`, keeps this because the device completes its
buffers in the order of the available ring. `OwnedOnce` follows by turning places into
positions (`PlacesByPosition`).

`Order` puts the events in line: received, at the driver, completed, being
written, pending. `HalfDone` ties a step that has looked or written to the one that
follows, and `IoControl` and `LockControl` say where the threads can be: the used ring
is drained by one thread at a time, and never while the queue is down.
`NotForgotten` extends `UsedNotForgotten` to the last drain of D0Entry, which is the
one that finds what was completed before interrupts were connected. `HidControl` is
the part of `ReleaseIsLast` about HID: an event is processed under the queue's lock,
after a test that found HID active, and both `VirtioInputHidDeactivateDevice` and
D0Exit pass through the lock between clearing what is tested and the release report.
The part about D0Exit follows from `LockControl`.

Three branches are dead, for every queue size: the one of `process_queue` for more
chains than the queue has entries (`PopFits`), and those of `VirtqSplitGetUsed` that
skip to the device's index (`ReadFits`) and over a descriptor without a cookie
(`TakeFits`).

### Only model-checked

All liveness, with its fairness: out of the proof system's reach. This includes the
fair dequeue of `IpcQueue`. Every invariant of the passing runs is also a theorem.

## 6. Plan

In this order:

1. **Tiered VM** (`tiered_vm.rs`, `jit_write_log.rs`, `exec/mod.rs`): the dispatch
   loop, the bounded write log with its overflow, and its flush, so that "a store of
   the CPU is reported before the next block is looked up" becomes a property instead
   of the `GuestWrite` action's assumption.
2. **CodeCache's index-linked list**, implementing the sequence `JitRuntime` uses, with
   the invariants `debug_assert_invariants` lists.
3. **AeroGPU ring and fences** (`aero-devices-gpu`): completion order, vsync-delayed
   fences, reset with work in flight.
4. **Call table of compiled blocks** in `apps/web/src/workers/cpu-worker.ts`:
   slots, asynchronous install, resets.
5. **Interrupt controllers**: level-triggered re-delivery, EOI broadcast; then the
   shared framebuffer, timers, SMP bring-up, TLB shoot-down, the other virtio devices
   and NVMe queues.

## 7. Not modelled

The parts of the plan above, and for good: instruction semantics and code generation, graphics translation,
codecs, firmware tables, network services and user interface. They are sequential
data transformations or host I/O, for which tests are the better tool.
