------------------------------ MODULE CachedDisk ------------------------------
(***************************************************************************)
(* The disk of SparseDisk, used directly or behind BlockCachedDisk, the    *)
(* write-back block cache of crates/aero-storage/src/cache.rs.  The cache  *)
(* runs in its caller's thread: its own steps are the ones between two     *)
(* calls to the disk below, and a call below in progress is SparseDisk's   *)
(* op.  A failing access of the disk below fails the cache's call, and a   *)
(* crash takes the cached blocks with it.                                  *)
(*                                                                         *)
(* The cache is the sequence of its entries, most recently used first, as  *)
(* the LRU map it is kept in.  An entry is popped before it is written     *)
(* back and put back in front if that fails; here it stays in the sequence *)
(* until the write has succeeded, which no caller can tell apart.          *)
(***************************************************************************)
EXTENDS SparseDisk, SequencesExt

CONSTANTS
  CachedStacks, \* the stacks that are also used behind the cache
  CacheCells,   \* cells in a block of the cache
  MaxCached,    \* max_cached_blocks
  MaxRequests   \* bound: calls to the cache

ASSUME CachedDiskAssumption ==
  /\ CachedStacks \subseteq Stacks
  /\ CacheCells \in Nat \ {0} /\ MaxCached \in Nat \ {0} /\ MaxRequests \in Nat

VARIABLES
  cached,   \* whether the disk is behind the cache, chosen at the start
  cache,    \* the cached blocks, most recently used first
  req,      \* the cache's call in progress
  want,     \* history: the values a read of each cell may return
  durable   \* history: the values each cell may have after a crash

cacheVars == <<cached, cache, req, want, durable>>
allVars == <<vars, cacheVars>>

NoReq == [kind |-> "none"]

\* The cells of block k of the cache: the last one may be cut short.
CacheBlock(c) == c \div CacheCells
CellsIn(k) == {c \in Cells : CacheBlock(c) = k}
FirstIn(k) == k * CacheCells
EndOf(k) == Min({(k + 1) * CacheCells, NumBlocks * BlockCells})

Holds(k) == \E i \in DOMAIN cache : cache[i].block = k
IndexOf(k) == CHOOSE i \in DOMAIN cache : cache[i].block = k

\* get_mut makes the entry the most recently used one.
Touched(k) == <<cache[IndexOf(k)]>> \o RemoveAt(cache, IndexOf(k))

\* What a read through the cache returns for a cell.
CachedCell(c) ==
  IF Holds(CacheBlock(c)) THEN cache[IndexOf(CacheBlock(c))].data[c] ELSE ReadCell(c)

-----------------------------------------------------------------------------
(* Calls to the cache.                                                     *)

\* The values of some cells become v, or may become v while the call lasts.
MayBecome(h, cells, v) == [c \in Cells |-> IF c \in cells THEN h[c] \cup {v} ELSE h[c]]
Become(h, cells, v) == [c \in Cells |-> IF c \in cells THEN {v} ELSE h[c]]

Return == req' = NoReq

BeginRead(from, to) ==
  /\ req' = [kind |-> "read", at |-> from, to |-> to, entry |-> NoReq]
  /\ UNCHANGED <<want, durable>>

BeginCachedWrite(from, to, v) ==
  /\ req' = [kind |-> "write", at |-> from, to |-> to, v |-> v, from |-> from,
             entry |-> NoReq]
  /\ want' = MayBecome(want, from .. to - 1, v)
  /\ durable' = MayBecome(durable, from .. to - 1, v)

\* The positions P from first to last: this set has one member.
InOrder(P) ==
  {nth \in [1 .. Cardinality(P) -> P] : \A j, k \in DOMAIN nth : j < k => nth[j] < nth[k]}

\* flush and discard_range take the keys first, of all entries or of those
\* that overlap the range.
BeginFlush ==
  /\ req' = [kind |-> "flush", keys |-> [i \in DOMAIN cache |-> cache[i].block], below |-> FALSE]
  /\ UNCHANGED <<want, durable>>

\* The cells of the disk's blocks that the range covers whole.
Discarded(from, to) == {c \in Cells : CellsOf(c \div BlockCells) \subseteq from .. to - 1}

Overlapping(from, to) ==
  {i \in DOMAIN cache : cache[i].block \in CacheBlock(from) .. CacheBlock(to - 1)}

BeginCachedDiscard(from, to) ==
  /\ \E nth \in InOrder(Overlapping(from, to)) :
       LET keys == [j \in DOMAIN nth |-> cache[nth[j]].block]
       IN  req' = [kind |-> "discard", from |-> from, to |-> to, keys |-> keys,
                   all |-> Range(keys), below |-> FALSE]
  /\ want' = MayBecome(want, Discarded(from, to), Unwritten)
  /\ durable' = MayBecome(durable, Discarded(from, to), Unwritten)

Request ==
  /\ cached /\ req = NoReq /\ pc = "idle"
  /\ calls < MaxRequests /\ calls' = calls + 1
  /\ \/ BeginFlush
     \/ \E from, to \in 0 .. NumBlocks * BlockCells :
          /\ from < to
          /\ \/ BeginRead(from, to)
             \/ \E v \in Values : BeginCachedWrite(from, to, v)
             \/ BeginCachedDiscard(from, to)
  /\ UNCHANGED <<stack, fileVars, memVars, pc, op, expect, torn, faults, crashes,
                 cached, cache>>

-----------------------------------------------------------------------------
(* read_at and write_at: block after block of the cache.                   *)

Chunking == cached /\ req.kind \in {"read", "write"} /\ pc = "idle" /\ req.entry = NoReq
Key == CacheBlock(req.at)
ChunkEnd == Min({req.to, (Key + 1) * CacheCells})

\* The entry after the call's chunk has been applied to it.
Served(entry) ==
  IF req.kind = "read" THEN entry
  ELSE [entry EXCEPT !.dirty = TRUE,
                     !.data = [c \in DOMAIN @ |-> IF c \in req.at .. ChunkEnd - 1
                                                  THEN req.v ELSE @[c]]]

NextChunk == req' = [req EXCEPT !.at = ChunkEnd, !.entry = NoReq]

Hit ==
  /\ Chunking /\ req.at < req.to /\ Holds(Key)
  /\ cache' = <<Served(Head(Touched(Key)))>> \o Tail(Touched(Key))
  /\ NextChunk
  /\ UNCHANGED <<vars, cached, want, durable>>

\* A miss reads the block below, unless the chunk overwrites it all.
Overwrites == req.kind = "write" /\ ChunkEnd - req.at = CacheCells
Readable == Overwrites \/ \A c \in CellsIn(Key) : ReadCell(c) # -1
Fetched == [block |-> Key, dirty |-> FALSE,
            data |-> [c \in CellsIn(Key) |-> IF Overwrites THEN req.v ELSE ReadCell(c)]]

\* ensure_space_for_block: is there space already?
Space == Len(cache) < MaxCached

\* insert_cache_entry, once there is space: the new entry is the most
\* recently used one.
Inserted(entry, rest) == cache' = <<Served(entry)>> \o rest

Miss ==
  /\ Chunking /\ req.at < req.to /\ ~Holds(Key) /\ Readable
  /\ Space \/ (~Space /\ ~Last(cache).dirty)
  /\ Inserted(Fetched, IF Space THEN cache ELSE Front(cache))
  /\ NextChunk
  /\ UNCHANGED <<vars, cached, want, durable>>

\* write_at of a block of the cache to the disk below.
WriteBelow(entry) ==
  /\ BeginWrite(FirstIn(entry.block), EndOf(entry.block), entry.data)
  /\ UNCHANGED calls

\* Without space the least recently used entry is written back first.
Evict ==
  /\ Chunking /\ req.at < req.to /\ ~Holds(Key) /\ Readable
  /\ ~Space /\ Last(cache).dirty
  /\ WriteBelow(Last(cache))
  /\ req' = [req EXCEPT !.entry = Fetched]
  /\ UNCHANGED <<cached, cache, want, durable>>

Evicting == cached /\ req.kind \in {"read", "write"} /\ req.entry # NoReq

Evicted ==
  /\ Evicting /\ pc = "idle"
  /\ Inserted(req.entry, Front(cache))
  /\ NextChunk
  /\ UNCHANGED <<vars, cached, want, durable>>

\* The call returns: its cells read as its value.
ReturnChunks ==
  /\ Chunking /\ req.at = req.to
  /\ want' = IF req.kind = "write" THEN Become(want, req.from .. req.to - 1, req.v) ELSE want
  /\ Return
  /\ UNCHANGED <<vars, cached, cache, durable>>

-----------------------------------------------------------------------------
(* flush, and discard_range, which first flushes what overlaps its range.  *)

Keyed == cached /\ req.kind \in {"flush", "discard"} /\ pc = "idle"

SkipClean ==
  /\ Keyed /\ ~req.below /\ req.keys # << >>
  /\ ~Head(Touched(Head(req.keys))).dirty
  /\ cache' = Touched(Head(req.keys))
  /\ req' = [req EXCEPT !.keys = Tail(@)]
  /\ UNCHANGED <<vars, cached, want, durable>>

\* Slip: the entry is clean as soon as its write is tried.
WriteDirtyCleanFirst ==
  /\ Keyed /\ ~req.below /\ req.keys # << >>
  /\ LET t == Touched(Head(req.keys))
     IN  /\ Head(t).dirty /\ WriteBelow(Head(t))
         /\ cache' = <<[Head(t) EXCEPT !.dirty = FALSE]>> \o Tail(t)
  /\ req' = [req EXCEPT !.below = TRUE]
  /\ UNCHANGED <<cached, want, durable>>

WriteDirty ==
  /\ Keyed /\ ~req.below /\ req.keys # << >>
  /\ cache' = Touched(Head(req.keys))
  /\ Head(cache').dirty /\ WriteBelow(Head(cache'))
  /\ req' = [req EXCEPT !.below = TRUE]
  /\ UNCHANGED <<cached, want, durable>>

\* Once written, the entry is clean.
DirtyWritten ==
  /\ Keyed /\ req.below /\ req.keys # << >>
  /\ cache' = <<[Head(cache) EXCEPT !.dirty = FALSE]>> \o Tail(cache)
  /\ req' = [req EXCEPT !.keys = Tail(@), !.below = FALSE]
  /\ UNCHANGED <<vars, cached, want, durable>>

\* flush returns: what could be read before is now on disk.
ReturnFlush ==
  /\ Keyed /\ req.kind = "flush" /\ req.keys = << >>
  /\ durable' = want
  /\ Return
  /\ UNCHANGED <<vars, cached, cache, want>>

\* The disk below discards; a range without a whole block changes nothing.
DiscardBelow ==
  /\ Keyed /\ req.kind = "discard" /\ req.keys = << >> /\ ~req.below
  /\ BeginDiscard(req.from, req.to) /\ UNCHANGED calls
  /\ req' = [req EXCEPT !.below = TRUE]
  /\ UNCHANGED <<cached, cache, want, durable>>

\* The overlapping entries are dropped.
Staying == {i \in DOMAIN cache : cache[i].block \notin req.all}

ReturnDiscard ==
  /\ Keyed /\ req.kind = "discard" /\ req.keys = << >>
  /\ req.below \/ Discarded(req.from, req.to) = {}
  /\ \E nth \in InOrder(Staying) : cache' = [j \in DOMAIN nth |-> cache[nth[j]]]
  /\ want' = [c \in Cells |-> IF c \in Discarded(req.from, req.to) THEN {Unwritten} ELSE want[c]]
  /\ Return
  /\ UNCHANGED <<vars, cached, durable>>

-----------------------------------------------------------------------------
(* Failures.                                                               *)

\* Slip: the entry that could not be written back is lost.
VictimLost == Front(cache)
\* The entry that could not be written back is put back, in front.
VictimKept == <<Last(cache)>> \o Front(cache)

\* An access of the disk below fails, and with it the cache's call.
CachedFault ==
  /\ cached /\ Fault
  /\ cache' = IF Evicting THEN VictimKept ELSE cache
  /\ Return
  /\ UNCHANGED <<cached, want, durable>>

\* Reading below fails, because an access does or because a slot lies beyond
\* the end of the file.
FetchFault ==
  /\ Chunking /\ req.at < req.to /\ ~Holds(Key) /\ ~Overwrites
  /\ \/ ~Readable /\ faults' = faults
     \/ Readable /\ faults < MaxFaults /\ faults' = faults + 1
  /\ Return
  /\ UNCHANGED <<stack, fileVars, memVars, pc, op, expect, torn, calls, crashes,
                 cached, cache, want, durable>>

\* Flushing the backend fails, after all blocks have been written.
FlushFault ==
  /\ Keyed /\ req.kind = "flush" /\ req.keys = << >>
  /\ faults < MaxFaults /\ faults' = faults + 1
  /\ Return
  /\ UNCHANGED <<stack, fileVars, memVars, pc, op, expect, torn, calls, crashes,
                 cached, cache, want, durable>>

\* The cached blocks are gone: what is read from now on is what is on disk.
CachedCrash ==
  /\ cached /\ Crash
  /\ cache' = << >> /\ Return
  /\ want' = durable
  /\ UNCHANGED <<cached, durable>>

-----------------------------------------------------------------------------
CachedInit ==
  /\ Init
  /\ cached \in BOOLEAN /\ (cached => stack \in CachedStacks) /\ cache = << >> /\ req = NoReq
  /\ want = expect /\ durable = expect

CacheStep == Hit \/ Miss \/ Evict \/ Evicted \/ ReturnChunks \/ SkipClean \/ WriteDirty
             \/ DirtyWritten \/ ReturnFlush \/ DiscardBelow \/ ReturnDiscard

\* The bounded instance has made its calls, or its image is rejected.
Done ==
  /\ cached /\ req = NoReq /\ (pc = "corrupt" \/ (pc = "idle" /\ calls = MaxRequests))
  /\ UNCHANGED allVars

CachedNext ==
  \/ ~cached /\ (Call \/ Fault \/ Crash \/ Terminated) /\ UNCHANGED cacheVars
  \/ (Step \/ Open) /\ UNCHANGED cacheVars
  \/ Request \/ CacheStep \/ CachedFault \/ FetchFault \/ FlushFault \/ CachedCrash \/ Done

CachedSpec == CachedInit /\ [][CachedNext]_allVars

-----------------------------------------------------------------------------
(* Properties.                                                             *)

Quiet == cached /\ req = NoReq /\ pc = "idle"

\* Reads through the cache return what was written through it, whatever was
\* evicted, flushed, discarded, failed or lost in a crash.
CachedReadsReturnWrites ==
  Quiet => \A b \in Blocks \ torn : \A c \in CellsOf(b) : CachedCell(c) \in want[c]

\* What a flush has written survives a crash: the disk holds the values of
\* the last flush that returned, or later ones.
FlushedSurvivesCrash ==
  cached /\ pc = "idle" =>
    \A b \in Blocks \ torn : \A c \in CellsOf(b) : ReadCell(c) \in durable[c]
=============================================================================
