------------------------------ MODULE SparseDisk ------------------------------
(***************************************************************************)
(* The sparse image AeroSparseDisk of crates/aero-storage/src/sparse.rs,   *)
(* used bare or as the overlay of the copy-on-write disk AeroCowDisk of    *)
(* cow.rs.  One step per access to the storage backend: the process may    *)
(* die between any two of them, and any of them may fail.                  *)
(*                                                                         *)
(* The file is its header's allocated_blocks, the allocation table and the *)
(* data region; the disk in memory is a copy of the header and the table,  *)
(* and the bitmap of slots in use.  Writes reach the file in the order     *)
(* they are made, so a crash loses the memory and nothing else.            *)
(*                                                                         *)
(* Bytes are grouped in cells, BlockCells to a block: what the properties  *)
(* tell apart is which write a cell comes from.  Slots replace offsets:    *)
(* slot s is the block at data_offset + s * block_size.                    *)
(***************************************************************************)
EXTENDS Integers, Sequences, FiniteSets, FiniteSetsExt

CONSTANTS
  Stacks,       \* "sparse": bare; "cow": the overlay of a base disk
  NumBlocks,    \* table_entries
  BlockCells,   \* cells in a block
  Values,       \* what a write may put in a cell; 0 is a zeroed cell
  BaseValue,    \* what the cells of the base disk hold
  MaxCalls,     \* bound: calls to the disk
  MaxFaults,    \* bound: backend accesses that fail
  MaxCrashes    \* bound: crashes of the process

ASSUME SparseDiskAssumption ==
  /\ Stacks \subseteq {"sparse", "cow"}
  /\ NumBlocks \in Nat \ {0} /\ BlockCells \in Nat \ {0}
  /\ Values \subseteq Nat /\ BaseValue \in Nat
  /\ MaxCalls \in Nat /\ MaxFaults \in Nat /\ MaxCrashes \in Nat

VARIABLES
  stack,                    \* how the image is used, chosen at the start
  f_alloc, f_table, f_data, \* the file
  alloc, table, used, mapped, \* the disk in memory
  pc, op,                   \* the call in progress
  expect,   \* history: the values each cell may hold, by the calls so far
  torn,     \* history: blocks whose allocation or release was cut short
  calls, faults, crashes

fileVars == <<f_alloc, f_table, f_data>>
memVars == <<alloc, table, used, mapped>>
histVars == <<expect, torn, calls, faults, crashes>>
vars == <<stack, f_alloc, f_table, f_data, alloc, table, used, mapped, pc, op,
          expect, torn, calls, faults, crashes>>

Blocks == 0 .. NumBlocks - 1
Cells == 0 .. NumBlocks * BlockCells - 1
CellsOf(b) == b * BlockCells .. (b + 1) * BlockCells - 1
Unmapped == -1              \* a table entry of 0
NoOp == [kind |-> "none", at |-> 0, to |-> 0]

\* What a block reads as while it has no slot.
Unwritten == IF stack = "cow" THEN BaseValue ELSE 0

-----------------------------------------------------------------------------
(* The file.                                                               *)

\* Writing cells[i] at each i in from .. to - 1 extends the backend; the bytes
\* between are zero.
Written(data, from, to, cells) ==
  [k \in 1 .. Max({Len(data), to}) |->
     IF k - 1 \in from .. to - 1 THEN cells[k - 1]
     ELSE IF k <= Len(data) THEN data[k] ELSE 0]

\* set_len(end) where end is not before the end of the file.
Grown(data, end) == Written(data, end, end, << >>)

MappedIn(t) == {b \in Blocks : t[b] # Unmapped}
SlotsIn(t) == {t[b] : b \in MappedIn(t)}
Injective(t) == \A a, b \in MappedIn(t) : t[a] = t[b] => a = b

\* open's validation of the header and of the table.
TableAccepted ==
  /\ f_alloc <= NumBlocks
  /\ SlotsIn(f_table) \subseteq 0 .. f_alloc - 1
  /\ Injective(f_table)
OpenAccepts == TableAccepted /\ Len(f_data) >= f_alloc * BlockCells

\* read_at of one cell; -1 is an error for a slot beyond the end of the file.
ReadCell(c) ==
  LET slot == table[c \div BlockCells]
      k    == slot * BlockCells + (c % BlockCells) + 1
  IN  IF slot = Unmapped THEN Unwritten
      ELSE IF k <= Len(f_data) THEN f_data[k] ELSE -1

-----------------------------------------------------------------------------
(* write_at: block after block, each up to the block's end or the call's.  *)

Block == op.at \div BlockCells
From == op.at % BlockCells
Upto == Min({BlockCells, From + op.to - op.at})

Init ==
  /\ stack \in Stacks
  /\ f_alloc = 0 /\ f_table = [b \in Blocks |-> Unmapped] /\ f_data = << >>
  /\ alloc = 0 /\ table = f_table /\ used = {} /\ mapped = 0
  /\ pc = "idle" /\ op = NoOp
  /\ expect = [c \in Cells |-> {Unwritten}]
  /\ torn = {} /\ calls = 0 /\ faults = 0 /\ crashes = 0

\* write_at of the cells buf[from .. to - 1].
BeginWrite(from, to, buf) ==
  /\ pc = "idle"
  /\ op' = [kind |-> "write", at |-> from, to |-> to, buf |-> buf,
            from |-> from, fresh |-> FALSE, todo |-> << >>]
  /\ pc' = "chunk"
  /\ expect' = [c \in Cells |-> IF c \in from .. to - 1 THEN expect[c] \cup {buf[c]}
                                ELSE expect[c]]
  /\ UNCHANGED <<stack, fileVars, memVars, torn, faults, crashes>>

Advanced == [op EXCEPT !.at = (Block + 1) * BlockCells, !.fresh = FALSE]

\* Only the bare disk keeps itself sparse by dropping zeros.
DropsZeros ==
  /\ stack = "sparse" /\ table[Block] = Unmapped
  /\ \A c \in op.at .. op.at + Upto - From - 1 : op.buf[c] = 0

SkipZeros ==
  /\ pc = "chunk" /\ op.at < op.to /\ DropsZeros
  /\ op' = Advanced
  /\ UNCHANGED <<stack, fileVars, memVars, pc, histVars>>

\* The block has a slot: only the chunk is written.
UseExisting ==
  /\ pc = "chunk" /\ op.at < op.to /\ table[Block] # Unmapped
  /\ op' = [op EXCEPT !.todo = <<"data">>]
  /\ pc' = "regions"
  /\ UNCHANGED <<stack, fileVars, memVars, histVars>>

\* A region of the block being written, in cells of the block.
Region(r) == CASE r = "prefix" -> <<0, From>>
               [] r = "data"   -> <<From, Upto>>
               [] r = "suffix" -> <<Upto, BlockCells>>
NonEmpty(r) == Region(r)[1] < Region(r)[2]

\* The region, unless it is empty.
Part(r) == IF NonEmpty(r) THEN <<r>> ELSE << >>

\* Slip: the rest of the block after the chunk is not filled.
FillOrderWithoutSuffix == Part("prefix") \o Part("data")

\* The order in which a new block is filled.
FillOrder == IF stack = "cow" THEN Part("prefix") \o Part("data") \o Part("suffix")
             ELSE Part("prefix") \o Part("suffix") \o Part("data")

\* The free slots below the high-water mark.
FreeSlots == (0 .. alloc - 1) \ used

\* Slip: the last slot below the mark is reused instead of the free one.
NextSlotIsLast(slot) ==
  \/ FreeSlots # {} /\ slot = alloc - 1
  \/ FreeSlots = {} /\ slot = alloc

\* find_free_phys_idx finds the lowest free slot below the high-water mark;
\* without one, the next slot is appended.
NextSlot(slot) ==
  \/ slot \in FreeSlots /\ \A s \in FreeSlots : slot <= s
  \/ FreeSlots = {} /\ slot = alloc

\* ensure_block_allocated, up to its first backend access: appending a slot
\* changes the header.
Allocate ==
  /\ pc = "chunk" /\ op.at < op.to /\ table[Block] = Unmapped /\ ~DropsZeros
  /\ \E slot \in 0 .. alloc :
       /\ NextSlot(slot)
       /\ alloc' = IF slot = alloc THEN alloc + 1 ELSE alloc
       /\ pc' = IF slot = alloc THEN "header" ELSE "entry"
       /\ table' = [table EXCEPT ![Block] = slot]
       /\ used' = used \cup {slot}
  /\ mapped' = mapped + 1
  /\ op' = [op EXCEPT !.fresh = TRUE, !.todo = FillOrder]
  /\ UNCHANGED <<stack, fileVars, histVars>>

PersistHeader ==
  /\ pc = "header"
  /\ f_alloc' = alloc
  /\ pc' = "entry"
  /\ UNCHANGED <<stack, f_table, f_data, memVars, op, histVars>>

PersistEntry ==
  /\ pc = "entry"
  /\ f_table' = [f_table EXCEPT ![Block] = table[Block]]
  /\ pc' = "grow"
  /\ UNCHANGED <<stack, f_alloc, f_data, memVars, op, histVars>>

\* The file is made to cover the new block.
Grow ==
  /\ pc = "grow"
  /\ f_data' = Grown(f_data, (table[Block] + 1) * BlockCells)
  /\ pc' = "regions"
  /\ UNCHANGED <<stack, f_alloc, f_table, memVars, op, histVars>>

\* One region of the block: the caller's data, or what the rest of a new
\* block must read as (zeros; the base's bytes, read just before).
WriteRegion ==
  /\ pc = "regions"
  /\ LET r    == Head(op.todo)
         base == table[Block] * BlockCells
         from == base + Region(r)[1]
         to   == base + Region(r)[2]
     IN  f_data' = Written(f_data, from, to,
                     [k \in from .. to - 1 |->
                        IF r = "data" THEN op.buf[op.at + k - from] ELSE Unwritten])
  /\ op' = IF Len(op.todo) > 1 THEN [op EXCEPT !.todo = Tail(@)]
           ELSE [Advanced EXCEPT !.todo = << >>]
  /\ pc' = IF Len(op.todo) > 1 THEN "regions" ELSE "chunk"
  /\ UNCHANGED <<stack, f_alloc, f_table, memVars, histVars>>

\* The call returns: its cells hold its value.
FinishWrite ==
  /\ pc = "chunk" /\ op.at >= op.to
  /\ expect' = [c \in Cells |-> IF c \in op.from .. op.to - 1 THEN {op.buf[c]} ELSE expect[c]]
  /\ pc' = "idle" /\ op' = NoOp
  /\ UNCHANGED <<stack, fileVars, memVars, torn, calls, faults, crashes>>

-----------------------------------------------------------------------------
(* discard_range, and deallocate_block when the range is one mapped block. *)

\* The blocks the range covers whole.
BeginDiscard(from, to) ==
  /\ pc = "idle"
  /\ LET start == (from + BlockCells - 1) \div BlockCells
         end   == to \div BlockCells
         gone  == UNION {CellsOf(b) : b \in start .. end - 1}
     IN  /\ start < end
         /\ op' = [kind |-> "discard", at |-> start, to |-> end, cells |-> gone]
         /\ expect' = [c \in Cells |-> IF c \in gone THEN expect[c] \cup {Unwritten}
                                       ELSE expect[c]]
  /\ pc' = "free"
  /\ UNCHANGED <<stack, fileVars, memVars, torn, faults, crashes>>

\* Slip: the entry is cleared in memory only.
FreeBlockInMemory ==
  /\ pc = "free" /\ op.at < op.to
  /\ table' = [table EXCEPT ![op.at] = Unmapped]
  /\ used' = used \ {table[op.at]}
  /\ mapped' = IF table[op.at] = Unmapped THEN mapped ELSE mapped - 1
  /\ op' = [op EXCEPT !.at = @ + 1]
  /\ UNCHANGED <<stack, fileVars, alloc, pc, histVars>>

\* Slip: a block without a slot is released too.
FreeUnmapped ==
  /\ pc = "free" /\ op.at < op.to
  /\ table' = [table EXCEPT ![op.at] = Unmapped]
  /\ f_table' = [f_table EXCEPT ![op.at] = Unmapped]
  /\ used' = used \ {table[op.at]}
  /\ mapped' = mapped - 1
  /\ op' = [op EXCEPT !.at = @ + 1]
  /\ UNCHANGED <<stack, f_alloc, f_data, alloc, pc, histVars>>

\* deallocate_block_inner: the entry is cleared in memory and on disk, then
\* the slot is free.
FreeBlock ==
  /\ pc = "free" /\ op.at < op.to
  /\ table' = [table EXCEPT ![op.at] = Unmapped]
  /\ f_table' = [f_table EXCEPT ![op.at] = IF table[op.at] = Unmapped THEN @ ELSE Unmapped]
  /\ used' = used \ {table[op.at]}
  /\ mapped' = IF table[op.at] = Unmapped THEN mapped ELSE mapped - 1
  /\ op' = [op EXCEPT !.at = @ + 1]
  /\ UNCHANGED <<stack, f_alloc, f_data, alloc, pc, histVars>>

\* Slip: one slot is given back at a time.
TrimmedToOneLess(n) == n = IF alloc - 1 \in used \/ alloc = 0 THEN alloc ELSE alloc - 1

\* trim_trailing_free_phys: the mark just above the last slot in use.
TrimmedTo(n) ==
  /\ n \in 0 .. alloc
  /\ n = 0 \/ n - 1 \in used
  /\ \A s \in n .. alloc - 1 : s \notin used

FinishDiscard ==
  /\ expect' = [c \in Cells |-> IF c \in op.cells THEN {Unwritten} ELSE expect[c]]
  /\ pc' = "idle" /\ op' = NoOp
  /\ UNCHANGED <<torn, calls, faults, crashes>>

NothingToTrim ==
  /\ pc = "free" /\ op.at = op.to /\ TrimmedTo(alloc)
  /\ FinishDiscard
  /\ UNCHANGED <<stack, fileVars, memVars>>

Trim(n) ==
  /\ pc = "free" /\ op.at = op.to /\ n # alloc /\ TrimmedTo(n)
  /\ alloc' = n
  /\ UNCHANGED <<table, used, mapped>>

\* The header is persisted before the file is cut.
TrimHeader ==
  /\ \E n \in 0 .. alloc : Trim(n) /\ f_alloc' = n
  /\ pc' = "truncate"
  /\ UNCHANGED <<stack, f_table, f_data, op, histVars>>

\* Slip: the file is cut at the start of the last block in use.
TruncateLast ==
  /\ pc = "truncate"
  /\ f_data' = SubSeq(f_data, 1, Min({Len(f_data), (alloc - 1) * BlockCells}))
  /\ FinishDiscard
  /\ UNCHANGED <<stack, f_alloc, f_table, memVars>>

Truncate ==
  /\ pc = "truncate"
  /\ f_data' = SubSeq(f_data, 1, Min({Len(f_data), alloc * BlockCells}))
  /\ FinishDiscard
  /\ UNCHANGED <<stack, f_alloc, f_table, memVars>>

-----------------------------------------------------------------------------
(* Failures.                                                               *)

\* A new block is cut short when its allocation or its filling is.
CutShort == IF op.kind = "write" /\ op.fresh THEN torn \cup {Block} ELSE torn

\* A backend access fails and the call returns the error.  What it changed
\* in memory before the access stays.
Fault ==
  /\ faults < MaxFaults /\ faults' = faults + 1
  /\ \/ /\ pc \in {"header", "entry", "grow", "regions", "truncate"}
        /\ torn' = CutShort
        /\ UNCHANGED memVars
     \/ /\ pc = "free" /\ op.at < op.to /\ table[op.at] # Unmapped
        /\ table' = [table EXCEPT ![op.at] = Unmapped]
        /\ torn' = torn \cup {op.at}
        /\ UNCHANGED <<alloc, used, mapped>>
     \/ (\E n \in 0 .. alloc : Trim(n)) /\ torn' = torn
  /\ pc' = "idle" /\ op' = NoOp
  /\ UNCHANGED <<stack, fileVars, expect, calls, crashes>>

\* The process dies: its memory is gone.
Crash ==
  /\ pc \notin {"closed", "corrupt"}
  /\ crashes < MaxCrashes /\ crashes' = crashes + 1
  /\ alloc' = 0 /\ table' = [b \in Blocks |-> Unmapped] /\ used' = {} /\ mapped' = 0
  /\ torn' = CutShort
  /\ pc' = "closed" /\ op' = NoOp
  /\ UNCHANGED <<stack, fileVars, expect, calls, faults>>

\* open: the disk in memory is rebuilt from the file, or the file is rejected.
Open ==
  /\ pc = "closed"
  /\ IF OpenAccepts
     THEN /\ alloc' = f_alloc /\ table' = f_table /\ used' = SlotsIn(f_table)
          /\ mapped' = Cardinality(MappedIn(f_table))
          /\ pc' = "idle"
     ELSE UNCHANGED memVars /\ pc' = "corrupt"
  /\ UNCHANGED <<stack, fileVars, op, histVars>>

-----------------------------------------------------------------------------
Call ==
  /\ calls < MaxCalls /\ calls' = calls + 1
  /\ \E from, to \in 0 .. NumBlocks * BlockCells :
       \/ from < to /\ \E v \in Values : BeginWrite(from, to, [c \in from .. to - 1 |-> v])
       \/ BeginDiscard(from, to)

Step == SkipZeros \/ UseExisting \/ Allocate \/ PersistHeader \/ PersistEntry
        \/ Grow \/ WriteRegion \/ FinishWrite
        \/ FreeBlock \/ NothingToTrim \/ TrimHeader \/ Truncate

\* The bounded instance has made its calls, or its image is rejected.
Terminated ==
  /\ pc = "corrupt" \/ (pc = "idle" /\ calls = MaxCalls)
  /\ UNCHANGED vars

Next == Call \/ Step \/ Fault \/ Crash \/ Open \/ Terminated

Spec == Init /\ [][Next]_vars

-----------------------------------------------------------------------------
(* Properties.                                                             *)

TypeOK ==
  /\ stack \in Stacks
  /\ f_alloc \in Nat /\ f_table \in [Blocks -> Nat \cup {Unmapped}]
  /\ f_data \in Seq(Values \cup {0, BaseValue})
  /\ alloc \in Nat /\ table \in [Blocks -> Nat \cup {Unmapped}]
  /\ used \in SUBSET Nat /\ mapped \in Nat
  /\ pc \in {"idle", "chunk", "header", "entry", "grow", "regions", "free",
             "truncate", "closed", "corrupt"}
  /\ torn \subseteq Blocks

\* No two blocks share a slot, in memory or on disk, and every slot in use is
\* marked in the bitmap below the high-water mark, whatever failed or crashed:
\* so a write of one block cannot reach another's bytes.
SlotsNotShared ==
  /\ Injective(table) /\ Injective(f_table)
  /\ SlotsIn(table) \subseteq used /\ used \subseteq 0 .. alloc - 1

\* Without failures of the backend, a crash at any point leaves a table that
\* open's validation accepts: the order of header, entry and truncation.
TableSurvivesCrash == faults = 0 => TableAccepted

\* A crash between two calls leaves an image that opens.
IdleImageOpens == pc = "idle" /\ faults = 0 => OpenAccepts

\* Reads return what the calls wrote, also after failures, crashes and reuse
\* of slots; the only exception is a block whose allocation a failure or a
\* crash cut short, or whose release a failure did.
ReadsReturnWrites ==
  pc = "idle" => \A b \in Blocks \ torn : \A c \in CellsOf(b) : ReadCell(c) \in expect[c]

\* Discarded space is given back: every slot below the high-water mark is
\* either mapped or there is a mapped one above it.
SpaceIsReclaimed ==
  pc = "idle" /\ faults = 0 /\ crashes = 0 =>
    /\ used = SlotsIn(table) /\ mapped = Cardinality(MappedIn(table))
    /\ alloc = 0 \/ alloc - 1 \in used
    /\ Len(f_data) = alloc * BlockCells

\* The image never refers to data beyond its end, so that it opens after a
\* crash at any point: what trim_trailing_free_phys orders its writes for.
ImageOpens == faults = 0 => pc # "corrupt"

\* A block of the overlay holds the right bytes where no write touched it,
\* so that writing into it needs no read of the base.
ExistingBlocksKeepTheirBytes ==
  pc = "idle" => \A b \in MappedIn(table) : \A c \in CellsOf(b) : ReadCell(c) \in expect[c]
=============================================================================
