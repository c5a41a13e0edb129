-------------------------- MODULE SparseDiskProofs --------------------------
(***************************************************************************)
(* SparseDisk, proved for every size of the disk and any number of calls,  *)
(* failing accesses and crashes: who owns a slot, the types, that the      *)
(* image opens, that space is given back, and that reads return writes.    *)
(*                                                                         *)
(* SlotsNotShared is not inductive.  What the next slot must avoid is not  *)
(* only the slots of the table in memory but those the file still refers   *)
(* to: after a failed release the file maps a block that memory does not,  *)
(* and after a failed allocation it is the other way round.  In IInv the   *)
(* bitmap covers both tables, and no slot belongs to one block in memory   *)
(* and another on disk; so a block freed in memory frees no slot that the  *)
(* file uses elsewhere, and an entry copied to the file repeats none that  *)
(* is there.                                                               *)
(*                                                                         *)
(* What the image holds takes three more invariants, each on top of IInv.  *)
(* TInv gives the call in progress its shape: the cells before op.at are   *)
(* done, op.at is the start of the call or of a block, and op.todo is what *)
(* is left of the block.  FInv, without failing accesses, relates header,  *)
(* bitmap and file length at each step of an allocation and of a trim; the *)
(* mark stays below the number of blocks because the slots in use are      *)
(* exactly those of the table.  RInv follows the cells: memory and file    *)
(* map the same blocks but the one being allocated; the file holds what    *)
(* the calls wrote; the regions of a new block that are no longer in       *)
(* op.todo are filled; a write's cells before op.at hold its data, and a   *)
(* discard's blocks before op.at have no slot.                             *)
(***************************************************************************)
EXTENDS SparseDisk, FiniteSetTheorems, SequenceTheorems, TLAPS

Up == pc \notin {"closed", "corrupt"}
Filling == pc \in {"header", "entry", "grow", "regions"}
Entries == Nat \cup {Unmapped}

SlotTypes ==
  /\ alloc \in Nat /\ f_alloc \in Nat /\ used \in SUBSET Nat
  /\ table \in [Blocks -> Entries] /\ f_table \in [Blocks -> Entries]

\* The call in progress stays within the disk.
OpWithinDisk ==
  /\ Filling \/ pc = "chunk" =>
       /\ {"at", "to", "fresh", "todo"} \subseteq DOMAIN op
       /\ op.at \in Nat /\ op.to \in Nat /\ op.to <= NumBlocks * BlockCells
  /\ Filling => op.at < op.to
  /\ pc \in {"free", "truncate"} =>
       /\ {"at", "to"} \subseteq DOMAIN op
       /\ op.at \in Nat /\ op.to \in Nat /\ op.to <= NumBlocks

\* The bitmap covers both tables below the mark.
BitmapCovers ==
  Up => /\ \A s \in used : s < alloc
        /\ \A b \in Blocks : table[b] # Unmapped => table[b] \in used
        /\ \A b \in Blocks : f_table[b] # Unmapped => f_table[b] \in used

\* No slot has two blocks, in one table or across both.
OneBlockPerSlot ==
  /\ \A a, b \in Blocks : table[a] # Unmapped /\ table[a] = table[b] => a = b
  /\ \A a, b \in Blocks : f_table[a] # Unmapped /\ f_table[a] = f_table[b] => a = b
  /\ \A a, b \in Blocks : table[a] # Unmapped /\ table[a] = f_table[b] => a = b

\* A closed disk has nothing in memory.
ClosedIsEmpty == ~Up => used = {} /\ \A b \in Blocks : table[b] = Unmapped

IInv == SlotTypes /\ OpWithinDisk /\ BitmapCovers /\ OneBlockPerSlot /\ ClosedIsEmpty

-----------------------------------------------------------------------------
(* The steps of the disk, whoever calls it: Next of SparseDisk, or a step  *)
(* of the cache above, which writes blocks of different cells, and whose   *)
(* own steps leave the disk alone but may count a failed access.           *)

DataCells == Values \cup {0, BaseValue}

AnyCall ==
  \E from, to \in 0 .. NumBlocks * BlockCells :
    \/ from < to /\ \E buf \in [from .. to - 1 -> DataCells] : BeginWrite(from, to, buf)
    \/ BeginDiscard(from, to)

Rest ==
  /\ UNCHANGED <<stack, f_alloc, f_table, f_data, alloc, table, used, mapped, pc, op,
                 expect, torn, crashes>>
  /\ faults' \in {faults, faults + 1}

DiskNext == AnyCall \/ Step \/ Fault \/ Crash \/ Open \/ Rest

LEMMA CallIsAny == Call => AnyCall
<1> SUFFICES ASSUME NEW from \in 0 .. NumBlocks * BlockCells,
                    NEW to \in 0 .. NumBlocks * BlockCells, from < to, NEW v \in Values,
                    BeginWrite(from, to, [c \in from .. to - 1 |-> v])
             PROVE  AnyCall
  BY DEF Call, AnyCall
<1>1. [c \in from .. to - 1 |-> v] \in [from .. to - 1 -> DataCells]
  BY DEF DataCells
<1> QED
  BY <1>1 DEF AnyCall

LEMMA NextIsDiskNext == [Next]_vars => DiskNext
<1>1. UNCHANGED vars => Rest
  BY DEF vars, Rest
<1> QED
  BY <1>1, CallIsAny DEF Next, Terminated, DiskNext

-----------------------------------------------------------------------------
\* While a block is written or released, it is a block of the disk.
LEMMA BlockInDisk ==
  ASSUME OpWithinDisk
  PROVE  /\ (Filling \/ pc = "chunk") /\ op.at < op.to => Block \in Blocks
         /\ pc = "free" /\ op.at < op.to => op.at \in Blocks
<1>1. ASSUME NEW a \in Nat, a < NumBlocks * BlockCells PROVE a \div BlockCells \in Blocks
  BY <1>1, SparseDiskAssumption DEF Blocks
<1>2. NumBlocks * BlockCells \in Nat
  BY SparseDiskAssumption
<1>3. ASSUME Filling \/ pc = "chunk", op.at < op.to PROVE Block \in Blocks
  <2>1. op.at < NumBlocks * BlockCells
    BY <1>2, <1>3 DEF OpWithinDisk
  <2> QED
    BY <1>1, <1>3, <2>1 DEF OpWithinDisk, Block
<1>4. ASSUME pc = "free", op.at < op.to PROVE op.at \in Blocks
  BY <1>4, SparseDiskAssumption DEF OpWithinDisk, Blocks
<1> QED
  BY <1>3, <1>4

\* The end of the chunk just written is a cell number.
LEMMA AdvancedWithin ==
  ASSUME op.at \in Nat PROVE (Block + 1) * BlockCells \in Nat
BY SparseDiskAssumption DEF Block

LEMMA InitIInv == Init => IInv
BY DEF Init, IInv, SlotTypes, OpWithinDisk, BitmapCovers, OneBlockPerSlot, ClosedIsEmpty,
       Up, Filling, Entries, NoOp

\* A step that leaves the tables, the bitmap and the mark alone, and keeps
\* the disk open.
LEMMA TablesKept ==
  ASSUME IInv, Up, Up', UNCHANGED <<alloc, table, used, f_table>>, f_alloc' \in Nat,
         OpWithinDisk'
  PROVE  IInv'
BY DEF IInv, SlotTypes, BitmapCovers, OneBlockPerSlot, ClosedIsEmpty, Up

LEMMA AllocateStep == IInv /\ Allocate => IInv'
<1> SUFFICES ASSUME IInv, Allocate PROVE IInv'
  OBVIOUS
<1>1. Block \in Blocks /\ pc = "chunk" /\ op.at < op.to /\ table[Block] = Unmapped
  BY BlockInDisk DEF IInv, Allocate
<1>2. PICK slot \in 0 .. alloc :
        /\ NextSlot(slot)
        /\ alloc' = IF slot = alloc THEN alloc + 1 ELSE alloc
        /\ pc' = IF slot = alloc THEN "header" ELSE "entry"
        /\ table' = [table EXCEPT ![Block] = slot]
        /\ used' = used \cup {slot}
  BY DEF Allocate
<1>3. UNCHANGED <<f_table, f_alloc>> /\ op' = [op EXCEPT !.fresh = TRUE, !.todo = FillOrder]
  BY DEF Allocate, fileVars
<1>4. slot \notin used /\ slot \in Nat
  BY <1>2 DEF IInv, SlotTypes, BitmapCovers, NextSlot, FreeSlots, Allocate, Up
<1>5. slot < alloc'
  BY <1>2 DEF IInv, SlotTypes
<1>6. SlotTypes'
  BY <1>1, <1>2, <1>3, <1>4 DEF IInv, SlotTypes, Entries
<1>7. OpWithinDisk'
  <2>1. {"at", "to", "fresh", "todo"} \subseteq DOMAIN op
    BY <1>1 DEF IInv, OpWithinDisk
  <2>2. op'.at = op.at /\ op'.to = op.to /\ DOMAIN op' = DOMAIN op
    BY <1>3, <2>1
  <2> QED
    BY <1>1, <1>2, <2>1, <2>2 DEF IInv, OpWithinDisk, Filling
<1>8. BitmapCovers'
  <2>1. \A s \in used' : s < alloc'
    BY <1>1, <1>2, <1>5 DEF IInv, SlotTypes, BitmapCovers, Up
  <2> QED
    BY <1>1, <1>2, <1>3, <2>1 DEF IInv, SlotTypes, BitmapCovers, Up
<1>9. OneBlockPerSlot'
  BY <1>1, <1>2, <1>3, <1>4 DEF IInv, SlotTypes, OneBlockPerSlot, BitmapCovers, Up
<1> QED
  BY <1>2, <1>6, <1>7, <1>8, <1>9 DEF IInv, ClosedIsEmpty, Up

LEMMA PersistEntryStep == IInv /\ PersistEntry => IInv'
<1> SUFFICES ASSUME IInv, PersistEntry PROVE IInv'
  OBVIOUS
<1>1. Block \in Blocks
  BY BlockInDisk DEF IInv, PersistEntry, OpWithinDisk, Filling
<1>2. /\ f_table' = [f_table EXCEPT ![Block] = table[Block]]
      /\ UNCHANGED <<f_alloc, alloc, table, used, op>> /\ pc = "entry" /\ pc' = "grow"
  BY DEF PersistEntry, memVars
<1>3. SlotTypes' /\ BitmapCovers' /\ OneBlockPerSlot'
  BY <1>1, <1>2 DEF IInv, SlotTypes, BitmapCovers, OneBlockPerSlot, Up, Entries
<1>4. OpWithinDisk' /\ ClosedIsEmpty'
  BY <1>2 DEF IInv, OpWithinDisk, ClosedIsEmpty, Up, Filling
<1> QED
  BY <1>3, <1>4 DEF IInv

LEMMA FreeBlockStep == IInv /\ FreeBlock => IInv'
<1> SUFFICES ASSUME IInv, FreeBlock PROVE IInv'
  OBVIOUS
<1>1. op.at \in Blocks /\ pc = "free" /\ pc' = "free" /\ UNCHANGED <<alloc, f_alloc>>
  BY BlockInDisk DEF IInv, FreeBlock
<1>2. /\ table' = [table EXCEPT ![op.at] = Unmapped]
      /\ f_table' = [f_table EXCEPT ![op.at] = IF table[op.at] = Unmapped THEN f_table[op.at] ELSE Unmapped]
      /\ used' = used \ {table[op.at]}
      /\ op' = [op EXCEPT !.at = op.at + 1]
  BY DEF FreeBlock
<1>3. SlotTypes' /\ OneBlockPerSlot'
  BY <1>1, <1>2 DEF IInv, SlotTypes, OneBlockPerSlot, Entries
<1>4. BitmapCovers'
  BY <1>1, <1>2 DEF IInv, SlotTypes, BitmapCovers, OneBlockPerSlot, Up, Unmapped
<1>5. OpWithinDisk'
  <2>1. {"at", "to"} \subseteq DOMAIN op /\ op.at \in Nat
    BY <1>1 DEF IInv, OpWithinDisk
  <2>2. op'.at = op.at + 1 /\ op'.to = op.to /\ DOMAIN op' = DOMAIN op
    BY <1>2, <2>1
  <2> QED
    BY <1>1, <2>1, <2>2 DEF IInv, OpWithinDisk, Filling
<1> QED
  BY <1>1, <1>3, <1>4, <1>5 DEF IInv, ClosedIsEmpty, Up

LEMMA TrimStep ==
  ASSUME IInv, NEW n \in 0 .. alloc, Trim(n), f_table' = f_table, f_alloc' \in Nat,
         Up', OpWithinDisk'
  PROVE  IInv'
<1>1. \A s \in used : s < n
  BY DEF IInv, SlotTypes, BitmapCovers, Trim, TrimmedTo, Up
<1> QED
  BY <1>1 DEF IInv, SlotTypes, BitmapCovers, OneBlockPerSlot, ClosedIsEmpty, Trim, Up

LEMMA FaultStep == IInv /\ Fault => IInv'
<1> SUFFICES ASSUME IInv, Fault PROVE IInv'
  OBVIOUS
<1>1. pc' = "idle" /\ UNCHANGED <<f_table, f_alloc>>
  BY DEF Fault, fileVars
<1>2. OpWithinDisk' /\ Up' /\ f_alloc' \in Nat
  BY <1>1 DEF OpWithinDisk, Filling, Up, IInv, SlotTypes
<1>3. CASE pc \in {"header", "entry", "grow", "regions", "truncate"} /\ UNCHANGED memVars
  BY <1>1, <1>2, <1>3, TablesKept DEF memVars, Up
<1>4. CASE /\ pc = "free" /\ op.at < op.to
           /\ table' = [table EXCEPT ![op.at] = Unmapped]
           /\ UNCHANGED <<alloc, used>>
  <2>1. op.at \in Blocks
    BY <1>4, BlockInDisk DEF IInv
  <2> QED
    BY <1>1, <1>2, <1>4, <2>1
       DEF IInv, SlotTypes, BitmapCovers, OneBlockPerSlot, ClosedIsEmpty, Up, Entries
<1>5. CASE \E n \in 0 .. alloc : Trim(n)
  BY <1>1, <1>2, <1>5, TrimStep
<1> QED
  BY <1>3, <1>4, <1>5 DEF Fault

LEMMA OpenStep == IInv /\ Open => IInv'
<1> SUFFICES ASSUME IInv, Open PROVE IInv'
  OBVIOUS
<1>1. pc = "closed" /\ UNCHANGED <<f_table, f_alloc>>
  BY DEF Open, fileVars
<1>2. CASE OpenAccepts
  <2>1. alloc' = f_alloc /\ table' = f_table /\ used' = SlotsIn(f_table) /\ pc' = "idle"
    BY <1>2 DEF Open
  <2>2. \A s \in used' : s \in Nat /\ s < f_alloc
    BY <1>2, <2>1 DEF OpenAccepts, TableAccepted, IInv, SlotTypes
  <2> QED
    BY <1>1, <2>1, <2>2
       DEF IInv, SlotTypes, OpWithinDisk, BitmapCovers, OneBlockPerSlot, ClosedIsEmpty,
           Up, Filling, SlotsIn, MappedIn
<1>3. CASE ~OpenAccepts
  BY <1>1, <1>3 DEF Open, memVars, IInv, SlotTypes, OpWithinDisk, BitmapCovers,
                    OneBlockPerSlot, ClosedIsEmpty, Up, Filling
<1> QED
  BY <1>2, <1>3

\* A crash: an empty memory, and the file as it was.
LEMMA CrashStep == IInv /\ Crash => IInv'
BY DEF Crash, fileVars, IInv, SlotTypes, OpWithinDisk, BitmapCovers, OneBlockPerSlot,
       ClosedIsEmpty, Up, Filling, Entries

LEMMA CallStep == IInv /\ AnyCall => IInv'
<1> SUFFICES ASSUME IInv, NEW from \in 0 .. NumBlocks * BlockCells,
                    NEW to \in 0 .. NumBlocks * BlockCells
             PROVE  /\ \A buf : BeginWrite(from, to, buf) => IInv'
                    /\ BeginDiscard(from, to) => IInv'
  BY DEF AnyCall
<1>1. NumBlocks * BlockCells \in Nat /\ from \in Nat /\ to \in Nat
      /\ to <= NumBlocks * BlockCells
  BY SparseDiskAssumption
<1>2. ASSUME NEW buf, BeginWrite(from, to, buf) PROVE IInv'
  <2>1. OpWithinDisk'
    BY <1>1, <1>2 DEF BeginWrite, OpWithinDisk, Filling
  <2> QED
    BY <1>2, <2>1, TablesKept DEF BeginWrite, fileVars, memVars, Up, IInv, SlotTypes
<1>3. ASSUME BeginDiscard(from, to) PROVE IInv'
  <2> DEFINE start == (from + BlockCells - 1) \div BlockCells
             end == to \div BlockCells
  <2>1. op' = [kind |-> "discard", at |-> start, to |-> end,
               cells |-> UNION {CellsOf(b) : b \in start .. end - 1}]
        /\ pc = "idle" /\ pc' = "free"
    BY <1>3 DEF BeginDiscard
  <2>2. start \in Nat /\ end \in Nat /\ end <= NumBlocks
    BY <1>1, SparseDiskAssumption
  <2>3. OpWithinDisk'
    BY <2>1, <2>2 DEF OpWithinDisk, Filling
  <2> QED
    BY <1>3, <2>3, TablesKept DEF BeginDiscard, fileVars, memVars, Up, IInv, SlotTypes
<1> QED
  BY <1>2, <1>3

\* The steps of a call that touch neither table nor bitmap.
LEMMA OtherSteps ==
  IInv /\ (SkipZeros \/ UseExisting \/ PersistHeader \/ Grow \/ WriteRegion
           \/ FinishWrite \/ NothingToTrim \/ Truncate) => IInv'
<1> SUFFICES ASSUME IInv,
                    SkipZeros \/ UseExisting \/ PersistHeader \/ Grow \/ WriteRegion
                      \/ FinishWrite \/ NothingToTrim \/ Truncate
             PROVE  IInv'
  OBVIOUS
<1> USE TablesKept DEF fileVars, memVars, Up
<1>0. f_alloc \in Nat /\ alloc \in Nat /\ OpWithinDisk
  BY DEF IInv, SlotTypes
<1>1. CASE SkipZeros
  <2>1. {"at", "to", "fresh", "todo"} \subseteq DOMAIN op /\ op.at \in Nat
    BY <1>0, <1>1 DEF SkipZeros, OpWithinDisk
  <2>2. op' = Advanced /\ pc' = pc /\ pc = "chunk"
    BY <1>1 DEF SkipZeros
  <2>3. op'.at = (Block + 1) * BlockCells /\ op'.to = op.to /\ DOMAIN op' = DOMAIN op
    BY <2>1, <2>2 DEF Advanced
  <2>4. OpWithinDisk'
    BY <1>0, <2>1, <2>2, <2>3, AdvancedWithin DEF OpWithinDisk, Filling
  <2> QED
    BY <1>0, <1>1, <2>4 DEF SkipZeros
<1>2. CASE UseExisting
  <2>1. {"at", "to", "fresh", "todo"} \subseteq DOMAIN op
    BY <1>0, <1>2 DEF UseExisting, OpWithinDisk
  <2>2. op'.at = op.at /\ op'.to = op.to /\ DOMAIN op' = DOMAIN op
    BY <1>2, <2>1 DEF UseExisting
  <2>3. OpWithinDisk'
    BY <1>0, <1>2, <2>1, <2>2 DEF UseExisting, OpWithinDisk, Filling
  <2> QED
    BY <1>0, <1>2, <2>3 DEF UseExisting
<1>3. CASE PersistHeader
  BY <1>0, <1>3 DEF PersistHeader, OpWithinDisk, Filling
<1>4. CASE Grow
  BY <1>0, <1>4 DEF Grow, OpWithinDisk, Filling
<1>5. CASE WriteRegion
  <2>1. {"at", "to", "fresh", "todo"} \subseteq DOMAIN op /\ op.at \in Nat
    BY <1>0, <1>5 DEF WriteRegion, OpWithinDisk, Filling
  <2>2. CASE Len(op.todo) > 1
    <3>1. op' = [op EXCEPT !.todo = Tail(op.todo)] /\ pc' = "regions" /\ pc = "regions"
      BY <1>5, <2>2 DEF WriteRegion
    <3>2. op'.at = op.at /\ op'.to = op.to /\ DOMAIN op' = DOMAIN op
      BY <2>1, <3>1
    <3>3. OpWithinDisk'
      BY <1>0, <2>1, <3>1, <3>2 DEF OpWithinDisk, Filling
    <3> QED
      BY <1>0, <1>5, <3>1, <3>3 DEF WriteRegion
  <2>3. CASE ~(Len(op.todo) > 1)
    <3>1. op' = [Advanced EXCEPT !.todo = << >>] /\ pc' = "chunk" /\ pc = "regions"
      BY <1>5, <2>3 DEF WriteRegion
    <3>2. op'.at = (Block + 1) * BlockCells /\ op'.to = op.to /\ DOMAIN op' = DOMAIN op
      BY <2>1, <3>1 DEF Advanced
    <3>3. OpWithinDisk'
      BY <1>0, <2>1, <3>1, <3>2, AdvancedWithin DEF OpWithinDisk, Filling
    <3> QED
      BY <1>0, <1>5, <3>1, <3>3 DEF WriteRegion
  <2> QED
    BY <2>2, <2>3
<1>6. CASE FinishWrite
  BY <1>0, <1>6 DEF FinishWrite, OpWithinDisk, Filling
<1>7. CASE NothingToTrim
  BY <1>0, <1>7 DEF NothingToTrim, FinishDiscard, OpWithinDisk, Filling
<1>8. CASE Truncate
  BY <1>0, <1>8 DEF Truncate, FinishDiscard, OpWithinDisk, Filling
<1> QED
  BY <1>1, <1>2, <1>3, <1>4, <1>5, <1>6, <1>7, <1>8

LEMMA TrimHeaderStep == IInv /\ TrimHeader => IInv'
<1> SUFFICES ASSUME IInv, TrimHeader PROVE IInv'
  OBVIOUS
<1>1. PICK n \in 0 .. alloc : Trim(n) /\ f_alloc' = n
  BY DEF TrimHeader
<1>2. f_alloc' \in Nat /\ f_table' = f_table /\ Up'
  BY <1>1 DEF IInv, SlotTypes, TrimHeader, Up
<1>3. OpWithinDisk'
  BY <1>1 DEF IInv, OpWithinDisk, TrimHeader, Trim, Filling
<1> QED
  BY <1>1, <1>2, <1>3, TrimStep

LEMMA IInvStep == IInv /\ DiskNext => IInv'
<1> SUFFICES ASSUME IInv, DiskNext PROVE IInv'
  OBVIOUS
<1>1. CASE Step
  BY <1>1, AllocateStep, PersistEntryStep, FreeBlockStep, TrimHeaderStep, OtherSteps DEF Step
<1>2. CASE Rest
  BY <1>2 DEF Rest, IInv, SlotTypes, OpWithinDisk, BitmapCovers, OneBlockPerSlot,
              ClosedIsEmpty, Up, Filling
<1> QED
  BY <1>1, <1>2, CallStep, FaultStep, CrashStep, OpenStep DEF DiskNext

LEMMA SlotsByInv == IInv => SlotsNotShared
<1> SUFFICES ASSUME IInv PROVE SlotsNotShared
  OBVIOUS
<1>1. Injective(table) /\ Injective(f_table)
  BY DEF IInv, OneBlockPerSlot, Injective, MappedIn
<1>2. SlotsIn(table) \subseteq used
  BY DEF IInv, BitmapCovers, ClosedIsEmpty, SlotsIn, MappedIn, Up
<1>3. used \subseteq 0 .. alloc - 1
  BY DEF IInv, SlotTypes, BitmapCovers, ClosedIsEmpty, Up
<1> QED
  BY <1>1, <1>2, <1>3 DEF SlotsNotShared

\* No two blocks share a slot, in memory or on disk, and the bitmap marks
\* every slot in use below the high-water mark: for disks of any size, through
\* any sequence of writes, discards, failing backend accesses, crashes and
\* reopened images (find_free_phys_idx, ensure_block_allocated,
\* deallocate_block_inner, trim_trailing_free_phys, open).
THEOREM SlotsAreNotShared == Spec => []SlotsNotShared
BY SlotsByInv, NextIsDiskNext, InitIInv, IInvStep, PTL DEF Spec

-----------------------------------------------------------------------------
(* What an image holds.                                                    *)

Regions == {"prefix", "data", "suffix"}
Inside == 0 .. BlockCells - 1

\* Cell i of block b, and where cell i of slot s is in the data region.
Cell(b, i) == b * BlockCells + i
At(s, i) == s * BlockCells + i + 1

-----------------------------------------------------------------------------
(* Arithmetic of blocks and cells.                                         *)

LEMMA MaxOfTwo == ASSUME NEW a \in Int, NEW b \in Int
                  PROVE  Max({a, b}) = IF a >= b THEN a ELSE b
<1> DEFINE P(x) == x \in {a, b} /\ \A y \in {a, b} : x >= y
<1>1. P(IF a >= b THEN a ELSE b)
  OBVIOUS
<1>2. P(Max({a, b}))
  BY <1>1 DEF Max
<1> QED
  BY <1>2

LEMMA MinOfTwo == ASSUME NEW a \in Int, NEW b \in Int
                  PROVE  Min({a, b}) = IF a <= b THEN a ELSE b
<1> DEFINE P(x) == x \in {a, b} /\ \A y \in {a, b} : x <= y
<1>1. P(IF a <= b THEN a ELSE b)
  OBVIOUS
<1>2. P(Min({a, b}))
  BY <1>1 DEF Min
<1> QED
  BY <1>2

\* Blocks do not overlap.
LEMMA BlocksApart ==
  ASSUME NEW s \in Nat, NEW t \in Nat, s < t
  PROVE  (s + 1) * BlockCells <= t * BlockCells
<1>1. PICK d \in Nat : t = s + 1 + d
  <2>1. t - s - 1 \in Nat /\ t = s + 1 + (t - s - 1)
    OBVIOUS
  <2> QED
    BY <2>1
<1>2. (s + 1 + d) * BlockCells = (s + 1) * BlockCells + d * BlockCells
  BY SparseDiskAssumption
<1>3. d * BlockCells \in Nat /\ (s + 1) * BlockCells \in Nat
  BY SparseDiskAssumption
<1> QED
  BY <1>1, <1>2, <1>3

LEMMA BlockEnd == ASSUME NEW s \in Int
                  PROVE  (s + 1) * BlockCells = s * BlockCells + BlockCells
                         /\ s * BlockCells \in Int
BY SparseDiskAssumption

LEMMA BlockStart == ASSUME NEW s \in Nat PROVE s * BlockCells \in Nat
BY SparseDiskAssumption

LEMMA SlotsApart ==
  ASSUME NEW s \in Nat, NEW t \in Nat, NEW i \in Inside, NEW j \in Inside,
         At(s, i) = At(t, j)
  PROVE  s = t /\ i = j
<1>1. s * BlockCells \in Nat /\ t * BlockCells \in Nat
  BY BlockStart
<1>2. (s + 1) * BlockCells = s * BlockCells + BlockCells
      /\ (t + 1) * BlockCells = t * BlockCells + BlockCells
  BY BlockEnd
<1>3. ~(s < t)
  BY <1>1, <1>2, BlocksApart, SparseDiskAssumption DEF At, Inside
<1>4. ~(t < s)
  BY <1>1, <1>2, BlocksApart, SparseDiskAssumption DEF At, Inside
<1>5. s = t
  BY <1>3, <1>4
<1> QED
  BY <1>1, <1>5 DEF At, Inside

LEMMA CellsApart ==
  ASSUME NEW s \in Nat, NEW t \in Nat, NEW i \in Inside, NEW j \in Inside,
         Cell(s, i) = Cell(t, j)
  PROVE  s = t /\ i = j
BY SlotsApart DEF At, Cell

\* The cells of slot s end where the slot does.
LEMMA SlotWithin ==
  ASSUME NEW s \in Nat, NEW i \in Inside
  PROVE  /\ At(s, i) \in Nat /\ 1 <= At(s, i)
         /\ s * BlockCells < At(s, i) /\ At(s, i) <= (s + 1) * BlockCells
BY BlockStart, BlockEnd, SparseDiskAssumption DEF At, Inside

LEMMA SlotBelow ==
  ASSUME NEW s \in Nat, NEW i \in Inside, NEW n \in Nat, s < n
  PROVE  At(s, i) <= n * BlockCells
BY SlotWithin, BlocksApart, BlockStart DEF At, Inside

LEMMA CellType ==
  ASSUME NEW b \in Blocks, NEW i \in Inside
  PROVE  /\ Cell(b, i) \in Cells /\ Cell(b, i) \in Nat
         /\ Cell(b, i) \div BlockCells = b /\ Cell(b, i) % BlockCells = i
<1>1. b \in Nat /\ b < NumBlocks /\ NumBlocks \in Nat
  BY SparseDiskAssumption DEF Blocks
<1>2. Cell(b, i) \in Nat
  BY <1>1, BlockStart, SparseDiskAssumption DEF Cell, Inside
<1>3. At(b, i) <= NumBlocks * BlockCells
  BY <1>1, SlotBelow
<1>4. Cell(b, i) \in Cells
  BY <1>1, <1>2, <1>3, BlockStart DEF Cell, At, Cells, Inside
<1>5. \A q \in Nat, a \in Nat : a < BlockCells =>
        (q * BlockCells + a) \div BlockCells = q /\ (q * BlockCells + a) % BlockCells = a
  BY SparseDiskAssumption
<1> QED
  BY <1>1, <1>2, <1>4, <1>5, SparseDiskAssumption DEF Cell, Inside

\* A cell is a cell of its block.
LEMMA CellSplit ==
  ASSUME NEW a \in Nat
  PROVE  /\ a \div BlockCells \in Nat /\ a % BlockCells \in Inside
         /\ a = Cell(a \div BlockCells, a % BlockCells)
BY SparseDiskAssumption DEF Cell, Inside

-----------------------------------------------------------------------------
(* The regions of the block being written.                                 *)

Lo(r) == Region(r)[1]
Hi(r) == Region(r)[2]

\* What region r of a new block must read as in its cell i.
Put(r, i) == IF r = "data" THEN op.buf[Cell(Block, i)] ELSE Unwritten

Lists(q, r) == \E k \in 1 .. Len(q) : q[k] = r

\* The regions not written yet are those of op.todo.
Filled(r) == ~Lists(op.todo, r)

LEMMA RegionBounds ==
  /\ Lo("prefix") = 0 /\ Hi("prefix") = From
  /\ Lo("data") = From /\ Hi("data") = Upto
  /\ Lo("suffix") = Upto /\ Hi("suffix") = BlockCells
BY DEF Lo, Hi, Region

LEMMA ChunkBounds ==
  ASSUME op.at \in Nat, op.to \in Nat, op.at < op.to
  PROVE  /\ From \in Inside /\ Block \in Nat /\ op.at = Cell(Block, From)
         /\ Upto \in Nat /\ From < Upto /\ Upto <= BlockCells
         /\ Upto = IF BlockCells <= From + op.to - op.at THEN BlockCells
                   ELSE From + op.to - op.at
<1>1. From \in Inside /\ Block \in Nat /\ op.at = Cell(Block, From)
  BY CellSplit DEF From, Block
<1>2. Upto = IF BlockCells <= From + op.to - op.at THEN BlockCells ELSE From + op.to - op.at
  BY <1>1, MinOfTwo, SparseDiskAssumption DEF Upto, Inside
<1> QED
  BY <1>1, <1>2, SparseDiskAssumption DEF Inside

\* The data region holds the cells of the call that are in the block.
LEMMA ChunkCells ==
  ASSUME op.at \in Nat, op.to \in Nat, op.at < op.to, NEW i \in Inside
  PROVE  From <= i /\ i < Upto <=> op.at <= Cell(Block, i) /\ Cell(Block, i) < op.to
<1>1. Block * BlockCells \in Nat
  BY ChunkBounds, BlockStart
<1> QED
  BY <1>1, ChunkBounds, SparseDiskAssumption DEF Cell, Inside

\* Every cell of the block is in one region, and no region is reversed.
LEMMA RegionsCover ==
  ASSUME op.at \in Nat, op.to \in Nat, op.at < op.to
  PROVE  /\ \A r \in Regions : Lo(r) \in Nat /\ Hi(r) \in Nat
                               /\ Lo(r) <= Hi(r) /\ Hi(r) <= BlockCells
         /\ \A i \in Inside : \E r \in Regions : Lo(r) <= i /\ i < Hi(r)
         /\ \A r, q \in Regions : \A i \in Inside :
              Lo(r) <= i /\ i < Hi(r) /\ Lo(q) <= i /\ i < Hi(q) => r = q
<1>1. From \in Nat /\ Upto \in Nat /\ From < Upto /\ Upto <= BlockCells /\ BlockCells \in Nat
  BY ChunkBounds, SparseDiskAssumption DEF Inside
<1>2. \A r \in Regions : r = "prefix" \/ r = "data" \/ r = "suffix"
  BY DEF Regions
<1>3. \A r \in Regions : Lo(r) \in Nat /\ Hi(r) \in Nat /\ Lo(r) <= Hi(r) /\ Hi(r) <= BlockCells
  BY <1>1, <1>2, RegionBounds
<1>4. \A i \in Inside : \E r \in Regions : Lo(r) <= i /\ i < Hi(r)
  <2> SUFFICES ASSUME NEW i \in Inside PROVE \E r \in Regions : Lo(r) <= i /\ i < Hi(r)
    OBVIOUS
  <2>1. CASE i < From
    BY <1>1, <2>1, RegionBounds DEF Inside, Regions
  <2>2. CASE From <= i /\ i < Upto
    BY <1>1, <2>2, RegionBounds DEF Inside, Regions
  <2>3. CASE Upto <= i
    BY <1>1, <2>3, RegionBounds DEF Inside, Regions
  <2> QED
    BY <1>1, <2>1, <2>2, <2>3 DEF Inside
<1>5. \A r, q \in Regions : \A i \in Inside :
        Lo(r) <= i /\ i < Hi(r) /\ Lo(q) <= i /\ i < Hi(q) => r = q
  BY <1>1, <1>2, RegionBounds DEF Inside
<1> QED
  BY <1>3, <1>4, <1>5

LEMMA ListsBoth ==
  ASSUME NEW q \in Seq(Regions), NEW p \in Seq(Regions)
  PROVE  /\ q \o p \in Seq(Regions)
         /\ \A r : Lists(q, r) \/ Lists(p, r) => Lists(q \o p, r)
<1>1. q \o p \in Seq(Regions) /\ Len(q \o p) = Len(q) + Len(p)
  OBVIOUS
<1>2. \A k \in 1 .. Len(q) : (q \o p)[k] = q[k]
  OBVIOUS
<1>3. \A k \in 1 .. Len(p) : (q \o p)[Len(q) + k] = p[k]
  OBVIOUS
<1>4. Len(q) \in Nat /\ Len(p) \in Nat
  OBVIOUS
<1> QED
  BY <1>1, <1>2, <1>3, <1>4 DEF Lists

\* FillOrder lists the regions that are not empty.
LEMMA FillOrderCovers ==
  ASSUME op.at \in Nat, op.to \in Nat, op.at < op.to
  PROVE  /\ FillOrder \in Seq(Regions) /\ FillOrder # << >>
         /\ \A r \in Regions : Lo(r) < Hi(r) => Lists(FillOrder, r)
<1>1. \A r \in Regions : Part(r) \in Seq(Regions) /\ (Lo(r) < Hi(r) => Lists(Part(r), r))
  BY DEF Part, NonEmpty, Lo, Hi, Lists
<1> DEFINE p == Part("prefix")
           d == Part("data")
           x == Part("suffix")
<1>2. p \in Seq(Regions) /\ d \in Seq(Regions) /\ x \in Seq(Regions)
  BY <1>1 DEF Regions
<1>3. /\ Lo("prefix") < Hi("prefix") => Lists(p, "prefix")
      /\ Lo("data") < Hi("data") => Lists(d, "data")
      /\ Lo("suffix") < Hi("suffix") => Lists(x, "suffix")
  BY <1>1 DEF Regions
<1>4. FillOrder = (p \o d) \o x \/ FillOrder = (p \o x) \o d
  BY DEF FillOrder
<1> HIDE DEF p, d, x
<1>5. \A r \in Regions : r = "prefix" \/ r = "data" \/ r = "suffix"
  BY DEF Regions
<1>6. FillOrder \in Seq(Regions) /\ \A r : Lists(p, r) \/ Lists(d, r) \/ Lists(x, r) => Lists(FillOrder, r)
  <2>1. p \o d \in Seq(Regions) /\ p \o x \in Seq(Regions)
        /\ \A r : /\ Lists(p, r) \/ Lists(d, r) => Lists(p \o d, r)
                  /\ Lists(p, r) \/ Lists(x, r) => Lists(p \o x, r)
    BY <1>2, ListsBoth
  <2>2. CASE FillOrder = (p \o d) \o x
    <3>1. (p \o d) \o x \in Seq(Regions)
          /\ \A r : Lists(p \o d, r) \/ Lists(x, r) => Lists((p \o d) \o x, r)
      BY <1>2, <2>1, ListsBoth
    <3> QED
      BY <2>1, <2>2, <3>1, Zenon
  <2>3. CASE FillOrder = (p \o x) \o d
    <3>1. (p \o x) \o d \in Seq(Regions)
          /\ \A r : Lists(p \o x, r) \/ Lists(d, r) => Lists((p \o x) \o d, r)
      BY <1>2, <2>1, ListsBoth
    <3> QED
      BY <2>1, <2>3, <3>1, Zenon
  <2> QED
    BY <1>4, <2>2, <2>3
<1>7. \A r \in Regions : Lo(r) < Hi(r) => Lists(FillOrder, r)
  BY <1>3, <1>5, <1>6
<1>8. Lo("data") < Hi("data")
  BY ChunkBounds, RegionBounds
<1>9. Lists(FillOrder, "data")
  BY <1>7, <1>8 DEF Regions
<1>10. FillOrder # << >>
  BY <1>9 DEF Lists
<1> QED
  BY <1>6, <1>7, <1>10

-----------------------------------------------------------------------------
(* Writes to the data region.                                              *)

LEMMA WrittenCells ==
  ASSUME NEW S, NEW data \in Seq(S), 0 \in S, NEW from \in Nat, NEW to \in Nat, from <= to,
         NEW cells, \A k \in from .. to - 1 : cells[k] \in S
  PROVE  /\ Written(data, from, to, cells) \in Seq(S)
         /\ Len(Written(data, from, to, cells)) = IF Len(data) >= to THEN Len(data) ELSE to
         /\ \A k \in from .. to - 1 : Written(data, from, to, cells)[k + 1] = cells[k]
         /\ \A k \in 1 .. Len(data) : k - 1 \notin from .. to - 1
                                       => Written(data, from, to, cells)[k] = data[k]
<1> DEFINE n == Max({Len(data), to})
           w == [k \in 1 .. n |-> IF k - 1 \in from .. to - 1 THEN cells[k - 1]
                                  ELSE IF k <= Len(data) THEN data[k] ELSE 0]
<1>1. n = IF Len(data) >= to THEN Len(data) ELSE to
  BY MaxOfTwo
<1>2. Written(data, from, to, cells) = w
  BY DEF Written
<1>3. n \in Nat
  BY <1>1
<1> HIDE DEF n
<1>4. \A k \in 1 .. n : w[k] \in S
  OBVIOUS
<1>5. w \in [1 .. n -> S]
  BY <1>4
<1>6. w \in Seq(S) /\ Len(w) = n
  BY <1>3, <1>5
<1>7. \A k \in from .. to - 1 : w[k + 1] = cells[k]
  BY <1>1, <1>3
<1>8. \A k \in 1 .. Len(data) : k - 1 \notin from .. to - 1 => w[k] = data[k]
  BY <1>1, <1>3
<1> HIDE DEF w
<1> QED
  BY <1>1, <1>2, <1>6, <1>7, <1>8

-----------------------------------------------------------------------------
(* The types, and the shape of the call in progress.                       *)

Writing == Filling \/ pc = "chunk"

\* write_at has done the cells before op.at; it stops at a block's start.
WriteShape ==
  /\ DOMAIN op = {"kind", "at", "to", "buf", "from", "fresh", "todo"}
  /\ op.kind = "write" /\ op.from \in Nat /\ op.to \in Nat /\ op.at \in Nat
  /\ op.from <= op.at /\ op.from < op.to
  /\ op.at = op.from \/ From = 0
  /\ op.buf \in [op.from .. op.to - 1 -> DataCells]
  /\ op.fresh \in BOOLEAN

\* What is left of the block: all of it until the file covers it.
TodoShape ==
  /\ pc = "chunk" => ~op.fresh
  /\ Filling => op.todo \in Seq(Regions) /\ op.todo # << >> /\ table[Block] # Unmapped
  /\ pc \in {"header", "entry", "grow"} => op.fresh /\ op.todo = FillOrder
  /\ Filling /\ ~op.fresh => op.todo = <<"data">>

DiscardShape ==
  /\ DOMAIN op = {"kind", "at", "to", "cells"}
  /\ op.kind = "discard" /\ op.at \in Nat /\ op.to \in Nat /\ op.at <= op.to
  /\ pc = "truncate" => op.at = op.to

OpShape ==
  /\ Writing => WriteShape /\ TodoShape
  /\ pc \in {"free", "truncate"} => DiscardShape
  /\ pc \in {"idle", "closed", "corrupt"} => op = NoOp

OtherTypes ==
  /\ stack \in Stacks /\ f_data \in Seq(DataCells) /\ torn \subseteq Blocks
  /\ faults \in Nat /\ crashes \in Nat
  /\ pc \in {"idle", "chunk", "header", "entry", "grow", "regions", "free",
             "truncate", "closed", "corrupt"}

\* A failed release leaves a block counted that is no longer mapped.
MappedCounted == mapped \in Nat /\ Cardinality(MappedIn(table)) <= mapped

TInv == OpShape /\ OtherTypes /\ MappedCounted

\* The chunk is where it was while the call stays at op.at.
LEMMA ChunkKept ==
  ASSUME op'.at = op.at, op'.to = op.to, stack' = stack
  PROVE  /\ Block' = Block /\ From' = From /\ Upto' = Upto /\ FillOrder' = FillOrder
         /\ \A r \in Regions : Lo(r)' = Lo(r) /\ Hi(r)' = Hi(r)
<1>1. Block' = Block /\ From' = From /\ Upto' = Upto
  BY DEF Block, From, Upto
<1>2. \A r \in Regions : r = "prefix" \/ r = "data" \/ r = "suffix"
  BY DEF Regions
<1>3. \A r \in Regions : Region(r)' = Region(r)
  BY <1>1, <1>2 DEF Region
<1>4. Part("prefix")' = Part("prefix") /\ Part("data")' = Part("data")
      /\ Part("suffix")' = Part("suffix")
  BY <1>1, <1>3 DEF Part, NonEmpty, Regions
<1>5. FillOrder' = FillOrder
  BY <1>4 DEF FillOrder
<1> QED
  BY <1>1, <1>3, <1>5 DEF Lo, Hi

\* The call moves on to the next block.
LEMMA AdvancedShape ==
  ASSUME WriteShape, NEW t, op' = [Advanced EXCEPT !.todo = t] \/ op' = Advanced
  PROVE  /\ WriteShape' /\ ~op'.fresh /\ op'.at = (Block + 1) * BlockCells
         /\ op'.to = op.to /\ op'.from = op.from /\ op'.buf = op.buf /\ op'.kind = "write"
<1>1. DOMAIN op = {"kind", "at", "to", "buf", "from", "fresh", "todo"}
  BY DEF WriteShape
<1>2. /\ DOMAIN op' = DOMAIN op /\ op'.kind = op.kind /\ op'.from = op.from /\ op'.to = op.to
      /\ op'.buf = op.buf /\ op'.fresh = FALSE /\ op'.at = (Block + 1) * BlockCells
  <2>1. CASE op' = Advanced
    BY <1>1, <2>1 DEF Advanced
  <2>2. CASE op' = [Advanced EXCEPT !.todo = t]
    BY <1>1, <2>2 DEF Advanced
  <2> QED
    BY <2>1, <2>2
<1>3. op.at < op'.at /\ op'.at \in Nat
  <2>1. op.at \in Nat
    BY DEF WriteShape
  <2>2. Block \in Nat /\ From \in Inside /\ op.at = Cell(Block, From)
    BY <2>1, CellSplit DEF Block, From
  <2> QED
    BY <1>2, <2>2, BlockEnd, BlockStart, SparseDiskAssumption DEF Cell, Inside
<1>4. From' = 0
  <2>1. \A q \in Nat : (q * BlockCells) % BlockCells = 0
    BY SparseDiskAssumption
  <2>2. Block + 1 \in Nat
    BY CellSplit DEF Block, WriteShape
  <2> QED
    BY <1>2, <2>1, <2>2 DEF From
<1>5. op'.from <= op'.at
  BY <1>2, <1>3 DEF WriteShape
<1> QED
  BY <1>2, <1>3, <1>4, <1>5 DEF WriteShape

\* The call stays at its block.
LEMMA HeldShape ==
  ASSUME WriteShape, stack' = stack, NEW t, op' = [op EXCEPT !.todo = t]
  PROVE  /\ WriteShape' /\ op'.fresh = op.fresh /\ op'.todo = t
         /\ op'.at = op.at /\ op'.to = op.to /\ op'.from = op.from /\ op'.buf = op.buf
         /\ op'.kind = "write"
<1>1. DOMAIN op = {"kind", "at", "to", "buf", "from", "fresh", "todo"}
  BY DEF WriteShape
<1>2. /\ DOMAIN op' = DOMAIN op /\ op'.kind = op.kind /\ op'.from = op.from /\ op'.to = op.to
      /\ op'.buf = op.buf /\ op'.fresh = op.fresh /\ op'.at = op.at /\ op'.todo = t
  BY <1>1
<1>3. From' = From
  BY <1>2, ChunkKept
<1> QED
  BY <1>2, <1>3 DEF WriteShape

\* The call has a new block to fill.
LEMMA FreshShape ==
  ASSUME WriteShape, stack' = stack, NEW t, op' = [op EXCEPT !.fresh = TRUE, !.todo = t]
  PROVE  /\ WriteShape' /\ op'.fresh = TRUE /\ op'.todo = t
         /\ op'.at = op.at /\ op'.to = op.to /\ op'.from = op.from /\ op'.buf = op.buf
         /\ op'.kind = "write"
<1>1. DOMAIN op = {"kind", "at", "to", "buf", "from", "fresh", "todo"}
  BY DEF WriteShape
<1>2. /\ DOMAIN op' = DOMAIN op /\ op'.kind = op.kind /\ op'.from = op.from /\ op'.to = op.to
      /\ op'.buf = op.buf /\ op'.fresh = TRUE /\ op'.at = op.at /\ op'.todo = t
  BY <1>1
<1>3. From' = From
  BY <1>2, ChunkKept
<1> QED
  BY <1>2, <1>3 DEF WriteShape

-----------------------------------------------------------------------------
LEMMA InDisk ==
  ASSUME IInv, TInv
  PROVE  /\ Writing => WriteShape /\ TodoShape /\ op.to <= NumBlocks * BlockCells
         /\ Filling => op.at < op.to
         /\ Writing /\ op.at < op.to => Block \in Blocks
         /\ pc \in {"free", "truncate"} => DiscardShape /\ op.to <= NumBlocks
         /\ pc = "free" /\ op.at < op.to => op.at \in Blocks
         /\ Up => pc \notin {"closed", "corrupt"}
BY BlockInDisk DEF IInv, OpWithinDisk, TInv, OpShape, Writing, Up

\* Filling goes on at the same block: what is left of it is given.
LEMMA TodoHeld ==
  ASSUME WriteShape, WriteShape', Filling', op'.at = op.at, op'.to = op.to, stack' = stack,
         op'.todo \in Seq(Regions), op'.todo # << >>, table'[Block] # Unmapped,
         pc' \in {"header", "entry", "grow"} => op'.fresh /\ op'.todo = FillOrder,
         ~op'.fresh => op'.todo = <<"data">>, pc' # "idle"
  PROVE  OpShape'
<1>1. Block' = Block /\ FillOrder' = FillOrder
  BY ChunkKept
<1>2. TodoShape'
  BY <1>1 DEF TodoShape, Filling
<1> QED
  BY <1>2 DEF OpShape, Filling

LEMMA OpShapeSteps ==
  ASSUME IInv, TInv, Step PROVE OpShape'
<1> USE InDisk DEF Writing, Filling
<1>1. CASE SkipZeros
  <2>1. pc = "chunk" /\ pc' = pc /\ op' = Advanced
    BY <1>1 DEF SkipZeros
  <2>2. WriteShape' /\ ~op'.fresh
    BY <2>1, AdvancedShape
  <2> QED
    BY <2>1, <2>2 DEF OpShape, TodoShape
<1>2. CASE UseExisting
  <2>1. pc = "chunk" /\ pc' = "regions" /\ op' = [op EXCEPT !.todo = <<"data">>]
        /\ table' = table /\ stack' = stack /\ table[Block] # Unmapped
    BY <1>2 DEF UseExisting, memVars
  <2>2. WriteShape /\ TodoShape
    BY <2>1
  <2>3. op.fresh \in BOOLEAN
    BY <2>2 DEF WriteShape
  <2>4. WriteShape' /\ op'.fresh = op.fresh /\ op'.todo = <<"data">>
        /\ op'.at = op.at /\ op'.to = op.to
    BY <2>1, <2>2, <2>3, HeldShape
  <2>5. <<"data">> \in Seq(Regions) /\ <<"data">> # << >>
    BY DEF Regions
  <2> QED
    BY <2>1, <2>2, <2>4, <2>5, TodoHeld
<1>3. CASE Allocate
  <2>1. /\ pc = "chunk" /\ pc' \in {"header", "entry"} /\ stack' = stack /\ op.at < op.to
        /\ op' = [op EXCEPT !.fresh = TRUE, !.todo = FillOrder]
    BY <1>3 DEF Allocate
  <2>2. WriteShape /\ TodoShape /\ Block \in Blocks
    BY <2>1
  <2>3. WriteShape' /\ op'.fresh = TRUE /\ op'.todo = FillOrder
        /\ op'.at = op.at /\ op'.to = op.to
    <3> DEFINE t == FillOrder
    <3>1. op' = [op EXCEPT !.fresh = TRUE, !.todo = t] /\ stack' = stack /\ WriteShape
      BY <2>1, <2>2
    <3> HIDE DEF t
    <3>2. WriteShape' /\ op'.fresh = TRUE /\ op'.todo = t /\ op'.at = op.at /\ op'.to = op.to
      BY <3>1, FreshShape
    <3> QED
      BY <3>2 DEF t
  <2>4. FillOrder \in Seq(Regions) /\ FillOrder # << >>
    BY <2>1, <2>2, FillOrderCovers DEF WriteShape
  <2>5. table'[Block] # Unmapped
    <3>1. PICK slot \in 0 .. alloc : table' = [table EXCEPT ![Block] = slot]
      BY <1>3 DEF Allocate
    <3> QED
      BY <2>2, <3>1 DEF IInv, SlotTypes, Unmapped
  <2> QED
    BY <2>1, <2>2, <2>3, <2>4, <2>5, TodoHeld
<1>4. CASE PersistHeader \/ PersistEntry \/ Grow
  <2>1. /\ pc \in {"header", "entry", "grow"} /\ pc' \in {"entry", "grow", "regions"}
        /\ UNCHANGED <<stack, table, op>>
    BY <1>4 DEF PersistHeader, PersistEntry, Grow, memVars
  <2>2. WriteShape /\ TodoShape
    BY <2>1
  <2>3. From' = From
    BY <2>1, ChunkKept
  <2>4. WriteShape'
    BY <2>1, <2>2, <2>3 DEF WriteShape
  <2> QED
    BY <2>1, <2>2, <2>4, TodoHeld DEF TodoShape
<1>5. CASE WriteRegion
  <2>1. pc = "regions" /\ UNCHANGED <<stack, table>>
    BY <1>5 DEF WriteRegion, memVars
  <2>2. WriteShape /\ TodoShape /\ op.todo \in Seq(Regions) /\ op.todo # << >>
    BY <2>1 DEF TodoShape
  <2>3. CASE Len(op.todo) > 1
    <3>1. op' = [op EXCEPT !.todo = Tail(op.todo)] /\ pc' = "regions"
      BY <1>5, <2>3 DEF WriteRegion
    <3>2. op.fresh \in BOOLEAN /\ op.fresh
      <4>1. op.fresh \in BOOLEAN
        BY <2>2 DEF WriteShape
      <4>2. ~op.fresh => op.todo = <<"data">>
        BY <2>1, <2>2 DEF TodoShape
      <4>3. \A q : q = <<"data">> => ~(Len(q) > 1)
        OBVIOUS
      <4>4. op.todo # <<"data">>
        BY <2>3, <4>3
      <4> QED
        BY <4>1, <4>2, <4>4
    <3>3. WriteShape' /\ op'.fresh = op.fresh /\ op'.todo = Tail(op.todo)
          /\ op'.at = op.at /\ op'.to = op.to
      BY <2>1, <2>2, <3>1, <3>2, HeldShape
    <3>4. Tail(op.todo) \in Seq(Regions) /\ Tail(op.todo) # << >>
      <4>1. Tail(op.todo) \in Seq(Regions) /\ Len(Tail(op.todo)) = Len(op.todo) - 1
        BY <2>2, HeadTailProperties
      <4>2. Len(op.todo) \in Nat
        BY <2>2
      <4> QED
        BY <2>3, <4>1, <4>2
    <3> QED
      BY <2>1, <2>2, <3>1, <3>2, <3>3, <3>4, TodoHeld DEF TodoShape
  <2>4. CASE ~(Len(op.todo) > 1)
    <3>1. op' = [Advanced EXCEPT !.todo = << >>] /\ pc' = "chunk"
      BY <1>5, <2>4 DEF WriteRegion
    <3>2. WriteShape' /\ ~op'.fresh
      BY <2>2, <3>1, AdvancedShape
    <3> QED
      BY <3>1, <3>2 DEF OpShape, TodoShape
  <2> QED
    BY <2>3, <2>4
<1>6. CASE FinishWrite \/ NothingToTrim \/ Truncate
  <2>1. pc' = "idle" /\ op' = NoOp
    BY <1>6 DEF FinishWrite, NothingToTrim, Truncate, FinishDiscard
  <2> QED
    BY <2>1 DEF OpShape, NoOp
<1>7. CASE FreeBlock
  <2>1. pc = "free" /\ pc' = "free" /\ op.at < op.to /\ op' = [op EXCEPT !.at = op.at + 1]
    BY <1>7 DEF FreeBlock
  <2>2. DiscardShape
    BY <2>1
  <2> QED
    BY <2>1, <2>2 DEF OpShape, DiscardShape
<1>8. CASE TrimHeader
  <2>1. pc = "free" /\ pc' = "truncate" /\ op.at = op.to /\ op' = op
    BY <1>8 DEF TrimHeader, Trim
  <2> QED
    BY <2>1 DEF OpShape, DiscardShape
<1> QED
  BY <1>1, <1>2, <1>3, <1>4, <1>5, <1>6, <1>7, <1>8 DEF Step

LEMMA OpShapeCall ==
  ASSUME IInv, TInv, AnyCall PROVE OpShape'
<1>1. PICK from \in 0 .. NumBlocks * BlockCells, to \in 0 .. NumBlocks * BlockCells :
        \/ from < to /\ \E buf \in [from .. to - 1 -> DataCells] : BeginWrite(from, to, buf)
        \/ BeginDiscard(from, to)
  BY DEF AnyCall
<1>2. NumBlocks * BlockCells \in Nat /\ from \in Nat /\ to \in Nat
  BY SparseDiskAssumption
<1>3. CASE from < to /\ \E buf \in [from .. to - 1 -> DataCells] : BeginWrite(from, to, buf)
  <2>1. PICK buf \in [from .. to - 1 -> DataCells] : BeginWrite(from, to, buf)
    BY <1>3
  <2>2. /\ op' = [kind |-> "write", at |-> from, to |-> to, buf |-> buf,
                  from |-> from, fresh |-> FALSE, todo |-> << >>]
        /\ pc' = "chunk"
    BY <2>1 DEF BeginWrite
  <2>3. WriteShape'
    BY <1>2, <1>3, <2>2 DEF WriteShape
  <2> QED
    BY <2>2, <2>3 DEF OpShape, TodoShape, Filling
<1>4. CASE BeginDiscard(from, to)
  <2> DEFINE start == (from + BlockCells - 1) \div BlockCells
             end == to \div BlockCells
  <2>1. op' = [kind |-> "discard", at |-> start, to |-> end,
               cells |-> UNION {CellsOf(b) : b \in start .. end - 1}]
        /\ pc' = "free" /\ start < end
    BY <1>4 DEF BeginDiscard
  <2>2. start \in Nat /\ end \in Nat
    BY <1>2, SparseDiskAssumption
  <2> HIDE DEF start, end
  <2> QED
    BY <2>1, <2>2 DEF OpShape, DiscardShape, Writing, Filling
<1> QED
  BY <1>1, <1>3, <1>4

-----------------------------------------------------------------------------
(* What each step does to the data region.                                 *)

LEMMA PutType ==
  ASSUME WriteShape, op.at < op.to, NEW r \in Regions, NEW i \in Inside,
         Lo(r) <= i, i < Hi(r)
  PROVE  Put(r, i) \in DataCells
<1>1. CASE r = "data"
  <2>1. op.at <= Cell(Block, i) /\ Cell(Block, i) < op.to
    BY <1>1, RegionBounds, ChunkCells DEF WriteShape
  <2>2. Cell(Block, i) \in Nat
    <3>1. Block \in Nat
      BY ChunkBounds DEF WriteShape
    <3>2. Block * BlockCells \in Nat
      BY <3>1, BlockStart
    <3> QED
      BY <3>2, SparseDiskAssumption DEF Cell, Inside
  <2>3. Cell(Block, i) \in op.from .. op.to - 1
    BY <2>1, <2>2 DEF WriteShape
  <2>4. op.buf[Cell(Block, i)] \in DataCells
    BY <2>3 DEF WriteShape
  <2> QED
    BY <1>1, <2>4 DEF Put
<1>2. CASE r # "data"
  BY <1>2 DEF Put, DataCells, Unwritten
<1> QED
  BY <1>1, <1>2

\* WriteRegion writes the cells of the first region of op.todo in the block's
\* slot, and no other cell.
LEMMA RegionWritten ==
  ASSUME IInv, TInv, WriteRegion, NEW r, r = Head(op.todo), NEW s, s = table[Block]
  PROVE  /\ r \in Regions /\ s \in Nat /\ f_data' \in Seq(DataCells)
         /\ Len(f_data') = IF Len(f_data) >= s * BlockCells + Hi(r) THEN Len(f_data)
                           ELSE s * BlockCells + Hi(r)
         /\ \A i \in Inside : Lo(r) <= i /\ i < Hi(r) => f_data'[At(s, i)] = Put(r, i)
         /\ \A t \in Nat, i \in Inside :
              At(t, i) <= Len(f_data) /\ ~(t = s /\ Lo(r) <= i /\ i < Hi(r))
                => f_data'[At(t, i)] = f_data[At(t, i)]
<1>1. pc = "regions" /\ WriteShape /\ TodoShape /\ op.at < op.to /\ Block \in Blocks
      /\ op.at \in Nat /\ op.to \in Nat
  BY InDisk DEF WriteRegion, Writing, Filling, WriteShape
<1>2. r \in Regions
  BY <1>1, HeadTailProperties DEF TodoShape, Filling
<1>3. s \in Nat
  BY <1>1 DEF TodoShape, Filling, IInv, SlotTypes, Entries, Unmapped
<1> DEFINE base == s * BlockCells
           from == base + Lo(r)
           to == base + Hi(r)
           cells == [k \in from .. to - 1 |->
                       IF r = "data" THEN op.buf[op.at + k - from] ELSE Unwritten]
<1>4. f_data' = Written(f_data, from, to, cells)
  BY DEF WriteRegion, Lo, Hi
<1>5. base \in Nat /\ Lo(r) \in Nat /\ Hi(r) \in Nat /\ Lo(r) <= Hi(r) /\ Hi(r) <= BlockCells
  BY <1>1, <1>2, <1>3, BlockStart, RegionsCover
<1>6. \A i \in Inside : Lo(r) <= i /\ i < Hi(r) =>
        base + i \in from .. to - 1 /\ cells[base + i] = Put(r, i)
  <2> SUFFICES ASSUME NEW i \in Inside, Lo(r) <= i, i < Hi(r)
               PROVE  base + i \in from .. to - 1 /\ cells[base + i] = Put(r, i)
    OBVIOUS
  <2>1. base + i \in from .. to - 1
    BY <1>5 DEF Inside
  <2>2. cells[base + i] = IF r = "data" THEN op.buf[op.at + (base + i) - from] ELSE Unwritten
    BY <2>1
  <2>3. r = "data" => op.at + (base + i) - from = Cell(Block, i)
    <3>1. op.at = Cell(Block, From) /\ From \in Inside /\ Block \in Nat
      BY <1>1, ChunkBounds
    <3>2. Block * BlockCells \in Nat
      BY <3>1, BlockStart
    <3>3. r = "data" => Lo(r) = From
      BY RegionBounds
    <3> QED
      BY <1>5, <3>1, <3>2, <3>3 DEF Cell, Inside
  <2> QED
    BY <2>1, <2>2, <2>3 DEF Put
<1>7. \A k \in from .. to - 1 : k - base \in Inside /\ Lo(r) <= k - base /\ k - base < Hi(r)
                                /\ k = base + (k - base)
  BY <1>5, SparseDiskAssumption DEF Inside
<1>8. from \in Nat /\ to \in Nat /\ from <= to
  BY <1>5
<1> HIDE DEF base, from, to, cells
<1>9. \A k \in from .. to - 1 : cells[k] \in DataCells
  <2> SUFFICES ASSUME NEW k \in from .. to - 1 PROVE cells[k] \in DataCells
    OBVIOUS
  <2>1. PICK i \in Inside : Lo(r) <= i /\ i < Hi(r) /\ k = base + i
    BY <1>7
  <2> QED
    BY <1>1, <1>2, <1>6, <2>1, PutType
<1>10. f_data \in Seq(DataCells) /\ 0 \in DataCells
  BY DEF TInv, OtherTypes, DataCells
<1>11. /\ f_data' \in Seq(DataCells)
       /\ Len(f_data') = IF Len(f_data) >= to THEN Len(f_data) ELSE to
       /\ \A k \in from .. to - 1 : f_data'[k + 1] = cells[k]
       /\ \A k \in 1 .. Len(f_data) : k - 1 \notin from .. to - 1 => f_data'[k] = f_data[k]
  BY <1>4, <1>8, <1>9, <1>10, WrittenCells
<1>12. \A i \in Inside : Lo(r) <= i /\ i < Hi(r) => f_data'[At(s, i)] = Put(r, i)
  BY <1>6, <1>11 DEF At, base
<1>13. ASSUME NEW t \in Nat, NEW i \in Inside, At(t, i) <= Len(f_data),
              ~(t = s /\ Lo(r) <= i /\ i < Hi(r))
       PROVE  f_data'[At(t, i)] = f_data[At(t, i)]
  <2>1. At(t, i) \in 1 .. Len(f_data)
    BY <1>13, SlotWithin
  <2>2. ASSUME At(t, i) - 1 \in from .. to - 1 PROVE FALSE
    <3>1. PICK j \in Inside : Lo(r) <= j /\ j < Hi(r) /\ At(t, i) - 1 = base + j
      BY <1>7, <2>2
    <3>2. At(t, i) = At(s, j)
      BY <1>5, <3>1, <2>1 DEF At, base, Inside
    <3> QED
      BY <1>3, <1>13, <3>1, <3>2, SlotsApart
  <2> QED
    BY <1>11, <2>1, <2>2
<1> QED
  BY <1>2, <1>3, <1>11, <1>12, <1>13 DEF to, base

\* Growing the file and cutting it keep the cells that stay.
LEMMA GrowData ==
  ASSUME IInv, TInv, Grow, NEW s, s = table[Block]
  PROVE  /\ s \in Nat /\ f_data' \in Seq(DataCells)
         /\ Len(f_data') = IF Len(f_data) >= (s + 1) * BlockCells THEN Len(f_data)
                           ELSE (s + 1) * BlockCells
         /\ \A k \in 1 .. Len(f_data) : f_data'[k] = f_data[k]
<1>1. s \in Nat
  BY InDisk DEF Grow, Writing, TodoShape, Filling, IInv, SlotTypes, Entries, Unmapped, WriteShape
<1> DEFINE end == (s + 1) * BlockCells
<1>2. end \in Nat
  BY <1>1, BlockStart
<1>3. f_data' = Written(f_data, end, end, << >>)
  BY DEF Grow, Grown
<1>4. f_data \in Seq(DataCells) /\ 0 \in DataCells
  BY DEF TInv, OtherTypes, DataCells
<1> HIDE DEF end
<1>5. \A k : k \notin end .. end - 1
  BY <1>2
<1>6. /\ f_data' \in Seq(DataCells)
      /\ Len(f_data') = IF Len(f_data) >= end THEN Len(f_data) ELSE end
      /\ \A k \in 1 .. Len(f_data) : k - 1 \notin end .. end - 1 => f_data'[k] = f_data[k]
  BY <1>2, <1>3, <1>4, <1>5, WrittenCells
<1> QED
  BY <1>1, <1>5, <1>6 DEF end

LEMMA TruncateData ==
  ASSUME IInv, TInv, Truncate
  PROVE  /\ f_data' \in Seq(DataCells)
         /\ Len(f_data') = IF Len(f_data) <= alloc * BlockCells THEN Len(f_data)
                           ELSE alloc * BlockCells
         /\ \A k \in 1 .. Len(f_data') : f_data'[k] = f_data[k]
<1> DEFINE n == Min({Len(f_data), alloc * BlockCells})
<1>1. f_data \in Seq(DataCells) /\ alloc * BlockCells \in Nat
  BY BlockStart DEF TInv, OtherTypes, IInv, SlotTypes
<1>2. n = IF Len(f_data) <= alloc * BlockCells THEN Len(f_data) ELSE alloc * BlockCells
  BY <1>1, MinOfTwo
<1>3. f_data' = SubSeq(f_data, 1, n)
  BY DEF Truncate
<1>4. n \in 0 .. Len(f_data)
  BY <1>1, <1>2
<1> HIDE DEF n
<1>5. n \in Int /\ 1 \in Int /\ \A i \in 1 .. n : f_data[i] \in DataCells
  BY <1>1, <1>4
<1>6. /\ f_data' \in Seq(DataCells)
      /\ Len(f_data') = IF 1 <= n THEN n - 1 + 1 ELSE 0
      /\ \A i \in 1 .. n - 1 + 1 : f_data'[i] = f_data[1 + i - 1]
  BY <1>3, <1>5, SubSeqProperties
<1>7. Len(f_data') = n
  BY <1>4, <1>6
<1>8. \A k \in 1 .. n : f_data'[k] = f_data[k]
  BY <1>4, <1>6
<1> QED
  BY <1>2, <1>6, <1>7, <1>8

-----------------------------------------------------------------------------
(* Counting the mapped blocks.                                             *)

LEMMA MappedFinite ==
  ASSUME NEW t PROVE IsFiniteSet(MappedIn(t)) /\ Cardinality(MappedIn(t)) \in Nat
                     /\ Cardinality(MappedIn(t)) <= NumBlocks
<1>1. IsFiniteSet(Blocks) /\ Cardinality(Blocks) = NumBlocks
  BY FS_Interval, SparseDiskAssumption DEF Blocks
<1>2. MappedIn(t) \in SUBSET Blocks
  BY DEF MappedIn
<1> QED
  BY <1>1, <1>2, FS_Subset, FS_CardinalityType

LEMMA MappedOne ==
  ASSUME NEW t \in [Blocks -> Entries], NEW b \in Blocks, NEW s \in Nat, t[b] = Unmapped
  PROVE  Cardinality(MappedIn([t EXCEPT ![b] = s])) = Cardinality(MappedIn(t)) + 1
<1>1. MappedIn([t EXCEPT ![b] = s]) = MappedIn(t) \cup {b} /\ b \notin MappedIn(t)
  BY DEF MappedIn, Unmapped
<1> QED
  BY <1>1, MappedFinite, FS_AddElement

LEMMA UnmappedOne ==
  ASSUME NEW t \in [Blocks -> Entries], NEW b \in Blocks
  PROVE  Cardinality(MappedIn([t EXCEPT ![b] = Unmapped]))
           = IF t[b] = Unmapped THEN Cardinality(MappedIn(t)) ELSE Cardinality(MappedIn(t)) - 1
<1>1. MappedIn([t EXCEPT ![b] = Unmapped]) = MappedIn(t) \ {b}
      /\ (b \in MappedIn(t) <=> t[b] # Unmapped)
  BY DEF MappedIn
<1> QED
  BY <1>1, MappedFinite, FS_RemoveElement

LEMMA NoneMapped == MappedIn([b \in Blocks |-> Unmapped]) = {}
BY DEF MappedIn

LEMMA MappedSteps ==
  ASSUME IInv, TInv, DiskNext PROVE MappedCounted'
<1>1. mapped \in Nat /\ Cardinality(MappedIn(table)) <= mapped /\ table \in [Blocks -> Entries]
      /\ f_table \in [Blocks -> Entries]
  BY DEF TInv, MappedCounted, IInv, SlotTypes
<1>2. CASE Allocate
  <2>1. Block \in Blocks /\ table[Block] = Unmapped /\ mapped' = mapped + 1
    BY <1>2, InDisk DEF Allocate, Writing
  <2>2. PICK slot \in 0 .. alloc : table' = [table EXCEPT ![Block] = slot]
    BY <1>2 DEF Allocate
  <2>3. slot \in Nat
    BY DEF IInv, SlotTypes
  <2>4. Cardinality(MappedIn(table')) = Cardinality(MappedIn(table)) + 1
    BY <1>1, <2>1, <2>2, <2>3, MappedOne
  <2>5. Cardinality(MappedIn(table)) \in Nat
    BY MappedFinite
  <2> QED
    BY <1>1, <2>1, <2>4, <2>5 DEF MappedCounted, MappedIn
<1>3. ASSUME op.at \in Blocks, table' = [table EXCEPT ![op.at] = Unmapped],
             \/ mapped' = IF table[op.at] = Unmapped THEN mapped ELSE mapped - 1
             \/ mapped' = mapped
      PROVE  MappedCounted'
  <2>1. Cardinality(MappedIn(table'))
          = IF table[op.at] = Unmapped THEN Cardinality(MappedIn(table))
            ELSE Cardinality(MappedIn(table)) - 1
    BY <1>1, <1>3, UnmappedOne
  <2>2. Cardinality(MappedIn(table)) \in Nat /\ Cardinality(MappedIn(table')) \in Nat
    BY MappedFinite
  <2> QED
    BY <1>1, <1>3, <2>1, <2>2 DEF MappedCounted, MappedIn
<1>4. CASE FreeBlock
  BY <1>3, <1>4, InDisk DEF FreeBlock
<1>5. ASSUME UNCHANGED <<table, mapped>> PROVE MappedCounted'
  BY <1>1, <1>5 DEF MappedCounted, MappedIn
<1>6. CASE AnyCall
  BY <1>5, <1>6 DEF AnyCall, BeginWrite, BeginDiscard, memVars
<1>7. CASE SkipZeros \/ UseExisting \/ PersistHeader \/ PersistEntry \/ Grow \/ WriteRegion
           \/ FinishWrite
  BY <1>5, <1>7 DEF SkipZeros, UseExisting, PersistHeader, PersistEntry, Grow, WriteRegion,
                    FinishWrite, memVars
<1>8. CASE NothingToTrim \/ TrimHeader \/ Truncate
  BY <1>5, <1>8 DEF NothingToTrim, TrimHeader, Trim, Truncate, memVars
<1>9. CASE Fault
  <2>1. CASE UNCHANGED memVars
    BY <1>5, <2>1 DEF memVars
  <2>2. CASE /\ pc = "free" /\ op.at < op.to
             /\ table' = [table EXCEPT ![op.at] = Unmapped]
             /\ mapped' = mapped
    BY <1>3, <2>2, InDisk
  <2>3. CASE \E n \in 0 .. alloc : Trim(n)
    BY <1>5, <2>3 DEF Trim
  <2> QED
    BY <1>9, <2>1, <2>2, <2>3 DEF Fault
<1>10. CASE Crash
  <2>1. table' = [b \in Blocks |-> Unmapped] /\ mapped' = 0
    BY <1>10 DEF Crash
  <2>2. MappedIn(table') = {}
    BY <2>1, NoneMapped
  <2>3. Cardinality({}) = 0
    BY FS_EmptySet
  <2> QED
    BY <2>1, <2>2, <2>3 DEF MappedCounted, MappedIn
<1>11. CASE Open
  <2>1. CASE OpenAccepts
    <3>1. table' = f_table /\ mapped' = Cardinality(MappedIn(f_table))
      BY <1>11, <2>1 DEF Open
    <3>2. Cardinality(MappedIn(f_table)) \in Nat
      BY MappedFinite
    <3> QED
      BY <3>1, <3>2 DEF MappedCounted, MappedIn
  <2>2. CASE ~OpenAccepts
    BY <1>5, <1>11, <2>2 DEF Open, memVars
  <2> QED
    BY <2>1, <2>2
<1>12. CASE Rest
  BY <1>5, <1>12 DEF Rest
<1> QED
  BY <1>2, <1>4, <1>6, <1>7, <1>8, <1>9, <1>10, <1>11, <1>12 DEF DiskNext, Step

LEMMA OtherTypesStep ==
  ASSUME IInv, TInv, DiskNext PROVE OtherTypes'
<1> DEFINE Pcs == {"idle", "chunk", "header", "entry", "grow", "regions", "free",
                   "truncate", "closed", "corrupt"}
<1>1. OtherTypes /\ stack \in Stacks /\ f_data \in Seq(DataCells) /\ torn \subseteq Blocks
      /\ faults \in Nat /\ crashes \in Nat /\ pc \in Pcs
  BY DEF TInv, OtherTypes
<1>2. stack' = stack
  BY DEF DiskNext, AnyCall, BeginWrite, BeginDiscard, Step, SkipZeros, UseExisting, Allocate,
         PersistHeader, PersistEntry, Grow, WriteRegion, FinishWrite, FreeBlock, NothingToTrim,
         TrimHeader, Truncate, Fault, Crash, Open, Rest
<1>3. pc' \in Pcs
  BY <1>1 DEF DiskNext, AnyCall, BeginWrite, BeginDiscard, Step, SkipZeros, UseExisting, Allocate,
         PersistHeader, PersistEntry, Grow, WriteRegion, FinishWrite, FreeBlock, NothingToTrim,
         FinishDiscard, TrimHeader, Truncate, Fault, Crash, Open, Rest
<1>4. f_data' \in Seq(DataCells)
  <2>1. CASE Grow \/ WriteRegion \/ Truncate
    BY <2>1, GrowData, RegionWritten, TruncateData
  <2>2. CASE ~(Grow \/ WriteRegion \/ Truncate)
    <3>1. f_data' = f_data
      BY <2>2 DEF DiskNext, AnyCall, BeginWrite, BeginDiscard, Step, SkipZeros, UseExisting, Allocate,
         PersistHeader, PersistEntry, FinishWrite, FreeBlock, NothingToTrim,
         TrimHeader, Fault, Crash, Open, Rest, fileVars
    <3> QED
      BY <1>1, <3>1
  <2> QED
    BY <2>1, <2>2
<1>5. torn' \subseteq Blocks /\ faults' \in Nat /\ crashes' \in Nat
  <2>1. CASE Fault \/ Crash
    <3>1. CutShort \subseteq Blocks
      <4>1. CASE op.kind = "write" /\ op.fresh
        <5>1. Filling
          BY <4>1 DEF TInv, OpShape, Writing, DiscardShape, TodoShape, NoOp, OtherTypes, Filling
        <5>2. Block \in Blocks
          BY <5>1, InDisk DEF Writing
        <5> QED
          BY <1>1, <5>2 DEF CutShort
      <4>2. CASE ~(op.kind = "write" /\ op.fresh)
        BY <1>1, <4>2 DEF CutShort
      <4> QED
        BY <4>1, <4>2
    <3>2. torn' = CutShort \/ torn' = torn \/ (pc = "free" /\ op.at < op.to /\ torn' = torn \cup {op.at})
      BY <2>1 DEF Fault, Crash
    <3>3. torn' \subseteq Blocks
      BY <1>1, <3>1, <3>2, InDisk
    <3>4. faults' \in Nat /\ crashes' \in Nat
      BY <1>1, <2>1 DEF Fault, Crash
    <3> QED
      BY <3>3, <3>4
  <2>2. CASE ~(Fault \/ Crash \/ Rest)
    <3>1. UNCHANGED <<torn, faults, crashes>>
      BY <2>2 DEF DiskNext, AnyCall, BeginWrite, BeginDiscard, Step, SkipZeros, UseExisting, Allocate,
         PersistHeader, PersistEntry, Grow, WriteRegion, FinishWrite, FreeBlock, NothingToTrim,
         FinishDiscard, TrimHeader, Truncate, Open, histVars
    <3> QED
      BY <1>1, <3>1
  <2>3. CASE Rest
    BY <1>1, <2>3 DEF Rest
  <2> QED
    BY <2>1, <2>2, <2>3
<1> QED
  BY <1>1, <1>2, <1>3, <1>4, <1>5 DEF OtherTypes

LEMMA InitTInv == Init => TInv
<1> SUFFICES ASSUME Init PROVE TInv
  OBVIOUS
<1>1. OpShape
  BY DEF Init, OpShape, Writing, Filling, NoOp
<1>2. f_data \in Seq(DataCells)
  BY DEF Init
<1>3. OtherTypes
  BY <1>2 DEF Init, OtherTypes
<1>4. MappedIn(table) = {}
  BY NoneMapped DEF Init
<1>5. Cardinality(MappedIn(table)) = 0
  BY <1>4, FS_EmptySet
<1>6. MappedCounted
  BY <1>5 DEF Init, MappedCounted
<1> QED
  BY <1>1, <1>3, <1>6 DEF TInv

LEMMA TInvStep == IInv /\ TInv /\ DiskNext => TInv'
<1> SUFFICES ASSUME IInv, TInv, DiskNext PROVE TInv'
  OBVIOUS
<1>1. OpShape'
  <2>1. CASE Fault \/ Crash \/ Open
    <3>1. op' = NoOp /\ pc' \in {"idle", "closed", "corrupt"}
      BY <2>1 DEF Fault, Crash, Open, TInv, OpShape
    <3> QED
      BY <3>1 DEF OpShape, Writing, Filling
  <2>2. CASE Rest
    BY <2>2 DEF Rest, TInv, OpShape, Writing, Filling, WriteShape, TodoShape, DiscardShape,
                From, Block, FillOrder, Part, NonEmpty, Region, Upto
  <2> QED
    BY <2>1, <2>2, OpShapeSteps, OpShapeCall DEF DiskNext
<1> QED
  BY <1>1, MappedSteps, OtherTypesStep DEF TInv

LEMMA TypesByInv == IInv /\ TInv => TypeOK
BY DEF IInv, SlotTypes, Entries, TInv, OtherTypes, MappedCounted, TypeOK, DataCells

\* The types of SparseDisk, for disks of any size and any number of calls,
\* failures and crashes: in particular no call reaches a cell beyond the disk, every
\* cell of the file is zero, the base's or written, and the count of mapped
\* blocks never underflows (write_at, discard_range, deallocate_block_inner).
THEOREM SparseDiskTypeOK == Spec => []TypeOK
BY TypesByInv, NextIsDiskNext, InitIInv, IInvStep, InitTInv, TInvStep, PTL DEF Spec

-----------------------------------------------------------------------------
(* The image without failures of the backend.                              *)

\* The header covers the file's table, also in the middle of a call.
FileSound ==
  faults = 0 =>
    /\ f_alloc <= NumBlocks
    /\ \A b \in Blocks : f_table[b] # Unmapped => f_table[b] < f_alloc

\* Memory and header agree except while a slot is appended, and the file
\* covers every slot but the one being appended.
MemorySound ==
  faults = 0 /\ Up =>
    /\ alloc <= NumBlocks
    /\ IF pc = "header" THEN alloc = f_alloc + 1 /\ table[Block] = f_alloc
       ELSE alloc = f_alloc
    /\ \A s \in used : \E b \in Blocks : table[b] = s
    /\ mapped = Cardinality(MappedIn(table))
    /\ IF pc \in {"entry", "grow"}
       THEN \/ Len(f_data) >= f_alloc * BlockCells
            \/ table[Block] = f_alloc - 1 /\ Len(f_data) >= (f_alloc - 1) * BlockCells
       ELSE Len(f_data) >= f_alloc * BlockCells

\* Without crashes either, no space is kept: the last slot is in use, and the
\* file ends with it.
SpaceSound ==
  faults = 0 /\ crashes = 0 =>
    /\ Up
    /\ pc # "free" => alloc = 0 \/ alloc - 1 \in used
    /\ pc \in {"entry", "grow"} => Len(f_data) <= f_alloc * BlockCells
    /\ pc \notin {"entry", "grow", "truncate"} => Len(f_data) = f_alloc * BlockCells

FInv == FileSound /\ MemorySound /\ SpaceSound

\* While a block has no slot, the slots in use are fewer than the blocks.
LEMMA RoomForOne ==
  ASSUME NEW t, NEW n \in Nat, NEW b \in Blocks, t[b] = Unmapped,
         \A s \in 0 .. n - 1 : \E a \in Blocks : t[a] = s
  PROVE  n < NumBlocks
<1> DEFINE g == [s \in 0 .. n - 1 |-> CHOOSE a \in Blocks : t[a] = s]
<1>1. \A s \in 0 .. n - 1 : g[s] \in Blocks /\ t[g[s]] = s
  OBVIOUS
<1>2. g \in [0 .. n - 1 -> Blocks \ {b}]
  BY <1>1 DEF Unmapped
<1> HIDE DEF g
<1>3. \A s, u \in 0 .. n - 1 : g[s] = g[u] => s = u
  BY <1>1
<1>4. g \in Injection(0 .. n - 1, Blocks \ {b})
  BY <1>2, <1>3 DEF Injection, IsInjective
<1>5. IsFiniteSet(Blocks) /\ Cardinality(Blocks) = NumBlocks
  BY FS_Interval, SparseDiskAssumption DEF Blocks
<1>6. IsFiniteSet(Blocks \ {b}) /\ Cardinality(Blocks \ {b}) = NumBlocks - 1
  BY <1>5, FS_RemoveElement
<1>7. Cardinality(0 .. n - 1) <= NumBlocks - 1
  BY <1>4, <1>6, FS_Injection
<1>8. Cardinality(0 .. n - 1) = n
  BY FS_Interval
<1> QED
  BY <1>7, <1>8, SparseDiskAssumption

LEMMA InitFInv == Init => FInv
<1> SUFFICES ASSUME Init PROVE FInv
  OBVIOUS
<1>1. MappedIn(table) = {} /\ Cardinality({}) = 0
  BY NoneMapped, FS_EmptySet DEF Init
<1>2. 0 * BlockCells = 0 /\ Len(<< >>) = 0 /\ 0 <= NumBlocks
  BY SparseDiskAssumption
<1> QED
  BY <1>1, <1>2 DEF Init, FInv, FileSound, MemorySound, SpaceSound, Up

LEMMA QuietStep ==
  ASSUME FInv, Up, Up', pc \notin {"header", "entry", "grow", "truncate"},
         pc' \notin {"header", "entry", "grow", "truncate"},
         UNCHANGED <<f_alloc, f_table, alloc, table, used, mapped, faults, crashes>>,
         Len(f_data') = Len(f_data),
         pc = "free" => alloc = 0 \/ alloc - 1 \in used
  PROVE  FInv'
<1>1. MappedIn(table)' = MappedIn(table)
  BY DEF MappedIn
<1>2. FileSound'
  BY DEF FInv, FileSound
<1>3. MemorySound'
  BY <1>1 DEF FInv, MemorySound
<1>4. SpaceSound'
  BY DEF FInv, SpaceSound
<1> QED
  BY <1>2, <1>3, <1>4 DEF FInv

LEMMA FInvAllocate == ASSUME IInv, TInv, FInv, Allocate, faults = 0 PROVE FInv'
<1>1. pc = "chunk" /\ op.at < op.to /\ table[Block] = Unmapped /\ Block \in Blocks /\ Up
      /\ table \in [Blocks -> Entries] /\ alloc \in Nat /\ f_alloc \in Nat
  BY InDisk DEF Allocate, Writing, Up, IInv, SlotTypes
<1>2. PICK slot \in 0 .. alloc :
        /\ NextSlot(slot)
        /\ alloc' = IF slot = alloc THEN alloc + 1 ELSE alloc
        /\ pc' = IF slot = alloc THEN "header" ELSE "entry"
        /\ table' = [table EXCEPT ![Block] = slot]
        /\ used' = used \cup {slot}
  BY DEF Allocate
<1>3. /\ UNCHANGED <<f_table, f_alloc, f_data, faults, crashes>> /\ mapped' = mapped + 1
      /\ op' = [op EXCEPT !.fresh = TRUE, !.todo = FillOrder]
  BY DEF Allocate, fileVars, histVars
<1>4. Block' = Block
  <2>1. DOMAIN op = {"kind", "at", "to", "buf", "from", "fresh", "todo"}
    BY <1>1, InDisk DEF Writing, WriteShape
  <2>2. op'.at = op.at
    BY <1>3, <2>1
  <2> QED
    BY <2>2 DEF Block
<1>5. slot \in Nat /\ table'[Block] = slot
  BY <1>1, <1>2
<1>6. /\ alloc <= NumBlocks /\ alloc = f_alloc /\ Len(f_data) >= f_alloc * BlockCells
      /\ \A s \in used : \E b \in Blocks : table[b] = s
      /\ mapped = Cardinality(MappedIn(table))
  BY <1>1 DEF FInv, MemorySound
<1>7. alloc' <= NumBlocks
  <2>1. CASE slot = alloc
    <3>1. FreeSlots = {}
      BY <1>1, <1>2, <2>1 DEF NextSlot, FreeSlots
    <3>2. \A s \in 0 .. alloc - 1 : \E a \in Blocks : table[a] = s
      BY <1>6, <3>1 DEF FreeSlots
    <3>3. alloc < NumBlocks
      BY <1>1, <3>2, RoomForOne
    <3> QED
      BY <1>1, <1>2, <2>1, <3>3, SparseDiskAssumption
  <2> QED
    BY <1>2, <1>6, <2>1
<1>8. mapped' = Cardinality(MappedIn(table'))
  BY <1>1, <1>2, <1>3, <1>5, <1>6, MappedOne
<1>9. \A s \in used' : \E b \in Blocks : table'[b] = s
  <2> SUFFICES ASSUME NEW s \in used' PROVE \E b \in Blocks : table'[b] = s
    OBVIOUS
  <2>1. CASE s = slot
    BY <1>1, <1>5, <2>1
  <2>2. CASE s # slot
    <3>1. s \in used /\ s \in Nat
      BY <1>2, <2>2 DEF IInv, SlotTypes
    <3>2. PICK b \in Blocks : table[b] = s
      BY <1>6, <3>1
    <3>3. b # Block
      BY <1>1, <3>1, <3>2 DEF Unmapped
    <3> QED
      BY <1>1, <1>2, <3>2, <3>3
  <2> QED
    BY <2>1, <2>2
<1>10. FileSound'
  BY <1>3 DEF FInv, FileSound
<1>11. MemorySound'
  BY <1>1, <1>2, <1>3, <1>4, <1>5, <1>6, <1>7, <1>8, <1>9 DEF MemorySound, MappedIn
<1>12. SpaceSound'
  <2>1. crashes = 0 => (alloc = 0 \/ alloc - 1 \in used) /\ Len(f_data) = f_alloc * BlockCells
    BY <1>1 DEF FInv, SpaceSound
  <2>2. crashes = 0 => alloc' = 0 \/ alloc' - 1 \in used'
    BY <1>1, <1>2, <1>5, <2>1
  <2>3. f_alloc * BlockCells \in Nat
    BY <1>1, BlockStart
  <2> QED
    BY <1>2, <1>3, <2>1, <2>2, <2>3 DEF SpaceSound, Up
<1> QED
  BY <1>10, <1>11, <1>12 DEF FInv

\* The steps between the allocation of a slot and the filling of its block.
LEMMA FInvPersist ==
  ASSUME IInv, TInv, FInv, PersistHeader \/ PersistEntry \/ Grow, faults = 0 PROVE FInv'
<1>1. /\ Filling /\ pc # "regions" /\ Up /\ Block \in Blocks /\ Up'
      /\ UNCHANGED <<alloc, table, used, mapped, op, faults, crashes>>
  BY InDisk DEF PersistHeader, PersistEntry, Grow, memVars, histVars, Filling, Writing, Up
<1>2. Block' = Block /\ MappedIn(table)' = MappedIn(table)
  BY <1>1 DEF Block, MappedIn
<1>3. alloc \in Nat /\ f_alloc \in Nat /\ f_table \in [Blocks -> Entries]
      /\ table \in [Blocks -> Entries] /\ table[Block] # Unmapped
      /\ table[Block] \in Nat /\ table[Block] < alloc
  <2>1. table[Block] # Unmapped
    BY <1>1, InDisk DEF TodoShape, Writing
  <2> QED
    BY <1>1, <2>1 DEF IInv, SlotTypes, BitmapCovers, Entries, Unmapped
<1>4. /\ alloc <= NumBlocks
      /\ \A s \in used : \E b \in Blocks : table[b] = s
      /\ mapped = Cardinality(MappedIn(table))
  BY <1>1 DEF FInv, MemorySound
<1>5. crashes = 0 => alloc = 0 \/ alloc - 1 \in used
  BY <1>1 DEF FInv, SpaceSound, Filling
<1>6. CASE PersistHeader
  <2>1. pc = "header" /\ pc' = "entry" /\ f_alloc' = alloc /\ UNCHANGED <<f_table, f_data>>
    BY <1>6 DEF PersistHeader
  <2>2. alloc = f_alloc + 1 /\ table[Block] = f_alloc /\ Len(f_data) >= f_alloc * BlockCells
    BY <1>1, <2>1 DEF FInv, MemorySound
  <2>3. FileSound'
    BY <1>3, <1>4, <2>1, <2>2 DEF FInv, FileSound, Entries, Unmapped
  <2>4. f_alloc' - 1 = f_alloc
    BY <1>3, <2>1, <2>2
  <2>5. MemorySound'
    BY <1>1, <1>2, <1>4, <2>1, <2>2, <2>4 DEF MemorySound
  <2>6. SpaceSound'
    <3>1. crashes = 0 => Len(f_data) = f_alloc * BlockCells
      BY <2>1 DEF FInv, SpaceSound
    <3>2. f_alloc * BlockCells <= f_alloc' * BlockCells
      BY <1>3, <2>1, <2>2, BlockEnd, BlockStart, SparseDiskAssumption
    <3> QED
      BY <1>1, <1>5, <2>1, <3>1, <3>2 DEF SpaceSound
  <2> QED
    BY <2>3, <2>5, <2>6 DEF FInv
<1>7. CASE PersistEntry
  <2>1. /\ pc = "entry" /\ pc' = "grow" /\ UNCHANGED <<f_alloc, f_data>>
        /\ f_table' = [f_table EXCEPT ![Block] = table[Block]]
    BY <1>7 DEF PersistEntry
  <2>2. alloc = f_alloc
    BY <1>1, <2>1 DEF FInv, MemorySound
  <2>3. FileSound'
    BY <1>1, <1>3, <2>1, <2>2 DEF FInv, FileSound
  <2>4. MemorySound'
    BY <1>1, <1>2, <2>1 DEF FInv, MemorySound
  <2>5. SpaceSound'
    BY <1>1, <1>5, <2>1 DEF FInv, SpaceSound
  <2> QED
    BY <2>3, <2>4, <2>5 DEF FInv
<1>8. CASE Grow
  <2>1. pc = "grow" /\ pc' = "regions" /\ UNCHANGED <<f_alloc, f_table>>
    BY <1>8 DEF Grow
  <2>2. Len(f_data') = IF Len(f_data) >= (table[Block] + 1) * BlockCells THEN Len(f_data)
                       ELSE (table[Block] + 1) * BlockCells
    BY <1>8, GrowData
  <2>3. alloc = f_alloc /\ \/ Len(f_data) >= f_alloc * BlockCells
                           \/ table[Block] = f_alloc - 1
    BY <1>1, <2>1 DEF FInv, MemorySound
  <2>4. (table[Block] + 1) * BlockCells <= f_alloc * BlockCells
    <3>1. table[Block] + 1 = f_alloc \/ table[Block] + 1 < f_alloc
      BY <1>3, <2>3
    <3>2. ASSUME table[Block] + 1 < f_alloc
          PROVE  (table[Block] + 1) * BlockCells <= f_alloc * BlockCells
      <4>1. (table[Block] + 1 + 1) * BlockCells <= f_alloc * BlockCells
        BY <1>3, <3>2, BlocksApart
      <4>2. (table[Block] + 1 + 1) * BlockCells = (table[Block] + 1) * BlockCells + BlockCells
        BY <1>3, BlockEnd
      <4>3. (table[Block] + 1) * BlockCells \in Nat /\ f_alloc * BlockCells \in Nat
        BY <1>3, BlockStart
      <4> QED
        BY <4>1, <4>2, <4>3, SparseDiskAssumption
    <3>3. f_alloc * BlockCells \in Nat
      BY <1>3, BlockStart
    <3> QED
      BY <3>1, <3>2, <3>3
  <2>5. Len(f_data) \in Nat /\ f_alloc * BlockCells \in Nat /\ (table[Block] + 1) * BlockCells \in Nat
    <3>1. Len(f_data) \in Nat
      BY DEF TInv, OtherTypes
    <3>2. table[Block] + 1 \in Nat /\ f_alloc \in Nat
      BY <1>3
    <3> QED
      BY <3>1, <3>2, BlockStart
  <2>6. table[Block] = f_alloc - 1 => (table[Block] + 1) * BlockCells = f_alloc * BlockCells
    <3>1. table[Block] = f_alloc - 1 => table[Block] + 1 = f_alloc
      BY <1>3
    <3> QED
      BY <3>1
  <2>7. Len(f_data') >= f_alloc * BlockCells
    BY <2>2, <2>3, <2>4, <2>5, <2>6
  <2>8. FileSound'
    BY <1>1, <2>1 DEF FInv, FileSound
  <2>9. MemorySound'
    BY <1>1, <1>2, <1>4, <2>1, <2>3, <2>7 DEF MemorySound
  <2>10. crashes = 0 => Len(f_data') = f_alloc * BlockCells
    <3>1. crashes = 0 => Len(f_data) <= f_alloc * BlockCells
      BY <2>1 DEF FInv, SpaceSound
    <3> QED
      BY <2>2, <2>4, <2>5, <2>7, <3>1
  <2>11. SpaceSound'
    BY <1>1, <1>5, <2>1, <2>10 DEF SpaceSound
  <2> QED
    BY <2>8, <2>9, <2>11 DEF FInv
<1> QED
  BY <1>6, <1>7, <1>8

\* The regions of a block are within the file.
LEMMA FInvRegion == ASSUME IInv, TInv, FInv, WriteRegion, faults = 0 PROVE FInv'
<1>1. pc = "regions" /\ Filling /\ Up /\ Block \in Blocks
  BY InDisk DEF WriteRegion, Filling, Writing, Up
<1>2. Up' /\ pc' \in {"regions", "chunk"}
      /\ UNCHANGED <<f_alloc, f_table, alloc, table, used, mapped, faults, crashes>>
  BY DEF WriteRegion, memVars, histVars, Up
<1>3. PICK r, s : r = Head(op.todo) /\ s = table[Block]
  OBVIOUS
<1>4. r \in Regions /\ s \in Nat
      /\ Len(f_data') = IF Len(f_data) >= s * BlockCells + Hi(r) THEN Len(f_data)
                        ELSE s * BlockCells + Hi(r)
  BY <1>3, RegionWritten
<1>5. s < alloc /\ alloc \in Nat
  BY <1>1, <1>3, <1>4 DEF IInv, SlotTypes, BitmapCovers, Unmapped
<1>6. Len(f_data) >= alloc * BlockCells
  BY <1>1 DEF FInv, MemorySound
<1>7. Hi(r) \in Nat /\ Hi(r) <= BlockCells
  BY <1>1, <1>4, InDisk, RegionsCover DEF Writing, WriteShape
<1>8. s * BlockCells + Hi(r) <= alloc * BlockCells
  <2>1. (s + 1) * BlockCells <= alloc * BlockCells
        /\ (s + 1) * BlockCells = s * BlockCells + BlockCells
    BY <1>4, <1>5, BlocksApart, BlockEnd
  <2>2. s * BlockCells \in Nat /\ alloc * BlockCells \in Nat
    BY <1>4, <1>5, BlockStart
  <2> QED
    BY <1>7, <2>1, <2>2, SparseDiskAssumption
<1>9. Len(f_data) \in Nat /\ alloc * BlockCells \in Nat /\ s * BlockCells \in Nat
  <2>1. Len(f_data) \in Nat
    BY DEF TInv, OtherTypes
  <2>2. alloc * BlockCells \in Nat /\ s * BlockCells \in Nat
    BY <1>4, <1>5, BlockStart
  <2> QED
    BY <2>1, <2>2
<1>10. Len(f_data') = Len(f_data)
  BY <1>4, <1>6, <1>7, <1>8, <1>9
<1> QED
  BY <1>1, <1>2, <1>10, QuietStep

LEMMA FInvFree == ASSUME IInv, TInv, FInv, FreeBlock, faults = 0 PROVE FInv'
<1>1. /\ pc = "free" /\ op.at \in Blocks /\ pc' = "free" /\ Up /\ Up'
      /\ UNCHANGED <<alloc, f_alloc, f_data, faults, crashes>>
      /\ table \in [Blocks -> Entries] /\ f_table \in [Blocks -> Entries]
  BY InDisk DEF FreeBlock, histVars, Up, IInv, SlotTypes
<1>2. /\ table' = [table EXCEPT ![op.at] = Unmapped]
      /\ f_table' = [f_table EXCEPT ![op.at] = IF table[op.at] = Unmapped THEN f_table[op.at] ELSE Unmapped]
      /\ used' = used \ {table[op.at]}
      /\ mapped' = IF table[op.at] = Unmapped THEN mapped ELSE mapped - 1
  BY DEF FreeBlock
<1>3. FileSound'
  BY <1>1, <1>2 DEF FInv, FileSound
<1>4. \A s \in used' : \E b \in Blocks : table'[b] = s
  <2> SUFFICES ASSUME NEW s \in used' PROVE \E b \in Blocks : table'[b] = s
    OBVIOUS
  <2>1. s \in used /\ s # table[op.at]
    BY <1>2
  <2>2. PICK b \in Blocks : table[b] = s
    BY <1>1, <2>1 DEF FInv, MemorySound
  <2> QED
    BY <1>1, <1>2, <2>1, <2>2
<1>5. mapped' = Cardinality(MappedIn(table'))
  <2>1. mapped = Cardinality(MappedIn(table))
    BY <1>1 DEF FInv, MemorySound
  <2> QED
    BY <1>1, <1>2, <2>1, UnmappedOne
<1>6. MemorySound'
  BY <1>1, <1>4, <1>5 DEF FInv, MemorySound, MappedIn
<1>7. SpaceSound'
  BY <1>1 DEF FInv, SpaceSound
<1> QED
  BY <1>3, <1>6, <1>7 DEF FInv

LEMMA FInvTrim == ASSUME IInv, TInv, FInv, TrimHeader, faults = 0 PROVE FInv'
<1>1. PICK n \in 0 .. alloc : Trim(n) /\ f_alloc' = n
  BY DEF TrimHeader
<1>2. /\ pc = "free" /\ pc' = "truncate" /\ Up /\ Up' /\ alloc' = n /\ TrimmedTo(n) /\ n # alloc
      /\ UNCHANGED <<f_table, f_data, table, used, mapped, faults, crashes>>
  BY <1>1 DEF TrimHeader, Trim, Up, histVars
<1>3. alloc \in Nat /\ n \in Nat /\ n < alloc /\ alloc <= NumBlocks /\ alloc = f_alloc
      /\ Len(f_data) >= f_alloc * BlockCells
  BY <1>2 DEF IInv, SlotTypes, FInv, MemorySound
<1>4. \A s \in used : s < n
  BY <1>2 DEF IInv, SlotTypes, BitmapCovers, TrimmedTo
<1>5. n = 0 \/ n - 1 \in used
  BY <1>2 DEF TrimmedTo
<1>6. FileSound'
  BY <1>1, <1>2, <1>3, <1>4, SparseDiskAssumption DEF FileSound, IInv, BitmapCovers
<1>7. Len(f_data) >= n * BlockCells
  <2>0. n \in Nat /\ alloc \in Nat /\ n < alloc
    BY <1>3
  <2>1. (n + 1) * BlockCells <= alloc * BlockCells
        /\ (n + 1) * BlockCells = n * BlockCells + BlockCells
    <3>1. (n + 1) * BlockCells <= alloc * BlockCells
      BY <2>0, BlocksApart
    <3>2. (n + 1) * BlockCells = n * BlockCells + BlockCells
      BY <2>0, BlockEnd
    <3> QED
      BY <3>1, <3>2
  <2>2. n * BlockCells \in Nat /\ alloc * BlockCells \in Nat /\ Len(f_data) \in Nat
    BY <1>3, BlockStart DEF TInv, OtherTypes
  <2> QED
    BY <1>3, <2>1, <2>2, SparseDiskAssumption
<1>8. MappedIn(table)' = MappedIn(table)
  BY <1>2 DEF MappedIn
<1>9. n <= NumBlocks
  BY <1>3, SparseDiskAssumption
<1>10. MemorySound'
  BY <1>1, <1>2, <1>7, <1>8, <1>9 DEF FInv, MemorySound
<1>11. SpaceSound'
  BY <1>1, <1>2, <1>5 DEF SpaceSound
<1> QED
  BY <1>6, <1>10, <1>11 DEF FInv

LEMMA FInvTruncate == ASSUME IInv, TInv, FInv, Truncate, faults = 0 PROVE FInv'
<1>1. /\ pc = "truncate" /\ pc' = "idle" /\ Up /\ Up'
      /\ UNCHANGED <<f_alloc, f_table, alloc, table, used, mapped, faults, crashes>>
  BY DEF Truncate, FinishDiscard, memVars, Up
<1>2. alloc = f_alloc /\ Len(f_data) >= f_alloc * BlockCells /\ alloc \in Nat
  BY <1>1 DEF IInv, SlotTypes, FInv, MemorySound
<1>3. f_alloc * BlockCells \in Nat /\ Len(f_data) \in Nat
  BY <1>2, BlockStart DEF TInv, OtherTypes
<1>4. Len(f_data') = f_alloc * BlockCells
  BY <1>2, <1>3, TruncateData
<1>5. MappedIn(table)' = MappedIn(table)
  BY <1>1 DEF MappedIn
<1>6. FileSound'
  BY <1>1 DEF FInv, FileSound
<1>7. MemorySound'
  BY <1>1, <1>3, <1>4, <1>5 DEF FInv, MemorySound
<1>8. SpaceSound'
  BY <1>1, <1>4 DEF FInv, SpaceSound
<1> QED
  BY <1>6, <1>7, <1>8 DEF FInv

LEMMA FInvOpen == ASSUME IInv, TInv, FInv, Open, faults = 0 PROVE FInv'
<1>1. pc = "closed" /\ UNCHANGED <<f_alloc, f_table, f_data, faults, crashes>>
  BY DEF Open, fileVars, histVars
<1>2. FileSound'
  BY <1>1 DEF FInv, FileSound
<1>3. SpaceSound'
  BY <1>1 DEF FInv, SpaceSound, Up
<1>4. MemorySound'
  <2>1. CASE OpenAccepts
    <3>1. /\ alloc' = f_alloc /\ table' = f_table /\ used' = SlotsIn(f_table) /\ pc' = "idle"
          /\ mapped' = Cardinality(MappedIn(f_table))
      BY <2>1 DEF Open
    <3>2. \A s \in used' : \E b \in Blocks : table'[b] = s
      BY <3>1 DEF SlotsIn, MappedIn
    <3> QED
      BY <1>1, <2>1, <3>1, <3>2 DEF MemorySound, OpenAccepts, TableAccepted, MappedIn
  <2>2. CASE ~OpenAccepts
    BY <2>2 DEF Open, MemorySound, Up
  <2> QED
    BY <2>1, <2>2
<1> QED
  BY <1>2, <1>3, <1>4 DEF FInv

LEMMA FInvStep == IInv /\ TInv /\ FInv /\ DiskNext => FInv'
<1> SUFFICES ASSUME IInv, TInv, FInv, DiskNext PROVE FInv'
  OBVIOUS
<1>1. faults \in Nat /\ crashes \in Nat
  BY DEF TInv, OtherTypes
<1>2. CASE faults' # 0
  BY <1>2 DEF FInv, FileSound, MemorySound, SpaceSound
<1>3. CASE faults' = 0
  <2>1. faults = 0 /\ ~Fault
    BY <1>1, <1>3 DEF Fault, DiskNext, AnyCall, BeginWrite, BeginDiscard, Step, SkipZeros, UseExisting,
         Allocate, PersistHeader, PersistEntry, Grow, WriteRegion, FinishWrite, FreeBlock,
         NothingToTrim, FinishDiscard, TrimHeader, Truncate, Crash, Open, Rest, histVars
  <2>2. CASE AnyCall \/ SkipZeros \/ UseExisting \/ FinishWrite
    <3>1. /\ pc \in {"idle", "chunk"} /\ pc' \in {"chunk", "free", "regions", "idle"}
          /\ UNCHANGED <<f_alloc, f_table, f_data, alloc, table, used, mapped, faults, crashes>>
      BY <2>2 DEF AnyCall, BeginWrite, BeginDiscard, SkipZeros, UseExisting, FinishWrite, fileVars,
                  memVars, histVars
    <3> QED
      BY <3>1, QuietStep DEF Up
  <2>3. CASE NothingToTrim
    <3>1. /\ pc = "free" /\ pc' = "idle" /\ TrimmedTo(alloc)
          /\ UNCHANGED <<f_alloc, f_table, f_data, alloc, table, used, mapped, faults, crashes>>
      BY <2>3 DEF NothingToTrim, FinishDiscard, fileVars, memVars
    <3> QED
      BY <3>1, QuietStep DEF Up, TrimmedTo
  <2>4. CASE Crash
    <3>1. pc' = "closed" /\ crashes' # 0 /\ UNCHANGED <<f_alloc, f_table>>
      BY <1>1, <2>4 DEF Crash, fileVars
    <3> QED
      BY <1>3, <2>1, <3>1 DEF FInv, FileSound, MemorySound, SpaceSound, Up
  <2>5. CASE Rest
    BY <1>3, <2>1, <2>5 DEF Rest, FInv, FileSound, MemorySound, SpaceSound, Up, Block, MappedIn
  <2> QED
    BY <2>1, <2>2, <2>3, <2>4, <2>5, FInvAllocate, FInvPersist, FInvRegion, FInvFree, FInvTrim,
       FInvTruncate, FInvOpen DEF DiskNext, Step
<1> QED
  BY <1>2, <1>3

LEMMA TableByInv == IInv /\ FInv => TableSurvivesCrash
<1> SUFFICES ASSUME IInv, FInv, faults = 0 PROVE TableAccepted
  BY DEF TableSurvivesCrash
<1>1. f_alloc <= NumBlocks /\ \A b \in Blocks : f_table[b] # Unmapped => f_table[b] < f_alloc
  BY DEF FInv, FileSound
<1>2. SlotsIn(f_table) \subseteq 0 .. f_alloc - 1
  BY <1>1 DEF SlotsIn, MappedIn, IInv, SlotTypes, Entries
<1>3. Injective(f_table)
  BY DEF IInv, OneBlockPerSlot, Injective, MappedIn
<1> QED
  BY <1>1, <1>2, <1>3 DEF TableAccepted

\* Without failing backend accesses, a crash between any two writes of a call
\* leaves a header and a table that open accepts (ensure_block_allocated's
\* and trim_trailing_free_phys's order of writes).
THEOREM TableAlwaysSurvivesCrash == Spec => []TableSurvivesCrash
BY TableByInv, NextIsDiskNext, InitIInv, IInvStep, InitTInv, TInvStep, InitFInv, FInvStep, PTL DEF Spec

LEMMA ImageByInv == IInv /\ FInv => IdleImageOpens
<1> SUFFICES ASSUME IInv, FInv, pc = "idle", faults = 0 PROVE OpenAccepts
  BY DEF IdleImageOpens
<1>1. f_alloc <= NumBlocks /\ \A b \in Blocks : f_table[b] # Unmapped => f_table[b] < f_alloc
  BY DEF FInv, FileSound
<1>2. SlotsIn(f_table) \subseteq 0 .. f_alloc - 1
  BY <1>1 DEF SlotsIn, MappedIn, IInv, SlotTypes, Entries
<1>3. Injective(f_table)
  BY DEF IInv, OneBlockPerSlot, Injective, MappedIn
<1>4. Len(f_data) >= f_alloc * BlockCells
  BY DEF FInv, MemorySound, Up
<1> QED
  BY <1>1, <1>2, <1>3, <1>4 DEF TableAccepted, OpenAccepts

\* Without failing backend accesses, a crash between two calls leaves an image
\* that open accepts, its data region included, also after earlier crashes.
THEOREM IdleImageAlwaysOpens == Spec => []IdleImageOpens
BY ImageByInv, NextIsDiskNext, InitIInv, IInvStep, InitTInv, TInvStep, InitFInv, FInvStep, PTL DEF Spec

LEMMA SpaceByInv == IInv /\ FInv => SpaceIsReclaimed
<1> SUFFICES ASSUME IInv, FInv, pc = "idle", faults = 0, crashes = 0
             PROVE  /\ used = SlotsIn(table) /\ mapped = Cardinality(MappedIn(table))
                    /\ alloc = 0 \/ alloc - 1 \in used
                    /\ Len(f_data) = alloc * BlockCells
  BY DEF SpaceIsReclaimed
<1>1. mapped = Cardinality(MappedIn(table)) /\ alloc = f_alloc
      /\ \A s \in used : \E b \in Blocks : table[b] = s
  BY DEF FInv, MemorySound, Up
<1>2. \A s \in used : s # Unmapped
  BY DEF IInv, SlotTypes, Unmapped
<1>3. used = SlotsIn(table)
  BY <1>1, <1>2 DEF SlotsIn, MappedIn, IInv, BitmapCovers, Up
<1>4. (alloc = 0 \/ alloc - 1 \in used) /\ Len(f_data) = f_alloc * BlockCells
  BY DEF FInv, SpaceSound
<1> QED
  BY <1>1, <1>3, <1>4

\* Without failures and crashes, a finished discard has given back all space
\* above the last slot in use: bitmap, counter, high-water mark and file length
\* agree with the table after every call (trim_trailing_free_phys).
THEOREM SpaceIsAlwaysReclaimed == Spec => []SpaceIsReclaimed
BY SpaceByInv, NextIsDiskNext, InitIInv, IInvStep, InitTInv, TInvStep, InitFInv, FInvStep, PTL DEF Spec

-----------------------------------------------------------------------------
(* What the cells hold.                                                    *)

\* Cell i of a block with this table entry holds one of the values V; u is what
\* a block without a slot reads as.
CellHolds(slot, data, u, i, V) ==
  IF slot = Unmapped THEN u \in V
  ELSE At(slot, i) <= Len(data) /\ data[At(slot, i)] \in V

\* The block being allocated and filled.
FreshBlock(b) == Filling /\ op.fresh /\ b = Block

\* Memory and file map the same blocks, but for the one being allocated.
TablesAgree ==
  Up => \A b \in Blocks \ torn :
          \/ FreshBlock(b) /\ pc \in {"header", "entry"}
          \/ table[b] = f_table[b]

\* The file holds what the calls wrote, also between two of a call's writes.
FileHolds ==
  \A b \in Blocks \ torn : FreshBlock(b) \/
    \A i \in Inside : CellHolds(f_table[b], f_data, Unwritten, i, expect[Cell(b, i)])

\* The regions of a new block that are not to be written any more are.
FillProgress ==
  /\ Filling /\ op.fresh /\ Block \notin torn =>
       \A i \in Inside : Unwritten \in expect[Cell(Block, i)]
  /\ pc = "regions" /\ op.fresh =>
       /\ Len(f_data) >= (table[Block] + 1) * BlockCells
       /\ \A r \in Regions : Filled(r) => \A i \in Inside :
            Lo(r) <= i /\ i < Hi(r) => f_data[At(table[Block], i)] = Put(r, i)

\* The cells before op.at hold the caller's data.
WriteProgress ==
  Writing =>
    /\ \A c \in op.from .. op.to - 1 : op.buf[c] \in expect[c]
    /\ \A b \in Blocks \ torn : \A i \in Inside :
         op.from <= Cell(b, i) /\ Cell(b, i) < op.at /\ Cell(b, i) < op.to
           => CellHolds(f_table[b], f_data, Unwritten, i, {op.buf[Cell(b, i)]})

\* The discarded blocks before op.at have no slot.
DiscardProgress ==
  pc \in {"free", "truncate"} =>
    \A b \in Blocks : \A i \in Inside :
      /\ op.at <= b /\ b < op.to => Cell(b, i) \in op.cells
      /\ Cell(b, i) \in op.cells =>
           /\ b < op.to /\ Unwritten \in expect[Cell(b, i)]
           /\ b \notin torn /\ b < op.at => f_table[b] = Unmapped

RInv == TablesAgree /\ FileHolds /\ FillProgress /\ WriteProgress /\ DiscardProgress

LEMMA HoldsMore ==
  ASSUME NEW slot, NEW data, NEW u, NEW i, NEW V, NEW W, V \subseteq W,
         CellHolds(slot, data, u, i, V)
  PROVE  CellHolds(slot, data, u, i, W)
BY DEF CellHolds

LEMMA HoldsKept ==
  ASSUME NEW slot, NEW data, NEW more, NEW u, NEW i, NEW V, CellHolds(slot, data, u, i, V),
         slot # Unmapped /\ At(slot, i) <= Len(data) =>
           At(slot, i) <= Len(more) /\ more[At(slot, i)] = data[At(slot, i)]
  PROVE  CellHolds(slot, more, u, i, V)
BY DEF CellHolds

\* The cells already written are in earlier blocks.
LEMMA WrittenElsewhere ==
  ASSUME WriteShape, NEW b \in Blocks, NEW i \in Inside,
         op.from <= Cell(b, i), Cell(b, i) < op.at
  PROVE  b # Block
<1>1. op.at \in Nat /\ op.from \in Nat /\ Cell(b, i) \in Nat
  BY CellType DEF WriteShape
<1>2. op.at # op.from
  BY <1>1
<1>3. From = 0
  BY <1>2 DEF WriteShape
<1>4. op.at = Cell(Block, From) /\ Block \in Nat
  BY <1>1, CellSplit DEF Block, From
<1>5. Block * BlockCells \in Nat
  BY <1>4, BlockStart
<1> QED
  BY <1>3, <1>4, <1>5 DEF Cell, Inside

\* The cells of the call from op.at up to the end of the block are the data region.
LEMMA ChunkDone ==
  ASSUME WriteShape, op.at < op.to, NEW b \in Blocks, NEW i \in Inside,
         Cell(b, i) < (Block + 1) * BlockCells, ~(Cell(b, i) < op.at), Cell(b, i) < op.to
  PROVE  b = Block /\ From <= i /\ i < Upto
<1>1. op.at \in Nat /\ op.to \in Nat /\ Cell(b, i) \in Nat /\ b \in Nat
  BY CellType DEF WriteShape, Blocks
<1>2. op.at = Cell(Block, From) /\ Block \in Nat /\ From \in Inside
  BY <1>1, ChunkBounds
<1>3. /\ b * BlockCells \in Nat /\ Block * BlockCells \in Nat
      /\ (Block + 1) * BlockCells = Block * BlockCells + BlockCells
      /\ (b + 1) * BlockCells = b * BlockCells + BlockCells
  BY <1>1, <1>2, BlockStart, BlockEnd
<1>4. ~(b < Block)
  BY <1>1, <1>2, <1>3, BlocksApart, SparseDiskAssumption DEF Cell, Inside
<1>5. ~(Block < b)
  BY <1>1, <1>2, <1>3, BlocksApart, SparseDiskAssumption DEF Cell, Inside
<1>6. b = Block
  BY <1>1, <1>2, <1>4, <1>5
<1> QED
  BY <1>1, <1>6, ChunkCells

LEMMA InitRInv == Init => RInv
<1> SUFFICES ASSUME Init PROVE RInv
  OBVIOUS
<1>1. TablesAgree
  BY DEF Init, TablesAgree
<1>2. FileHolds
  <2>1. \A b \in Blocks, i \in Inside : expect[Cell(b, i)] = {Unwritten}
    BY CellType DEF Init
  <2> QED
    BY <2>1 DEF Init, FileHolds, CellHolds
<1> QED
  BY <1>1, <1>2 DEF Init, RInv, FillProgress, WriteProgress, DiscardProgress, Writing, Filling

\* A call that ends, well or not, leaves only TablesAgree and FileHolds to show.
LEMMA EndedRInv ==
  ASSUME pc' \in {"idle", "closed", "corrupt"}, TablesAgree', FileHolds' PROVE RInv'
BY DEF RInv, FillProgress, WriteProgress, DiscardProgress, Writing, Filling

LEMMA RInvBeginWrite ==
  ASSUME IInv, TInv, RInv, NEW from \in Nat, NEW to \in Nat, to <= NumBlocks * BlockCells,
         NEW buf, BeginWrite(from, to, buf)
  PROVE  RInv'
<1>1. /\ pc = "idle" /\ pc' = "chunk" /\ UNCHANGED <<stack, f_table, f_data, table, torn>>
      /\ op' = [kind |-> "write", at |-> from, to |-> to, buf |-> buf,
                from |-> from, fresh |-> FALSE, todo |-> << >>]
      /\ expect' = [c \in Cells |-> IF c \in from .. to - 1 THEN expect[c] \cup {buf[c]}
                                    ELSE expect[c]]
  BY DEF BeginWrite, fileVars, memVars
<1>2. Unwritten' = Unwritten
  BY <1>1 DEF Unwritten
<1>3. TablesAgree'
  BY <1>1 DEF RInv, TablesAgree, Up
<1>4. FileHolds'
  <2> SUFFICES ASSUME NEW b \in Blocks \ torn, NEW i \in Inside
               PROVE  CellHolds(f_table'[b], f_data', Unwritten', i, expect'[Cell(b, i)])
    BY <1>1 DEF FileHolds
  <2>1. CellHolds(f_table[b], f_data, Unwritten, i, expect[Cell(b, i)])
    BY <1>1 DEF RInv, FileHolds, FreshBlock, Filling
  <2>2. expect[Cell(b, i)] \subseteq expect'[Cell(b, i)]
    BY <1>1, CellType
  <2> QED
    BY <1>1, <1>2, <2>1, <2>2, HoldsMore
<1>5. WriteProgress'
  <2>1. op'.at = from /\ op'.from = from /\ op'.to = to /\ op'.buf = buf
    BY <1>1
  <2>2. \A c \in from .. to - 1 : buf[c] \in expect'[c]
    BY <1>1, SparseDiskAssumption DEF Cells
  <2>3. \A b \in Blocks, i \in Inside : ~(from <= Cell(b, i) /\ Cell(b, i) < from)
    BY CellType
  <2> QED
    BY <2>1, <2>2, <2>3 DEF WriteProgress
<1>6. FillProgress' /\ DiscardProgress'
  BY <1>1 DEF FillProgress, DiscardProgress, Filling
<1> QED
  BY <1>3, <1>4, <1>5, <1>6 DEF RInv

LEMMA RInvBeginDiscard ==
  ASSUME IInv, TInv, RInv, NEW from \in Nat, NEW to \in Nat, BeginDiscard(from, to)
  PROVE  RInv'
<1> DEFINE start == (from + BlockCells - 1) \div BlockCells
           end == to \div BlockCells
           gone == UNION {CellsOf(b) : b \in start .. end - 1}
<1>1. /\ pc = "idle" /\ pc' = "free" /\ UNCHANGED <<stack, f_table, f_data, table, torn>>
      /\ op' = [kind |-> "discard", at |-> start, to |-> end, cells |-> gone]
      /\ expect' = [c \in Cells |-> IF c \in gone THEN expect[c] \cup {Unwritten} ELSE expect[c]]
  BY DEF BeginDiscard, fileVars, memVars
<1>2. Unwritten' = Unwritten
  BY <1>1 DEF Unwritten
<1>3. start \in Nat /\ end \in Nat
  BY SparseDiskAssumption
<1>4. \A c : c \in gone <=> \E b \in start .. end - 1 : c \in CellsOf(b)
  OBVIOUS
<1> HIDE DEF start, end, gone
<1>5. TablesAgree'
  BY <1>1 DEF RInv, TablesAgree, Up
<1>6. FileHolds'
  <2> SUFFICES ASSUME NEW b \in Blocks \ torn, NEW i \in Inside
               PROVE  CellHolds(f_table'[b], f_data', Unwritten', i, expect'[Cell(b, i)])
    BY <1>1 DEF FileHolds
  <2>1. CellHolds(f_table[b], f_data, Unwritten, i, expect[Cell(b, i)])
    BY <1>1 DEF RInv, FileHolds, FreshBlock, Filling
  <2>2. expect[Cell(b, i)] \subseteq expect'[Cell(b, i)]
    BY <1>1, CellType
  <2> QED
    BY <1>1, <1>2, <2>1, <2>2, HoldsMore
<1>7. DiscardProgress'
  <2>1. op'.at = start /\ op'.to = end /\ op'.cells = gone
    BY <1>1
  <2>2. ASSUME NEW b \in Blocks, NEW i \in Inside
        PROVE  /\ start <= b /\ b < end => Cell(b, i) \in gone
               /\ Cell(b, i) \in gone => start <= b /\ b < end /\ Unwritten \in expect'[Cell(b, i)]
    <3>1. b \in Nat /\ b * BlockCells \in Nat /\ (b + 1) * BlockCells = b * BlockCells + BlockCells
      BY BlockStart, BlockEnd DEF Blocks
    <3>2. Cell(b, i) \in CellsOf(b)
      BY <3>1, SparseDiskAssumption DEF Cell, CellsOf, Inside
    <3>3. start <= b /\ b < end => Cell(b, i) \in gone
      BY <1>3, <1>4, <3>1, <3>2
    <3>4. ASSUME Cell(b, i) \in gone PROVE start <= b /\ b < end
      <4>1. PICK a \in start .. end - 1 : Cell(b, i) \in CellsOf(a)
        BY <1>4, <3>4
      <4>2. a \in Nat
        BY <1>3
      <4>3. a * BlockCells \in Nat /\ (a + 1) * BlockCells = a * BlockCells + BlockCells
        BY <4>2, BlockStart, BlockEnd
      <4>4. Cell(b, i) - a * BlockCells \in Inside /\ Cell(b, i) = Cell(a, Cell(b, i) - a * BlockCells)
        BY <3>1, <4>1, <4>3, SparseDiskAssumption DEF Cell, CellsOf, Inside
      <4>5. a = b
        BY <3>1, <4>2, <4>4, CellsApart
      <4> QED
        BY <1>3, <4>1, <4>5
    <3>5. Cell(b, i) \in gone => Unwritten \in expect'[Cell(b, i)]
      BY <1>1, CellType
    <3> QED
      BY <3>3, <3>4, <3>5
  <2>3. \A b \in Blocks : start <= b => ~(b < start)
    BY <1>3 DEF Blocks
  <2> QED
    BY <1>2, <2>1, <2>2, <2>3 DEF DiscardProgress
<1>8. FillProgress' /\ WriteProgress'
  BY <1>1 DEF FillProgress, WriteProgress, Writing, Filling
<1> QED
  BY <1>5, <1>6, <1>7, <1>8 DEF RInv

LEMMA RInvChunk ==
  ASSUME IInv, TInv, RInv, SkipZeros \/ UseExisting \/ FinishWrite PROVE RInv'
<1>1. pc = "chunk" /\ WriteShape /\ TodoShape /\ Writing /\ ~op.fresh
      /\ UNCHANGED <<stack, f_table, f_data, table, torn>>
  BY InDisk DEF SkipZeros, UseExisting, FinishWrite, fileVars, memVars, histVars, Writing,
                TodoShape
<1>2. Unwritten' = Unwritten
  BY <1>1 DEF Unwritten
<1>3. \A b \in Blocks \ torn : table[b] = f_table[b]
  BY <1>1 DEF RInv, TablesAgree, FreshBlock, Up
<1>4. \A b \in Blocks \ torn, i \in Inside :
        CellHolds(f_table[b], f_data, Unwritten, i, expect[Cell(b, i)])
  BY <1>1 DEF RInv, FileHolds, FreshBlock, Filling
<1>5. TablesAgree'
  BY <1>1, <1>3 DEF TablesAgree
<1>6. /\ \A c \in op.from .. op.to - 1 : op.buf[c] \in expect[c]
      /\ \A b \in Blocks \ torn : \A i \in Inside :
           op.from <= Cell(b, i) /\ Cell(b, i) < op.at /\ Cell(b, i) < op.to
             => CellHolds(f_table[b], f_data, Unwritten, i, {op.buf[Cell(b, i)]})
  BY <1>1 DEF RInv, WriteProgress
<1>7. CASE SkipZeros
  <2>1. pc' = "chunk" /\ op.at < op.to /\ DropsZeros /\ op' = Advanced /\ expect' = expect
    BY <1>7 DEF SkipZeros, histVars
  <2>2. op'.at = (Block + 1) * BlockCells /\ op'.to = op.to /\ op'.from = op.from
        /\ op'.buf = op.buf
    BY <1>1, <2>1, AdvancedShape
  <2>3. FileHolds'
    BY <1>1, <1>2, <1>4, <2>1 DEF FileHolds
  <2>4. ASSUME NEW b \in Blocks \ torn, NEW i \in Inside, op.from <= Cell(b, i),
               Cell(b, i) < (Block + 1) * BlockCells, Cell(b, i) < op.to
        PROVE  CellHolds(f_table[b], f_data, Unwritten, i, {op.buf[Cell(b, i)]})
    <3>1. CASE Cell(b, i) < op.at
      BY <1>6, <2>4, <3>1
    <3>2. CASE ~(Cell(b, i) < op.at)
      <4>1. b = Block /\ From <= i /\ i < Upto
        BY <1>1, <2>1, <2>4, <3>2, ChunkDone
      <4>2. f_table[b] = Unmapped /\ Unwritten = 0
        BY <1>3, <2>1, <4>1 DEF DropsZeros, Unwritten
      <4>3. op.at \in Nat /\ op.to \in Nat
        BY <1>1 DEF WriteShape
      <4>4. op.at = Cell(Block, From) /\ From \in Inside /\ Upto \in Nat /\ Block \in Nat
        BY <2>1, <4>3, ChunkBounds
      <4>5. Block * BlockCells \in Nat
        BY <4>4, BlockStart
      <4>6. Cell(b, i) \in op.at .. op.at + Upto - From - 1
        BY <4>1, <4>3, <4>4, <4>5 DEF Cell, Inside
      <4>7. op.buf[Cell(b, i)] = 0
        BY <2>1, <4>6 DEF DropsZeros
      <4> QED
        BY <4>2, <4>7 DEF CellHolds
    <3> QED
      BY <3>1, <3>2
  <2>5. WriteProgress'
    BY <1>1, <1>2, <1>6, <2>1, <2>2, <2>4 DEF WriteProgress
  <2>6. FillProgress' /\ DiscardProgress'
    BY <2>1 DEF FillProgress, DiscardProgress, Filling
  <2> QED
    BY <1>5, <2>3, <2>5, <2>6 DEF RInv
<1>8. CASE UseExisting
  <2>1. pc' = "regions" /\ op' = [op EXCEPT !.todo = <<"data">>] /\ expect' = expect
    BY <1>8 DEF UseExisting, histVars
  <2>2. op'.at = op.at /\ op'.to = op.to /\ op'.from = op.from /\ op'.buf = op.buf
        /\ ~op'.fresh
    BY <1>1, <2>1, HeldShape
  <2>3. FileHolds'
    BY <1>1, <1>2, <1>4, <2>1 DEF FileHolds
  <2>4. WriteProgress'
    BY <1>1, <1>2, <1>6, <2>1, <2>2 DEF WriteProgress
  <2>5. FillProgress' /\ DiscardProgress'
    BY <2>1, <2>2 DEF FillProgress, DiscardProgress, Filling
  <2> QED
    BY <1>5, <2>3, <2>4, <2>5 DEF RInv
<1>9. CASE FinishWrite
  <2>1. /\ pc' = "idle" /\ op.at >= op.to
        /\ expect' = [c \in Cells |-> IF c \in op.from .. op.to - 1 THEN {op.buf[c]} ELSE expect[c]]
    BY <1>9 DEF FinishWrite
  <2>2. ASSUME NEW b \in Blocks \ torn, NEW i \in Inside
        PROVE  CellHolds(f_table[b], f_data, Unwritten, i, expect'[Cell(b, i)])
    <3>1. Cell(b, i) \in Cells /\ Cell(b, i) \in Nat
      BY CellType
    <3>2. CASE Cell(b, i) \in op.from .. op.to - 1
      <4>1. expect'[Cell(b, i)] = {op.buf[Cell(b, i)]}
        BY <2>1, <3>1, <3>2
      <4>2. op.from <= Cell(b, i) /\ Cell(b, i) < op.at /\ Cell(b, i) < op.to
        BY <1>1, <2>1, <3>1, <3>2 DEF WriteShape
      <4> QED
        BY <1>6, <4>1, <4>2
    <3>3. CASE Cell(b, i) \notin op.from .. op.to - 1
      BY <1>4, <2>1, <3>1, <3>3
    <3> QED
      BY <3>2, <3>3
  <2>3. FileHolds'
    BY <1>1, <1>2, <2>2 DEF FileHolds
  <2> QED
    BY <1>5, <2>1, <2>3, EndedRInv
<1> QED
  BY <1>7, <1>8, <1>9

LEMMA RInvAllocate == ASSUME IInv, TInv, RInv, Allocate PROVE RInv'
<1>1. /\ pc = "chunk" /\ WriteShape /\ TodoShape /\ Writing /\ ~op.fresh /\ Block \in Blocks
      /\ table[Block] = Unmapped /\ table \in [Blocks -> Entries]
      /\ UNCHANGED <<stack, f_table, f_data, torn, expect>> /\ pc' \in {"header", "entry"}
      /\ op' = [op EXCEPT !.fresh = TRUE, !.todo = FillOrder]
  BY InDisk DEF Allocate, fileVars, histVars, Writing, TodoShape, IInv, SlotTypes
<1>2. Unwritten' = Unwritten
  BY <1>1 DEF Unwritten
<1>3. op'.fresh /\ op'.at = op.at /\ op'.to = op.to /\ op'.from = op.from /\ op'.buf = op.buf
  <2>1. DOMAIN op = {"kind", "at", "to", "buf", "from", "fresh", "todo"}
    BY <1>1 DEF WriteShape
  <2> QED
    BY <1>1, <2>1
<1>4. Block' = Block
  BY <1>3 DEF Block
<1>5. \A b \in Blocks \ {Block} : table'[b] = table[b]
  <2>1. PICK slot \in 0 .. alloc : table' = [table EXCEPT ![Block] = slot]
    BY DEF Allocate
  <2> QED
    BY <1>1, <2>1
<1>6. \A b \in Blocks \ torn : table[b] = f_table[b]
  BY <1>1 DEF RInv, TablesAgree, FreshBlock, Up
<1>7. \A b \in Blocks \ torn, i \in Inside :
        CellHolds(f_table[b], f_data, Unwritten, i, expect[Cell(b, i)])
  BY <1>1 DEF RInv, FileHolds, FreshBlock, Filling
<1>8. Filling' /\ Writing'
  BY <1>1 DEF Filling, Writing
<1>9. \A b : FreshBlock(b)' <=> b = Block
  BY <1>3, <1>4, <1>8 DEF FreshBlock
<1>10. TablesAgree'
  BY <1>1, <1>5, <1>6, <1>9 DEF TablesAgree
<1>11. FileHolds'
  BY <1>1, <1>2, <1>7 DEF FileHolds
<1>12. Block \notin torn => \A i \in Inside : Unwritten \in expect[Cell(Block, i)]
  BY <1>1, <1>6, <1>7 DEF CellHolds
<1>13. FillProgress'
  BY <1>1, <1>2, <1>4, <1>12 DEF FillProgress
<1>14. WriteProgress'
  BY <1>1, <1>2, <1>3 DEF RInv, WriteProgress
<1>15. DiscardProgress'
  BY <1>1 DEF DiscardProgress
<1> QED
  BY <1>10, <1>11, <1>13, <1>14, <1>15 DEF RInv

LEMMA RInvPersist ==
  ASSUME IInv, TInv, RInv, PersistHeader \/ PersistEntry PROVE RInv'
<1>1. /\ pc \in {"header", "entry"} /\ WriteShape /\ TodoShape /\ Writing /\ Filling
      /\ Block \in Blocks /\ f_table \in [Blocks -> Entries] /\ op.fresh
      /\ UNCHANGED <<stack, f_data, table, torn, expect, op>> /\ pc' \in {"entry", "grow"}
  BY InDisk DEF PersistHeader, PersistEntry, memVars, histVars, Writing, Filling, TodoShape,
                IInv, SlotTypes
<1>2. Unwritten' = Unwritten /\ Block' = Block
  BY <1>1 DEF Unwritten, Block
<1>3. \A b \in Blocks \ {Block} : f_table'[b] = f_table[b]
  BY <1>1 DEF PersistHeader, PersistEntry
<1>4. pc' = "grow" => f_table'[Block] = table[Block]
  BY <1>1 DEF PersistHeader, PersistEntry
<1>5. Filling' /\ Writing' /\ Up
  BY <1>1 DEF Filling, Writing, Up
<1>6. \A b : (FreshBlock(b)' <=> b = Block) /\ (FreshBlock(b) <=> b = Block)
  BY <1>1, <1>2, <1>5 DEF FreshBlock
<1>7. TablesAgree'
  BY <1>1, <1>3, <1>4, <1>5, <1>6 DEF RInv, TablesAgree
<1>8. FileHolds'
  BY <1>1, <1>2, <1>3, <1>6 DEF RInv, FileHolds
<1>9. FillProgress'
  BY <1>1, <1>2, <1>5 DEF RInv, FillProgress
<1>10. WriteProgress'
  <2>1. ASSUME NEW b \in Blocks \ torn, NEW i \in Inside,
               op.from <= Cell(b, i), Cell(b, i) < op.at, Cell(b, i) < op.to
        PROVE  CellHolds(f_table'[b], f_data, Unwritten, i, {op.buf[Cell(b, i)]})
    <3>1. b # Block
      BY <1>1, <2>1, WrittenElsewhere
    <3> QED
      BY <1>1, <1>3, <2>1, <3>1 DEF RInv, WriteProgress
  <2> QED
    BY <1>1, <1>2, <2>1 DEF RInv, WriteProgress
<1>11. DiscardProgress'
  BY <1>1 DEF DiscardProgress
<1> QED
  BY <1>7, <1>8, <1>9, <1>10, <1>11 DEF RInv

LEMMA RInvGrow == ASSUME IInv, TInv, RInv, Grow PROVE RInv'
<1>1. /\ pc = "grow" /\ WriteShape /\ TodoShape /\ Writing /\ Filling /\ op.at < op.to
      /\ Block \in Blocks /\ op.fresh /\ op.todo = FillOrder
      /\ UNCHANGED <<stack, f_table, table, torn, expect, op>> /\ pc' = "regions"
  BY InDisk DEF Grow, memVars, histVars, Writing, Filling, TodoShape
<1>2. Unwritten' = Unwritten /\ Block' = Block
  BY <1>1 DEF Unwritten, Block
<1>3. PICK s : s = table[Block]
  OBVIOUS
<1>4. /\ s \in Nat
      /\ Len(f_data') = IF Len(f_data) >= (s + 1) * BlockCells THEN Len(f_data)
                        ELSE (s + 1) * BlockCells
      /\ \A k \in 1 .. Len(f_data) : f_data'[k] = f_data[k]
  BY <1>3, GrowData
<1>5. (s + 1) * BlockCells \in Nat /\ Len(f_data) \in Nat
  BY <1>4, BlockStart DEF TInv, OtherTypes
<1>6. Len(f_data') >= Len(f_data) /\ Len(f_data') >= (s + 1) * BlockCells /\ Len(f_data') \in Nat
  BY <1>4, <1>5
<1>7. ASSUME NEW b \in Blocks, NEW i \in Inside, NEW V,
             CellHolds(f_table[b], f_data, Unwritten, i, V)
      PROVE  CellHolds(f_table'[b], f_data', Unwritten', i, V)
  <2>1. ASSUME f_table[b] # Unmapped, At(f_table[b], i) <= Len(f_data)
        PROVE  At(f_table[b], i) <= Len(f_data') /\ f_data'[At(f_table[b], i)] = f_data[At(f_table[b], i)]
    <3>1. f_table[b] \in Nat
      BY <2>1 DEF IInv, SlotTypes, Entries
    <3>2. At(f_table[b], i) \in Nat /\ 1 <= At(f_table[b], i)
      BY <3>1, SlotWithin
    <3> QED
      BY <1>4, <1>5, <1>6, <2>1, <3>2
  <2>2. CellHolds(f_table[b], f_data', Unwritten, i, V)
    BY <1>7, <2>1, HoldsKept
  <2> QED
    BY <1>1, <1>2, <2>2
<1>8. Filling' /\ Writing' /\ Up
  BY <1>1 DEF Filling, Writing, Up
<1>9. \A b : (FreshBlock(b)' <=> b = Block) /\ (FreshBlock(b) <=> b = Block)
  BY <1>1, <1>2, <1>8 DEF FreshBlock
<1>10. TablesAgree'
  BY <1>1, <1>8, <1>9 DEF RInv, TablesAgree
<1>11. FileHolds'
  BY <1>1, <1>7, <1>9 DEF RInv, FileHolds
<1>12. FillProgress'
  <2>1. \A r \in Regions : Filled(r)' <=> Filled(r)
    BY <1>1 DEF Filled
  <2>2. \A r \in Regions : Lo(r)' = Lo(r) /\ Hi(r)' = Hi(r)
    BY <1>1, ChunkKept
  <2>3. \A r \in Regions : Filled(r) => ~(Lo(r) < Hi(r))
    BY <1>1, FillOrderCovers DEF Filled, WriteShape
  <2>4. \A r \in Regions : Lo(r) \in Nat /\ Hi(r) \in Nat
    BY <1>1, RegionsCover DEF WriteShape
  <2>5. \A r \in Regions : Filled(r) => \A i \in Inside : ~(Lo(r) <= i /\ i < Hi(r))
    BY <2>3, <2>4 DEF Inside
  <2>6. Block \notin torn => \A i \in Inside : Unwritten \in expect[Cell(Block, i)]
    BY <1>1 DEF RInv, FillProgress
  <2> QED
    BY <1>1, <1>2, <1>3, <1>6, <2>1, <2>2, <2>5, <2>6 DEF FillProgress
<1>13. WriteProgress'
  BY <1>1, <1>2, <1>7 DEF RInv, WriteProgress
<1>14. DiscardProgress'
  BY <1>1 DEF DiscardProgress
<1> QED
  BY <1>10, <1>11, <1>12, <1>13, <1>14 DEF RInv

\* Writing a region leaves the cells of the other blocks alone, and completes
\* the block when it is the last one.
LEMMA RInvRegion == ASSUME IInv, TInv, RInv, WriteRegion PROVE RInv'
<1>1. /\ pc = "regions" /\ WriteShape /\ TodoShape /\ Writing /\ Filling /\ op.at < op.to /\ Up
      /\ Block \in Blocks /\ op.todo \in Seq(Regions) /\ op.todo # << >>
      /\ UNCHANGED <<stack, f_table, table, torn, expect>> /\ op.at \in Nat /\ op.to \in Nat
  BY InDisk DEF WriteRegion, memVars, histVars, Writing, Filling, TodoShape, Up, WriteShape
<1>2. Unwritten' = Unwritten
  BY <1>1 DEF Unwritten
<1>3. PICK r, s : r = Head(op.todo) /\ s = table[Block]
  OBVIOUS
<1>4. /\ r \in Regions /\ s \in Nat /\ f_data' \in Seq(DataCells)
      /\ Len(f_data') = IF Len(f_data) >= s * BlockCells + Hi(r) THEN Len(f_data)
                        ELSE s * BlockCells + Hi(r)
      /\ \A i \in Inside : Lo(r) <= i /\ i < Hi(r) => f_data'[At(s, i)] = Put(r, i)
      /\ \A t \in Nat, i \in Inside :
           At(t, i) <= Len(f_data) /\ ~(t = s /\ Lo(r) <= i /\ i < Hi(r))
             => f_data'[At(t, i)] = f_data[At(t, i)]
  BY <1>3, RegionWritten
<1>5. Lo(r) \in Nat /\ Hi(r) \in Nat /\ s * BlockCells \in Nat /\ Len(f_data) \in Nat
  <2>1. Lo(r) \in Nat /\ Hi(r) \in Nat
    BY <1>1, <1>4, RegionsCover
  <2>2. s * BlockCells \in Nat
    BY <1>4, BlockStart
  <2>3. Len(f_data) \in Nat
    BY DEF TInv, OtherTypes
  <2> QED
    BY <2>1, <2>2, <2>3
<1>18. (s + 1) * BlockCells \in Nat
       /\ \A i \in Inside : At(s, i) \in Nat /\ At(s, i) <= (s + 1) * BlockCells
  <2>1. s \in Nat /\ s + 1 \in Nat
    BY <1>4
  <2>2. (s + 1) * BlockCells \in Nat
    BY <2>1, BlockStart
  <2>3. \A i \in Inside : At(s, i) \in Nat /\ At(s, i) <= (s + 1) * BlockCells
    BY <2>1, SlotWithin
  <2> QED
    BY <2>2, <2>3
<1>6. Len(f_data') >= Len(f_data) /\ Len(f_data') >= s * BlockCells + Hi(r) /\ Len(f_data') \in Nat
  BY <1>4, <1>5
<1>7. \A i \in Inside : Lo(r) <= i /\ i < Hi(r) => At(s, i) <= Len(f_data')
  BY <1>5, <1>6 DEF At, Inside
<1>8. ASSUME NEW b \in Blocks, b # Block, NEW i \in Inside, NEW V,
             CellHolds(f_table[b], f_data, Unwritten, i, V)
      PROVE  CellHolds(f_table[b], f_data', Unwritten, i, V)
  <2>1. ASSUME f_table[b] # Unmapped, At(f_table[b], i) <= Len(f_data)
        PROVE  At(f_table[b], i) <= Len(f_data') /\ f_data'[At(f_table[b], i)] = f_data[At(f_table[b], i)]
    <3>1. f_table[b] \in Nat
      BY <2>1 DEF IInv, SlotTypes, Entries
    <3>2. f_table[b] # s
      BY <1>1, <1>3, <1>4, <1>8 DEF IInv, OneBlockPerSlot, Unmapped
    <3>3. At(f_table[b], i) \in Nat
      BY <3>1, SlotWithin
    <3> QED
      BY <1>4, <1>5, <1>6, <2>1, <3>1, <3>2, <3>3
  <2> QED
    BY <1>8, <2>1, HoldsKept
<1>9. \A b \in Blocks \ torn : table[b] = f_table[b]
  BY <1>1 DEF RInv, TablesAgree
<1>10. \A b \in Blocks \ torn : b # Block => \A i \in Inside :
         CellHolds(f_table[b], f_data', Unwritten, i, expect[Cell(b, i)])
  BY <1>8 DEF RInv, FileHolds, FreshBlock
<1>11. \A c \in op.from .. op.to - 1 : op.buf[c] \in expect[c]
  BY <1>1 DEF RInv, WriteProgress
<1>12. ASSUME NEW b \in Blocks \ torn, NEW i \in Inside,
              op.from <= Cell(b, i), Cell(b, i) < op.at, Cell(b, i) < op.to
       PROVE  CellHolds(f_table[b], f_data', Unwritten, i, {op.buf[Cell(b, i)]})
  <2>1. b # Block
    BY <1>1, <1>12, WrittenElsewhere
  <2>2. CellHolds(f_table[b], f_data, Unwritten, i, {op.buf[Cell(b, i)]})
    BY <1>1, <1>12 DEF RInv, WriteProgress
  <2> QED
    BY <1>8, <2>1, <2>2
<1>13. TablesAgree'
  BY <1>1, <1>9 DEF TablesAgree
\* The regions filled so far, in a new block, and the one written now.
<1>14. ASSUME op.fresh, NEW q \in Regions, Filled(q) \/ q = r, NEW i \in Inside,
              Lo(q) <= i, i < Hi(q)
       PROVE  f_data'[At(s, i)] = Put(q, i)
  <2>1. CASE q = r
    BY <1>4, <1>14, <2>1
  <2>2. CASE q # r
    <3>1. f_data[At(s, i)] = Put(q, i) /\ Len(f_data) >= (s + 1) * BlockCells
      BY <1>1, <1>3, <1>14, <2>2 DEF RInv, FillProgress
    <3>2. At(s, i) <= Len(f_data)
      BY <1>5, <1>18, <3>1
    <3>3. ~(Lo(r) <= i /\ i < Hi(r))
      BY <1>1, <1>4, <1>14, <2>2, RegionsCover
    <3> QED
      BY <1>4, <3>1, <3>2, <3>3
  <2> QED
    BY <2>1, <2>2
<1>15. op.fresh => Len(f_data') >= (s + 1) * BlockCells /\ (s + 1) * BlockCells \in Nat
  <2>1. op.fresh => Len(f_data) >= (s + 1) * BlockCells
    BY <1>1, <1>3 DEF RInv, FillProgress
  <2>2. (s + 1) * BlockCells \in Nat
    BY <1>4, BlockStart
  <2> QED
    BY <1>5, <1>6, <2>1, <2>2
<1>16. CASE Len(op.todo) > 1
  <2>1. op' = [op EXCEPT !.todo = Tail(op.todo)] /\ pc' = "regions"
    BY <1>16 DEF WriteRegion
  <2>2. op'.at = op.at /\ op'.to = op.to /\ op'.from = op.from /\ op'.buf = op.buf
        /\ op'.fresh = op.fresh /\ op'.todo = Tail(op.todo)
    BY <1>1, <2>1, HeldShape
  <2>3. op.fresh
    <3>1. op.fresh \in BOOLEAN
      BY <1>1 DEF WriteShape
    <3>2. ~op.fresh => op.todo = <<"data">>
      BY <1>1 DEF TodoShape
    <3>3. \A q : q = <<"data">> => ~(Len(q) > 1)
      OBVIOUS
    <3> QED
      BY <1>16, <3>1, <3>2, <3>3
  <2>4. Block' = Block /\ \A q \in Regions : Lo(q)' = Lo(q) /\ Hi(q)' = Hi(q)
    BY <1>1, <2>2, ChunkKept
  <2>5. Filling' /\ Writing'
    BY <2>1 DEF Filling, Writing
  <2>6. \A b : FreshBlock(b)' <=> b = Block
    BY <2>2, <2>3, <2>4, <2>5 DEF FreshBlock
  <2>7. FileHolds'
    BY <1>1, <1>2, <1>10, <2>6 DEF FileHolds
  <2>8. WriteProgress'
    BY <1>1, <1>2, <1>11, <1>12, <2>2 DEF WriteProgress
  <2>9. ASSUME NEW q \in Regions, Filled(q)' PROVE Filled(q) \/ q = r
    <3>1. /\ Len(Tail(op.todo)) = Len(op.todo) - 1
          /\ \A k \in 1 .. Len(Tail(op.todo)) : Tail(op.todo)[k] = op.todo[k + 1]
      BY <1>1, HeadTailProperties
    <3>2. Head(op.todo) = op.todo[1] /\ Len(op.todo) \in Nat
      BY <1>1
    <3>3. ~Lists(Tail(op.todo), q)
      BY <2>2, <2>9 DEF Filled
    <3>4. \A k \in 1 .. Len(op.todo) :
            k = 1 \/ (k - 1 \in 1 .. Len(Tail(op.todo)) /\ (k - 1) + 1 = k)
      BY <3>1, <3>2
    <3>5. ASSUME NEW k \in 1 .. Len(op.todo), op.todo[k] = q PROVE q = r
      <4>1. CASE k = 1
        BY <1>3, <3>2, <3>5, <4>1
      <4>2. CASE k # 1
        <5>1. k - 1 \in 1 .. Len(Tail(op.todo)) /\ (k - 1) + 1 = k
          BY <3>4, <4>2
        <5>2. Tail(op.todo)[k - 1] = q
          BY <3>1, <3>5, <5>1
        <5> QED
          BY <3>3, <5>1, <5>2 DEF Lists
      <4> QED
        BY <4>1, <4>2
    <3> QED
      BY <3>5 DEF Filled, Lists
  <2>10. \A q, i : Put(q, i)' = Put(q, i)
    BY <1>2, <2>2, <2>4 DEF Put
  <2>11. FillProgress'
    <3>1. Block' \notin torn' => \A i \in Inside : Unwritten' \in expect'[Cell(Block', i)]
      BY <1>1, <1>2, <2>3, <2>4 DEF RInv, FillProgress
    <3>2. Len(f_data') >= (table'[Block'] + 1) * BlockCells
      BY <1>1, <1>3, <1>15, <2>3, <2>4
    <3>3. ASSUME NEW q \in Regions, Filled(q)', NEW i \in Inside, Lo(q)' <= i, i < Hi(q)'
          PROVE  f_data'[At(table'[Block'], i)] = Put(q, i)'
      <4>1. Filled(q) \/ q = r
        BY <2>9, <3>3
      <4>2. Lo(q) <= i /\ i < Hi(q)
        BY <2>4, <3>3
      <4>3. f_data'[At(s, i)] = Put(q, i)
        BY <1>14, <2>3, <4>1, <4>2
      <4> QED
        BY <1>1, <1>3, <2>4, <2>10, <4>3
    <3> QED
      BY <3>1, <3>2, <3>3 DEF FillProgress
  <2>12. DiscardProgress'
    BY <2>1 DEF DiscardProgress
  <2> QED
    BY <1>13, <2>7, <2>8, <2>11, <2>12 DEF RInv
<1>17. CASE ~(Len(op.todo) > 1)
  <2>1. op' = [Advanced EXCEPT !.todo = << >>] /\ pc' = "chunk"
    BY <1>17 DEF WriteRegion
  <2>2. op'.at = (Block + 1) * BlockCells /\ op'.to = op.to /\ op'.from = op.from
        /\ op'.buf = op.buf
    BY <1>1, <2>1, AdvancedShape
  <2>3. \A q \in Regions : Filled(q) \/ q = r
    <3>1. Len(op.todo) \in Nat /\ Head(op.todo) = op.todo[1]
      BY <1>1
    <3>2. \A k \in 1 .. Len(op.todo) : k = 1
      BY <1>17, <3>1
    <3> QED
      BY <1>3, <3>1, <3>2 DEF Filled, Lists
  <2>4. ~op.fresh => r = "data"
    <3>1. ~op.fresh => op.todo = <<"data">>
      BY <1>1 DEF TodoShape
    <3>2. \A q : q = <<"data">> => Head(q) = "data"
      OBVIOUS
    <3> QED
      BY <1>3, <3>1, <3>2
  <2>5. op.fresh \in BOOLEAN
    BY <1>1 DEF WriteShape
  <2>6. ASSUME NEW i \in Inside, From <= i, i < Upto
        PROVE  At(s, i) <= Len(f_data') /\ f_data'[At(s, i)] = op.buf[Cell(Block, i)]
               /\ op.buf[Cell(Block, i)] \in expect[Cell(Block, i)]
    <3>1. Lo("data") <= i /\ i < Hi("data") /\ "data" \in Regions
      BY <2>6, RegionBounds DEF Regions
    <3>2. f_data'[At(s, i)] = Put("data", i)
      <4>1. CASE op.fresh
        BY <1>14, <2>3, <3>1, <4>1
      <4>2. CASE ~op.fresh
        BY <1>4, <2>4, <3>1, <4>2
      <4> QED
        BY <2>5, <4>1, <4>2
    <3>3. At(s, i) <= Len(f_data')
      <4>1. CASE op.fresh
        BY <1>6, <1>15, <1>18, <4>1
      <4>2. CASE ~op.fresh
        BY <1>7, <2>4, <3>1, <4>2
      <4> QED
        BY <2>5, <4>1, <4>2
    <3>4. op.at <= Cell(Block, i) /\ Cell(Block, i) < op.to /\ Cell(Block, i) \in Nat
      BY <1>1, <2>6, ChunkCells, CellType
    <3>5. Cell(Block, i) \in op.from .. op.to - 1
      BY <1>1, <3>4 DEF WriteShape
    <3> QED
      BY <1>11, <3>2, <3>3, <3>5 DEF Put
  <2>7. ASSUME Block \notin torn, NEW i \in Inside
        PROVE  CellHolds(f_table[Block], f_data', Unwritten, i, expect[Cell(Block, i)])
    <3>1. f_table[Block] = s /\ s # Unmapped
      BY <1>1, <1>3, <1>4, <1>9, <2>7 DEF Unmapped
    <3>2. CASE From <= i /\ i < Upto
      BY <2>6, <3>1, <3>2 DEF CellHolds
    <3>3. CASE ~(From <= i /\ i < Upto) /\ op.fresh
      <4>1. PICK q \in Regions : Lo(q) <= i /\ i < Hi(q)
        BY <1>1, RegionsCover
      <4>2. q # "data"
        BY <3>3, <4>1, RegionBounds
      <4>3. f_data'[At(s, i)] = Unwritten
        BY <1>14, <2>3, <3>3, <4>1, <4>2 DEF Put
      <4>4. At(s, i) <= Len(f_data')
        BY <1>6, <1>15, <1>18, <3>3
      <4>5. Unwritten \in expect[Cell(Block, i)]
        BY <1>1, <2>7, <3>3 DEF RInv, FillProgress
      <4> QED
        BY <3>1, <4>3, <4>4, <4>5 DEF CellHolds
    <3>4. CASE ~(From <= i /\ i < Upto) /\ ~op.fresh
      <4>1. CellHolds(s, f_data, Unwritten, i, expect[Cell(Block, i)])
        BY <1>1, <2>7, <3>1, <3>4 DEF RInv, FileHolds, FreshBlock
      <4>2. ~(Lo(r) <= i /\ i < Hi(r))
        BY <2>4, <3>4, RegionBounds
      <4>3. At(s, i) \in Nat
        BY <1>4, SlotWithin
      <4>4. At(s, i) <= Len(f_data) => At(s, i) <= Len(f_data') /\ f_data'[At(s, i)] = f_data[At(s, i)]
        BY <1>4, <1>5, <1>6, <4>2, <4>3
      <4>5. CellHolds(s, f_data', Unwritten, i, expect[Cell(Block, i)])
        BY <4>1, <4>4, HoldsKept
      <4> QED
        BY <3>1, <4>5
    <3> QED
      BY <2>5, <3>2, <3>3, <3>4
  <2>8. FileHolds'
    BY <1>1, <1>2, <1>10, <2>7 DEF FileHolds
  <2>9. ASSUME NEW b \in Blocks \ torn, NEW i \in Inside, op.from <= Cell(b, i),
               Cell(b, i) < (Block + 1) * BlockCells, Cell(b, i) < op.to
        PROVE  CellHolds(f_table[b], f_data', Unwritten, i, {op.buf[Cell(b, i)]})
    <3>1. CASE Cell(b, i) < op.at
      BY <1>12, <2>9, <3>1
    <3>2. CASE ~(Cell(b, i) < op.at)
      <4>1. b = Block /\ From <= i /\ i < Upto
        BY <1>1, <2>9, <3>2, ChunkDone
      <4>2. f_table[b] = s /\ s # Unmapped
        BY <1>3, <1>4, <1>9, <4>1 DEF Unmapped
      <4> QED
        BY <2>6, <4>1, <4>2 DEF CellHolds
    <3> QED
      BY <3>1, <3>2
  <2>10. WriteProgress'
    BY <1>1, <1>2, <1>11, <2>2, <2>9 DEF WriteProgress
  <2>11. FillProgress' /\ DiscardProgress'
    BY <2>1 DEF FillProgress, DiscardProgress, Filling
  <2> QED
    BY <1>13, <2>8, <2>10, <2>11 DEF RInv
<1> QED
  BY <1>16, <1>17

LEMMA RInvFree == ASSUME IInv, TInv, RInv, FreeBlock PROVE RInv'
<1>1. /\ pc = "free" /\ pc' = "free" /\ DiscardShape /\ op.at \in Blocks /\ op.at < op.to /\ Up
      /\ table \in [Blocks -> Entries] /\ f_table \in [Blocks -> Entries]
      /\ UNCHANGED <<stack, f_data, torn, expect>>
  BY InDisk DEF FreeBlock, histVars, IInv, SlotTypes, Up
<1>2. /\ table' = [table EXCEPT ![op.at] = Unmapped]
      /\ f_table' = [f_table EXCEPT ![op.at] = IF table[op.at] = Unmapped THEN f_table[op.at] ELSE Unmapped]
      /\ op' = [op EXCEPT !.at = op.at + 1]
  BY DEF FreeBlock
<1>3. op'.at = op.at + 1 /\ op'.to = op.to /\ op'.cells = op.cells /\ op.at \in Nat /\ op.to \in Nat
  BY <1>1, <1>2 DEF DiscardShape
<1>4. Unwritten' = Unwritten
  BY <1>1 DEF Unwritten
<1>5. \A b \in Blocks \ torn : table[b] = f_table[b]
  BY <1>1 DEF RInv, TablesAgree, FreshBlock
<1>6. \A b \in Blocks \ torn, i \in Inside :
        CellHolds(f_table[b], f_data, Unwritten, i, expect[Cell(b, i)])
  BY <1>1 DEF RInv, FileHolds, FreshBlock, Filling
<1>7. \A b \in Blocks : b # op.at => f_table'[b] = f_table[b] /\ table'[b] = table[b]
  BY <1>1, <1>2
<1>8. table'[op.at] = Unmapped /\ (op.at \notin torn => f_table'[op.at] = Unmapped)
  BY <1>1, <1>2, <1>5
<1>9. \A b \in Blocks : \A i \in Inside :
        /\ op.at <= b /\ b < op.to => Cell(b, i) \in op.cells
        /\ Cell(b, i) \in op.cells =>
             /\ b < op.to /\ Unwritten \in expect[Cell(b, i)]
             /\ b \notin torn /\ b < op.at => f_table[b] = Unmapped
  BY <1>1 DEF RInv, DiscardProgress
<1>10. TablesAgree'
  <2>1. \A b \in Blocks \ torn : table'[b] = f_table'[b]
    BY <1>5, <1>7, <1>8
  <2> QED
    BY <1>1, <2>1 DEF TablesAgree
<1>11. FileHolds'
  <2>1. ASSUME NEW b \in Blocks \ torn, NEW i \in Inside
        PROVE  CellHolds(f_table'[b], f_data, Unwritten, i, expect[Cell(b, i)])
    <3>1. CASE b = op.at
      <4>1. op.at <= b /\ b < op.to
        BY <1>1, <1>3, <3>1
      <4>2. Unwritten \in expect[Cell(b, i)]
        BY <1>9, <4>1
      <4> QED
        BY <1>8, <3>1, <4>2 DEF CellHolds
    <3>2. CASE b # op.at
      BY <1>6, <1>7, <3>2
    <3> QED
      BY <3>1, <3>2
  <2> QED
    BY <1>1, <1>4, <2>1 DEF FileHolds
<1>12. DiscardProgress'
  <2>1. ASSUME NEW b \in Blocks, NEW i \in Inside
        PROVE  /\ op'.at <= b /\ b < op'.to => Cell(b, i) \in op'.cells
               /\ Cell(b, i) \in op'.cells =>
                    /\ b < op'.to /\ Unwritten \in expect[Cell(b, i)]
                    /\ b \notin torn /\ b < op'.at => f_table'[b] = Unmapped
    <3>1. b \in Nat
      BY DEF Blocks
    <3>2. op'.at <= b => op.at <= b
      BY <1>3, <3>1
    <3>3. b < op'.at => b < op.at \/ b = op.at
      BY <1>3, <3>1
    <3>4. Cell(b, i) \in op.cells /\ b \notin torn /\ b < op'.at => f_table'[b] = Unmapped
      BY <1>7, <1>8, <1>9, <3>3
    <3> QED
      BY <1>3, <1>9, <3>2, <3>4
  <2> QED
    BY <1>1, <1>4, <2>1 DEF DiscardProgress
<1>13. FillProgress' /\ WriteProgress'
  BY <1>1 DEF FillProgress, WriteProgress, Writing, Filling
<1> QED
  BY <1>10, <1>11, <1>12, <1>13 DEF RInv

LEMMA RInvTrimHeader == ASSUME IInv, TInv, RInv, TrimHeader PROVE RInv'
<1>1. /\ pc = "free" /\ pc' = "truncate" /\ UNCHANGED <<stack, f_table, f_data, table, torn, expect, op>>
  BY DEF TrimHeader, Trim, histVars
<1>2. Unwritten' = Unwritten
  BY <1>1 DEF Unwritten
<1>3. TablesAgree'
  BY <1>1 DEF RInv, TablesAgree, Up
<1>4. FileHolds'
  BY <1>1, <1>2 DEF RInv, FileHolds, FreshBlock, Filling
<1>5. DiscardProgress'
  BY <1>1, <1>2 DEF RInv, DiscardProgress
<1>6. FillProgress' /\ WriteProgress'
  BY <1>1 DEF FillProgress, WriteProgress, Writing, Filling
<1> QED
  BY <1>3, <1>4, <1>5, <1>6 DEF RInv

\* The end of a discard: its blocks have no slot, and the slots in use are
\* below the cut.
LEMMA RInvFinishDiscard ==
  ASSUME IInv, TInv, RInv, NothingToTrim \/ Truncate PROVE RInv'
<1>1. /\ pc \in {"free", "truncate"} /\ DiscardShape /\ op.at = op.to /\ pc' = "idle" /\ Up
      /\ UNCHANGED <<stack, f_table, table, torn>>
      /\ expect' = [c \in Cells |-> IF c \in op.cells THEN {Unwritten} ELSE expect[c]]
  BY InDisk DEF NothingToTrim, Truncate, FinishDiscard, fileVars, memVars, Up, DiscardShape
<1>2. Unwritten' = Unwritten
  BY <1>1 DEF Unwritten
<1>3. \A b \in Blocks \ torn : table[b] = f_table[b]
  BY <1>1 DEF RInv, TablesAgree, FreshBlock
<1>4. \A b \in Blocks \ torn, i \in Inside :
        CellHolds(f_table[b], f_data, Unwritten, i, expect[Cell(b, i)])
  BY <1>1 DEF RInv, FileHolds, FreshBlock, Filling
<1>5. TablesAgree'
  BY <1>1, <1>3 DEF TablesAgree
<1>6. ASSUME NEW b \in Blocks \ torn, NEW i \in Inside
      PROVE  CellHolds(f_table[b], f_data, Unwritten, i, expect'[Cell(b, i)])
  <2>1. Cell(b, i) \in Cells
    BY CellType
  <2>2. CASE Cell(b, i) \in op.cells
    <3>1. f_table[b] = Unmapped
      BY <1>1, <2>2 DEF RInv, DiscardProgress
    <3>2. expect'[Cell(b, i)] = {Unwritten}
      BY <1>1, <2>1, <2>2
    <3> QED
      BY <3>1, <3>2 DEF CellHolds
  <2>3. CASE Cell(b, i) \notin op.cells
    BY <1>1, <1>4, <2>1, <2>3
  <2> QED
    BY <2>2, <2>3
<1>7. ASSUME NEW b \in Blocks \ torn, NEW i \in Inside
      PROVE  CellHolds(f_table[b], f_data', Unwritten, i, expect'[Cell(b, i)])
  <2>1. CASE NothingToTrim
    BY <1>6, <2>1 DEF NothingToTrim, fileVars
  <2>2. CASE Truncate
    <3>1. ASSUME f_table[b] # Unmapped, At(f_table[b], i) <= Len(f_data)
          PROVE  At(f_table[b], i) <= Len(f_data')
                 /\ f_data'[At(f_table[b], i)] = f_data[At(f_table[b], i)]
      <4>1. f_table[b] \in Nat /\ f_table[b] < alloc /\ alloc \in Nat
        BY <1>1, <3>1 DEF IInv, SlotTypes, Entries, BitmapCovers
      <4>2. At(f_table[b], i) <= alloc * BlockCells
        BY <4>1, SlotBelow
      <4>3. At(f_table[b], i) \in Nat /\ 1 <= At(f_table[b], i)
        BY <4>1, SlotWithin
      <4>4. Len(f_data) \in Nat
        BY DEF TInv, OtherTypes
      <4>5. alloc * BlockCells \in Nat
        BY <4>1, BlockStart
      <4>6. Len(f_data') = IF Len(f_data) <= alloc * BlockCells THEN Len(f_data)
                           ELSE alloc * BlockCells
        BY <2>2, TruncateData
      <4>7. At(f_table[b], i) <= Len(f_data') /\ Len(f_data') \in Nat
        BY <3>1, <4>2, <4>4, <4>5, <4>6
      <4>8. At(f_table[b], i) \in 1 .. Len(f_data')
        BY <4>3, <4>7
      <4> QED
        BY <2>2, <4>7, <4>8, TruncateData
    <3> QED
      BY <1>6, <3>1, HoldsKept
  <2> QED
    BY <2>1, <2>2
<1>8. FileHolds'
  BY <1>1, <1>2, <1>7 DEF FileHolds
<1> QED
  BY <1>1, <1>5, <1>8, EndedRInv

\* A failure or a crash: the block being filled, if it is new, is torn.
LEMMA NotCutShort ==
  ASSUME TInv, NEW b, b \notin CutShort PROVE b \notin torn /\ ~FreshBlock(b)
<1>1. b \notin torn
  BY DEF CutShort
<1>2. Filling => op.kind = "write"
  BY DEF TInv, OpShape, WriteShape, Writing
<1> QED
  BY <1>1, <1>2 DEF CutShort, FreshBlock

LEMMA RInvFailure == ASSUME IInv, TInv, RInv, Fault \/ Crash PROVE RInv'
<1>1. pc' \in {"idle", "closed"} /\ UNCHANGED <<stack, f_table, f_data, expect>>
  BY DEF Fault, Crash, fileVars
<1>2. Unwritten' = Unwritten
  BY <1>1 DEF Unwritten
<1>3. \A b \in Blocks \ torn' : b \notin torn /\ ~FreshBlock(b)
  <2>1. CASE torn' = CutShort
    BY <2>1, NotCutShort
  <2>2. CASE torn' # CutShort
    <3>1. pc = "free" /\ torn \subseteq torn'
      BY <2>2 DEF Fault, Crash, Trim
    <3> QED
      BY <3>1 DEF FreshBlock, Filling
  <2> QED
    BY <2>1, <2>2
<1>4. FileHolds'
  BY <1>1, <1>2, <1>3 DEF RInv, FileHolds
<1>5. TablesAgree'
  <2>1. CASE Crash
    BY <2>1 DEF Crash, TablesAgree, Up
  <2>2. CASE Fault
    <3>1. Up
      BY <2>2 DEF Fault, Trim, Up
    <3>2. \A b \in Blocks \ torn' : table[b] = f_table[b]
      BY <1>3, <3>1 DEF RInv, TablesAgree
    <3>3. \A b \in Blocks \ torn' : table'[b] = table[b]
      <4>1. CASE table' = table
        BY <4>1
      <4>2. CASE table' # table
        <5>1. /\ pc = "free" /\ op.at < op.to /\ torn' = torn \cup {op.at}
              /\ table' = [table EXCEPT ![op.at] = Unmapped]
          BY <2>2, <4>2 DEF Fault, Trim, memVars
        <5>2. table \in [Blocks -> Entries]
          BY DEF IInv, SlotTypes
        <5> QED
          BY <5>1, <5>2
      <4> QED
        BY <4>1, <4>2
    <3> QED
      BY <1>1, <3>2, <3>3 DEF TablesAgree
  <2> QED
    BY <2>1, <2>2
<1> QED
  BY <1>1, <1>4, <1>5, EndedRInv

LEMMA RInvOpen == ASSUME IInv, TInv, RInv, Open PROVE RInv'
<1>1. pc = "closed" /\ UNCHANGED <<stack, f_table, f_data, expect, torn>>
      /\ pc' \in {"idle", "corrupt"} /\ (pc' = "idle" => table' = f_table)
  BY DEF Open, fileVars, histVars
<1>2. Unwritten' = Unwritten
  BY <1>1 DEF Unwritten
<1>3. FileHolds'
  BY <1>1, <1>2 DEF RInv, FileHolds, FreshBlock, Filling
<1>4. TablesAgree'
  BY <1>1 DEF TablesAgree, Up
<1> QED
  BY <1>1, <1>3, <1>4, EndedRInv

LEMMA RInvStep == IInv /\ TInv /\ RInv /\ DiskNext => RInv'
<1> SUFFICES ASSUME IInv, TInv, RInv, DiskNext PROVE RInv'
  OBVIOUS
<1>1. CASE AnyCall
  <2>1. PICK from \in 0 .. NumBlocks * BlockCells, to \in 0 .. NumBlocks * BlockCells :
          \/ from < to /\ \E buf \in [from .. to - 1 -> DataCells] : BeginWrite(from, to, buf)
          \/ BeginDiscard(from, to)
    BY <1>1 DEF AnyCall
  <2>2. from \in Nat /\ to \in Nat /\ to <= NumBlocks * BlockCells
    BY SparseDiskAssumption
  <2>3. CASE \E buf \in [from .. to - 1 -> DataCells] : BeginWrite(from, to, buf)
    <3>1. PICK buf : BeginWrite(from, to, buf)
      BY <2>3
    <3> QED
      BY <2>2, <3>1, RInvBeginWrite
  <2>4. CASE BeginDiscard(from, to)
    BY <2>2, <2>4, RInvBeginDiscard
  <2> QED
    BY <2>1, <2>3, <2>4
<1>2. CASE Rest
  <2>1. Unwritten' = Unwritten /\ Block' = Block /\ op' = op
        /\ UNCHANGED <<stack, f_table, f_data, table, torn, expect, pc>>
    BY <1>2 DEF Rest, Unwritten, Block
  <2>2. \A r \in Regions : Lo(r)' = Lo(r) /\ Hi(r)' = Hi(r)
    BY <2>1, ChunkKept
  <2>3. \A r \in Regions : Filled(r)' <=> Filled(r)
    BY <2>1 DEF Filled
  <2>4. \A r, i : Put(r, i)' = Put(r, i)
    BY <2>1 DEF Put
  <2>5. TablesAgree' /\ FileHolds'
    BY <2>1 DEF RInv, TablesAgree, FileHolds, FreshBlock, Filling, Up
  <2>6. FillProgress'
    BY <2>1, <2>2, <2>3, <2>4 DEF RInv, FillProgress, Filling
  <2>7. WriteProgress' /\ DiscardProgress'
    BY <2>1 DEF RInv, WriteProgress, DiscardProgress, Writing, Filling
  <2> QED
    BY <2>5, <2>6, <2>7 DEF RInv
<1> QED
  BY <1>1, <1>2, RInvChunk, RInvAllocate, RInvPersist, RInvGrow, RInvRegion, RInvFree,
     RInvTrimHeader, RInvFinishDiscard, RInvFailure, RInvOpen DEF DiskNext, Step

LEMMA ReadsByInv == IInv /\ TInv /\ RInv => ReadsReturnWrites
<1> SUFFICES ASSUME IInv, TInv, RInv, pc = "idle", NEW b \in Blocks \ torn, NEW c \in CellsOf(b)
             PROVE  ReadCell(c) \in expect[c]
  BY DEF ReadsReturnWrites
<1>1. b \in Nat /\ b * BlockCells \in Nat /\ (b + 1) * BlockCells = b * BlockCells + BlockCells
  BY BlockStart, BlockEnd DEF Blocks
<1>2. PICK i \in Inside : c = Cell(b, i)
  <2>1. c - b * BlockCells \in Inside /\ c = Cell(b, c - b * BlockCells)
    BY <1>1, SparseDiskAssumption DEF CellsOf, Cell, Inside
  <2> QED
    BY <2>1
<1>3. c \div BlockCells = b /\ c % BlockCells = i
  BY <1>2, CellType
<1>4. table[b] = f_table[b]
  BY DEF RInv, TablesAgree, FreshBlock, Up
<1>5. CellHolds(table[b], f_data, Unwritten, i, expect[c])
  BY <1>2, <1>4 DEF RInv, FileHolds, FreshBlock, Filling
<1> QED
  BY <1>3, <1>5 DEF CellHolds, ReadCell, At

\* Between calls, every cell of every block that no failure or crash cut short
\* reads as one of the values the calls may have left there: for disks
\* of any size, bare and as the overlay of a base disk, through any sequence of
\* writes, discards, failures, crashes and reopened images, with slots reused and
\* the file cut and grown (read_at, write_at, ensure_block_allocated,
\* deallocate_block_inner, trim_trailing_free_phys of sparse.rs and cow.rs).
THEOREM ReadsAlwaysReturnWrites == Spec => []ReadsReturnWrites
BY ReadsByInv, NextIsDiskNext, InitIInv, IInvStep, InitTInv, TInvStep, InitRInv, RInvStep, PTL DEF Spec

=============================================================================
