-------------------------- MODULE CachedDiskProofs --------------------------
(***************************************************************************)
(* The block cache in front of the disk, proved for caches and disks of    *)
(* any size, with blocks that overlap in any way, and any number of calls, *)
(* failing accesses and crashes.                                           *)
(*                                                                         *)
(* The disk keeps its own invariants under the cache (DiskNext covers what *)
(* the cache asks of it).  CacheInv relates the cache to what the disk may *)
(* hold, cell by cell (Sound): a cached value may be read and may become   *)
(* durable, and where no dirty entry covers the cell, what the disk holds  *)
(* may be read.  Before an entry is dropped or marked clean, its write has *)
(* left exactly its values below (BackInv); before a discard drops its     *)
(* entries, they are clean and their discarded cells are gone below        *)
(* (DropInv).                                                              *)
(***************************************************************************)
EXTENDS CachedDisk, SparseDiskProofs, BasicLemmas

-----------------------------------------------------------------------------
(* The cache's own state.                                                  *)

DiskEnd == NumBlocks * BlockCells
CacheBlocks == {CacheBlock(c) : c \in Cells}
CacheEntries == UNION {[block : {k}, dirty : BOOLEAN, data : [CellsIn(k) -> DataCells]]
                       : k \in CacheBlocks}

\* The members of a sequence; no two of its entries are for one block.
Ent(q) == {q[i] : i \in 1 .. Len(q)}
Once(q) == \A i, j \in 1 .. Len(q) : q[i].block = q[j].block => i = j

Kept == Ent(cache)
CacheShape == cache \in Seq(CacheEntries) /\ Once(cache)

Serving == req.kind \in {"read", "write"}
Sweeping == req.kind \in {"flush", "discard"}

\* The entry that waits for space is for the chunk's block, and the only one.
EntryShape(e) ==
  e = NoReq \/ (e \in CacheEntries /\ ~e.dirty /\ req.at < req.to /\ e.block = Key /\ ~Holds(Key))

ServeShape ==
  Serving =>
    /\ DOMAIN req = IF req.kind = "read" THEN {"kind", "at", "to", "entry"}
                    ELSE {"kind", "at", "to", "v", "from", "entry"}
    /\ req.at \in Nat /\ req.to \in Nat /\ req.at <= req.to /\ req.to <= DiskEnd
    /\ EntryShape(req.entry)
    /\ req.kind = "write" => req.v \in Values /\ req.from \in Nat /\ req.from <= req.at

\* flush and discard_range have cleaned what they have passed.
Swept(e) ==
  /\ \A j \in 1 .. Len(req.keys) : req.keys[j] # e.block
  /\ req.kind = "flush" \/ e.block \in req.all

SweepShape ==
  Sweeping =>
    /\ DOMAIN req = IF req.kind = "flush" THEN {"kind", "keys", "below"}
                    ELSE {"kind", "from", "to", "keys", "all", "below"}
    /\ req.keys \in Seq(CacheBlocks) /\ req.below \in BOOLEAN
    /\ \A j \in 1 .. Len(req.keys) : Holds(req.keys[j])
    /\ \A e \in Kept : Swept(e) => ~e.dirty
    /\ req.kind = "flush" /\ req.below => req.keys # << >>
    /\ req.kind = "discard" =>
         /\ req.from \in Nat /\ req.to \in Nat /\ req.from < req.to /\ req.to <= DiskEnd
         /\ \A e \in Kept : e.block \in CacheBlock(req.from) .. CacheBlock(req.to - 1)
                             => e.block \in req.all

ReqShape ==
  /\ req = NoReq \/ Serving \/ Sweeping
  /\ ServeShape /\ SweepShape

-----------------------------------------------------------------------------
(* The disk's call that the cache waits for.                               *)

WritingBack ==
  \/ Serving /\ req.entry # NoReq
  \/ Sweeping /\ req.below /\ req.keys # << >>
Victim == IF Serving THEN Last(cache) ELSE Head(cache)

BackInv ==
  WritingBack =>
    /\ cache # << >> /\ Victim.dirty
    /\ Sweeping => Victim.block = Head(req.keys)
    /\ \/ /\ Writing /\ op.buf = Victim.data
          /\ op.from = FirstIn(Victim.block) /\ op.to = EndOf(Victim.block)
       \/ pc = "idle" /\ \A c \in CellsIn(Victim.block) : expect[c] = {Victim.data[c]}

Dropping == req.kind = "discard" /\ req.below /\ req.keys = << >>

DropInv ==
  Dropping =>
    \/ pc \in {"free", "truncate"} /\ op.cells = Discarded(req.from, req.to)
    \/ pc = "idle" /\ \A c \in Discarded(req.from, req.to) : expect[c] = {Unwritten}

QuietInv == ~WritingBack /\ ~Dropping => pc \in {"idle", "closed", "corrupt"}

-----------------------------------------------------------------------------
(* The values.                                                             *)

\* The entries in the cache, and the one that waits for space.
Held == IF Serving /\ req.entry # NoReq THEN Kept \cup {req.entry} ELSE Kept

\* Cell c has one of the values V in the entries K and, unless a dirty one is
\* to overwrite it, on disk, where it has one of the values E.
Sees(K, E, c, V) ==
  /\ \A e \in K : e.block = CacheBlock(c) => e.data[c] \in V
  /\ E \subseteq V \/ \E e \in K : e.block = CacheBlock(c) /\ e.dirty

Sound(c) ==
  /\ want[c] \subseteq durable[c] /\ expect[c] \subseteq durable[c]
  /\ Sees(Held, expect[c], c, want[c])
  /\ req.kind = "write" /\ c \in req.from .. req.to - 1 => req.v \in want[c]
  /\ req.kind = "write" /\ c \in req.from .. req.at - 1 => Sees(Held, expect[c], c, {req.v})
  /\ req.kind = "discard" /\ c \in Discarded(req.from, req.to) => Unwritten \in want[c]

Intact(c) == c \div BlockCells \notin torn
ValuesInv == \A c \in Cells : Intact(c) => Sound(c)

CInv == CacheShape /\ ReqShape /\ BackInv /\ DropInv /\ QuietInv /\ ValuesInv
CacheInv == cached => CInv

-----------------------------------------------------------------------------
(* Sequences of entries.                                                   *)

\* d is c without its i-th member.
Without(d, c, i) ==
  /\ Len(d) = Len(c) - 1
  /\ \A k \in 1 .. Len(c) - 1 : d[k] = IF k < i THEN c[k] ELSE c[k + 1]

LEMMA WithoutOne ==
  ASSUME NEW S, NEW c \in Seq(S), Once(c), NEW i \in 1 .. Len(c), NEW d \in Seq(S),
         Without(d, c, i)
  PROVE  Once(d) /\ Ent(d) = Ent(c) \ {c[i]}
<1>1. Len(c) \in Nat /\ Len(d) = Len(c) - 1
  BY DEF Without
<1> DEFINE was(k) == IF k < i THEN k ELSE k + 1
<1>2. ASSUME NEW k \in 1 .. Len(d)
      PROVE  was(k) \in 1 .. Len(c) /\ was(k) # i /\ d[k] = c[was(k)]
  <2>1. k \in 1 .. Len(c) - 1 /\ i \in Nat /\ k \in Nat
    BY <1>1
  <2>2. d[k] = IF k < i THEN c[k] ELSE c[k + 1]
    BY <2>1 DEF Without
  <2>3. CASE k < i
    BY <1>1, <2>1, <2>2, <2>3
  <2>4. CASE ~(k < i)
    BY <1>1, <2>1, <2>2, <2>4
  <2> QED
    BY <2>3, <2>4
<1>2a. \A j, k \in 1 .. Len(d) : was(j) = was(k) => j = k
  BY <1>1
<1> HIDE DEF was
<1>3. Once(d)
  <2> SUFFICES ASSUME NEW j \in 1 .. Len(d), NEW k \in 1 .. Len(d), d[j].block = d[k].block
               PROVE  j = k
    BY DEF Once
  <2>1. was(j) = was(k)
    BY <1>2 DEF Once
  <2> QED
    BY <1>2a, <2>1
<1>4. ASSUME NEW k \in 1 .. Len(d) PROVE d[k] \in Ent(c) \ {c[i]}
  <2>1. d[k] = c[was(k)] /\ was(k) \in 1 .. Len(c) /\ was(k) # i
    BY <1>2
  <2>2. c[was(k)] # c[i]
    BY <2>1 DEF Once
  <2> QED
    BY <2>1, <2>2 DEF Ent
<1>5. ASSUME NEW k \in 1 .. Len(c), c[k] # c[i] PROVE c[k] \in Ent(d)
  <2> DEFINE now == IF k < i THEN k ELSE k - 1
  <2>1. now \in 1 .. Len(d) /\ was(now) = k
    BY <1>1, <1>5 DEF was
  <2> HIDE DEF now
  <2>2. d[now] = c[k]
    BY <1>2, <2>1
  <2> QED
    BY <2>1, <2>2 DEF Ent
<1> QED
  BY <1>3, <1>4, <1>5 DEF Ent

LEMMA RemoveAtWithout ==
  ASSUME NEW S, NEW c \in Seq(S), NEW i \in 1 .. Len(c)
  PROVE  RemoveAt(c, i) \in Seq(S) /\ Without(RemoveAt(c, i), c, i)
<1> DEFINE d == RemoveAt(c, i)
<1>1. /\ d \in Seq(S) /\ Len(d) = Len(c) - 1
      /\ \A k \in 1 .. i - 1 : d[k] = c[k]
      /\ \A k \in i .. Len(c) - 1 : d[k] = c[k + 1]
  BY RemoveAtProperties
<1> HIDE DEF d
<1>2. Without(d, c, i)
  BY <1>1 DEF Without
<1> QED
  BY <1>1, <1>2 DEF d

LEMMA TailWithout ==
  ASSUME NEW S, NEW c \in Seq(S), c # << >>
  PROVE  /\ 1 \in 1 .. Len(c) /\ Head(c) = c[1] /\ Tail(c) \in Seq(S)
         /\ Without(Tail(c), c, 1)
<1>1. /\ Len(c) \in Nat \ {0} /\ Tail(c) \in Seq(S) /\ Len(Tail(c)) = Len(c) - 1
      /\ \A k \in 1 .. Len(c) - 1 : Tail(c)[k] = c[k + 1]
  BY EmptySeq, HeadTailProperties
<1> QED
  BY <1>1 DEF Without

LEMMA FrontWithout ==
  ASSUME NEW S, NEW c \in Seq(S), c # << >>
  PROVE  /\ Len(c) \in 1 .. Len(c) /\ Last(c) = c[Len(c)] /\ Front(c) \in Seq(S)
         /\ Without(Front(c), c, Len(c))
<1>1. Len(c) \in Nat \ {0}
  BY EmptySeq
<1>2. Len(c) - 1 \in 0 .. Len(c)
  BY <1>1
<1> DEFINE d == SubSeq(c, 1, Len(c) - 1)
<1>3. d \in Seq(S) /\ Len(d) = Len(c) - 1 /\ \A k \in 1 .. Len(c) - 1 : d[k] = c[k]
  BY <1>2, SplitProperties
<1> HIDE DEF d
<1>4. Without(d, c, Len(c))
  BY <1>1, <1>3 DEF Without
<1> QED
  BY <1>1, <1>3, <1>4 DEF Front, Last, d

\* An entry in front of the others.
LEMMA Prepended ==
  ASSUME NEW S, NEW d \in Seq(S), Once(d), NEW x \in S, \A e \in Ent(d) : e.block # x.block
  PROVE  LET c == <<x>> \o d
         IN  /\ c \in Seq(S) /\ Once(c) /\ Ent(c) = Ent(d) \cup {x} /\ c # << >>
             /\ Head(c) = x
<1> DEFINE c == <<x>> \o d
<1>1. /\ c \in Seq(S) /\ Len(c) = Len(d) + 1 /\ c[1] = x
      /\ \A i \in 1 .. Len(d) : c[i + 1] = d[i]
  BY PrependProperties
<1> HIDE DEF c
<1>2. Len(d) \in Nat /\ Len(c) \in Nat
  OBVIOUS
<1>3. \A i \in 2 .. Len(c) : i - 1 \in 1 .. Len(d) /\ c[i] = d[i - 1]
  BY <1>1, <1>2
<1>4. Ent(c) = Ent(d) \cup {x}
  <2>1. ASSUME NEW i \in 1 .. Len(c) PROVE c[i] \in Ent(d) \cup {x}
    BY <1>1, <1>2, <1>3, <2>1 DEF Ent
  <2>2. x \in Ent(c)
    BY <1>1, <1>2 DEF Ent
  <2>3. ASSUME NEW i \in 1 .. Len(d) PROVE d[i] \in Ent(c)
    <3>1. i + 1 \in 1 .. Len(c) /\ d[i] = c[i + 1]
      BY <1>1, <1>2
    <3> QED
      BY <3>1 DEF Ent
  <2> QED
    BY <2>1, <2>2, <2>3 DEF Ent
<1>5. Once(c)
  <2>0. \A i \in 2 .. Len(c) : c[i].block # x.block
    BY <1>3 DEF Ent
  <2> SUFFICES ASSUME NEW i \in 1 .. Len(c), NEW j \in 1 .. Len(c), c[i].block = c[j].block
               PROVE  i = j
    BY DEF Once
  <2>1. CASE i = 1 \/ j = 1
    BY <1>1, <1>2, <2>0, <2>1
  <2>2. CASE i # 1 /\ j # 1
    BY <1>2, <1>3, <2>2 DEF Once
  <2> QED
    BY <2>1, <2>2
<1>6. c # << >>
  BY <1>1, <1>2
<1>7. Head(c) = x
  BY <1>1, <1>6, HeadTailProperties
<1> QED
  BY <1>1, <1>4, <1>5, <1>6, <1>7 DEF c


\* An entry in the place of another, in front.
LEMMA MovedToFront ==
  ASSUME NEW S, NEW c \in Seq(S), Once(c), NEW i \in 1 .. Len(c), NEW d \in Seq(S),
         Without(d, c, i), NEW x \in S,
         x.block = c[i].block \/ \A e \in Ent(c) : e.block # x.block
  PROVE  LET q == <<x>> \o d
         IN  /\ q \in Seq(S) /\ Once(q) /\ Ent(q) = (Ent(c) \ {c[i]}) \cup {x}
             /\ q # << >> /\ Head(q) = x
<1>1. Once(d) /\ Ent(d) = Ent(c) \ {c[i]}
  BY WithoutOne
<1>2. ASSUME NEW e \in Ent(d) PROVE e.block # x.block
  <2>1. PICK j \in 1 .. Len(c) : e = c[j]
    BY <1>1 DEF Ent
  <2>2. e \in Ent(c) /\ j # i
    BY <1>1, <2>1
  <2>3. c[j].block # c[i].block
    BY <2>2 DEF Once
  <2> QED
    BY <2>1, <2>2, <2>3
<1> QED
  BY <1>1, <1>2, Prepended

\* The positions of a sequence are finitely many.
LEMMA SomePositions ==
  ASSUME NEW n \in Nat, NEW P, P \subseteq 1 .. n
  PROVE  IsFiniteSet(P) /\ \A p \in P : p \in Nat
<1>1. n \in Int /\ 1 \in Int
  OBVIOUS
<1>2. IsFiniteSet(1 .. n)
  BY <1>1, FS_Interval
<1>3. P \in SUBSET (1 .. n)
  OBVIOUS
<1>4. IsFiniteSet(P)
  BY <1>2, <1>3, FS_Subset, Zenon
<1>5. \A p \in P : p \in Nat
  OBVIOUS
<1> QED
  BY <1>4, <1>5

\* The enumeration of a set of positions reaches all of them.
LEMMA InOrderCovers ==
  ASSUME NEW P, IsFiniteSet(P), \A p \in P : p \in Nat, NEW nth \in InOrder(P)
  PROVE  /\ Cardinality(P) \in Nat /\ nth \in [1 .. Cardinality(P) -> P]
         /\ \A j, k \in 1 .. Cardinality(P) : nth[j] = nth[k] => j = k
         /\ \A p \in P : \E j \in 1 .. Cardinality(P) : nth[j] = p
<1> DEFINE N == Cardinality(P)
<1>1. N \in Nat
  BY FS_CardinalityType
<1>2. nth \in [1 .. N -> P] /\ \A j, k \in 1 .. N : j < k => nth[j] < nth[k]
  BY DEF InOrder
<1> HIDE DEF N
<1>3. \A j \in 1 .. N : nth[j] \in Nat
  BY <1>2
<1>4. ASSUME NEW j \in 1 .. N, NEW k \in 1 .. N, nth[j] = nth[k] PROVE j = k
  BY <1>1, <1>2, <1>3, <1>4
<1>5. nth \in Injection(1 .. N, P)
  BY <1>2, <1>4 DEF Injection, IsInjective
<1>6. Cardinality(1 .. N) = Cardinality(P)
  BY <1>1, FS_Interval DEF N
<1>7. nth \in Surjection(1 .. N, P)
  BY <1>1, <1>5, <1>6, FS_Injection
<1>8. \A p \in P : \E j \in 1 .. N : nth[j] = p
  BY <1>7 DEF Surjection
<1> QED
  BY <1>1, <1>2, <1>4, <1>8 DEF N

\* The entries at some positions, in their order.
LEMMA Selected ==
  ASSUME NEW S, NEW c \in Seq(S), Once(c), NEW P, P \subseteq 1 .. Len(c),
         NEW nth \in InOrder(P)
  PROVE  LET q == [j \in DOMAIN nth |-> c[nth[j]]]
         IN  /\ q \in Seq(S) /\ Once(q) /\ Ent(q) = {c[p] : p \in P}
<1> DEFINE N == Cardinality(P)
           q == [j \in DOMAIN nth |-> c[nth[j]]]
<1>0. IsFiniteSet(P) /\ \A p \in P : p \in Nat
  <2>1. Len(c) \in Nat
    OBVIOUS
  <2> QED
    BY <2>1, SomePositions, Zenon
<1>1. /\ N \in Nat /\ nth \in [1 .. N -> P]
      /\ \A j, k \in 1 .. N : nth[j] = nth[k] => j = k
      /\ \A p \in P : \E j \in 1 .. N : nth[j] = p
  BY <1>0, InOrderCovers
<1> HIDE DEF N
<1>2. q = [j \in 1 .. N |-> c[nth[j]]] /\ \A j \in 1 .. N : nth[j] \in 1 .. Len(c)
  BY <1>1
<1>3. q \in Seq(S) /\ Len(q) = N /\ \A j \in 1 .. N : q[j] = c[nth[j]]
  BY <1>1, <1>2
<1> HIDE DEF q
<1>4. Once(q)
  BY <1>1, <1>2, <1>3 DEF Once
<1>5. Ent(q) = {c[p] : p \in P}
  <2>1. ASSUME NEW j \in 1 .. N PROVE q[j] \in {c[p] : p \in P}
    <3>1. nth[j] \in P /\ q[j] = c[nth[j]]
      BY <1>1, <1>3
    <3> QED
      BY <3>1
  <2>2. ASSUME NEW p \in P PROVE c[p] \in Ent(q)
    <3>1. PICK j \in 1 .. N : nth[j] = p
      BY <1>1
    <3> QED
      BY <1>3, <3>1 DEF Ent
  <2> QED
    BY <1>3, <2>1, <2>2 DEF Ent
<1> QED
  BY <1>3, <1>4, <1>5 DEF q


-----------------------------------------------------------------------------
(* The cells of a block of the cache.                                      *)

LEMMA DivWithin ==
  ASSUME NEW M \in Nat \ {0}, NEW a \in Nat
  PROVE  /\ a \div M \in Nat /\ (a \div M) * M <= a /\ a < (a \div M + 1) * M
         /\ (a \div M) * M \in Nat /\ (a \div M + 1) * M \in Nat
         /\ \A q \in Nat : q * M <= a /\ a < (q + 1) * M => a \div M = q
<1> DEFINE d == a \div M
           r == a % M
<1>1. d \in Nat /\ a = M * d + r /\ r \in 0 .. M - 1
  BY DivMod
<1> HIDE DEF d, r
<1>2. d * M = M * d /\ (d + 1) * M = d * M + M /\ d * M \in Nat
  BY <1>1
<1>3. d * M <= a /\ a < (d + 1) * M
  BY <1>1, <1>2
<1>4. ASSUME NEW q \in Nat, q * M <= a, a < (q + 1) * M PROVE d = q
  <2>1. q * M \in Nat /\ (q + 1) * M = q * M + M /\ q * M = M * q
    OBVIOUS
  <2>2. a - q * M \in 0 .. M - 1 /\ a = M * q + (a - q * M)
    BY <1>4, <2>1
  <2>3. a \in Int /\ q \in Int
    OBVIOUS
  <2> QED
    BY <2>2, <2>3, ModUnique DEF d
<1> QED
  BY <1>1, <1>2, <1>3, <1>4 DEF d

LEMMA DiskSize == DiskEnd \in Nat /\ CacheCells \in Nat \ {0} /\ BlockCells \in Nat \ {0}
                  /\ \A c \in Cells : c \in Nat /\ c < DiskEnd
BY SparseDiskAssumption, CachedDiskAssumption DEF DiskEnd, Cells

\* Block k of the cache is an interval of the disk, not empty.
LEMMA BlockInterval ==
  ASSUME NEW k \in CacheBlocks
  PROVE  /\ k \in Nat /\ FirstIn(k) \in Nat /\ EndOf(k) \in Nat
         /\ FirstIn(k) < EndOf(k) /\ EndOf(k) <= DiskEnd
         /\ CellsIn(k) = FirstIn(k) .. EndOf(k) - 1
<1>1. PICK c \in Cells : k = c \div CacheCells
  BY DEF CacheBlocks, CacheBlock
<1>2. c \in Nat /\ c < DiskEnd /\ DiskEnd \in Nat /\ CacheCells \in Nat \ {0}
  BY DiskSize
<1>3. /\ k \in Nat /\ k * CacheCells \in Nat /\ (k + 1) * CacheCells \in Nat
      /\ k * CacheCells <= c /\ c < (k + 1) * CacheCells
  BY <1>1, <1>2, DivWithin
<1> DEFINE lo == k * CacheCells
           hi == (k + 1) * CacheCells
<1>4. lo \in Nat /\ hi \in Nat /\ lo <= c /\ c < hi
  BY <1>3
<1>5. EndOf(k) = (IF hi <= DiskEnd THEN hi ELSE DiskEnd) /\ FirstIn(k) = lo
  <2>1. hi \in Int /\ DiskEnd \in Int
    BY <1>2, <1>4
  <2> HIDE DEF hi
  <2>2. Min({hi, DiskEnd}) = IF hi <= DiskEnd THEN hi ELSE DiskEnd
    BY <2>1, MinOfTwo
  <2> QED
    BY <2>2 DEF EndOf, FirstIn, DiskEnd, hi
<1>6. \A d \in Cells : d \div CacheCells = k <=> lo <= d /\ d < hi
  <2> SUFFICES ASSUME NEW d \in Cells PROVE d \div CacheCells = k <=> lo <= d /\ d < hi
    OBVIOUS
  <2>1. d \in Nat
    BY DiskSize
  <2> QED
    BY <1>2, <1>3, <2>1, DivWithin
<1> HIDE DEF lo, hi
<1>7. CellsIn(k) = FirstIn(k) .. EndOf(k) - 1
  <2>1. Cells = 0 .. DiskEnd - 1
    BY DEF Cells, DiskEnd
  <2>2. CellsIn(k) = {d \in Cells : lo <= d /\ d < hi}
    BY <1>6 DEF CellsIn, CacheBlock
  <2>3. ASSUME NEW d \in CellsIn(k) PROVE d \in FirstIn(k) .. EndOf(k) - 1
    BY <1>2, <1>4, <1>5, <2>1, <2>2, <2>3
  <2>4. ASSUME NEW d \in FirstIn(k) .. EndOf(k) - 1 PROVE d \in CellsIn(k)
    <3>1. d \in Cells
      BY <1>2, <1>4, <1>5, <2>1
    <3>2. lo <= d /\ d < hi
      BY <1>2, <1>4, <1>5
    <3> QED
      BY <2>2, <3>1, <3>2
  <2> QED
    BY <2>3, <2>4
<1> QED
  BY <1>2, <1>3, <1>4, <1>5, <1>7

LEMMA CellInBlock ==
  ASSUME NEW c \in Cells
  PROVE  CacheBlock(c) \in CacheBlocks /\ c \in CellsIn(CacheBlock(c))
         /\ c \div BlockCells \in Blocks /\ c \in CellsOf(c \div BlockCells)
<1>1. c \in Nat /\ c < NumBlocks * BlockCells /\ BlockCells \in Nat \ {0}
  BY DiskSize DEF DiskEnd
<1>2. /\ c \div BlockCells \in Nat /\ (c \div BlockCells) * BlockCells <= c
      /\ c < (c \div BlockCells + 1) * BlockCells
      /\ (c \div BlockCells) * BlockCells \in Nat /\ (c \div BlockCells + 1) * BlockCells \in Nat
  BY <1>1, DivWithin
<1>3. c \in CellsOf(c \div BlockCells)
  BY <1>1, <1>2 DEF CellsOf
<1>4. c \div BlockCells \in Blocks
  BY <1>1, SparseDiskAssumption DEF Blocks
<1> QED
  BY <1>3, <1>4 DEF CacheBlocks, CellsIn

LEMMA EntryType ==
  ASSUME NEW e \in CacheEntries
  PROVE  /\ e.block \in CacheBlocks /\ e.dirty \in BOOLEAN
         /\ e.data \in [CellsIn(e.block) -> DataCells]
         /\ e = [block |-> e.block, dirty |-> e.dirty, data |-> e.data]
         /\ e # NoReq
<1>1. PICK k \in CacheBlocks : e \in [block : {k}, dirty : BOOLEAN, data : [CellsIn(k) -> DataCells]]
  BY DEF CacheEntries
<1>2. e.block = k /\ e.dirty \in BOOLEAN /\ e.data \in [CellsIn(k) -> DataCells]
      /\ e = [block |-> e.block, dirty |-> e.dirty, data |-> e.data]
  BY <1>1
<1>3. e # NoReq
  <2>1. DOMAIN e = {"block", "dirty", "data"}
    BY <1>1
  <2>2. DOMAIN NoReq = {"kind"}
    BY DEF NoReq
  <2> QED
    BY <2>1, <2>2
<1> QED
  BY <1>2, <1>3

LEMMA EntryMade ==
  ASSUME NEW k \in CacheBlocks, NEW b \in BOOLEAN, NEW f \in [CellsIn(k) -> DataCells]
  PROVE  [block |-> k, dirty |-> b, data |-> f] \in CacheEntries
<1>1. [block |-> k, dirty |-> b, data |-> f]
        \in [block : {k}, dirty : BOOLEAN, data : [CellsIn(k) -> DataCells]]
  OBVIOUS
<1> QED
  BY <1>1 DEF CacheEntries


LEMMA ChunkInBlock ==
  ASSUME Serving, ServeShape, req.at < req.to
  PROVE  /\ Key \in CacheBlocks /\ ChunkEnd \in Nat /\ req.at < ChunkEnd /\ ChunkEnd <= req.to
         /\ \A c \in req.at .. ChunkEnd - 1 : c \in Cells /\ CacheBlock(c) = Key
         /\ Overwrites => \A c \in CellsIn(Key) : c \in req.at .. ChunkEnd - 1
<1> DEFINE a == req.at
           lo == Key * CacheCells
           hi == (Key + 1) * CacheCells
<1>1. a \in Nat /\ req.to \in Nat /\ a < req.to /\ req.to <= DiskEnd /\ DiskEnd \in Nat
      /\ CacheCells \in Nat \ {0}
  BY DiskSize DEF ServeShape
<1>2. a \in Cells /\ Key = a \div CacheCells
  BY <1>1 DEF Cells, DiskEnd, Key, CacheBlock
<1>3. Key \in CacheBlocks
  BY <1>2, CellInBlock DEF Key
<1>4. Key \in Nat /\ lo \in Nat /\ hi \in Nat /\ lo <= a /\ a < hi
  BY <1>1, <1>2, DivWithin
<1>5. hi = lo + CacheCells
  BY <1>1, <1>4
<1>6. ChunkEnd = IF req.to <= hi THEN req.to ELSE hi
  <2>1. hi \in Int /\ req.to \in Int
    BY <1>1, <1>4
  <2> HIDE DEF hi
  <2>2. Min({req.to, hi}) = IF req.to <= hi THEN req.to ELSE hi
    BY <2>1, MinOfTwo
  <2> QED
    BY <2>2 DEF ChunkEnd, hi
<1>7. ASSUME NEW c \in a .. ChunkEnd - 1 PROVE c \in Cells /\ CacheBlock(c) = Key
  <2>1. c \in Nat /\ lo <= c /\ c < hi /\ c < DiskEnd
    BY <1>1, <1>4, <1>6
  <2>2. c \div CacheCells = Key
    BY <1>1, <1>4, <2>1, DivWithin
  <2>3. Cells = 0 .. DiskEnd - 1
    BY DEF Cells, DiskEnd
  <2>4. c \in Cells
    BY <1>1, <2>1, <2>3
  <2> QED
    BY <2>2, <2>4 DEF CacheBlock
<1>8. ASSUME Overwrites, NEW c \in CellsIn(Key) PROVE c \in a .. ChunkEnd - 1
  <2>1. c \in Nat /\ c \div CacheCells = Key
    BY DiskSize DEF CellsIn, CacheBlock
  <2>2. lo <= c /\ c < hi
    BY <1>1, <2>1, DivWithin
  <2>3. ChunkEnd - a = CacheCells
    BY <1>8 DEF Overwrites
  <2> HIDE DEF lo, hi, a
  <2>4. a = lo /\ ChunkEnd = hi
    BY <1>1, <1>4, <1>5, <1>6, <2>3
  <2> QED
    BY <1>4, <2>1, <2>2, <2>4
<1> HIDE DEF lo, hi
<1> QED
  BY <1>1, <1>3, <1>4, <1>6, <1>7, <1>8

LEMMA MultiplesOrdered ==
  ASSUME NEW M \in Nat \ {0}, NEW p \in Nat, NEW q \in Nat
  PROVE  /\ p <= q => p * M <= q * M
         /\ p * M < q * M => p < q
<1>1. ASSUME p <= q PROVE p * M <= q * M
  <2>1. PICK n \in Nat : q = p + n
    BY <1>1
  <2>2. q * M = p * M + n * M /\ n * M \in Nat /\ p * M \in Nat
    BY <2>1
  <2> QED
    BY <2>2
<1>2. ASSUME q <= p PROVE q * M <= p * M
  <2>1. PICK n \in Nat : p = q + n
    BY <1>2
  <2>2. p * M = q * M + n * M /\ n * M \in Nat /\ q * M \in Nat
    BY <2>1
  <2> QED
    BY <2>2
<1>3. p * M \in Nat /\ q * M \in Nat
  OBVIOUS
<1> QED
  BY <1>1, <1>2, <1>3

\* What is discarded lies in the range, so in the overlapping blocks of the cache.
LEMMA DiscardedInRange ==
  ASSUME NEW from \in Nat, NEW to \in Nat, from < to, NEW c \in Discarded(from, to)
  PROVE  c \in Cells /\ CacheBlock(c) \in CacheBlock(from) .. CacheBlock(to - 1)
<1>1. c \in Cells /\ c \in from .. to - 1
  BY CellInBlock DEF Discarded
<1>2. ASSUME NEW a \in Nat, NEW b \in Nat, a <= b
      PROVE  a \div CacheCells \in Nat /\ b \div CacheCells \in Nat
             /\ a \div CacheCells <= b \div CacheCells
  <2> DEFINE p == a \div CacheCells
             q == b \div CacheCells
  <2>0. CacheCells \in Nat \ {0}
    BY DiskSize
  <2>1. p \in Nat /\ p * CacheCells \in Nat /\ p * CacheCells <= a
    BY <2>0, DivWithin
  <2>2. q \in Nat /\ (q + 1) * CacheCells \in Nat /\ b < (q + 1) * CacheCells
    BY <2>0, DivWithin
  <2> HIDE DEF p, q
  <2>3. p * CacheCells < (q + 1) * CacheCells
    BY <1>2, <2>1, <2>2
  <2>4. p < q + 1
    <3>1. q + 1 \in Nat
      BY <2>2
    <3> QED
      BY <2>0, <2>1, <2>3, <3>1, MultiplesOrdered
  <2> QED
    BY <2>1, <2>2, <2>4 DEF p, q
<1>3. from \in Nat /\ c \in Nat /\ to - 1 \in Nat /\ from <= c /\ c <= to - 1
  BY <1>1
<1>4. CacheBlock(from) <= CacheBlock(c) /\ CacheBlock(c) <= CacheBlock(to - 1)
  BY <1>2, <1>3 DEF CacheBlock
<1>5. CacheBlock(from) \in Nat /\ CacheBlock(c) \in Nat /\ CacheBlock(to - 1) \in Nat
  BY <1>2, <1>3 DEF CacheBlock
<1> QED
  BY <1>1, <1>4, <1>5

\* The disk's discard_range releases what the cache takes for discarded.
LEMMA DiscardedBelow ==
  ASSUME NEW from \in Nat, NEW to \in Nat, to <= DiskEnd
  PROVE  UNION {CellsOf(b) : b \in (from + BlockCells - 1) \div BlockCells .. (to \div BlockCells) - 1}
           = Discarded(from, to)
<1> DEFINE M == BlockCells
           up == from + M - 1
           start == up \div M
           end == to \div M
<1>0. M \in Nat \ {0} /\ up \in Nat
  BY DiskSize
<1>1. /\ start \in Nat /\ start * M \in Nat /\ start * M <= up
      /\ up < (start + 1) * M /\ (start + 1) * M \in Nat
  BY <1>0, DivWithin
<1>2. end \in Nat /\ end * M \in Nat /\ end * M <= to /\ to < (end + 1) * M /\ (end + 1) * M \in Nat
  BY <1>0, DivWithin
<1>3. up = from + M - 1
  OBVIOUS
<1> HIDE DEF up, start, end
<1>4. (start + 1) * M = start * M + M
  BY <1>0, <1>1
<1>5. from <= start * M
  BY <1>0, <1>1, <1>3, <1>4
<1>6. ASSUME NEW b \in start .. end - 1, NEW c \in CellsOf(b)
      PROVE  c \in Discarded(from, to)
  <2>1. b \in Nat /\ b + 1 \in Nat /\ start <= b /\ b + 1 <= end
    BY <1>1, <1>2
  <2>2. b * M \in Nat /\ (b + 1) * M \in Nat
    BY <1>0, <2>1
  <2>3. start * M <= b * M /\ (b + 1) * M <= end * M
    BY <1>0, <1>1, <1>2, <2>1, MultiplesOrdered
  <2>4. CellsOf(b) = b * M .. (b + 1) * M - 1
    BY DEF CellsOf
  <2>5. CellsOf(b) \subseteq from .. to - 1
    BY <1>1, <1>2, <1>5, <2>2, <2>3, <2>4
  <2>6. c \in Nat /\ b * M <= c /\ c < (b + 1) * M /\ c < DiskEnd
    BY <1>2, <2>2, <2>3, <2>4, DiskSize
  <2>7. c \div M = b
    BY <1>0, <2>1, <2>6, DivWithin
  <2>8. c \in Cells
    BY <2>6, DiskSize DEF Cells, DiskEnd
  <2> QED
    BY <2>5, <2>7, <2>8 DEF Discarded
<1>7. ASSUME NEW c \in Discarded(from, to) PROVE c \div M \in start .. end - 1
  <2> DEFINE b == c \div M
  <2>1. c \in Cells /\ CellsOf(b) \subseteq from .. to - 1 /\ c \in Nat
    BY DiskSize DEF Discarded
  <2>2. b \in Nat /\ b * M \in Nat /\ (b + 1) * M \in Nat
    BY <1>0, <2>1, DivWithin
  <2> HIDE DEF b
  <2>3. (b + 1) * M = b * M + M
    BY <1>0, <2>2
  <2>4. b * M \in CellsOf(b) /\ (b + 1) * M - 1 \in CellsOf(b)
    BY <1>0, <2>2, <2>3 DEF CellsOf
  <2>5. from <= b * M /\ (b + 1) * M <= to
    BY <2>1, <2>2, <2>4
  <2>6. start * M < (b + 1) * M /\ (b + 1) * M < (end + 1) * M
    BY <1>0, <1>1, <1>2, <1>3, <2>2, <2>3, <2>5
  <2>7. b + 1 \in Nat /\ end + 1 \in Nat
    BY <1>2, <2>2
  <2>8. start < b + 1 /\ b + 1 < end + 1
    BY <1>0, <1>1, <2>6, <2>7, MultiplesOrdered
  <2> QED
    BY <1>1, <1>2, <2>2, <2>8 DEF b
<1>8. \A c \in Discarded(from, to) : c \in CellsOf(c \div M)
  BY CellInBlock DEF Discarded
<1>9. UNION {CellsOf(b) : b \in start .. end - 1} = Discarded(from, to)
  BY <1>6, <1>7, <1>8
<1> QED
  BY <1>9 DEF up, start, end

\* What the disk reads.
LEMMA ReadType ==
  ASSUME IInv, TInv, NEW c \in Cells, ReadCell(c) # -1
  PROVE  ReadCell(c) \in DataCells
<1> DEFINE slot == table[c \div BlockCells]
           k == slot * BlockCells + (c % BlockCells) + 1
<1>1. Unwritten \in DataCells
  BY DEF Unwritten, DataCells
<1>2. CASE slot = Unmapped
  BY <1>1, <1>2 DEF ReadCell
<1>3. CASE slot # Unmapped
  <2>1. slot \in Nat
    BY <1>3, CellInBlock DEF IInv, SlotTypes, Entries
  <2>2. c % BlockCells \in Nat
    BY DiskSize
  <2>3. k \in Nat /\ 1 <= k
    BY <2>1, <2>2, DiskSize
  <2> HIDE DEF slot, k
  <2>4. ReadCell(c) = IF k <= Len(f_data) THEN f_data[k] ELSE -1
    BY <1>3 DEF ReadCell, slot, k
  <2>5. f_data \in Seq(DataCells)
    BY DEF TInv, OtherTypes
  <2>6. k \in 1 .. Len(f_data) => f_data[k] \in DataCells
    BY <2>5
  <2> QED
    BY <2>3, <2>4, <2>5, <2>6
<1> QED
  BY <1>2, <1>3

LEMMA ReadIntact ==
  ASSUME IInv, TInv, RInv, pc = "idle", NEW c \in Cells, Intact(c)
  PROVE  ReadCell(c) \in expect[c]
BY ReadsByInv, CellInBlock DEF ReadsReturnWrites, Intact


-----------------------------------------------------------------------------
(* The cache's entries after its operations on them.                       *)

LEMMA KeptEntries ==
  ASSUME CacheShape
  PROVE  /\ \A e \in Kept : e \in CacheEntries
         /\ \A e, f \in Kept : e.block = f.block => e = f
BY DEF CacheShape, Kept, Ent, Once

LEMMA HoldsEntry ==
  ASSUME CacheShape, NEW k
  PROVE  /\ Holds(k) <=> \E e \in Kept : e.block = k
         /\ Holds(k) => /\ IndexOf(k) \in 1 .. Len(cache)
                        /\ cache[IndexOf(k)] \in Kept /\ cache[IndexOf(k)].block = k
<1>1. DOMAIN cache = 1 .. Len(cache)
  BY DEF CacheShape
<1>2. ASSUME Holds(k)
      PROVE  IndexOf(k) \in 1 .. Len(cache) /\ cache[IndexOf(k)].block = k
  BY <1>1, <1>2 DEF Holds, IndexOf
<1> QED
  BY <1>1, <1>2 DEF Holds, Kept, Ent

\* get_mut of an entry that is there.
LEMMA TouchedKeeps ==
  ASSUME CacheShape, NEW k, Holds(k)
  PROVE  /\ Touched(k) \in Seq(CacheEntries) /\ Once(Touched(k)) /\ Touched(k) # << >>
         /\ Ent(Touched(k)) = Kept
         /\ Head(Touched(k)) \in Kept /\ Head(Touched(k)).block = k
<1> DEFINE i == IndexOf(k)
           d == RemoveAt(cache, i)
<1>1. i \in 1 .. Len(cache) /\ cache[i] \in Kept /\ cache[i].block = k
  BY HoldsEntry
<1>2. cache \in Seq(CacheEntries) /\ Once(cache) /\ cache[i] \in CacheEntries
  BY <1>1, KeptEntries DEF CacheShape
<1>3. d \in Seq(CacheEntries) /\ Without(d, cache, i)
  BY <1>1, <1>2, RemoveAtWithout
<1>4. Touched(k) = <<cache[i]>> \o d
  BY DEF Touched
<1> HIDE DEF i, d
<1> DEFINE q == <<cache[i]>> \o d
<1>5. /\ q \in Seq(CacheEntries) /\ Once(q) /\ q # << >> /\ Head(q) = cache[i]
      /\ Ent(q) = (Ent(cache) \ {cache[i]}) \cup {cache[i]}
  BY <1>1, <1>2, <1>3, MovedToFront
<1>6. Ent(q) = Kept
  BY <1>1, <1>5 DEF Kept
<1> QED
  BY <1>1, <1>4, <1>5, <1>6

\* The first entry replaced by one for the same block.
LEMMA FirstReplaced ==
  ASSUME NEW c \in Seq(CacheEntries), Once(c), c # << >>, NEW x \in CacheEntries,
         x.block = Head(c).block
  PROVE  LET q == <<x>> \o Tail(c)
         IN  /\ q \in Seq(CacheEntries) /\ Once(q) /\ Ent(q) = (Ent(c) \ {Head(c)}) \cup {x}
             /\ Head(c) \in Ent(c)
<1> DEFINE i == 1
           d == Tail(c)
<1>1. /\ i \in 1 .. Len(c) /\ Head(c) = c[i] /\ d \in Seq(CacheEntries)
      /\ Without(d, c, i)
  BY TailWithout
<1> HIDE DEF i, d
<1>2. Head(c) \in Ent(c)
  BY <1>1 DEF Ent
<1>3. x.block = c[i].block
  BY <1>1
<1> DEFINE q == <<x>> \o d
<1>4. q \in Seq(CacheEntries) /\ Once(q) /\ Ent(q) = (Ent(c) \ {c[i]}) \cup {x}
  BY <1>1, <1>3, MovedToFront
<1> HIDE DEF q
<1> QED
  BY <1>1, <1>2, <1>4 DEF q, d

\* An entry in the place of the least recently used one.
LEMMA LastReplaced ==
  ASSUME CacheShape, cache # << >>, NEW x \in CacheEntries,
         x = Last(cache) \/ ~Holds(x.block)
  PROVE  LET q == <<x>> \o Front(cache)
         IN  /\ q \in Seq(CacheEntries) /\ Once(q) /\ Ent(q) = (Kept \ {Last(cache)}) \cup {x}
             /\ Last(cache) \in Kept
<1>0. cache \in Seq(CacheEntries) /\ Once(cache)
  BY DEF CacheShape
<1> DEFINE n == Len(cache)
<1>1. /\ n \in 1 .. n /\ Last(cache) = cache[n] /\ Front(cache) \in Seq(CacheEntries)
      /\ Without(Front(cache), cache, n)
  BY <1>0, FrontWithout
<1>2. Last(cache) \in Kept
  BY <1>1 DEF Kept, Ent
<1>3. x.block = cache[n].block \/ \A e \in Ent(cache) : e.block # x.block
  BY <1>1, HoldsEntry DEF Kept
<1> DEFINE q == <<x>> \o Front(cache)
<1>4. q \in Seq(CacheEntries) /\ Once(q) /\ Ent(q) = (Ent(cache) \ {cache[n]}) \cup {x}
  BY <1>0, <1>1, <1>3, MovedToFront
<1> HIDE DEF q, n
<1> QED
  BY <1>1, <1>2, <1>4 DEF q, Kept

\* A new entry where there is space.
LEMMA EntryAdded ==
  ASSUME CacheShape, NEW x \in CacheEntries, ~Holds(x.block)
  PROVE  LET q == <<x>> \o cache
         IN  q \in Seq(CacheEntries) /\ Once(q) /\ Ent(q) = Kept \cup {x}
<1>1. cache \in Seq(CacheEntries) /\ Once(cache) /\ \A e \in Ent(cache) : e.block # x.block
  BY HoldsEntry DEF CacheShape, Kept
<1> DEFINE q == <<x>> \o cache
<1>2. q \in Seq(CacheEntries) /\ Once(q) /\ Ent(q) = Ent(cache) \cup {x}
  BY <1>1, Prepended
<1> HIDE DEF q
<1> QED
  BY <1>2 DEF q, Kept

-----------------------------------------------------------------------------
(* Serving a chunk.                                                        *)

Overwritten(c) == req.kind = "write" /\ c \in req.at .. ChunkEnd - 1

LEMMA ServedEntry ==
  ASSUME Serving, ServeShape, req.at < req.to, NEW e \in CacheEntries, e.block = Key
  PROVE  /\ Served(e) \in CacheEntries /\ Served(e).block = Key
         /\ Served(e).dirty <=> (req.kind = "write" \/ e.dirty)
         /\ \A c \in CellsIn(Key) :
              Served(e).data[c] = IF Overwritten(c) THEN req.v ELSE e.data[c]
<1>1. /\ e.block \in CacheBlocks /\ e.dirty \in BOOLEAN
      /\ e.data \in [CellsIn(e.block) -> DataCells]
      /\ e = [block |-> e.block, dirty |-> e.dirty, data |-> e.data]
  BY EntryType
<1>2. CASE req.kind = "read"
  BY <1>2 DEF Served, Overwritten
<1>3. CASE req.kind # "read"
  <2> DEFINE f == [c \in CellsIn(Key) |-> IF c \in req.at .. ChunkEnd - 1 THEN req.v ELSE e.data[c]]
  <2>1. req.kind = "write" /\ req.v \in DataCells
    BY <1>3 DEF Serving, ServeShape, DataCells
  <2>2. f \in [CellsIn(Key) -> DataCells]
    BY <1>1, <2>1
  <2>3. DOMAIN e.data = CellsIn(Key)
    BY <1>1
  <2>4. Served(e) = [block |-> e.block, dirty |-> TRUE, data |-> f]
    <3>1. Served(e) = [e EXCEPT !.dirty = TRUE, !.data = f]
      BY <1>3, <2>3 DEF Served
    <3> HIDE DEF f
    <3> QED
      BY <1>1, <3>1
  <2> HIDE DEF f
  <2>5. Served(e) \in CacheEntries
    BY <1>1, <2>2, <2>4, EntryMade
  <2>6. Served(e).block = Key /\ Served(e).dirty /\ Served(e).data = f
    BY <2>4
  <2> QED
    BY <2>1, <2>5, <2>6 DEF Overwritten, f
<1> QED
  BY <1>2, <1>3

LEMMA FetchedEntry ==
  ASSUME IInv, TInv, Serving, ServeShape, req.at < req.to, Readable
  PROVE  /\ Fetched \in CacheEntries /\ Fetched.block = Key /\ ~Fetched.dirty
         /\ \A c \in CellsIn(Key) :
              Fetched.data[c] = IF Overwrites THEN req.v ELSE ReadCell(c)
<1> DEFINE f == [c \in CellsIn(Key) |-> IF Overwrites THEN req.v ELSE ReadCell(c)]
<1>1. Key \in CacheBlocks
  BY ChunkInBlock
<1>2. ASSUME NEW c \in CellsIn(Key) PROVE (IF Overwrites THEN req.v ELSE ReadCell(c)) \in DataCells
  <2>1. c \in Cells
    BY DEF CellsIn
  <2>2. CASE Overwrites
    BY <2>2 DEF Overwrites, ServeShape, DataCells
  <2>3. CASE ~Overwrites
    BY <2>1, <2>3, ReadType DEF Readable
  <2> QED
    BY <2>2, <2>3
<1>3. f \in [CellsIn(Key) -> DataCells]
  BY <1>2
<1>4. Fetched = [block |-> Key, dirty |-> FALSE, data |-> f]
  BY DEF Fetched
<1> HIDE DEF f
<1>5. Fetched \in CacheEntries
  BY <1>1, <1>3, <1>4, EntryMade
<1>6. Fetched.block = Key /\ ~Fetched.dirty /\ Fetched.data = f
  BY <1>4
<1> QED
  BY <1>5, <1>6 DEF f

\* A block that is not cached is read from the disk as it was seen, or is about
\* to be overwritten.
LEMMA FetchedSeen ==
  ASSUME IInv, TInv, RInv, pc = "idle", CacheShape, Serving, ServeShape, req.at < req.to,
         Readable, ~Holds(Key), NEW c \in CellsIn(Key), Intact(c), NEW V,
         Sees(Kept, expect[c], c, V), Overwritten(c) => req.v \in V
  PROVE  Fetched.data[c] \in V
<1>1. c \in Cells /\ CacheBlock(c) = Key
  BY DEF CellsIn
<1>2. Fetched.data[c] = IF Overwrites THEN req.v ELSE ReadCell(c)
  BY FetchedEntry
<1>3. CASE Overwrites
  <2>1. Overwritten(c)
    BY <1>3, ChunkInBlock DEF Overwritten, Overwrites
  <2> QED
    BY <1>2, <1>3, <2>1
<1>4. CASE ~Overwrites
  <2>1. ReadCell(c) \in expect[c]
    BY <1>1, ReadIntact
  <2>2. expect[c] \subseteq V
    BY <1>1, HoldsEntry DEF Sees
  <2> QED
    BY <1>2, <1>4, <2>1, <2>2
<1> QED
  BY <1>3, <1>4


-----------------------------------------------------------------------------
(* The steps of the cache.                                                 *)

\* A call has returned.
LEMMA Returned ==
  ASSUME req' = NoReq, CacheShape', pc' \in {"idle", "closed", "corrupt"},
         \A c \in Cells : Intact(c)' => /\ want'[c] \subseteq durable'[c]
                                        /\ expect'[c] \subseteq durable'[c]
                                        /\ Sees(Kept', expect'[c], c, want'[c])
  PROVE  CInv'
<1>1. req'.kind = "none"
  BY DEF NoReq
<1>2. ~Serving' /\ ~Sweeping' /\ ~WritingBack' /\ ~Dropping'
  BY <1>1 DEF Serving, Sweeping, WritingBack, Dropping
<1>3. ReqShape' /\ BackInv' /\ DropInv' /\ QuietInv'
  BY <1>2 DEF ReqShape, ServeShape, SweepShape, BackInv, DropInv, QuietInv
<1>4. Held' = Kept'
  BY <1>2 DEF Held
<1>5. ASSUME NEW c \in Cells, Intact(c)' PROVE Sound(c)'
  <2>1. Sees(Held', expect'[c], c, want'[c])
    BY <1>4, <1>5
  <2>2. Sees(Held, expect[c], c, want[c])'
    BY <2>1 DEF Sees
  <2> QED
    BY <1>1, <1>5, <2>2 DEF Sound
<1>6. ValuesInv'
  BY <1>5 DEF ValuesInv
<1> QED
  BY <1>3, <1>6 DEF CInv

LEMMA NextChunkShape ==
  ASSUME Serving, ServeShape, req.at < req.to, NextChunk
  PROVE  /\ req'.kind = req.kind /\ req'.at = ChunkEnd /\ req'.to = req.to
         /\ req'.entry = NoReq /\ Serving' /\ ServeShape'
         /\ req.kind = "write" => req'.v = req.v /\ req'.from = req.from
<1>1. req' = [req EXCEPT !.at = ChunkEnd, !.entry = NoReq]
  BY DEF NextChunk
<1>2. {"kind", "at", "to", "entry"} \subseteq DOMAIN req
      /\ (req.kind = "write" => {"v", "from"} \subseteq DOMAIN req)
  BY DEF ServeShape
<1>3. /\ req'.kind = req.kind /\ req'.at = ChunkEnd /\ req'.to = req.to
      /\ req'.entry = NoReq /\ DOMAIN req' = DOMAIN req
      /\ req.kind = "write" => req'.v = req.v /\ req'.from = req.from
  BY <1>1, <1>2
<1>4. Serving'
  BY <1>3 DEF Serving
<1>5. ChunkEnd \in Nat /\ req.at < ChunkEnd /\ ChunkEnd <= req.to
  BY ChunkInBlock
<1>6. ServeShape'
  BY <1>3, <1>5 DEF ServeShape, EntryShape
<1> QED
  BY <1>3, <1>4, <1>6

\* A chunk has been served from entry x, next to the entries K.
LEMMA ChunkServed ==
  ASSUME CInv, Serving, req.at < req.to, pc = "idle", NextChunk,
         UNCHANGED <<vars, want, durable>>, CacheShape',
         NEW K, NEW x \in CacheEntries, x.block = Key, Kept' = K \cup {Served(x)},
         \A e \in K : e.block # Key,
         \A c \in Cells : \A V :
           Intact(c) /\ Sees(Held, expect[c], c, V) /\ (Overwritten(c) => req.v \in V)
             => Sees(K \cup {x}, expect[c], c, V)
  PROVE  CInv'
<1>0. ServeShape
  BY DEF CInv, ReqShape
<1>1. /\ req'.kind = req.kind /\ req'.at = ChunkEnd /\ req'.to = req.to
      /\ req'.entry = NoReq /\ Serving' /\ ServeShape'
      /\ req.kind = "write" => req'.v = req.v /\ req'.from = req.from
  BY <1>0, NextChunkShape
<1>2. ~Sweeping' /\ ~WritingBack' /\ ~Dropping'
  BY <1>1 DEF Serving, Sweeping, WritingBack, Dropping
<1>3. pc' = "idle" /\ expect' = expect /\ torn' = torn
  BY DEF vars
<1>4. ReqShape' /\ BackInv' /\ DropInv' /\ QuietInv'
  BY <1>1, <1>2, <1>3 DEF ReqShape, SweepShape, BackInv, DropInv, QuietInv
<1>5. Held' = K \cup {Served(x)}
  BY <1>1 DEF Held
<1>6. /\ Served(x).block = Key
      /\ Served(x).dirty <=> (req.kind = "write" \/ x.dirty)
      /\ \A c \in CellsIn(Key) : Served(x).data[c] = IF Overwritten(c) THEN req.v ELSE x.data[c]
  BY <1>0, ServedEntry
<1>7. ASSUME NEW c \in Cells, NEW V, Intact(c), Sees(Held, expect[c], c, V),
             Overwritten(c) => req.v \in V
      PROVE  Sees(Held', expect[c], c, V)
  <2>1. Sees(K \cup {x}, expect[c], c, V)
    BY <1>7
  <2>2. CASE CacheBlock(c) = Key
    <3>1. c \in CellsIn(Key)
      BY <2>2 DEF CellsIn
    <3>2. x.data[c] \in V /\ \A e \in K : e.block # CacheBlock(c)
      BY <2>1, <2>2 DEF Sees
    <3>3. Served(x).data[c] \in V
      BY <1>6, <1>7, <3>1, <3>2
    <3>4. expect[c] \subseteq V \/ Served(x).dirty
      BY <1>6, <2>1, <2>2 DEF Sees
    <3> QED
      BY <1>5, <1>6, <2>2, <3>2, <3>3, <3>4 DEF Sees
  <2>3. CASE CacheBlock(c) # Key
    BY <1>5, <1>6, <2>1, <2>3 DEF Sees
  <2> QED
    BY <2>2, <2>3
<1>8. ASSUME NEW c \in Cells, Overwritten(c)
      PROVE  Sees(Held', expect[c], c, {req.v})
  <2>1. CacheBlock(c) = Key /\ c \in CellsIn(Key) /\ req.kind = "write"
    BY <1>0, <1>8, ChunkInBlock DEF Overwritten, CellsIn
  <2>2. Served(x).data[c] = req.v /\ Served(x).dirty /\ Served(x).block = CacheBlock(c)
    BY <1>6, <1>8, <2>1
  <2>3. \A e \in K : e.block # CacheBlock(c)
    BY <2>1
  <2> QED
    BY <1>5, <2>2, <2>3 DEF Sees
<1>9. ASSUME NEW c \in Cells, Intact(c)' PROVE Sound(c)'
  <2>1. Intact(c) /\ Sound(c)
    BY <1>3, <1>9 DEF Intact, CInv, ValuesInv
  <2>2. Overwritten(c) => c \in req.from .. req.to - 1
    BY <1>0, ChunkInBlock DEF Overwritten, ServeShape
  <2>3. Sees(Held', expect[c], c, want[c])
    BY <1>7, <2>1, <2>2 DEF Sound, Overwritten
  <2>4. ASSUME req.kind = "write", c \in req.from .. ChunkEnd - 1
        PROVE  Sees(Held', expect[c], c, {req.v})
    <3>1. CASE Overwritten(c)
      BY <1>8, <3>1
    <3>2. CASE ~Overwritten(c)
      <4>1. c \in req.from .. req.at - 1
        BY <1>0, <2>4, <3>2, ChunkInBlock DEF Overwritten, ServeShape
      <4>2. Sees(Held, expect[c], c, {req.v})
        BY <2>1, <2>4, <4>1 DEF Sound
      <4> QED
        BY <1>7, <2>1, <3>2, <4>2
    <3> QED
      BY <3>1, <3>2
  <2>5. want' = want /\ durable' = durable
    OBVIOUS
  <2>6. Sees(Held, expect[c], c, want[c])'
    BY <1>3, <2>3, <2>5 DEF Sees
  <2>7. req.kind = "write" /\ c \in req.from .. ChunkEnd - 1 => Sees(Held, expect[c], c, {req.v})'
    BY <1>1, <1>3, <2>4 DEF Sees
  <2> QED
    BY <1>1, <1>3, <2>1, <2>5, <2>6, <2>7 DEF Sound, Serving
<1>10. ValuesInv'
  BY <1>9 DEF ValuesInv
<1> QED
  BY <1>4, <1>10 DEF CInv

LEMMA ChunkingIs ==
  ASSUME Chunking, CInv
  PROVE  Serving /\ ServeShape /\ CacheShape /\ pc = "idle" /\ req.entry = NoReq /\ Held = Kept
BY DEF Chunking, Serving, Held, CInv, ReqShape

LEMMA HitStep == ASSUME CInv, Hit PROVE CInv'
<1>0. Chunking /\ req.at < req.to /\ Holds(Key) /\ NextChunk /\ UNCHANGED <<vars, want, durable>>
      /\ cache' = <<Served(Head(Touched(Key)))>> \o Tail(Touched(Key))
  BY DEF Hit
<1>1. Serving /\ ServeShape /\ CacheShape /\ pc = "idle" /\ Held = Kept
  BY <1>0, ChunkingIs
<1> DEFINE t == Touched(Key)
           x == Head(t)
<1>2. /\ t \in Seq(CacheEntries) /\ Once(t) /\ t # << >> /\ Ent(t) = Kept
      /\ x \in Kept /\ x.block = Key
  BY <1>0, <1>1, TouchedKeeps
<1>3. x \in CacheEntries /\ \A e \in Kept : e.block = Key => e = x
  BY <1>1, <1>2, KeptEntries
<1>4. Served(x) \in CacheEntries /\ Served(x).block = Key
  BY <1>0, <1>1, <1>2, <1>3, ServedEntry
<1>5. cache' = <<Served(x)>> \o Tail(t)
  BY <1>0
<1> HIDE DEF t
<1>6. cache' \in Seq(CacheEntries) /\ Once(cache') /\ Ent(cache') = (Kept \ {x}) \cup {Served(x)}
  BY <1>2, <1>4, <1>5, FirstReplaced
<1> HIDE DEF x
<1> DEFINE K == Kept \ {x}
<1>7. CacheShape' /\ Kept' = K \cup {Served(x)}
  BY <1>6 DEF CacheShape, Kept, Once, Ent
<1>8. K \cup {x} = Held /\ \A e \in K : e.block # Key
  BY <1>1, <1>2, <1>3
<1> HIDE DEF K
<1> QED
  BY <1>0, <1>1, <1>2, <1>3, <1>7, <1>8, ChunkServed


LEMMA MissStep == ASSUME IInv, TInv, RInv, CInv, Miss PROVE CInv'
<1>0. /\ Chunking /\ req.at < req.to /\ ~Holds(Key) /\ Readable /\ NextChunk
      /\ UNCHANGED <<vars, want, durable>>
      /\ Space \/ (~Space /\ ~Last(cache).dirty)
      /\ cache' = <<Served(Fetched)>> \o (IF Space THEN cache ELSE Front(cache))
  BY DEF Miss, Inserted
<1>1. Serving /\ ServeShape /\ CacheShape /\ pc = "idle" /\ Held = Kept
  BY <1>0, ChunkingIs
<1> DEFINE x == Fetched
<1>2. x \in CacheEntries /\ x.block = Key /\ ~x.dirty
  BY <1>0, <1>1, FetchedEntry
<1>3. Served(x) \in CacheEntries /\ Served(x).block = Key
  BY <1>0, <1>1, <1>2, ServedEntry
<1>4. \A e \in Kept : e.block # Key
  BY <1>0, <1>1, HoldsEntry
<1>5. ASSUME NEW c \in Cells, NEW V, Intact(c), Sees(Held, expect[c], c, V),
             Overwritten(c) => req.v \in V
      PROVE  x.block = CacheBlock(c) => x.data[c] \in V
  <2>1. CacheBlock(c) = Key => c \in CellsIn(Key)
    BY DEF CellsIn
  <2> QED
    BY <1>0, <1>1, <1>2, <1>5, <2>1, FetchedSeen
<1> HIDE DEF x
<1>6. CASE Space
  <2>1. cache' = <<Served(x)>> \o cache
    BY <1>0, <1>6 DEF x
  <2>2. ~Holds(Served(x).block)
    BY <1>0, <1>3
  <2>3. cache' \in Seq(CacheEntries) /\ Once(cache') /\ Ent(cache') = Kept \cup {Served(x)}
    BY <1>1, <1>3, <2>1, <2>2, EntryAdded
  <2>4. CacheShape' /\ Kept' = Kept \cup {Served(x)}
    BY <2>3 DEF CacheShape, Kept, Once, Ent
  <2>5. ASSUME NEW c \in Cells, NEW V, Intact(c), Sees(Held, expect[c], c, V),
               Overwritten(c) => req.v \in V
        PROVE  Sees(Kept \cup {x}, expect[c], c, V)
    BY <1>1, <1>5, <2>5 DEF Sees
  <2> QED
    BY <1>0, <1>1, <1>2, <1>4, <2>4, <2>5, ChunkServed
<1>7. CASE ~Space
  <2>0. cache # << >>
    BY <1>7, CachedDiskAssumption DEF Space
  <2>1. cache' = <<Served(x)>> \o Front(cache)
    BY <1>0, <1>7 DEF x
  <2>2. ~Holds(Served(x).block)
    BY <1>0, <1>3
  <2> DEFINE v == Last(cache)
             K == Kept \ {v}
  <2>3. cache' \in Seq(CacheEntries) /\ Once(cache') /\ Ent(cache') = K \cup {Served(x)} /\ v \in Kept
    BY <1>1, <1>3, <2>0, <2>1, <2>2, LastReplaced
  <2>4. CacheShape' /\ Kept' = K \cup {Served(x)}
    BY <2>3 DEF CacheShape, Kept, Once, Ent
  <2>5. ~v.dirty /\ \A e \in K : e.block # Key /\ e \in Kept
    BY <1>0, <1>4, <1>7
  <2>6. \A e \in Kept : e.dirty => e \in K
    BY <2>5
  <2> HIDE DEF K, v
  <2>7. ASSUME NEW c \in Cells, NEW V, Intact(c), Sees(Held, expect[c], c, V),
               Overwritten(c) => req.v \in V
        PROVE  Sees(K \cup {x}, expect[c], c, V)
    BY <1>1, <1>5, <2>5, <2>6, <2>7 DEF Sees
  <2> QED
    BY <1>0, <1>1, <1>2, <2>4, <2>5, <2>7, ChunkServed
<1> QED
  BY <1>6, <1>7

\* What waits for an entry's write to the disk.
LEMMA EvictingIs ==
  ASSUME Evicting, CInv
  PROVE  /\ Serving /\ ServeShape /\ CacheShape /\ WritingBack /\ Victim = Last(cache)
         /\ cache # << >> /\ Victim \in Kept /\ Victim.dirty
         /\ req.entry \in CacheEntries /\ ~req.entry.dirty /\ req.at < req.to
         /\ req.entry.block = Key /\ ~Holds(Key) /\ Held = Kept \cup {req.entry}
<1>1. Serving /\ ServeShape /\ CacheShape /\ WritingBack /\ Held = Kept \cup {req.entry}
  BY DEF Evicting, Serving, Held, CInv, ReqShape, WritingBack
<1>2. Victim = Last(cache) /\ cache # << >> /\ Victim.dirty
  BY <1>1 DEF CInv, BackInv, Victim
<1>3. cache \in Seq(CacheEntries)
  BY <1>1 DEF CacheShape
<1>4. Last(cache) \in Kept
  BY <1>2, <1>3, FrontWithout DEF Kept, Ent
<1>5. /\ req.entry \in CacheEntries /\ ~req.entry.dirty /\ req.at < req.to
      /\ req.entry.block = Key /\ ~Holds(Key)
  BY <1>1 DEF Evicting, ServeShape, EntryShape
<1> QED
  BY <1>1, <1>2, <1>4, <1>5

LEMMA EvictedStep == ASSUME CInv, Evicted PROVE CInv'
<1>0. /\ Evicting /\ pc = "idle" /\ NextChunk /\ UNCHANGED <<vars, want, durable>>
      /\ cache' = <<Served(req.entry)>> \o Front(cache)
  BY DEF Evicted, Inserted
<1> DEFINE x == req.entry
           v == Last(cache)
           K == Kept \ {v}
<1>1. /\ Serving /\ ServeShape /\ CacheShape /\ WritingBack /\ Victim = v
      /\ cache # << >> /\ v \in Kept /\ v.dirty /\ x \in CacheEntries /\ ~x.dirty
      /\ req.at < req.to /\ x.block = Key /\ ~Holds(Key) /\ Held = Kept \cup {x}
  BY <1>0, EvictingIs
<1>2. \A c \in CellsIn(v.block) : expect[c] = {v.data[c]}
  BY <1>0, <1>1 DEF CInv, BackInv, Writing, Filling
<1>3. Served(x) \in CacheEntries /\ Served(x).block = Key
  BY <1>1, ServedEntry
<1> HIDE DEF x
<1>4. cache' \in Seq(CacheEntries) /\ Once(cache') /\ Ent(cache') = K \cup {Served(x)}
  BY <1>0, <1>1, <1>3, LastReplaced DEF x
<1>5. CacheShape' /\ Kept' = K \cup {Served(x)}
  BY <1>4 DEF CacheShape, Kept, Once, Ent
<1>6. \A e \in Kept : e.block # Key
  BY <1>1, HoldsEntry
<1> HIDE DEF v
<1>7. \A e \in K : e.block # Key
  BY <1>6
<1>8. ASSUME NEW c \in Cells, NEW V, Sees(Held, expect[c], c, V)
      PROVE  Sees(K \cup {x}, expect[c], c, V)
  <2>1. CASE CacheBlock(c) = v.block
    <3>1. c \in CellsIn(v.block)
      BY <2>1 DEF CellsIn
    <3>2. expect[c] \subseteq V
      BY <1>1, <1>2, <1>8, <2>1, <3>1 DEF Sees
    <3> QED
      BY <1>1, <1>8, <3>2 DEF Sees
  <2>2. CASE CacheBlock(c) # v.block
    BY <1>1, <1>8, <2>2 DEF Sees
  <2> QED
    BY <2>1, <2>2
<1> HIDE DEF K
<1> QED
  BY <1>0, <1>1, <1>5, <1>7, <1>8, ChunkServed

LEMMA ReturnChunksStep == ASSUME CInv, ReturnChunks PROVE CInv'
<1>0. /\ Chunking /\ req.at = req.to /\ req' = NoReq
      /\ want' = IF req.kind = "write" THEN Become(want, req.from .. req.to - 1, req.v) ELSE want
      /\ UNCHANGED <<vars, cache, durable>>
  BY DEF ReturnChunks, Return
<1>1. Serving /\ ServeShape /\ CacheShape /\ pc = "idle" /\ Held = Kept
  BY <1>0, ChunkingIs
<1>2. CacheShape' /\ pc' = "idle" /\ Kept' = Kept /\ expect' = expect /\ torn' = torn
  BY <1>0, <1>1 DEF CacheShape, Once, vars, Kept, Ent
<1>3. ASSUME NEW c \in Cells, Intact(c)'
      PROVE  /\ want'[c] \subseteq durable'[c] /\ expect'[c] \subseteq durable'[c]
             /\ Sees(Kept', expect'[c], c, want'[c])
  <2>1. Sound(c)
    BY <1>2, <1>3 DEF Intact, CInv, ValuesInv
  <2>2. CASE req.kind = "write" /\ c \in req.from .. req.to - 1
    <3>1. want'[c] = {req.v}
      BY <1>0, <2>2 DEF Become
    <3>2. Sees(Kept, expect[c], c, {req.v}) /\ req.v \in want[c]
      BY <1>0, <1>1, <2>1, <2>2 DEF Sound
    <3> QED
      BY <1>0, <1>2, <2>1, <3>1, <3>2 DEF Sound
  <2>3. CASE ~(req.kind = "write" /\ c \in req.from .. req.to - 1)
    <3>1. want'[c] = want[c]
      BY <1>0, <2>3 DEF Become
    <3> QED
      BY <1>0, <1>1, <1>2, <2>1, <3>1 DEF Sound
  <2> QED
    BY <2>2, <2>3
<1> QED
  BY <1>0, <1>2, <1>3, Returned


-----------------------------------------------------------------------------
(* Calls to the disk below, and flush and discard_range.                   *)

\* What the call in progress may put in a cell.
MayHold(c, V) ==
  /\ Overwritten(c) => req.v \in V
  /\ req.kind = "discard" /\ c \in Discarded(req.from, req.to) => Unwritten \in V

\* A step inside a call that shows no cell anything the call may not put there.
LEMMA ValuesKept ==
  ASSUME ValuesInv, ServeShape, UNCHANGED <<want, durable, stack>>, req'.kind = req.kind,
         req.kind = "write" =>
           req'.v = req.v /\ req'.from = req.from /\ req'.at = req.at /\ req'.to = req.to,
         req.kind = "discard" => req'.from = req.from /\ req'.to = req.to,
         torn \subseteq torn',
         \A c \in Cells : Intact(c) /\ Sound(c) =>
           /\ expect'[c] \subseteq durable[c]
           /\ \A V : Sees(Held, expect[c], c, V) /\ MayHold(c, V) => Sees(Held', expect'[c], c, V)
  PROVE  ValuesInv'
<1> SUFFICES ASSUME NEW c \in Cells, Intact(c)' PROVE Sound(c)'
  BY DEF ValuesInv
<1>1. Intact(c) /\ Sound(c)
  BY DEF Intact, ValuesInv
<1>2. /\ expect'[c] \subseteq durable[c]
      /\ \A V : Sees(Held, expect[c], c, V) /\ MayHold(c, V) => Sees(Held', expect'[c], c, V)
  BY <1>1
<1>3. Unwritten' = Unwritten
  BY DEF Unwritten
<1>4. Overwritten(c) => c \in req.from .. req.to - 1
  <2>1. ASSUME Overwritten(c) PROVE c \in req.from .. req.to - 1
    <3>1. req.kind = "write" /\ c \in req.at .. ChunkEnd - 1
      BY <2>1 DEF Overwritten
    <3>2. req.at \in Nat /\ req.to \in Nat /\ req.at <= req.to
          /\ req.from \in Nat /\ req.from <= req.at
      BY <3>1 DEF ServeShape, Serving
    <3>3. Serving
      BY <3>1 DEF Serving
    <3>4. CASE req.at < req.to
      BY <3>1, <3>2, <3>3, <3>4, ChunkInBlock
    <3>5. CASE req.at = req.to
      <4> DEFINE hi == (Key + 1) * CacheCells
      <4>1. Key \in Nat /\ hi \in Nat
        BY <3>2, DiskSize, DivWithin DEF Key, CacheBlock
      <4>2. Min({req.to, hi}) = IF req.to <= hi THEN req.to ELSE hi
        <5> HIDE DEF hi
        <5>1. req.to \in Int /\ hi \in Int
          BY <3>2, <4>1
        <5> QED
          BY <5>1, MinOfTwo
      <4>3. ChunkEnd <= req.to /\ ChunkEnd \in Nat
        BY <3>2, <4>1, <4>2 DEF ChunkEnd
      <4> QED
        BY <3>1, <3>2, <3>5, <4>3
    <3> QED
      BY <3>2, <3>4, <3>5
  <2> QED
    BY <2>1
<1>5. MayHold(c, want[c])
  BY <1>1, <1>4 DEF MayHold, Sound, Overwritten
<1>6. Sees(Held', expect'[c], c, want[c])
  BY <1>1, <1>2, <1>5 DEF Sound
<1>7. ASSUME req.kind = "write", c \in req.from .. req.at - 1
      PROVE  Sees(Held', expect'[c], c, {req.v})
  <2>1. MayHold(c, {req.v}) /\ Sees(Held, expect[c], c, {req.v})
    BY <1>1, <1>7 DEF MayHold, Sound
  <2> QED
    BY <1>2, <2>1
<1>8. Sees(Held, expect[c], c, want[c])'
  BY <1>6 DEF Sees
<1>9. req.kind = "write" /\ c \in req.from .. req.at - 1 => Sees(Held, expect[c], c, {req.v})'
  BY <1>7 DEF Sees
<1> QED
  BY <1>1, <1>2, <1>3, <1>8, <1>9 DEF Sound

LEMMA WriteBelowIs ==
  ASSUME NEW e \in CacheEntries, WriteBelow(e)
  PROVE  /\ pc = "idle" /\ pc' = "chunk" /\ stack' = stack /\ torn' = torn
         /\ op'.buf = e.data /\ op'.from = FirstIn(e.block) /\ op'.to = EndOf(e.block)
         /\ \A c \in Cells : expect'[c] = IF CacheBlock(c) = e.block THEN expect[c] \cup {e.data[c]}
                                          ELSE expect[c]
         /\ AnyCall
<1> DEFINE from == FirstIn(e.block)
           to == EndOf(e.block)
<1>1. BeginWrite(from, to, e.data)
  BY DEF WriteBelow
<1>2. e.block \in CacheBlocks /\ e.data \in [CellsIn(e.block) -> DataCells]
  BY EntryType
<1>3. /\ from \in Nat /\ to \in Nat /\ from < to /\ to <= DiskEnd
      /\ CellsIn(e.block) = from .. to - 1
  BY <1>2, BlockInterval
<1> HIDE DEF from, to
<1>4. \A c \in Cells : c \in from .. to - 1 <=> CacheBlock(c) = e.block
  BY <1>3 DEF CellsIn
<1>5. AnyCall
  <2>1. from \in 0 .. NumBlocks * BlockCells /\ to \in 0 .. NumBlocks * BlockCells
    BY <1>3, DiskSize DEF DiskEnd
  <2>2. e.data \in [from .. to - 1 -> DataCells]
    BY <1>2, <1>3
  <2> QED
    BY <1>1, <1>3, <2>1, <2>2 DEF AnyCall
<1>6. /\ pc = "idle" /\ pc' = "chunk" /\ stack' = stack /\ torn' = torn
      /\ op'.buf = e.data /\ op'.from = from /\ op'.to = to
      /\ \A c \in Cells : expect'[c] = IF c \in from .. to - 1 THEN expect[c] \cup {e.data[c]}
                                       ELSE expect[c]
  BY <1>1 DEF BeginWrite
<1> QED
  BY <1>4, <1>5, <1>6 DEF from, to

\* While a dirty entry is written back, its cells on disk are covered by it.
LEMMA CoveredByDirty ==
  ASSUME NEW e, e.dirty, NEW K, e \in K, NEW c \in Cells, NEW E, NEW E2,
         E2 = E \/ CacheBlock(c) = e.block, NEW V, Sees(K, E, c, V)
  PROVE  Sees(K, E2, c, V)
BY DEF Sees

LEMMA EvictStep == ASSUME IInv, TInv, RInv, CInv, Evict PROVE CInv' /\ AnyCall
<1>0. /\ Chunking /\ req.at < req.to /\ ~Holds(Key) /\ Readable /\ ~Space /\ Last(cache).dirty
      /\ WriteBelow(Last(cache)) /\ req' = [req EXCEPT !.entry = Fetched]
      /\ UNCHANGED <<cache, want, durable>>
  BY DEF Evict
<1>1. Serving /\ ServeShape /\ CacheShape /\ pc = "idle" /\ Held = Kept /\ req.entry = NoReq
  BY <1>0, ChunkingIs
<1> DEFINE x == Fetched
           v == Last(cache)
<1>2. x \in CacheEntries /\ x.block = Key /\ ~x.dirty /\ x # NoReq
  BY <1>0, <1>1, FetchedEntry, EntryType
<1>3. cache # << >>
  BY <1>0, CachedDiskAssumption DEF Space
<1>4. v \in Kept /\ v \in CacheEntries
  <2>1. cache \in Seq(CacheEntries)
    BY <1>1 DEF CacheShape
  <2>2. v \in Kept
    BY <1>3, <2>1, FrontWithout DEF Kept, Ent
  <2> QED
    BY <1>1, <2>2, KeptEntries
<1>5. /\ pc' = "chunk" /\ stack' = stack /\ torn' = torn
      /\ op'.buf = v.data /\ op'.from = FirstIn(v.block) /\ op'.to = EndOf(v.block)
      /\ \A c \in Cells : expect'[c] = IF CacheBlock(c) = v.block THEN expect[c] \cup {v.data[c]}
                                       ELSE expect[c]
      /\ AnyCall
  BY <1>0, <1>4, WriteBelowIs
<1>6. {"kind", "at", "to", "entry"} \subseteq DOMAIN req
      /\ (req.kind = "write" => {"v", "from"} \subseteq DOMAIN req)
  BY <1>1 DEF ServeShape
<1>7. ASSUME NEW c \in Cells, NEW V, Intact(c), Sees(Kept, expect[c], c, V),
             Overwritten(c) => req.v \in V
      PROVE  x.block = CacheBlock(c) => x.data[c] \in V
  <2>1. CacheBlock(c) = Key => c \in CellsIn(Key)
    BY DEF CellsIn
  <2> QED
    BY <1>0, <1>1, <1>2, <1>7, <2>1, FetchedSeen
<1> HIDE DEF x
<1>8. /\ req'.kind = req.kind /\ req'.at = req.at /\ req'.to = req.to
      /\ req'.entry = x /\ DOMAIN req' = DOMAIN req
      /\ req.kind = "write" => req'.v = req.v /\ req'.from = req.from
  BY <1>0, <1>6 DEF x
<1>9. CacheShape' /\ Kept' = Kept /\ Serving' /\ ~Sweeping' /\ WritingBack' /\ ~Dropping'
  BY <1>0, <1>1, <1>2, <1>8
     DEF CacheShape, Once, Kept, Ent, Serving, Sweeping, WritingBack, Dropping
<1>10. Held' = Kept \cup {x}
  BY <1>2, <1>8, <1>9 DEF Held
<1>11. ReqShape'
  <2>1. Key' = Key /\ (Holds(Key))' = Holds(Key)
    BY <1>0, <1>8 DEF Key, Holds
  <2>2. EntryShape(req.entry)'
    BY <1>0, <1>2, <1>8, <2>1 DEF EntryShape
  <2>3. ServeShape'
    BY <1>1, <1>8, <2>2 DEF ServeShape, Serving
  <2> QED
    BY <1>9, <2>3 DEF ReqShape, SweepShape
<1>12. BackInv' /\ DropInv' /\ QuietInv'
  <2>1. Victim' = v
    BY <1>0, <1>9 DEF Victim
  <2> QED
    BY <1>0, <1>3, <1>5, <1>9, <2>1 DEF BackInv, DropInv, QuietInv, Writing
<1>13. ASSUME NEW c \in Cells, Intact(c), Sound(c)
       PROVE  /\ expect'[c] \subseteq durable[c]
              /\ \A V : Sees(Held, expect[c], c, V) /\ MayHold(c, V)
                          => Sees(Held', expect'[c], c, V)
  <2>1. expect'[c] \subseteq durable[c]
    BY <1>1, <1>4, <1>5, <1>13 DEF Sound, Sees
  <2>2. ASSUME NEW V, Sees(Kept, expect[c], c, V), MayHold(c, V)
        PROVE  Sees(Held', expect'[c], c, V)
    <3>1. x.block = CacheBlock(c) => x.data[c] \in V
      BY <1>7, <1>13, <2>2 DEF MayHold
    <3>2. Sees(Kept, expect'[c], c, V)
      BY <1>0, <1>4, <1>5, <2>2, CoveredByDirty
    <3> QED
      BY <1>10, <3>1, <3>2 DEF Sees
  <2> QED
    BY <1>1, <2>1, <2>2
<1> HIDE DEF v
<1>14. ValuesInv'
  <2>1. ValuesInv
    BY DEF CInv
  <2>2. req.kind # "discard"
    BY <1>1 DEF Serving
  <2> QED
    BY <1>0, <1>1, <1>5, <1>8, <1>13, <2>1, <2>2, ValuesKept
<1> QED
  BY <1>5, <1>9, <1>11, <1>12, <1>14 DEF CInv


LEMMA KeyedIs ==
  ASSUME Keyed, CInv
  PROVE  /\ Sweeping /\ ~Serving /\ SweepShape /\ CacheShape /\ pc = "idle" /\ Held = Kept
         /\ {"kind", "keys", "below"} \subseteq DOMAIN req
         /\ req.kind = "discard" => {"from", "to", "all"} \subseteq DOMAIN req
         /\ req.keys \in Seq(CacheBlocks)
         /\ req.keys # << >> => /\ Holds(Head(req.keys)) /\ Tail(req.keys) \in Seq(CacheBlocks)
                                /\ Without(Tail(req.keys), req.keys, 1)
                                /\ Head(req.keys) = req.keys[1] /\ 1 \in 1 .. Len(req.keys)
<1>1. Sweeping /\ ~Serving /\ SweepShape /\ CacheShape /\ pc = "idle" /\ Held = Kept
  BY DEF Keyed, Sweeping, Serving, Held, CInv, ReqShape
<1>2. req.keys \in Seq(CacheBlocks) /\ \A j \in 1 .. Len(req.keys) : Holds(req.keys[j])
  BY <1>1 DEF SweepShape
<1>3. /\ {"kind", "keys", "below"} \subseteq DOMAIN req
      /\ req.kind = "discard" => {"from", "to", "all"} \subseteq DOMAIN req
  BY <1>1 DEF SweepShape
<1> DEFINE q == req.keys
<1>4. ASSUME q # << >>
      PROVE  /\ Tail(q) \in Seq(CacheBlocks) /\ Without(Tail(q), q, 1)
             /\ Head(q) = q[1] /\ 1 \in 1 .. Len(q)
  BY <1>2, <1>4, TailWithout
<1> QED
  BY <1>1, <1>2, <1>3, <1>4

\* A step of a sweep that leaves an entry for every block that had one.
LEMMA SweepKept ==
  ASSUME Sweeping, SweepShape, CacheShape', req'.kind = req.kind, DOMAIN req' = DOMAIN req,
         req.kind = "discard" => req'.from = req.from /\ req'.to = req.to /\ req'.all = req.all,
         req'.below \in BOOLEAN, req.kind = "flush" /\ req'.below => req'.keys # << >>,
         \A e \in Kept' : \E f \in Kept : f.block = e.block,
         \A f \in Kept : \E e \in Kept' : f.block = e.block,
         CacheShape, req'.keys \in Seq(CacheBlocks),
         \A j \in 1 .. Len(req'.keys) : \E i \in 1 .. Len(req.keys) : req'.keys[j] = req.keys[i],
         \A e \in Kept' : Swept(e)' => ~e.dirty
  PROVE  ReqShape' /\ ~Serving'
<1>1. Sweeping' /\ ~Serving'
  BY DEF Sweeping, Serving
<1>2. ASSUME NEW j \in 1 .. Len(req'.keys) PROVE Holds(req.keys[j])'
  <2>1. PICK i \in 1 .. Len(req.keys) : req'.keys[j] = req.keys[i]
    OBVIOUS
  <2>2. Holds(req.keys[i])
    BY DEF SweepShape
  <2>3. PICK e \in Kept' : e.block = req'.keys[j]
    BY <2>1, <2>2, HoldsEntry
  <2>4. DOMAIN cache' = 1 .. Len(cache')
    BY DEF CacheShape
  <2>5. PICK n \in 1 .. Len(cache') : e = cache'[n]
    BY DEF Kept, Ent
  <2> QED
    BY <2>3, <2>4, <2>5 DEF Holds
<1>3. ASSUME req.kind = "discard", NEW e \in Kept',
             e.block \in CacheBlock(req.from) .. CacheBlock(req.to - 1)
      PROVE  e.block \in req.all
  BY <1>3 DEF SweepShape
<1>4. SweepShape'
  BY <1>1, <1>2, <1>3 DEF SweepShape, Sweeping
<1> QED
  BY <1>1, <1>4 DEF ReqShape, ServeShape

\* The keys after the first one.
LEMMA KeysAdvance ==
  ASSUME NEW q \in Seq(CacheBlocks), q # << >>
  PROVE  /\ Tail(q) \in Seq(CacheBlocks)
         /\ \A j \in 1 .. Len(Tail(q)) : \E i \in 1 .. Len(q) : Tail(q)[j] = q[i]
         /\ \A i \in 1 .. Len(q) : q[i] = Head(q) \/ \E j \in 1 .. Len(Tail(q)) : Tail(q)[j] = q[i]
<1> DEFINE t == Tail(q)
<1>1. /\ 1 \in 1 .. Len(q) /\ Head(q) = q[1] /\ t \in Seq(CacheBlocks) /\ Without(t, q, 1)
  BY TailWithout
<1>2. Len(q) \in Nat /\ Len(t) = Len(q) - 1 /\ \A k \in 1 .. Len(q) - 1 : t[k] = q[k + 1]
  BY <1>1 DEF Without
<1> HIDE DEF t
<1>3. ASSUME NEW j \in 1 .. Len(t) PROVE \E i \in 1 .. Len(q) : t[j] = q[i]
  <2>1. j + 1 \in 1 .. Len(q) /\ t[j] = q[j + 1]
    BY <1>2
  <2> QED
    BY <2>1
<1>4. ASSUME NEW i \in 1 .. Len(q), i # 1 PROVE \E j \in 1 .. Len(t) : t[j] = q[i]
  <2>1. i - 1 \in 1 .. Len(t) /\ t[i - 1] = q[i]
    BY <1>2, <1>4
  <2> QED
    BY <2>1
<1>5. \A i \in 1 .. Len(q) : q[i] = Head(q) \/ \E j \in 1 .. Len(t) : t[j] = q[i]
  BY <1>1, <1>4
<1> QED
  BY <1>1, <1>3, <1>5 DEF t

LEMMA SkipCleanStep == ASSUME CInv, SkipClean PROVE CInv'
<1>0. /\ Keyed /\ ~req.below /\ req.keys # << >> /\ ~Head(Touched(Head(req.keys))).dirty
      /\ cache' = Touched(Head(req.keys)) /\ req' = [req EXCEPT !.keys = Tail(req.keys)]
      /\ UNCHANGED <<vars, want, durable>>
  BY DEF SkipClean
<1>1. /\ Sweeping /\ ~Serving /\ SweepShape /\ CacheShape /\ pc = "idle" /\ Held = Kept
      /\ {"kind", "keys", "below"} \subseteq DOMAIN req
      /\ req.kind = "discard" => {"from", "to", "all"} \subseteq DOMAIN req
      /\ Holds(Head(req.keys)) /\ req.keys \in Seq(CacheBlocks)
  BY <1>0, KeyedIs
<1> DEFINE k == Head(req.keys)
           t == Touched(k)
           rest == Tail(req.keys)
<1>2. /\ t \in Seq(CacheEntries) /\ Once(t) /\ t # << >> /\ Ent(t) = Kept
      /\ Head(t) \in Kept /\ Head(t).block = k
  BY <1>1, TouchedKeeps
<1>3. CacheShape' /\ Kept' = Kept
  BY <1>0, <1>2 DEF CacheShape, Kept, Once, Ent
<1>4. /\ req'.kind = req.kind /\ req'.below = req.below /\ req'.keys = rest
      /\ DOMAIN req' = DOMAIN req
      /\ req.kind = "discard" => req'.from = req.from /\ req'.to = req.to /\ req'.all = req.all
  BY <1>0, <1>1
<1> HIDE DEF t
<1>5. \A e \in Kept : e.block = k => ~e.dirty
  BY <1>0, <1>1, <1>2, KeptEntries DEF t
<1>6. /\ rest \in Seq(CacheBlocks)
      /\ \A j \in 1 .. Len(rest) : \E i \in 1 .. Len(req.keys) : rest[j] = req.keys[i]
      /\ \A i \in 1 .. Len(req.keys) :
           req.keys[i] = k \/ \E j \in 1 .. Len(rest) : rest[j] = req.keys[i]
  BY <1>0, <1>1, KeysAdvance
<1> HIDE DEF k, rest
<1>7. ASSUME NEW e \in Kept', Swept(e)' PROVE ~e.dirty
  <2>1. CASE e.block = k
    BY <1>3, <1>5, <2>1
  <2>2. CASE e.block # k
    <3>1. Swept(e)
      BY <1>1, <1>4, <1>6, <1>7, <2>2 DEF Swept, Sweeping
    <3> QED
      BY <1>1, <1>3, <3>1 DEF SweepShape
  <2> QED
    BY <2>1, <2>2
<1>8. ReqShape' /\ ~Serving'
  <2>1. req'.below = FALSE /\ req'.below \in BOOLEAN
    BY <1>0, <1>1, <1>4 DEF SweepShape
  <2>2. /\ \A e \in Kept' : \E f \in Kept : f.block = e.block
        /\ \A f \in Kept : \E e \in Kept' : f.block = e.block
    BY <1>3
  <2>3. /\ req'.keys \in Seq(CacheBlocks)
        /\ \A j \in 1 .. Len(req'.keys) : \E i \in 1 .. Len(req.keys) : req'.keys[j] = req.keys[i]
    BY <1>4, <1>6
  <2> QED
    BY <1>1, <1>3, <1>4, <1>7, <2>1, <2>2, <2>3, SweepKept
<1>9. pc' = "idle" /\ expect' = expect /\ torn' = torn /\ stack' = stack
  BY <1>0, <1>1 DEF vars
<1>10. BackInv' /\ DropInv' /\ QuietInv'
  BY <1>0, <1>4, <1>8, <1>9 DEF BackInv, DropInv, QuietInv, WritingBack, Dropping
<1>11. Held' = Held
  BY <1>1, <1>3, <1>8 DEF Held
<1>12. ValuesInv'
  <2>1. ValuesInv /\ ServeShape /\ req.kind # "write"
    BY <1>1 DEF CInv, ReqShape, Serving
  <2>2. \A c \in Cells : Intact(c) /\ Sound(c) =>
           /\ expect'[c] \subseteq durable[c]
           /\ \A V : Sees(Held, expect[c], c, V) /\ MayHold(c, V) => Sees(Held', expect'[c], c, V)
    BY <1>9, <1>11 DEF Sound
  <2> QED
    BY <1>0, <1>4, <1>9, <2>1, <2>2, ValuesKept
<1> QED
  BY <1>3, <1>8, <1>10, <1>12 DEF CInv


LEMMA WriteDirtyStep == ASSUME CInv, WriteDirty PROVE CInv' /\ AnyCall
<1>0. /\ Keyed /\ ~req.below /\ req.keys # << >>
      /\ cache' = Touched(Head(req.keys)) /\ Head(cache').dirty /\ WriteBelow(Head(cache'))
      /\ req' = [req EXCEPT !.below = TRUE] /\ UNCHANGED <<want, durable>>
  BY DEF WriteDirty
<1>1. /\ Sweeping /\ ~Serving /\ SweepShape /\ CacheShape /\ pc = "idle" /\ Held = Kept
      /\ {"kind", "keys", "below"} \subseteq DOMAIN req
      /\ req.kind = "discard" => {"from", "to", "all"} \subseteq DOMAIN req
      /\ Holds(Head(req.keys)) /\ req.keys \in Seq(CacheBlocks)
  BY <1>0, KeyedIs
<1> DEFINE k == Head(req.keys)
           v == Head(Touched(k))
<1>2. /\ cache' \in Seq(CacheEntries) /\ Once(cache') /\ cache' # << >> /\ Ent(cache') = Kept
      /\ v \in Kept /\ v.block = k
  BY <1>0, <1>1, TouchedKeeps
<1>3. CacheShape' /\ Kept' = Kept
  BY <1>2 DEF CacheShape, Kept, Once, Ent
<1>4. /\ req'.kind = req.kind /\ req'.below = TRUE /\ req'.keys = req.keys
      /\ DOMAIN req' = DOMAIN req
      /\ req.kind = "discard" => req'.from = req.from /\ req'.to = req.to /\ req'.all = req.all
  BY <1>0, <1>1
<1>5. v.dirty /\ WriteBelow(v) /\ v \in CacheEntries /\ v = Head(cache')
  BY <1>0, <1>1, <1>2, KeptEntries
<1>6. /\ pc' = "chunk" /\ stack' = stack /\ torn' = torn
      /\ op'.buf = v.data /\ op'.from = FirstIn(v.block) /\ op'.to = EndOf(v.block)
      /\ \A c \in Cells : expect'[c] = IF CacheBlock(c) = v.block THEN expect[c] \cup {v.data[c]}
                                       ELSE expect[c]
      /\ AnyCall
  BY <1>5, WriteBelowIs
<1> HIDE DEF v
<1>7. ASSUME NEW e \in Kept', Swept(e)' PROVE ~e.dirty
  <2>1. Swept(e)
    BY <1>1, <1>4, <1>7 DEF Swept, Sweeping
  <2> QED
    BY <1>1, <1>3, <2>1 DEF SweepShape
<1>8. ReqShape' /\ ~Serving'
  <2>1. req'.below \in BOOLEAN /\ req'.keys # << >>
    BY <1>0, <1>4
  <2>2. /\ \A e \in Kept' : \E f \in Kept : f.block = e.block
        /\ \A f \in Kept : \E e \in Kept' : f.block = e.block
    BY <1>3
  <2>3. /\ req'.keys \in Seq(CacheBlocks)
        /\ \A j \in 1 .. Len(req'.keys) : \E i \in 1 .. Len(req.keys) : req'.keys[j] = req.keys[i]
    BY <1>1, <1>4
  <2> QED
    BY <1>1, <1>3, <1>4, <1>7, <2>1, <2>2, <2>3, SweepKept
<1>9. BackInv' /\ DropInv' /\ QuietInv'
  <2>1. WritingBack' /\ ~Dropping' /\ Victim' = v
    BY <1>0, <1>1, <1>4, <1>5, <1>8 DEF WritingBack, Dropping, Victim, Sweeping
  <2>2. v.block = Head(req'.keys)
    BY <1>2, <1>4
  <2> QED
    BY <1>2, <1>5, <1>6, <2>1, <2>2 DEF BackInv, DropInv, QuietInv, Writing
<1>10. Held' = Kept
  BY <1>3, <1>8 DEF Held
<1>11. ASSUME NEW c \in Cells, Intact(c), Sound(c)
       PROVE  /\ expect'[c] \subseteq durable[c]
              /\ \A V : Sees(Held, expect[c], c, V) /\ MayHold(c, V)
                          => Sees(Held', expect'[c], c, V)
  <2>1. expect'[c] \subseteq durable[c]
    BY <1>1, <1>2, <1>6, <1>11 DEF Sound, Sees
  <2>2. ASSUME NEW V, Sees(Kept, expect[c], c, V) PROVE Sees(Kept, expect'[c], c, V)
    BY <1>2, <1>5, <1>6, <2>2, CoveredByDirty
  <2> QED
    BY <1>1, <1>10, <2>1, <2>2
<1>12. ValuesInv'
  <2>1. ValuesInv /\ ServeShape /\ req.kind # "write"
    BY <1>1 DEF CInv, ReqShape, Serving
  <2> QED
    BY <1>0, <1>4, <1>6, <1>11, <2>1, ValuesKept
<1> QED
  BY <1>3, <1>6, <1>8, <1>9, <1>12 DEF CInv

LEMMA EntryCleaned ==
  ASSUME NEW e \in CacheEntries
  PROVE  LET x == [e EXCEPT !.dirty = FALSE]
         IN  x \in CacheEntries /\ x.block = e.block /\ ~x.dirty /\ x.data = e.data
<1> DEFINE x == [e EXCEPT !.dirty = FALSE]
<1>1. PICK k \in CacheBlocks : e \in [block : {k}, dirty : BOOLEAN, data : [CellsIn(k) -> DataCells]]
  BY DEF CacheEntries
<1>2. x \in [block : {k}, dirty : BOOLEAN, data : [CellsIn(k) -> DataCells]]
  BY <1>1
<1>3. x.block = e.block /\ ~x.dirty /\ x.data = e.data
  BY <1>1
<1> HIDE DEF x
<1>4. x \in CacheEntries
  BY <1>2 DEF CacheEntries
<1> QED
  BY <1>3, <1>4 DEF x

LEMMA DirtyWrittenStep == ASSUME CInv, DirtyWritten PROVE CInv'
<1>0. /\ Keyed /\ req.below /\ req.keys # << >>
      /\ cache' = <<[Head(cache) EXCEPT !.dirty = FALSE]>> \o Tail(cache)
      /\ req' = [req EXCEPT !.keys = Tail(req.keys), !.below = FALSE]
      /\ UNCHANGED <<vars, want, durable>>
  BY DEF DirtyWritten
<1>1. /\ Sweeping /\ ~Serving /\ SweepShape /\ CacheShape /\ pc = "idle" /\ Held = Kept
      /\ {"kind", "keys", "below"} \subseteq DOMAIN req
      /\ req.kind = "discard" => {"from", "to", "all"} \subseteq DOMAIN req
      /\ req.keys \in Seq(CacheBlocks)
  BY <1>0, KeyedIs
<1> DEFINE k == Head(req.keys)
           rest == Tail(req.keys)
           v == Head(cache)
           x == [v EXCEPT !.dirty = FALSE]
<1>2. /\ cache # << >> /\ v.dirty /\ v.block = k
      /\ \A c \in CellsIn(v.block) : expect[c] = {v.data[c]}
  BY <1>0, <1>1 DEF CInv, BackInv, WritingBack, Victim, Writing, Filling
<1>3. v \in Kept /\ v \in CacheEntries
  <2>1. cache \in Seq(CacheEntries)
    BY <1>1 DEF CacheShape
  <2>2. v \in Kept
    BY <1>2, <2>1, TailWithout DEF Kept, Ent
  <2> QED
    BY <1>1, <2>2, KeptEntries
<1>4. x \in CacheEntries /\ x.block = v.block /\ ~x.dirty /\ x.data = v.data
  BY <1>3, EntryCleaned
<1> HIDE DEF x
<1>5. cache' \in Seq(CacheEntries) /\ Once(cache') /\ Ent(cache') = (Kept \ {v}) \cup {x}
  <2>1. cache \in Seq(CacheEntries) /\ Once(cache) /\ cache' = <<x>> \o Tail(cache)
    BY <1>0, <1>1 DEF CacheShape, x
  <2> QED
    BY <1>2, <1>4, <2>1, FirstReplaced DEF Kept
<1> HIDE DEF v
<1>6. CacheShape' /\ Kept' = (Kept \ {v}) \cup {x}
  BY <1>5 DEF CacheShape, Kept, Once, Ent
<1>7. /\ req'.kind = req.kind /\ req'.below = FALSE /\ req'.keys = rest
      /\ DOMAIN req' = DOMAIN req
      /\ req.kind = "discard" => req'.from = req.from /\ req'.to = req.to /\ req'.all = req.all
  BY <1>0, <1>1
<1>8. /\ rest \in Seq(CacheBlocks)
      /\ \A j \in 1 .. Len(rest) : \E i \in 1 .. Len(req.keys) : rest[j] = req.keys[i]
      /\ \A i \in 1 .. Len(req.keys) :
           req.keys[i] = k \/ \E j \in 1 .. Len(rest) : rest[j] = req.keys[i]
  BY <1>0, <1>1, KeysAdvance
<1> HIDE DEF k, rest
<1>9. \A e \in Kept : e.block = k => e = v
  BY <1>1, <1>2, <1>3, KeptEntries
<1>10. ASSUME NEW e \in Kept', Swept(e)' PROVE ~e.dirty
  <2>1. CASE e = x
    BY <1>4, <2>1
  <2>2. CASE e # x
    <3>1. e \in Kept /\ e.block # k
      BY <1>6, <1>9, <2>2
    <3>2. Swept(e)
      BY <1>1, <1>7, <1>8, <1>10, <3>1 DEF Swept, Sweeping
    <3> QED
      BY <1>1, <3>1, <3>2 DEF SweepShape
  <2> QED
    BY <2>1, <2>2
<1>11. ReqShape' /\ ~Serving'
  <2>1. /\ \A e \in Kept' : \E f \in Kept : f.block = e.block
        /\ \A f \in Kept : \E e \in Kept' : f.block = e.block
    BY <1>3, <1>4, <1>6
  <2>2. /\ req'.keys \in Seq(CacheBlocks)
        /\ \A j \in 1 .. Len(req'.keys) : \E i \in 1 .. Len(req.keys) : req'.keys[j] = req.keys[i]
    BY <1>7, <1>8
  <2>3. req'.below \in BOOLEAN /\ ~req'.below
    BY <1>7
  <2> QED
    BY <1>1, <1>6, <1>7, <1>10, <2>1, <2>2, <2>3, SweepKept
<1>12. pc' = "idle" /\ expect' = expect /\ torn' = torn /\ stack' = stack
  BY <1>0, <1>1 DEF vars
<1>13. BackInv' /\ DropInv' /\ QuietInv'
  BY <1>7, <1>11, <1>12 DEF BackInv, DropInv, QuietInv, WritingBack, Dropping
<1>14. Held' = (Kept \ {v}) \cup {x}
  BY <1>6, <1>11 DEF Held
<1>15. ASSUME NEW c \in Cells, NEW V, Sees(Kept, expect[c], c, V)
       PROVE  Sees(Held', expect[c], c, V)
  <2>1. CASE CacheBlock(c) = v.block
    <3>1. c \in CellsIn(v.block)
      BY <2>1 DEF CellsIn
    <3>2. v.data[c] \in V /\ expect[c] \subseteq V
      BY <1>2, <1>3, <1>15, <2>1, <3>1 DEF Sees
    <3> QED
      BY <1>4, <1>14, <1>15, <3>2 DEF Sees
  <2>2. CASE CacheBlock(c) # v.block
    BY <1>4, <1>14, <1>15, <2>2 DEF Sees
  <2> QED
    BY <2>1, <2>2
<1>16. ValuesInv'
  <2>1. ValuesInv /\ ServeShape /\ req.kind # "write"
    BY <1>1 DEF CInv, ReqShape, Serving
  <2>2. \A c \in Cells : Intact(c) /\ Sound(c) =>
           /\ expect'[c] \subseteq durable[c]
           /\ \A V : Sees(Held, expect[c], c, V) /\ MayHold(c, V) => Sees(Held', expect'[c], c, V)
    BY <1>1, <1>12, <1>15 DEF Sound
  <2> QED
    BY <1>0, <1>7, <1>12, <2>1, <2>2, ValuesKept
<1> QED
  BY <1>6, <1>11, <1>13, <1>16 DEF CInv

LEMMA ReturnFlushStep == ASSUME CInv, ReturnFlush PROVE CInv'
<1>0. /\ Keyed /\ req.kind = "flush" /\ req.keys = << >> /\ durable' = want /\ req' = NoReq
      /\ UNCHANGED <<vars, cache, want>>
  BY DEF ReturnFlush, Return
<1>1. Sweeping /\ SweepShape /\ CacheShape /\ pc = "idle" /\ Held = Kept
  BY <1>0, KeyedIs
<1>2. CacheShape' /\ Kept' = Kept /\ pc' = "idle" /\ expect' = expect /\ torn' = torn
  BY <1>0, <1>1 DEF CacheShape, Once, Kept, Ent, vars
<1>3. \A e \in Kept : ~e.dirty
  BY <1>0, <1>1 DEF SweepShape, Swept
<1>4. ASSUME NEW c \in Cells, Intact(c)'
      PROVE  /\ want'[c] \subseteq durable'[c] /\ expect'[c] \subseteq durable'[c]
             /\ Sees(Kept', expect'[c], c, want'[c])
  <2>1. Sound(c)
    BY <1>2, <1>4 DEF Intact, CInv, ValuesInv
  <2>2. expect[c] \subseteq want[c]
    BY <1>1, <1>3, <2>1 DEF Sound, Sees
  <2> QED
    BY <1>0, <1>1, <1>2, <2>1, <2>2 DEF Sound
<1> QED
  BY <1>0, <1>2, <1>4, Returned


LEMMA DiscardBelowStep == ASSUME CInv, DiscardBelow PROVE CInv' /\ AnyCall
<1>0. /\ Keyed /\ req.kind = "discard" /\ req.keys = << >> /\ ~req.below
      /\ BeginDiscard(req.from, req.to) /\ req' = [req EXCEPT !.below = TRUE]
      /\ UNCHANGED <<cache, want, durable>>
  BY DEF DiscardBelow
<1>1. /\ Sweeping /\ ~Serving /\ SweepShape /\ CacheShape /\ pc = "idle" /\ Held = Kept
      /\ {"kind", "keys", "below"} \subseteq DOMAIN req
      /\ req.kind = "discard" => {"from", "to", "all"} \subseteq DOMAIN req
      /\ req.keys \in Seq(CacheBlocks)
  BY <1>0, KeyedIs
<1>2. req.from \in Nat /\ req.to \in Nat /\ req.from < req.to /\ req.to <= DiskEnd
  BY <1>0, <1>1 DEF SweepShape
<1> DEFINE gone == Discarded(req.from, req.to)
<1>3. /\ pc' = "free" /\ stack' = stack /\ torn' = torn /\ op'.cells = gone
      /\ \A c \in Cells : expect'[c] = IF c \in gone THEN expect[c] \cup {Unwritten} ELSE expect[c]
  <2> DEFINE u == UNION {CellsOf(b) : b \in (req.from + BlockCells - 1) \div BlockCells
                                            .. (req.to \div BlockCells) - 1}
  <2>1. u = gone
    BY <1>2, DiscardedBelow
  <2>2. /\ pc' = "free" /\ stack' = stack /\ torn' = torn /\ op'.cells = u
        /\ expect' = [c \in Cells |-> IF c \in u THEN expect[c] \cup {Unwritten} ELSE expect[c]]
    BY <1>0 DEF BeginDiscard
  <2> HIDE DEF u
  <2> QED
    BY <2>1, <2>2
<1>4. AnyCall
  <2>1. req.from \in 0 .. NumBlocks * BlockCells /\ req.to \in 0 .. NumBlocks * BlockCells
    BY <1>2, DiskSize DEF DiskEnd
  <2> QED
    BY <1>0, <2>1 DEF AnyCall
<1>5. /\ req'.kind = req.kind /\ req'.below = TRUE /\ req'.keys = req.keys
      /\ DOMAIN req' = DOMAIN req
      /\ req'.from = req.from /\ req'.to = req.to /\ req'.all = req.all
  BY <1>0, <1>1
<1>6. CacheShape' /\ Kept' = Kept
  BY <1>0, <1>1 DEF CacheShape, Kept, Once, Ent
<1>7. ReqShape' /\ ~Serving'
  <2>1. /\ \A e \in Kept' : \E f \in Kept : f.block = e.block
        /\ \A f \in Kept : \E e \in Kept' : f.block = e.block
    BY <1>6
  <2>2. /\ req'.keys \in Seq(CacheBlocks) /\ req'.below \in BOOLEAN
        /\ \A j \in 1 .. Len(req'.keys) : \E i \in 1 .. Len(req.keys) : req'.keys[j] = req.keys[i]
    BY <1>1, <1>5
  <2>3. ASSUME NEW e \in Kept', Swept(e)' PROVE ~e.dirty
    <3>1. Swept(e)
      BY <1>5, <2>3 DEF Swept
    <3> QED
      BY <1>1, <1>6, <3>1 DEF SweepShape
  <2> QED
    BY <1>0, <1>1, <1>5, <1>6, <2>1, <2>2, <2>3, SweepKept
<1>8. BackInv' /\ DropInv' /\ QuietInv'
  <2>1. ~WritingBack' /\ Dropping'
    BY <1>0, <1>5, <1>7 DEF WritingBack, Dropping
  <2> QED
    BY <1>3, <1>5, <2>1 DEF BackInv, DropInv, QuietInv
<1>9. Held' = Kept
  BY <1>6, <1>7 DEF Held
<1> HIDE DEF gone
<1>10. ASSUME NEW c \in Cells, Intact(c), Sound(c)
       PROVE  /\ expect'[c] \subseteq durable[c]
              /\ \A V : Sees(Held, expect[c], c, V) /\ MayHold(c, V)
                          => Sees(Held', expect'[c], c, V)
  <2>1. CASE c \in gone
    <3>1. expect'[c] = expect[c] \cup {Unwritten} /\ Unwritten \in durable[c]
      BY <1>0, <1>3, <1>10, <2>1 DEF Sound, gone
    <3>2. ASSUME NEW V, Sees(Kept, expect[c], c, V), MayHold(c, V)
          PROVE  Sees(Kept, expect'[c], c, V)
      <4>1. Unwritten \in V
        BY <1>0, <2>1, <3>2 DEF MayHold, gone
      <4> QED
        BY <3>1, <3>2, <4>1 DEF Sees
    <3> QED
      BY <1>1, <1>9, <1>10, <3>1, <3>2 DEF Sound
  <2>2. CASE c \notin gone
    BY <1>1, <1>3, <1>9, <1>10, <2>2 DEF Sound
  <2> QED
    BY <2>1, <2>2
<1>11. ValuesInv'
  <2>1. ValuesInv /\ ServeShape /\ req.kind # "write"
    BY <1>1 DEF CInv, ReqShape, Serving
  <2> QED
    BY <1>0, <1>3, <1>5, <1>10, <2>1, ValuesKept
<1> QED
  BY <1>4, <1>6, <1>7, <1>8, <1>11 DEF CInv

LEMMA ReturnDiscardStep == ASSUME CInv, ReturnDiscard PROVE CInv'
<1>0. /\ Keyed /\ req.kind = "discard" /\ req.keys = << >>
      /\ req.below \/ Discarded(req.from, req.to) = {}
      /\ \E nth \in InOrder(Staying) : cache' = [j \in DOMAIN nth |-> cache[nth[j]]]
      /\ want' = [c \in Cells |-> IF c \in Discarded(req.from, req.to) THEN {Unwritten} ELSE want[c]]
      /\ req' = NoReq /\ UNCHANGED <<vars, durable>>
  BY DEF ReturnDiscard, Return
<1>1. Sweeping /\ SweepShape /\ CacheShape /\ pc = "idle" /\ Held = Kept
  BY <1>0, KeyedIs
<1>2. cache \in Seq(CacheEntries) /\ Once(cache) /\ DOMAIN cache = 1 .. Len(cache)
  BY <1>1 DEF CacheShape
<1>3. Staying \subseteq 1 .. Len(cache)
  BY <1>2 DEF Staying
<1>4. cache' \in Seq(CacheEntries) /\ Once(cache') /\ Ent(cache') = {cache[p] : p \in Staying}
  <2>1. PICK nth \in InOrder(Staying) : cache' = [j \in DOMAIN nth |-> cache[nth[j]]]
    BY <1>0
  <2> QED
    BY <1>2, <1>3, <2>1, Selected
<1>5. CacheShape' /\ Kept' = {e \in Kept : e.block \notin req.all}
  <2>1. {cache[p] : p \in Staying} = {e \in Kept : e.block \notin req.all}
    BY <1>2 DEF Staying, Kept, Ent
  <2> QED
    BY <1>4, <2>1 DEF CacheShape, Once, Kept, Ent
<1>6. pc' = "idle" /\ expect' = expect /\ torn' = torn
  BY <1>0, <1>1 DEF vars
<1>7. \A e \in Kept : e.block \in req.all => ~e.dirty
  BY <1>0, <1>1 DEF SweepShape, Swept
<1>8. \A e \in Kept : e.dirty => e \in Kept'
  BY <1>5, <1>7
<1>9. ASSUME NEW c \in Cells, Intact(c)'
      PROVE  /\ want'[c] \subseteq durable'[c] /\ expect'[c] \subseteq durable'[c]
             /\ Sees(Kept', expect'[c], c, want'[c])
  <2>1. Sound(c)
    BY <1>6, <1>9 DEF Intact, CInv, ValuesInv
  <2>2. CASE c \in Discarded(req.from, req.to)
    <3>1. req.from \in Nat /\ req.to \in Nat /\ req.from < req.to
          /\ \A e \in Kept : e.block \in CacheBlock(req.from) .. CacheBlock(req.to - 1)
                               => e.block \in req.all
      BY <1>0, <1>1 DEF SweepShape
    <3>2. CacheBlock(c) \in CacheBlock(req.from) .. CacheBlock(req.to - 1)
      BY <2>2, <3>1, DiscardedInRange
    <3>3. \A e \in Kept' : e.block # CacheBlock(c)
      BY <1>5, <3>1, <3>2
    <3>4. expect[c] = {Unwritten}
      BY <1>0, <1>1, <2>2 DEF CInv, DropInv, Dropping
    <3>5. want'[c] = {Unwritten} /\ Unwritten \in want[c]
      BY <1>0, <2>1, <2>2 DEF Sound
    <3> QED
      BY <1>0, <1>6, <2>1, <3>3, <3>4, <3>5 DEF Sound, Sees
  <2>3. CASE c \notin Discarded(req.from, req.to)
    <3>1. want'[c] = want[c]
      BY <1>0, <2>3
    <3>2. Sees(Kept', expect[c], c, want[c])
      BY <1>1, <1>5, <1>8, <2>1 DEF Sound, Sees
    <3> QED
      BY <1>0, <1>6, <2>1, <3>1, <3>2 DEF Sound
  <2> QED
    BY <2>2, <2>3
<1> QED
  BY <1>0, <1>5, <1>6, <1>9, Returned


-----------------------------------------------------------------------------
(* New calls, failures, and the steps of the disk below.                   *)

\* A call begins; what it may write is added to what may be read and kept.
LEMMA Begun ==
  ASSUME CInv, req = NoReq, pc = "idle", UNCHANGED <<cache, pc, expect, torn, stack>>,
         ReqShape', ~WritingBack', ~Dropping', Serving' => req'.entry = NoReq,
         \A c \in Cells : /\ want[c] \subseteq want'[c] /\ durable[c] \subseteq durable'[c]
                          /\ want[c] \subseteq durable[c] => want'[c] \subseteq durable'[c],
         req'.kind = "write" =>
           /\ req'.at = req'.from /\ req'.from \in Nat
           /\ \A c \in req'.from .. req'.to - 1 : req'.v \in want'[c],
         req'.kind = "discard" => \A c \in Discarded(req'.from, req'.to) : Unwritten \in want'[c]
  PROVE  CInv'
<1>1. CacheShape' /\ Kept' = Kept
  BY DEF CInv, CacheShape, Once, Kept, Ent
<1>2. ~Serving
  BY DEF NoReq, Serving
<1>3. Held = Kept /\ Held' = Kept
  BY <1>1, <1>2 DEF Held
<1>4. BackInv' /\ DropInv' /\ QuietInv'
  BY DEF BackInv, DropInv, QuietInv
<1>5. ASSUME NEW c \in Cells, Intact(c)' PROVE Sound(c)'
  <2>1. Sound(c)
    BY <1>5 DEF Intact, CInv, ValuesInv
  <2>2. Sees(Kept, expect[c], c, want'[c])
    BY <1>3, <2>1 DEF Sound, Sees
  <2>3. Sees(Held, expect[c], c, want[c])'
    BY <1>3, <2>2 DEF Sees
  <2>4. Unwritten' = Unwritten
    BY DEF Unwritten
  <2>5. want'[c] \subseteq durable'[c] /\ expect'[c] \subseteq durable'[c]
    BY <2>1 DEF Sound
  <2>6. ~(req'.kind = "write" /\ c \in req'.from .. req'.at - 1)
    OBVIOUS
  <2> QED
    BY <2>3, <2>4, <2>5, <2>6 DEF Sound
<1>6. ValuesInv'
  BY <1>5 DEF ValuesInv
<1> QED
  BY <1>1, <1>4, <1>6 DEF CInv

LEMMA RequestStep == ASSUME CInv, Request PROVE CInv'
<1>0. req = NoReq /\ pc = "idle" /\ UNCHANGED <<cache, pc, expect, torn, stack>>
  BY DEF Request
<1>1. CacheShape /\ cache \in Seq(CacheEntries) /\ DOMAIN cache = 1 .. Len(cache)
  BY DEF CInv, CacheShape
<1>2. CacheShape' /\ Kept' = Kept
  BY <1>0, <1>1 DEF CacheShape, Once, Kept, Ent
<1>3. ASSUME NEW i \in 1 .. Len(cache) PROVE cache[i].block \in CacheBlocks /\ cache[i] \in Kept
  BY <1>1, EntryType DEF Kept, Ent
<1>4. CASE BeginFlush
  <2> DEFINE keys == [i \in DOMAIN cache |-> cache[i].block]
  <2>1. req' = [kind |-> "flush", keys |-> keys, below |-> FALSE] /\ UNCHANGED <<want, durable>>
    BY <1>4 DEF BeginFlush
  <2>2. keys \in Seq(CacheBlocks) /\ Len(keys) = Len(cache)
        /\ \A i \in 1 .. Len(cache) : keys[i] = cache[i].block
    BY <1>1, <1>3
  <2> HIDE DEF keys
  <2>3. /\ DOMAIN req' = {"kind", "keys", "below"} /\ req'.kind = "flush"
        /\ req'.keys = keys /\ req'.below = FALSE
    BY <2>1
  <2>4. Sweeping' /\ ~Serving' /\ ~WritingBack' /\ ~Dropping'
    BY <2>3 DEF Sweeping, Serving, WritingBack, Dropping
  <2>5. ASSUME NEW e \in Kept' PROVE ~Swept(e)'
    <3>1. PICK i \in 1 .. Len(cache) : e = cache[i]
      BY <1>2 DEF Kept, Ent
    <3> QED
      BY <2>2, <2>3, <3>1 DEF Swept
  <2>6. \A j \in 1 .. Len(req'.keys) : Holds(req.keys[j])'
    BY <1>0, <1>1, <2>2, <2>3 DEF Holds
  <2>7. SweepShape'
    BY <2>2, <2>3, <2>5, <2>6 DEF SweepShape
  <2>8. ReqShape'
    BY <2>4, <2>7 DEF ReqShape, ServeShape
  <2> QED
    BY <1>0, <2>1, <2>3, <2>4, <2>8, Begun
<1>5. ASSUME NEW from \in 0 .. NumBlocks * BlockCells, NEW to \in 0 .. NumBlocks * BlockCells,
             from < to,
             \/ BeginRead(from, to)
             \/ \E v \in Values : BeginCachedWrite(from, to, v)
             \/ BeginCachedDiscard(from, to)
      PROVE  CInv'
  <2>0. from \in Nat /\ to \in Nat /\ from <= to /\ to <= DiskEnd
    BY <1>5, DiskSize DEF DiskEnd
  <2>1. CASE BeginRead(from, to)
    <3>1. /\ req' = [kind |-> "read", at |-> from, to |-> to, entry |-> NoReq]
          /\ UNCHANGED <<want, durable>>
      BY <2>1 DEF BeginRead
    <3>2. /\ DOMAIN req' = {"kind", "at", "to", "entry"} /\ req'.kind = "read"
          /\ req'.at = from /\ req'.to = to /\ req'.entry = NoReq
      BY <3>1
    <3>3. Serving' /\ ~Sweeping' /\ ~WritingBack' /\ ~Dropping'
      BY <3>2 DEF Sweeping, Serving, WritingBack, Dropping
    <3>4. ServeShape'
      BY <2>0, <3>2 DEF ServeShape, EntryShape
    <3>5. ReqShape'
      BY <3>3, <3>4 DEF ReqShape, SweepShape
    <3> QED
      BY <1>0, <3>1, <3>2, <3>3, <3>5, Begun
  <2>2. ASSUME NEW v \in Values, BeginCachedWrite(from, to, v) PROVE CInv'
    <3>1. /\ req' = [kind |-> "write", at |-> from, to |-> to, v |-> v, from |-> from,
                     entry |-> NoReq]
          /\ want' = MayBecome(want, from .. to - 1, v)
          /\ durable' = MayBecome(durable, from .. to - 1, v)
      BY <2>2 DEF BeginCachedWrite
    <3>2. /\ DOMAIN req' = {"kind", "at", "to", "v", "from", "entry"} /\ req'.kind = "write"
          /\ req'.at = from /\ req'.to = to /\ req'.entry = NoReq
          /\ req'.v = v /\ req'.from = from
      BY <3>1
    <3>3. Serving' /\ ~Sweeping' /\ ~WritingBack' /\ ~Dropping'
      BY <3>2 DEF Sweeping, Serving, WritingBack, Dropping
    <3>4. ServeShape'
      BY <2>0, <3>2 DEF ServeShape, EntryShape
    <3>5. ReqShape'
      BY <3>3, <3>4 DEF ReqShape, SweepShape
    <3>6. \A c \in Cells : /\ want[c] \subseteq want'[c] /\ durable[c] \subseteq durable'[c]
                           /\ want[c] \subseteq durable[c] => want'[c] \subseteq durable'[c]
      BY <3>1 DEF MayBecome
    <3>7. \A c \in from .. to - 1 : v \in want'[c]
      <4>1. \A c \in from .. to - 1 : c \in Cells
        BY <2>0, DiskSize DEF Cells, DiskEnd
      <4> QED
        BY <3>1, <4>1 DEF MayBecome
    <3> QED
      BY <1>0, <2>0, <3>2, <3>3, <3>5, <3>6, <3>7, Begun
  <2>3. CASE BeginCachedDiscard(from, to)
    <3> DEFINE P == Overlapping(from, to)
    <3>1. PICK nth \in InOrder(P) :
            req' = [kind |-> "discard", from |-> from, to |-> to,
                    keys |-> [j \in DOMAIN nth |-> cache[nth[j]].block],
                    all |-> Range([j \in DOMAIN nth |-> cache[nth[j]].block]), below |-> FALSE]
      BY <2>3 DEF BeginCachedDiscard
    <3>2. /\ want' = MayBecome(want, Discarded(from, to), Unwritten)
          /\ durable' = MayBecome(durable, Discarded(from, to), Unwritten)
      BY <2>3 DEF BeginCachedDiscard
    <3>3. IsFiniteSet(P) /\ \A p \in P : p \in Nat /\ p \in 1 .. Len(cache)
      <4>1. Len(cache) \in Nat /\ P \subseteq 1 .. Len(cache)
        BY <1>1 DEF Overlapping
      <4> HIDE DEF P
      <4>2. IsFiniteSet(P) /\ \A p \in P : p \in Nat
        BY <4>1, SomePositions, Zenon
      <4> QED
        BY <4>1, <4>2
    <3> DEFINE N == Cardinality(P)
    <3>4. /\ N \in Nat /\ nth \in [1 .. N -> P]
          /\ \A p \in P : \E j \in 1 .. N : nth[j] = p
      BY <3>3, InOrderCovers
    <3> DEFINE keys == [j \in DOMAIN nth |-> cache[nth[j]].block]
    <3> HIDE DEF N
    <3>5. keys = [j \in 1 .. N |-> cache[nth[j]].block]
          /\ \A j \in 1 .. N : nth[j] \in P /\ nth[j] \in 1 .. Len(cache)
      BY <3>3, <3>4
    <3>6. keys \in Seq(CacheBlocks) /\ Len(keys) = N
          /\ \A j \in 1 .. N : keys[j] = cache[nth[j]].block
      BY <1>3, <3>4, <3>5
    <3>7. \A j \in 1 .. N : keys[j] \in Range(keys)
      BY <3>4, <3>6 DEF Range
    <3>8. \A k \in Range(keys) : \E j \in 1 .. N : keys[j] = k
      BY <3>4, <3>6 DEF Range
    <3>9. /\ DOMAIN req' = {"kind", "from", "to", "keys", "all", "below"} /\ req'.kind = "discard"
          /\ req'.from = from /\ req'.to = to /\ req'.keys = keys /\ req'.all = Range(keys)
          /\ req'.below = FALSE
      BY <3>1
    <3> HIDE DEF keys
    <3>10. Sweeping' /\ ~Serving' /\ ~WritingBack' /\ ~Dropping'
      BY <3>9 DEF Sweeping, Serving, WritingBack, Dropping
    <3>11. \A e \in Kept' : ~Swept(e)'
      BY <3>6, <3>8, <3>9 DEF Swept
    <3>12. ASSUME NEW e \in Kept', e.block \in CacheBlock(from) .. CacheBlock(to - 1)
           PROVE  e.block \in Range(keys)
      <4>1. PICK i \in 1 .. Len(cache) : e = cache[i]
        BY <1>2 DEF Kept, Ent
      <4>2. i \in P
        BY <1>1, <3>12, <4>1 DEF Overlapping
      <4>3. PICK j \in 1 .. N : nth[j] = i
        BY <3>4, <4>2
      <4> QED
        BY <3>6, <3>7, <4>1, <4>3
    <3>13. ASSUME NEW j \in 1 .. Len(req'.keys) PROVE Holds(req.keys[j])'
      <4>1. j \in 1 .. N /\ nth[j] \in DOMAIN cache' /\ cache'[nth[j]].block = req'.keys[j]
        BY <1>0, <1>1, <3>5, <3>6, <3>9
      <4> QED
        BY <4>1 DEF Holds
    <3>14. SweepShape'
      BY <1>5, <2>0, <3>6, <3>9, <3>11, <3>12, <3>13 DEF SweepShape
    <3>15. ReqShape'
      BY <3>10, <3>14 DEF ReqShape, ServeShape
    <3>16. \A c \in Cells : /\ want[c] \subseteq want'[c] /\ durable[c] \subseteq durable'[c]
                            /\ want[c] \subseteq durable[c] => want'[c] \subseteq durable'[c]
      BY <3>2 DEF MayBecome
    <3>17. \A c \in Discarded(from, to) : Unwritten \in want'[c]
      BY <3>2 DEF MayBecome, Discarded
    <3> QED
      BY <1>0, <3>9, <3>10, <3>15, <3>16, <3>17, Begun
  <2> QED
    BY <1>5, <2>1, <2>2, <2>3
<1> QED
  BY <1>4, <1>5 DEF Request


LEMMA CachedFaultStep == ASSUME CInv, CachedFault PROVE CInv'
<1>0. /\ cached /\ Fault /\ cache' = (IF Evicting THEN VictimKept ELSE cache)
      /\ req' = NoReq /\ UNCHANGED <<want, durable>>
  BY DEF CachedFault, Return
<1>1. pc' = "idle" /\ expect' = expect /\ torn \subseteq torn'
  BY <1>0 DEF Fault, CutShort
<1>2. CacheShape' /\ Kept' = Kept /\ Kept \subseteq Held /\ \A e \in Held : e.dirty => e \in Kept
  <2>1. CASE Evicting
    <3>1. /\ CacheShape /\ cache # << >> /\ Last(cache) \in Kept /\ ~req.entry.dirty
          /\ Held = Kept \cup {req.entry}
      BY <2>1, EvictingIs
    <3>2. Last(cache) \in CacheEntries /\ cache' = <<Last(cache)>> \o Front(cache)
      BY <1>0, <2>1, <3>1, KeptEntries DEF VictimKept
    <3> DEFINE v == Last(cache)
    <3>3. cache' \in Seq(CacheEntries) /\ Once(cache') /\ Ent(cache') = (Kept \ {v}) \cup {v}
      BY <3>1, <3>2, LastReplaced
    <3>4. Ent(cache') = Kept
      BY <3>1, <3>3
    <3>5. CacheShape' /\ Kept' = Ent(cache')
      BY <3>3 DEF CacheShape, Once, Kept, Ent
    <3> QED
      BY <3>1, <3>4, <3>5
  <2>2. CASE ~Evicting
    <3>1. Held = Kept
      BY <1>0, <2>2 DEF Held, Evicting, Serving
    <3> QED
      BY <1>0, <2>2, <3>1 DEF CInv, CacheShape, Once, Kept, Ent
  <2> QED
    BY <2>1, <2>2
<1>3. ASSUME NEW c \in Cells, Intact(c)'
      PROVE  /\ want'[c] \subseteq durable'[c] /\ expect'[c] \subseteq durable'[c]
             /\ Sees(Kept', expect'[c], c, want'[c])
  <2>1. Sound(c)
    BY <1>1, <1>3 DEF Intact, CInv, ValuesInv
  <2>2. Sees(Kept, expect[c], c, want[c])
    BY <1>2, <2>1 DEF Sound, Sees
  <2> QED
    BY <1>0, <1>1, <1>2, <2>1, <2>2 DEF Sound
<1> QED
  BY <1>0, <1>1, <1>2, <1>3, Returned

LEMMA OtherFaultStep == ASSUME CInv, FetchFault \/ FlushFault PROVE CInv'
<1>0. /\ Chunking \/ Keyed
      /\ req' = NoReq /\ UNCHANGED <<cache, want, durable, pc, expect, torn>>
  BY DEF FetchFault, FlushFault, Return
<1>1. CacheShape /\ pc = "idle" /\ Held = Kept
  BY <1>0, ChunkingIs, KeyedIs
<1>2. CacheShape' /\ Kept' = Kept /\ pc' = "idle"
  BY <1>0, <1>1 DEF CacheShape, Once, Kept, Ent
<1>3. ASSUME NEW c \in Cells, Intact(c)'
      PROVE  /\ want'[c] \subseteq durable'[c] /\ expect'[c] \subseteq durable'[c]
             /\ Sees(Kept', expect'[c], c, want'[c])
  <2>1. Sound(c)
    BY <1>0, <1>3 DEF Intact, CInv, ValuesInv
  <2> QED
    BY <1>0, <1>1, <1>2, <2>1 DEF Sound
<1> QED
  BY <1>0, <1>2, <1>3, Returned

LEMMA CachedCrashStep == ASSUME CInv, CachedCrash PROVE CInv'
<1>0. /\ Crash /\ cache' = << >> /\ req' = NoReq /\ want' = durable /\ durable' = durable
  BY DEF CachedCrash, Return
<1>1. pc' = "closed" /\ expect' = expect /\ torn \subseteq torn'
  BY <1>0 DEF Crash, CutShort
<1>2. CacheShape' /\ Kept' = {}
  BY <1>0 DEF CacheShape, Once, Kept, Ent
<1>3. ASSUME NEW c \in Cells, Intact(c)'
      PROVE  /\ want'[c] \subseteq durable'[c] /\ expect'[c] \subseteq durable'[c]
             /\ Sees(Kept', expect'[c], c, want'[c])
  <2>1. Sound(c)
    BY <1>1, <1>3 DEF Intact, CInv, ValuesInv
  <2> QED
    BY <1>0, <1>1, <1>2, <2>1 DEF Sound, Sees
<1> QED
  BY <1>0, <1>1, <1>2, <1>3, Returned

\* A step of a call below: it goes on, or it returns.
LEMMA StepBelow ==
  ASSUME TInv, Step
  PROVE  /\ stack' = stack /\ torn' = torn
         /\ \/ /\ Writing /\ Writing' /\ expect' = expect
               /\ op'.buf = op.buf /\ op'.from = op.from /\ op'.to = op.to
            \/ /\ Writing /\ pc' = "idle"
               /\ expect' = [c \in Cells |-> IF c \in op.from .. op.to - 1 THEN {op.buf[c]}
                                             ELSE expect[c]]
            \/ /\ pc \in {"free", "truncate"} /\ pc' \in {"free", "truncate"}
               /\ expect' = expect /\ op'.cells = op.cells
            \/ /\ pc \in {"free", "truncate"} /\ pc' = "idle"
               /\ expect' = [c \in Cells |-> IF c \in op.cells THEN {Unwritten} ELSE expect[c]]
<1> USE DEF Writing, Filling
<1>0. /\ Writing => DOMAIN op = {"kind", "at", "to", "buf", "from", "fresh", "todo"}
      /\ pc \in {"free", "truncate"} => DOMAIN op = {"kind", "at", "to", "cells"}
  BY DEF TInv, OpShape, WriteShape, DiscardShape
<1>1. CASE SkipZeros
  <2>1. Writing /\ op' = Advanced /\ pc' = pc /\ UNCHANGED <<stack, expect, torn>>
    BY <1>1 DEF SkipZeros, histVars
  <2> QED
    BY <1>0, <2>1 DEF Advanced
<1>2. CASE UseExisting
  <2>1. Writing /\ op' = [op EXCEPT !.todo = <<"data">>] /\ pc' = "regions"
        /\ UNCHANGED <<stack, expect, torn>>
    BY <1>2 DEF UseExisting, histVars
  <2> QED
    BY <1>0, <2>1
<1>3. CASE Allocate
  <2>1. Writing /\ op' = [op EXCEPT !.fresh = TRUE, !.todo = FillOrder]
        /\ UNCHANGED <<stack, expect, torn>> /\ pc' \in {"header", "entry"}
    BY <1>3 DEF Allocate, histVars
  <2> QED
    BY <1>0, <2>1
<1>4. CASE PersistHeader \/ PersistEntry \/ Grow
  BY <1>4 DEF PersistHeader, PersistEntry, Grow, histVars
<1>5. CASE WriteRegion
  <2>1. Writing /\ UNCHANGED <<stack, expect, torn>> /\ pc' \in {"regions", "chunk"}
        /\ op' = (IF Len(op.todo) > 1 THEN [op EXCEPT !.todo = Tail(op.todo)]
                  ELSE [Advanced EXCEPT !.todo = << >>])
    BY <1>5 DEF WriteRegion, histVars
  <2> QED
    BY <1>0, <2>1 DEF Advanced
<1>6. CASE FinishWrite
  BY <1>6 DEF FinishWrite
<1>7. CASE FreeBlock
  <2>1. pc = "free" /\ pc' = pc /\ op' = [op EXCEPT !.at = op.at + 1]
        /\ UNCHANGED <<stack, expect, torn>>
    BY <1>7 DEF FreeBlock, histVars
  <2> QED
    BY <1>0, <2>1
<1>8. CASE NothingToTrim \/ Truncate
  BY <1>8 DEF NothingToTrim, Truncate, FinishDiscard
<1>9. CASE TrimHeader
  BY <1>9 DEF TrimHeader, Trim, histVars
<1> QED
  BY <1>1, <1>2, <1>3, <1>4, <1>5, <1>6, <1>7, <1>8, <1>9 DEF Step


LEMMA DiskStep == ASSUME TInv, CInv, Step, UNCHANGED cacheVars PROVE CInv'
<1>0. UNCHANGED <<cache, req, want, durable>>
  BY DEF cacheVars
<1>1. /\ CacheShape' /\ ReqShape' /\ Kept' = Kept /\ Held' = Held /\ Victim' = Victim
      /\ (WritingBack' <=> WritingBack) /\ (Dropping' <=> Dropping) /\ (Sweeping' <=> Sweeping)
  BY <1>0 DEF CInv, CacheShape, Once, ReqShape, ServeShape, SweepShape, EntryShape, Swept,
              Serving, Sweeping, Holds, Key, Kept, Ent, Held, Victim, WritingBack, Dropping
<1>2. stack' = stack /\ torn' = torn
  BY StepBelow
<1>3. CacheShape /\ ReqShape /\ BackInv /\ DropInv /\ QuietInv /\ ValuesInv /\ ServeShape
  BY DEF CInv, ReqShape
<1>4. ~(WritingBack /\ Dropping)
  BY DEF WritingBack, Dropping, Serving
<1>5. ASSUME NEW c \in Cells, Intact(c), Sound(c), expect'[c] = expect[c]
      PROVE  /\ expect'[c] \subseteq durable[c]
             /\ \A V : Sees(Held, expect[c], c, V) /\ MayHold(c, V)
                         => Sees(Held', expect'[c], c, V)
  BY <1>1, <1>5 DEF Sound
<1>6. ASSUME \A c \in Cells : Intact(c) /\ Sound(c) =>
               /\ expect'[c] \subseteq durable[c]
               /\ \A V : Sees(Held, expect[c], c, V) /\ MayHold(c, V)
                           => Sees(Held', expect'[c], c, V)
      PROVE  ValuesInv'
  BY <1>0, <1>2, <1>3, <1>6, ValuesKept
<1>7. CASE Writing
  <2>1. WritingBack /\ ~Dropping /\ pc \notin {"idle", "free", "truncate"}
    BY <1>3, <1>7 DEF Writing, Filling, QuietInv, DropInv
  <2>2. /\ cache # << >> /\ Victim.dirty /\ (Sweeping => Victim.block = Head(req.keys))
        /\ op.buf = Victim.data
        /\ op.from = FirstIn(Victim.block) /\ op.to = EndOf(Victim.block)
    BY <1>3, <2>1 DEF BackInv
  <2>3. DropInv' /\ QuietInv'
    BY <1>1, <2>1 DEF DropInv, QuietInv
  <2>4. Victim \in Kept /\ Victim \in Held
    <3>1. cache \in Seq(CacheEntries)
      BY <1>3 DEF CacheShape
    <3>2. Last(cache) \in Kept /\ Head(cache) \in Kept
      BY <2>2, <3>1, FrontWithout, TailWithout DEF Kept, Ent
    <3> QED
      BY <3>2 DEF Victim, Held
  <2>5. /\ Victim \in CacheEntries
        /\ CellsIn(Victim.block) = FirstIn(Victim.block) .. EndOf(Victim.block) - 1
    BY <1>3, <2>4, KeptEntries, EntryType, BlockInterval
  <2>6. CASE /\ Writing' /\ expect' = expect
             /\ op'.buf = op.buf /\ op'.from = op.from /\ op'.to = op.to
    <3>1. BackInv'
      BY <1>0, <1>1, <2>1, <2>2, <2>6 DEF BackInv
    <3>2. ValuesInv'
      BY <1>5, <1>6, <2>6
    <3> QED
      BY <1>1, <2>3, <3>1, <3>2 DEF CInv
  <2>7. CASE /\ pc' = "idle"
             /\ expect' = [c \in Cells |-> IF c \in op.from .. op.to - 1 THEN {op.buf[c]}
                                           ELSE expect[c]]
    <3>1. \A c \in Cells : expect'[c] = IF CacheBlock(c) = Victim.block THEN {Victim.data[c]}
                                        ELSE expect[c]
      BY <2>2, <2>5, <2>7 DEF CellsIn
    <3>2. \A c \in CellsIn(Victim.block) : expect'[c] = {Victim.data[c]}
      BY <3>1 DEF CellsIn
    <3>3. BackInv'
      BY <1>0, <1>1, <2>1, <2>2, <2>7, <3>2 DEF BackInv
    <3>4. ASSUME NEW c \in Cells, Intact(c), Sound(c)
          PROVE  /\ expect'[c] \subseteq durable[c]
                 /\ \A V : Sees(Held, expect[c], c, V) /\ MayHold(c, V)
                             => Sees(Held', expect'[c], c, V)
      <4>1. expect'[c] \subseteq durable[c]
        BY <2>4, <3>1, <3>4 DEF Sound, Sees
      <4>2. ASSUME NEW V, Sees(Held, expect[c], c, V) PROVE Sees(Held, expect'[c], c, V)
        BY <2>2, <2>4, <3>1, <4>2, CoveredByDirty
      <4> QED
        BY <1>1, <4>1, <4>2
    <3>5. ValuesInv'
      BY <1>6, <3>4
    <3> QED
      BY <1>1, <2>3, <3>3, <3>5 DEF CInv
  <2> QED
    BY <2>1, <2>6, <2>7, StepBelow
<1>8. CASE pc \in {"free", "truncate"}
  <2>1. Dropping /\ ~WritingBack /\ op.cells = Discarded(req.from, req.to) /\ ~Writing
    BY <1>3, <1>4, <1>8 DEF QuietInv, DropInv, BackInv, Writing, Filling
  <2>2. BackInv' /\ QuietInv' /\ req.kind = "discard"
    BY <1>1, <2>1 DEF BackInv, QuietInv, Dropping
  <2>3. CASE pc' \in {"free", "truncate"} /\ expect' = expect /\ op'.cells = op.cells
    <3>1. DropInv'
      BY <1>0, <1>1, <2>1, <2>3 DEF DropInv
    <3>2. ValuesInv'
      BY <1>5, <1>6, <2>3
    <3> QED
      BY <1>1, <2>2, <3>1, <3>2 DEF CInv
  <2>4. CASE /\ pc' = "idle"
             /\ expect' = [c \in Cells |-> IF c \in op.cells THEN {Unwritten} ELSE expect[c]]
    <3>0. Unwritten' = Unwritten
      BY <1>2 DEF Unwritten
    <3>1. DropInv'
      BY <1>0, <1>1, <2>1, <2>4, <3>0 DEF DropInv, Discarded
    <3>2. ASSUME NEW c \in Cells, Intact(c), Sound(c)
          PROVE  /\ expect'[c] \subseteq durable[c]
                 /\ \A V : Sees(Held, expect[c], c, V) /\ MayHold(c, V)
                             => Sees(Held', expect'[c], c, V)
      <4>1. CASE c \in op.cells
        <5>1. expect'[c] = {Unwritten} /\ Unwritten \in durable[c]
          BY <2>1, <2>2, <2>4, <3>2, <4>1 DEF Sound
        <5>2. ASSUME NEW V, Sees(Held, expect[c], c, V), MayHold(c, V)
              PROVE  Sees(Held, expect'[c], c, V)
          <6>1. Unwritten \in V
            BY <2>1, <2>2, <4>1, <5>2 DEF MayHold
          <6> QED
            BY <5>1, <5>2, <6>1 DEF Sees
        <5> QED
          BY <1>1, <5>1, <5>2
      <4>2. CASE c \notin op.cells
        BY <1>5, <2>4, <3>2, <4>2
      <4> QED
        BY <4>1, <4>2
    <3>3. ValuesInv'
      BY <1>6, <3>2
    <3> QED
      BY <1>1, <2>2, <3>1, <3>3 DEF CInv
  <2> QED
    BY <2>1, <2>3, <2>4, StepBelow
<1> QED
  BY <1>7, <1>8, StepBelow

\* A step that leaves the cache and the disk's call alone: opening the image,
\* or nothing.
LEMMA CacheRests ==
  ASSUME CInv, UNCHANGED <<cache, req, want, durable, expect, torn, stack, op>>,
         pc' = pc \/ (pc = "closed" /\ pc' \in {"idle", "corrupt"})
  PROVE  CInv'
<1>1. /\ CacheShape' /\ ReqShape' /\ Held' = Held /\ Victim' = Victim
      /\ (WritingBack' <=> WritingBack) /\ (Dropping' <=> Dropping) /\ (Sweeping' <=> Sweeping)
  BY DEF CInv, CacheShape, Once, ReqShape, ServeShape, SweepShape, EntryShape, Swept,
         Serving, Sweeping, Holds, Key, Kept, Ent, Held, Victim, WritingBack, Dropping
<1>2. Unwritten' = Unwritten
  BY DEF Unwritten
<1>3. BackInv' /\ DropInv' /\ QuietInv'
  <2>1. CASE pc' = pc
    BY <1>1, <1>2, <2>1 DEF CInv, BackInv, DropInv, QuietInv, Writing, Filling
  <2>2. CASE pc = "closed" /\ pc' \in {"idle", "corrupt"}
    <3>1. ~WritingBack /\ ~Dropping
      BY <2>2 DEF CInv, BackInv, DropInv, Writing, Filling
    <3> QED
      BY <1>1, <2>2, <3>1 DEF BackInv, DropInv, QuietInv
  <2> QED
    BY <2>1, <2>2
<1>4. ValuesInv'
  <2>1. ASSUME NEW c \in Cells, Intact(c)' PROVE Sound(c)'
    <3>1. Sound(c)
      BY <2>1 DEF Intact, CInv, ValuesInv
    <3> QED
      BY <1>1, <1>2, <3>1 DEF Sound, Sees
  <2> QED
    BY <2>1 DEF ValuesInv
<1> QED
  BY <1>1, <1>3, <1>4 DEF CInv


-----------------------------------------------------------------------------
(* All steps together.                                                     *)

AllInv == IInv /\ TInv /\ FInv /\ RInv /\ CacheInv

LEMMA CachedInitInv == CachedInit => AllInv
<1> SUFFICES ASSUME CachedInit PROVE AllInv
  OBVIOUS
<1>1. IInv /\ TInv /\ FInv /\ RInv
  BY InitIInv, InitTInv, InitFInv, InitRInv DEF CachedInit
<1>2. /\ cache = << >> /\ req = NoReq /\ want = expect /\ durable = expect /\ pc = "idle"
  BY DEF CachedInit, Init
<1>3. ~Serving /\ ~Sweeping /\ ~WritingBack /\ ~Dropping /\ req.kind = "none"
  BY <1>2 DEF NoReq, Serving, Sweeping, WritingBack, Dropping
<1>4. CacheShape /\ Held = {}
  BY <1>2, <1>3 DEF CacheShape, Once, Held, Kept, Ent
<1>5. ReqShape /\ BackInv /\ DropInv /\ QuietInv
  BY <1>2, <1>3 DEF ReqShape, ServeShape, SweepShape, BackInv, DropInv, QuietInv
<1>6. ValuesInv
  BY <1>2, <1>3, <1>4 DEF ValuesInv, Sound, Sees
<1> QED
  BY <1>1, <1>4, <1>5, <1>6 DEF AllInv, CacheInv, CInv

\* What each step does to the disk below, and that it keeps the cache's invariant.
LEMMA EachStep ==
  ASSUME IInv, TInv, RInv, CacheInv, [CachedNext]_allVars PROVE DiskNext /\ CacheInv'
<1>1. UNCHANGED vars => Rest
  BY DEF vars, Rest
<1>2. ASSUME UNCHANGED allVars PROVE DiskNext /\ CacheInv'
  <2>1. UNCHANGED vars /\ UNCHANGED cacheVars
    BY <1>2 DEF allVars
  <2>2. CInv => CInv'
    BY <2>1, CacheRests DEF vars, cacheVars
  <2> QED
    BY <1>1, <2>1, <2>2 DEF DiskNext, CacheInv, cacheVars
<1>3. CASE ~cached /\ (Call \/ Fault \/ Crash \/ Terminated) /\ UNCHANGED cacheVars
  BY <1>1, <1>3, CallIsAny DEF DiskNext, Terminated, CacheInv, cacheVars
<1>4. CASE (Step \/ Open) /\ UNCHANGED cacheVars
  <2>1. ASSUME CInv PROVE CInv'
    <3>1. CASE Step
      BY <1>4, <2>1, <3>1, DiskStep
    <3>2. CASE Open
      <4>1. /\ UNCHANGED <<cache, req, want, durable, expect, torn, stack, op>>
            /\ pc = "closed" /\ pc' \in {"idle", "corrupt"}
        BY <1>4, <3>2 DEF Open, cacheVars, histVars
      <4> QED
        BY <2>1, <4>1, CacheRests
    <3> QED
      BY <1>4, <3>1, <3>2
  <2> QED
    BY <1>4, <2>1 DEF DiskNext, CacheInv, cacheVars
<1>5. CASE Request
  <2>1. Rest /\ CInv
    BY <1>5 DEF Request, Rest, fileVars, memVars, CacheInv
  <2> QED
    BY <1>5, <2>1, RequestStep DEF DiskNext, CacheInv
<1>6. CASE Hit \/ Miss \/ Evicted \/ ReturnChunks \/ SkipClean \/ DirtyWritten \/ ReturnFlush
           \/ ReturnDiscard
  <2>1. cached /\ UNCHANGED vars
    BY <1>6 DEF Hit, Miss, Evicted, ReturnChunks, SkipClean, DirtyWritten, ReturnFlush,
                ReturnDiscard, Chunking, Evicting, Keyed
  <2>2. CInv
    BY <2>1 DEF CacheInv
  <2>3. CInv'
    BY <1>6, <2>2, HitStep, MissStep, EvictedStep, ReturnChunksStep, SkipCleanStep,
       DirtyWrittenStep, ReturnFlushStep, ReturnDiscardStep
  <2> QED
    BY <1>1, <2>1, <2>3 DEF DiskNext, CacheInv
<1>7. CASE Evict \/ WriteDirty \/ DiscardBelow
  <2>1. CInv
    BY <1>7 DEF Evict, WriteDirty, DiscardBelow, Chunking, Keyed, CacheInv
  <2> QED
    BY <1>7, <2>1, EvictStep, WriteDirtyStep, DiscardBelowStep DEF DiskNext, CacheInv
<1>8. CASE CachedFault \/ CachedCrash
  <2>1. CInv /\ (Fault \/ Crash)
    BY <1>8 DEF CachedFault, CachedCrash, CacheInv
  <2> QED
    BY <1>8, <2>1, CachedFaultStep, CachedCrashStep DEF DiskNext, CacheInv
<1>9. CASE FetchFault \/ FlushFault
  <2>1. CInv /\ Rest
    BY <1>9 DEF FetchFault, FlushFault, Chunking, Keyed, Rest, fileVars, memVars, CacheInv
  <2> QED
    BY <1>9, <2>1, OtherFaultStep DEF DiskNext, CacheInv
<1>10. CASE Done
  BY <1>2, <1>10 DEF Done
<1> QED
  BY <1>2, <1>3, <1>4, <1>5, <1>6, <1>7, <1>8, <1>9, <1>10 DEF CachedNext, CacheStep

LEMMA AllInvStep == AllInv /\ [CachedNext]_allVars => AllInv'
BY EachStep, IInvStep, TInvStep, FInvStep, RInvStep DEF AllInv

LEMMA AllInvAlways == CachedSpec => []AllInv
BY CachedInitInv, AllInvStep, PTL DEF CachedSpec

LEMMA CellOfBlock ==
  ASSUME NEW b \in Blocks, NEW c \in CellsOf(b)
  PROVE  c \in Cells /\ c \div BlockCells = b
<1>1. b \in Nat /\ b * BlockCells \in Nat /\ (b + 1) * BlockCells = b * BlockCells + BlockCells
  BY BlockStart, BlockEnd DEF Blocks
<1>2. PICK i \in Inside : c = Cell(b, i)
  <2>1. c - b * BlockCells \in Inside /\ c = Cell(b, c - b * BlockCells)
    BY <1>1, SparseDiskAssumption DEF CellsOf, Cell, Inside
  <2> QED
    BY <2>1
<1> QED
  BY <1>2, CellType

LEMMA CachedReadsByInv == AllInv => CachedReadsReturnWrites
<1> SUFFICES ASSUME AllInv, Quiet, NEW b \in Blocks \ torn, NEW c \in CellsOf(b)
             PROVE  CachedCell(c) \in want[c]
  BY DEF CachedReadsReturnWrites
<1>0. IInv /\ TInv /\ RInv /\ CInv /\ req = NoReq /\ pc = "idle"
  BY DEF AllInv, CacheInv, Quiet
<1>1. c \in Cells /\ c \div BlockCells = b
  BY CellOfBlock
<1>2. Intact(c) /\ Sound(c) /\ CacheShape
  BY <1>0, <1>1 DEF Intact, CInv, ValuesInv
<1>3. Held = Kept
  BY <1>0 DEF Held, Serving, NoReq
<1>4. CASE Holds(CacheBlock(c))
  BY <1>2, <1>3, <1>4, HoldsEntry DEF Sound, Sees, CachedCell
<1>5. CASE ~Holds(CacheBlock(c))
  <2>1. expect[c] \subseteq want[c]
    BY <1>2, <1>3, <1>5, HoldsEntry DEF Sound, Sees
  <2>2. ReadCell(c) \in expect[c]
    BY <1>0, <1>1, <1>2, ReadIntact
  <2> QED
    BY <1>5, <2>1, <2>2 DEF CachedCell
<1> QED
  BY <1>4, <1>5

LEMMA FlushedByInv == AllInv => FlushedSurvivesCrash
<1> SUFFICES ASSUME AllInv, cached, pc = "idle", NEW b \in Blocks \ torn, NEW c \in CellsOf(b)
             PROVE  ReadCell(c) \in durable[c]
  BY DEF FlushedSurvivesCrash
<1>0. IInv /\ TInv /\ RInv /\ CInv
  BY DEF AllInv, CacheInv
<1>1. c \in Cells /\ c \div BlockCells = b
  BY CellOfBlock
<1>2. Intact(c) /\ Sound(c)
  BY <1>0, <1>1 DEF Intact, CInv, ValuesInv
<1>3. ReadCell(c) \in expect[c]
  BY <1>0, <1>1, <1>2, ReadIntact
<1> QED
  BY <1>2, <1>3 DEF Sound

\* Between calls, a read through BlockCachedDisk returns, for every cell of
\* a block that no failure or crash cut short, a value the calls through the cache
\* may have left there: for disks and caches of any size, with blocks of the
\* cache and of the disk that overlap in any way, whatever was evicted, written
\* back, flushed, discarded, failed half-way or lost in a crash (read_at,
\* write_at, flush, discard_range and ensure_space_for_block of cache.rs).
THEOREM CachedReadsAlwaysReturnWrites == CachedSpec => []CachedReadsReturnWrites
BY AllInvAlways, CachedReadsByInv, PTL

\* Whenever the disk below is between two calls, also in the middle of a call
\* to the cache, it holds a value of the last flush that returned or a
\* later one: so a crash loses nothing that BlockCachedDisk::flush has reported
\* as written.
THEOREM FlushedAlwaysSurvivesCrash == CachedSpec => []FlushedSurvivesCrash
BY AllInvAlways, FlushedByInv, PTL

\* The disk keeps its promises under the write-backs and discards of the cache,
\* which writes blocks of cells of different calls: no slot is shared, header and
\* table on disk stay valid, the image opens between calls, discarded space is
\* given back and reads return writes (AeroSparseDisk and AeroCowDisk).
THEOREM DiskBelowIsSound ==
  CachedSpec => [](TypeOK /\ SlotsNotShared /\ TableSurvivesCrash /\ IdleImageOpens
                   /\ SpaceIsReclaimed /\ ReadsReturnWrites)
<1>1. AllInv => TypeOK /\ SlotsNotShared /\ TableSurvivesCrash /\ IdleImageOpens
                /\ SpaceIsReclaimed /\ ReadsReturnWrites
  BY TypesByInv, SlotsByInv, TableByInv, ImageByInv, SpaceByInv, ReadsByInv DEF AllInv
<1> QED
  BY <1>1, AllInvAlways, PTL
=============================================================================
