--------------------------- MODULE JitRuntimeProofs ---------------------------
(***************************************************************************)
(* Proofs about JitRuntime, for every number of pages, RIPs and jobs and   *)
(* every limit.                                                            *)
(*                                                                         *)
(* PreparedIsFresh is not inductive: that a block is fresh when it is      *)
(* handed out rests on what its snapshot says, and the snapshot was taken  *)
(* long before, of a job that was still reading bytes.  IInv says of every *)
(* job, and of every cached block, that a page whose write count is still  *)
(* the one of the snapshot holds the bytes that were read (Snapshotted).   *)
(* BInv, CacheWithinLimits and TInv are inductive relative to IInv.        *)
(***************************************************************************)
EXTENDS JitRuntime, BasicLemmas, FiniteSetTheorems,
        WellFoundedInduction, TLAPS

\* The tracker's versions are the writes of each page, wrapped.
Tracker ==
  /\ generation \in Nat /\ writes \in [Pages -> Nat]
  /\ page_versions = [p \in Pages |-> writes[p] % VersionMod]

\* A block or a compilation whose snapshot was taken at b.meta.at: of the pages
\* whose bytes it has read, the ones not written since still hold them, unless
\* a device has stored to them and not said so.
Snapshotted(b) ==
  /\ DOMAIN b = {"rip", "meta", "code"}
  /\ DOMAIN b.meta = {"gen", "page_versions", "byte_len", "at"}
  /\ b.rip \in Rips /\ PageOf(b.rip) \in DOMAIN b.meta.page_versions
  /\ b.meta.gen \in Nat /\ b.meta.gen <= generation
  /\ \A p \in DOMAIN b.meta.page_versions : b.meta.page_versions[p] \in 0 .. VersionMod - 1
  /\ DOMAIN b.code \subseteq DOMAIN b.meta.at /\ DOMAIN b.meta.at \subseteq Pages
  /\ b.meta.gen = generation =>
       /\ \A p \in DOMAIN b.meta.at :
            /\ b.meta.at[p] \in Nat /\ b.meta.at[p] <= writes[p]
            /\ p \in DOMAIN b.meta.page_versions
                 => b.meta.page_versions[p] = b.meta.at[p] % VersionMod
       /\ \A p \in DOMAIN b.code :
            b.meta.at[p] = writes[p] => b.code[p] = mem[p] \/ p \in unnotified

\* A compilation in flight; a block that was compiled.
Compiling(b) ==
  Snapshotted(b) /\ DOMAIN b.meta.at = SpannedPages(b.rip, SnapshotLen) \cap Pages
Block(h) ==
  /\ Snapshotted(h) /\ h.meta.byte_len \in Lens
  /\ DOMAIN h.meta.page_versions \subseteq SpannedPages(h.rip, h.meta.byte_len)
  /\ DOMAIN h.code = SpannedPages(h.rip, h.meta.byte_len) \cap Pages

JobsOK == \A j \in Jobs : jobs[j] = None \/ Compiling(jobs[j])
CacheOK == \E S : cache \in Seq(S) /\ \A h \in S : Block(h)

IInv ==
  /\ Tracker /\ CacheOK /\ PreparedIsFresh
  /\ queue \in Seq(Rips)
  /\ jobs \in [Jobs -> Range(jobs)] /\ JobsOK

-----------------------------------------------------------------------------
(* Facts about numbers, pages and sequences.                               *)

LEMMA NatOrder == \E R : IsWellFoundedOn(R, Nat) /\ \A x, y \in Nat : x < y => <<x, y>> \in R
<1>1. \A x, y \in Nat : x < y => <<x, y>> \in OpToRel(<, Nat)
  BY DEF OpToRel
<1> QED
  BY <1>1, NatLessThanWellFounded, Zenon

\* A set of numbers has a least one, and the greatest one if it is bounded.
LEMMA LeastExists ==
  ASSUME NEW T \in SUBSET Nat, T # {}
  PROVE  \E x \in T : \A y \in T : x <= y
<1>1. PICK R : IsWellFoundedOn(R, Nat) /\ \A x, y \in Nat : x < y => <<x, y>> \in R
  BY NatOrder
<1>2. T \subseteq Nat /\ IsWellFoundedOn(R, Nat)
  BY <1>1
<1>3. \E x \in T : \A y \in T : ~ (<<y, x>> \in R)
  BY <1>2, WFMin, Zenon
<1>4. PICK x \in T : \A y \in T : ~ (<<y, x>> \in R)
  BY <1>3
<1>5. \A y \in T : x \in Nat /\ y \in Nat /\ ~(y < x)
  BY <1>1, <1>2, <1>4
<1> QED
  BY <1>5

LEMMA MinIsLeast ==
  ASSUME NEW T \in SUBSET Nat, T # {}
  PROVE  Min(T) \in T /\ \A y \in T : Min(T) <= y
BY LeastExists DEF Min

LEMMA MaxIsGreatest ==
  ASSUME NEW T \in SUBSET Nat, T # {}, NEW b \in Nat, \A x \in T : x <= b
  PROVE  Max(T) \in T /\ \A y \in T : y <= Max(T)
<1> DEFINE U == {b - x : x \in T}
<1>1. U \in SUBSET Nat /\ U # {}
  <2>1. \A x \in T : b - x \in Nat
    OBVIOUS
  <2> QED
    BY <2>1
<1>2. PICK u \in U : \A v \in U : u <= v
  BY <1>1, LeastExists
<1>3. PICK x \in T : u = b - x
  OBVIOUS
<1>4. ASSUME NEW y \in T PROVE x >= y
  <2>1. u <= b - y
    BY <1>2
  <2> QED
    BY <1>3, <2>1
<1>5. Max(T) \in T /\ \A y \in T : Max(T) >= y
  BY <1>4 DEF Max
<1> QED
  BY <1>5

\* The span of a block is a finite set of pages that has the block's first.
LEMMA Span ==
  ASSUME NEW a \in Nat, NEW l \in Nat \ {0}
  PROVE  /\ PageOf(a) \in Nat /\ PageOf(a) \in SpannedPages(a, l)
         /\ SpannedPages(a, l) \subseteq Nat /\ IsFiniteSet(SpannedPages(a, l))
<1> DEFINE b == a + l - 1
           qa == a \div PageSize
           qb == b \div PageSize
           ra == a % PageSize
           rb == b % PageSize
<1>1. PageSize \in Nat \ {0} /\ b \in Nat /\ a <= b
  BY JitAssumption
<1> HIDE DEF b
<1>2. /\ qa \in Nat /\ a = PageSize * qa + ra /\ ra \in 0 .. PageSize - 1
      /\ qb \in Nat /\ b = PageSize * qb + rb /\ rb \in 0 .. PageSize - 1
  BY <1>1, DivMod
<1> HIDE DEF qa, qb, ra, rb
<1>3. qa <= qb
  <2> SUFFICES ASSUME qb + 1 <= qa PROVE FALSE
    BY <1>2
  <2>1. PageSize * (qb + 1) <= PageSize * qa
    BY <1>1, <1>2, SMT
  <2>2. PageSize * (qb + 1) = PageSize * qb + PageSize
    BY <1>1, <1>2, SMT
  <2>3. PageSize * qb \in Nat /\ PageSize * qa \in Nat
    BY <1>1, <1>2
  <2> QED
    BY <1>1, <1>2, <2>1, <2>2, <2>3
<1>4. SpannedPages(a, l) = qa .. qb /\ PageOf(a) = qa
  BY DEF SpannedPages, PageOf, qa, qb, b
<1>5. IsFiniteSet(qa .. qb)
  BY <1>2, FS_Interval
<1> QED
  BY <1>2, <1>3, <1>4, <1>5

LEMMA SpanOfPage == ASSUME NEW p \in Pages PROVE p \in SpannedPages(p * PageSize, 1)
<1>1. PageSize \in Nat \ {0} /\ p \in Nat
  BY JitAssumption DEF Pages
<1>2. p * PageSize \in Nat /\ p * PageSize = PageSize * p + 0 /\ 0 \in 0 .. PageSize - 1
  BY <1>1, SMT
<1>3. (p * PageSize) \div PageSize = p
  BY <1>1, <1>2, ModUnique
<1>4. PageOf(p * PageSize) = p
  BY <1>3 DEF PageOf
<1> QED
  BY <1>2, <1>4, Span

-----------------------------------------------------------------------------
(* The operations of the code cache, by what they keep.                    *)

LEMMA CacheIndexOf ==
  ASSUME NEW S, NEW c \in Seq(S), NEW rip, HasRip(c, rip)
  PROVE  CacheIndex(c, rip) \in 1 .. Len(c) /\ c[CacheIndex(c, rip)].rip = rip
<1>1. DOMAIN c = 1 .. Len(c)
  OBVIOUS
<1> QED
  BY <1>1 DEF HasRip, CacheIndex

LEMMA TouchKeeps ==
  ASSUME NEW S, NEW c \in Seq(S), NEW i \in 1 .. Len(c)
  PROVE  /\ Touch(c, i) \in Seq(S)
         /\ \A r : HasRip(c, r) => HasRip(Touch(c, i), r)
<1> DEFINE d == RemoveAt(c, i)
           N == Len(c)
<1>1. /\ d \in Seq(S) /\ Len(d) = N - 1 /\ N \in Nat /\ c[i] \in S
      /\ \A k \in 1 .. i - 1 : d[k] = c[k]
      /\ \A k \in i .. N - 1 : d[k] = c[k + 1]
  BY RemoveAtProperties
<1> HIDE DEF d, N
<1> DEFINE t == <<c[i]>> \o d
<1>2. /\ t \in Seq(S) /\ Len(t) = Len(d) + 1 /\ t[1] = c[i]
      /\ \A k \in 1 .. Len(d) : t[k + 1] = d[k]
  BY <1>1, PrependProperties
<1> HIDE DEF t
<1>3. Len(t) = N
  BY <1>1, <1>2
<1>4. ASSUME NEW k \in 1 .. N PROVE \E m \in 1 .. N : t[m] = c[k]
  <2>1. CASE k = i
    BY <1>1, <1>2, <2>1
  <2>2. CASE k < i
    <3>1. k + 1 \in 1 .. N /\ k \in 1 .. i - 1 /\ k \in 1 .. Len(d)
      BY <1>1, <2>2 DEF N
    <3> QED
      BY <1>1, <1>2, <3>1
  <2>3. CASE k > i
    <3>1. k - 1 \in 1 .. Len(d) /\ k - 1 \in i .. N - 1 /\ (k - 1) + 1 = k
      BY <1>1, <2>3
    <3> QED
      BY <1>1, <1>2, <3>1
  <2> QED
    BY <1>1, <2>1, <2>2, <2>3
<1>5. DOMAIN c = 1 .. N /\ DOMAIN t = 1 .. N
  BY <1>2, <1>3 DEF N
<1>6. \A r : HasRip(c, r) => HasRip(t, r)
  BY <1>4, <1>5 DEF HasRip
<1> QED
  BY <1>2, <1>6 DEF Touch, t, d

LEMMA TouchRipKeeps ==
  ASSUME NEW S, NEW c \in Seq(S), NEW rip
  PROVE  /\ TouchRip(c, rip) \in Seq(S)
         /\ \A r : HasRip(c, r) => HasRip(TouchRip(c, rip), r)
BY CacheIndexOf, TouchKeeps DEF TouchRip

LEMMA RemoveRipKeeps ==
  ASSUME NEW S, NEW c \in Seq(S), NEW rip
  PROVE  /\ RemoveRip(c, rip) \in Seq(S)
         /\ \A r : r # rip /\ HasRip(c, r) => HasRip(RemoveRip(c, rip), r)
<1>1. CASE ~HasRip(c, rip)
  BY <1>1 DEF RemoveRip
<1>2. CASE HasRip(c, rip)
  <2> DEFINE i == CacheIndex(c, rip)
             d == RemoveAt(c, i)
             N == Len(c)
  <2>1. i \in 1 .. N /\ c[i].rip = rip /\ N \in Nat
    BY <1>2, CacheIndexOf
  <2> HIDE DEF i
  <2>2. /\ d \in Seq(S) /\ Len(d) = N - 1
        /\ \A k \in 1 .. i - 1 : d[k] = c[k]
        /\ \A k \in i .. N - 1 : d[k] = c[k + 1]
    BY <2>1, RemoveAtProperties
  <2> HIDE DEF d, N
  <2>3. ASSUME NEW k \in 1 .. N, k # i PROVE \E m \in 1 .. N - 1 : d[m] = c[k]
    <3>1. CASE k < i
      <4>1. k \in 1 .. i - 1 /\ k \in 1 .. N - 1
        BY <2>1, <3>1
      <4> QED
        BY <2>2, <4>1
    <3>2. CASE k > i
      <4>1. k - 1 \in i .. N - 1 /\ k - 1 \in 1 .. N - 1 /\ (k - 1) + 1 = k
        BY <2>1, <3>2
      <4> QED
        BY <2>2, <4>1
    <3> QED
      BY <2>1, <2>3, <3>1, <3>2
  <2>4. DOMAIN c = 1 .. N /\ DOMAIN d = 1 .. N - 1
    BY <2>2 DEF N
  <2>5. \A r : r # rip /\ HasRip(c, r) => HasRip(d, r)
    BY <2>1, <2>3, <2>4 DEF HasRip
  <2> QED
    BY <1>2, <2>2, <2>5 DEF RemoveRip, d, i
<1> QED
  BY <1>1, <1>2

LEMMA KeptInRange ==
  ASSUME NEW c, Len(c) \in Nat, NEW bytes
  PROVE  Kept(c, bytes) \in 0 .. Len(c)
<1> DEFINE T == {0} \cup {k \in 1 .. Len(c) :
                  ~OverLimit(k, bytes - Bytes(SubSeq(c, k + 1, Len(c))))}
<1>1. T \in SUBSET Nat /\ T # {} /\ \A x \in T : x <= Len(c)
  OBVIOUS
<1>2. Kept(c, bytes) = Max(T)
  BY DEF Kept
<1> HIDE DEF T
<1>3. Max(T) \in T
  BY <1>1, MaxIsGreatest
<1>4. PICK m \in T : m = Kept(c, bytes)
  BY <1>2, <1>3
<1>5. m \in Nat /\ m <= Len(c)
  BY <1>1
<1> QED
  BY <1>4, <1>5

\* insert keeps every block or reports it as evicted, the new one included.
LEMMA InsertKeeps ==
  ASSUME NEW S, cache \in Seq(S), NEW h \in S
  PROVE  /\ Insert(h).cache \in Seq(S)
         /\ \A r : r = h.rip \/ HasRip(cache, r)
              => HasRip(Insert(h).cache, r) \/ r \in Insert(h).evicted
<1> DEFINE c == <<h>> \o RemoveRip(cache, h.rip)
           bytes == current_bytes - ByteLenOf(cache, h.rip) + h.meta.byte_len
           k == Kept(c, bytes)
           N == Len(c)
           kept == SubSeq(c, 1, k)
           gone == SubSeq(c, k + 1, N)
<1>1. /\ Insert(h).cache = kept
      /\ Insert(h).evicted = {gone[i].rip : i \in DOMAIN gone}
  BY DEF Insert
<1>2. /\ RemoveRip(cache, h.rip) \in Seq(S)
      /\ \A r : r # h.rip /\ HasRip(cache, r) => HasRip(RemoveRip(cache, h.rip), r)
  BY RemoveRipKeeps
<1> DEFINE d == RemoveRip(cache, h.rip)
<1> HIDE DEF d
<1>3. d \in Seq(S) /\ Len(d) \in Nat /\ DOMAIN d = 1 .. Len(d) /\ c = <<h>> \o d
  BY <1>2 DEF d
<1> HIDE DEF c
<1>4. /\ c \in Seq(S) /\ N = Len(d) + 1 /\ c[1] = h
      /\ \A i \in 1 .. Len(d) : c[i + 1] = d[i]
  BY <1>3, PrependProperties
<1>5. N \in Nat
  BY <1>3, <1>4
<1>6. ASSUME NEW r, r = h.rip \/ HasRip(cache, r) PROVE \E i \in 1 .. N : c[i].rip = r
  <2>1. CASE r = h.rip
    <3>1. 1 \in 1 .. N
      BY <1>3, <1>4
    <3> QED
      BY <1>4, <2>1, <3>1
  <2>2. CASE r # h.rip
    <3>1. PICK i \in 1 .. Len(d) : d[i].rip = r
      BY <1>2, <1>3, <1>6, <2>2 DEF d, HasRip
    <3>2. i + 1 \in 1 .. N
      BY <1>3, <1>4
    <3> QED
      BY <1>4, <3>1, <3>2
  <2> QED
    BY <2>1, <2>2
<1>7. k \in 0 .. N
  BY <1>5, KeptInRange
<1> HIDE DEF k
<1>8. /\ kept \in Seq(S) /\ Len(kept) = k /\ \A i \in 1 .. k : kept[i] = c[i]
      /\ gone \in Seq(S) /\ Len(gone) = N - k /\ \A i \in 1 .. N - k : gone[i] = c[k + i]
  BY <1>4, <1>7, SplitProperties
<1> HIDE DEF kept, gone
<1>9. DOMAIN kept = 1 .. k /\ DOMAIN gone = 1 .. N - k
  BY <1>8
<1> HIDE DEF N
<1>10. ASSUME NEW r, r = h.rip \/ HasRip(cache, r)
       PROVE  HasRip(kept, r) \/ r \in {gone[i].rip : i \in DOMAIN gone}
  <2>1. PICK i \in 1 .. N : c[i].rip = r
    BY <1>6, <1>10
  <2>2. CASE i <= k
    <3>1. i \in 1 .. k
      BY <1>5, <1>7, <2>2
    <3> QED
      BY <1>8, <1>9, <2>1, <3>1 DEF HasRip
  <2>3. CASE i > k
    <3>1. i - k \in 1 .. N - k /\ k + (i - k) = i
      BY <1>5, <1>7, <2>3
    <3>2. gone[i - k].rip = r
      BY <1>8, <2>1, <3>1
    <3> QED
      BY <1>9, <3>1, <3>2
  <2> QED
    BY <1>5, <1>7, <2>2, <2>3
<1> QED
  BY <1>1, <1>8, <1>10

-----------------------------------------------------------------------------
(* Freshness.                                                              *)

\* What the page versions of a valid block say.
LEMMA ValidIsFresh ==
  ASSUME Tracker, NEW h, Block(h), IsBlockValid(h)
  PROVE  Fresh(h)
<1> DEFINE span == SpannedPages(h.rip, h.meta.byte_len)
           pv == h.meta.page_versions
<1>1. h.rip \in Nat /\ h.meta.byte_len \in Nat \ {0}
  BY JitAssumption DEF Block, Snapshotted
<1>2. h.meta.gen = generation /\ Cardinality(span) <= Cardinality(DOMAIN pv)
      /\ \A p \in DOMAIN pv : Version(p) = pv[p]
  BY DEF IsBlockValid, Block, Snapshotted
<1>3. DOMAIN pv = span
  <2>1. IsFiniteSet(span) /\ DOMAIN pv \in SUBSET span
    BY <1>1, Span DEF Block
  <2> HIDE DEF span, pv
  <2>2. /\ IsFiniteSet(DOMAIN pv) /\ Cardinality(DOMAIN pv) <= Cardinality(span)
        /\ Cardinality(span) = Cardinality(DOMAIN pv) => span = DOMAIN pv
    BY <2>1, FS_Subset
  <2>3. Cardinality(DOMAIN pv) \in Nat /\ Cardinality(span) \in Nat
    BY <2>1, <2>2, FS_CardinalityType
  <2> QED
    BY <1>2, <2>2, <2>3
<1>4. ASSUME NEW p \in DOMAIN h.code, ~(h.code[p] = mem[p] \/ p \in unnotified)
      PROVE  writes[p] - h.meta.at[p] >= VersionMod
  <2>1. p \in span /\ p \in Pages /\ p \in DOMAIN h.meta.at
    BY DEF Block, Snapshotted
  <2>2. /\ h.meta.at[p] \in Nat /\ h.meta.at[p] <= writes[p]
        /\ pv[p] = h.meta.at[p] % VersionMod /\ h.meta.at[p] # writes[p]
    BY <1>2, <1>3, <1>4, <2>1 DEF Block, Snapshotted
  <2>3. Version(p) = writes[p] % VersionMod /\ writes[p] \in Nat /\ VersionMod \in Nat \ {0}
    BY <2>1, JitAssumption DEF Tracker, Version, Pages
  <2>4. writes[p] % VersionMod = h.meta.at[p] % VersionMod
    BY <1>2, <1>3, <2>1, <2>2, <2>3
  <2>5. ~(writes[p] - h.meta.at[p] < VersionMod)
    BY <2>2, <2>3, <2>4, WrappedEqual
  <2> QED
    BY <2>2, <2>3, <2>5
<1> QED
  BY <1>4 DEF Fresh

\* A step that changes RAM says so: the page is written to in the tracker, or a
\* device owes a report.
Reported ==
  /\ generation' = generation /\ writes' \in [Pages -> Nat]
  /\ \A p \in Pages : /\ writes[p] <= writes'[p]
                      /\ writes'[p] = writes[p] /\ p \notin unnotified'
                           => mem'[p] = mem[p] /\ p \notin unnotified

LEMMA SnapshotKept ==
  ASSUME Tracker, Reported, NEW b, Snapshotted(b)
  PROVE  Snapshotted(b)'
<1>1. \A p \in Pages : writes[p] \in Nat /\ writes'[p] \in Nat
  BY DEF Tracker, Reported
<1>2. b.meta.gen <= generation'
  BY DEF Snapshotted, Reported
<1>3. ASSUME b.meta.gen = generation', NEW p \in DOMAIN b.meta.at
      PROVE  /\ b.meta.at[p] \in Nat /\ b.meta.at[p] <= writes'[p]
             /\ p \in DOMAIN b.meta.page_versions
                  => b.meta.page_versions[p] = b.meta.at[p] % VersionMod
             /\ p \in DOMAIN b.code /\ b.meta.at[p] = writes'[p]
                  => b.code[p] = mem'[p] \/ p \in unnotified'
  <2>1. b.meta.gen = generation /\ p \in Pages
    BY <1>3 DEF Reported, Snapshotted
  <2>2. /\ b.meta.at[p] \in Nat /\ b.meta.at[p] <= writes[p]
        /\ p \in DOMAIN b.meta.page_versions
             => b.meta.page_versions[p] = b.meta.at[p] % VersionMod
    BY <2>1 DEF Snapshotted
  <2>3. writes[p] <= writes'[p] /\ writes[p] \in Nat /\ writes'[p] \in Nat
    BY <1>1, <2>1 DEF Reported
  <2>4. b.meta.at[p] = writes'[p] => b.meta.at[p] = writes[p] /\ writes'[p] = writes[p]
    BY <2>2, <2>3
  <2>5. p \in DOMAIN b.code /\ b.meta.at[p] = writes'[p]
          => b.code[p] = mem'[p] \/ p \in unnotified'
    BY <2>1, <2>4 DEF Snapshotted, Reported
  <2> QED
    BY <2>2, <2>3, <2>5
<1> QED
  BY <1>2, <1>3 DEF Snapshotted

LEMMA BlockKept ==
  ASSUME Tracker, Reported, NEW b
  PROVE  (Block(b) => Block(b)') /\ (Compiling(b) => Compiling(b)')
BY SnapshotKept DEF Block, Compiling

LEMMA CacheKept ==
  ASSUME Tracker, Reported, NEW S, \A h \in S : Block(h), cache' \in Seq(S)
  PROVE  CacheOK'
<1>1. \A h \in S : Block(h)'
  BY BlockKept
<1> QED
  BY <1>1 DEF CacheOK

LEMMA JobsKept ==
  ASSUME Tracker, Reported, JobsOK, UNCHANGED jobs
  PROVE  JobsOK'
BY BlockKept DEF JobsOK

\* The steps that leave RAM and the tracker alone.
LEMMA Quiet ==
  ASSUME Tracker, UNCHANGED <<guestVars, trackerVars>>
  PROVE  Tracker' /\ Reported
<1>1. Tracker'
  BY DEF Tracker, trackerVars
<1>2. ASSUME NEW p \in Pages PROVE writes[p] <= writes'[p]
  <2>1. writes[p] \in Nat /\ writes'[p] = writes[p]
    BY DEF Tracker, trackerVars
  <2> QED
    BY <2>1
<1> QED
  BY <1>1, <1>2 DEF Reported, Tracker, trackerVars, guestVars

LEMMA VersionIs == ASSUME Tracker, NEW p \in Pages PROVE Version(p) = writes[p] % VersionMod
BY JitAssumption DEF Tracker, Version, Pages

\* A snapshot of the versions that are current, with bytes that are in RAM.
LEMMA FreshSnapshot ==
  ASSUME Tracker, NEW rip \in Rips, NEW len \in Nat \ {0},
         NEW code, DOMAIN code \subseteq SpannedPages(rip, len) \cap Pages,
         \A p \in DOMAIN code : code[p] = mem[p]
  PROVE  LET b == [rip |-> rip, meta |-> SnapshotMeta(rip, len), code |-> code]
         IN  /\ Snapshotted(b) /\ b.meta.byte_len = len
             /\ DOMAIN b.meta.at = SpannedPages(rip, len) \cap Pages
             /\ DOMAIN b.meta.page_versions \subseteq SpannedPages(rip, len)
<1> DEFINE span == SpannedPages(rip, len)
           b == [rip |-> rip, meta |-> SnapshotMeta(rip, len), code |-> code]
           pv == Snapshot(rip, len)
           at == [p \in span \cap Pages |-> writes[p]]
<1>1. /\ b.rip = rip /\ b.code = code /\ b.meta.gen = generation
      /\ b.meta.page_versions = pv /\ b.meta.at = at /\ b.meta.byte_len = len
      /\ DOMAIN b = {"rip", "meta", "code"}
      /\ DOMAIN b.meta = {"gen", "page_versions", "byte_len", "at"}
  BY DEF SnapshotMeta
<1> HIDE DEF b
<1>2. rip \in Nat /\ PageOf(rip) \in Nat /\ PageOf(rip) \in span
  BY JitAssumption, Span
<1>3. DOMAIN pv = {q \in span : q < PageOf(rip) + MaxSnapshotPages}
      /\ \A p \in DOMAIN pv : pv[p] = Version(p)
  BY DEF Snapshot
<1>4. PageOf(rip) < PageOf(rip) + MaxSnapshotPages
  BY <1>2, JitAssumption
<1>5. PageOf(rip) \in DOMAIN pv /\ DOMAIN pv \subseteq span
  BY <1>2, <1>3, <1>4
<1> HIDE DEF pv, span
<1>6. generation \in Nat /\ \A p \in Pages : writes[p] \in Nat
  BY DEF Tracker
<1>7. ASSUME NEW p \in DOMAIN at
      PROVE  /\ at[p] \in Nat /\ at[p] <= writes[p]
             /\ p \in DOMAIN pv => pv[p] = at[p] % VersionMod
  <2>1. p \in Pages /\ at[p] = writes[p] /\ writes[p] \in Nat
    BY <1>6
  <2>2. Version(p) = writes[p] % VersionMod
    BY <2>1, VersionIs
  <2> QED
    BY <1>3, <2>1, <2>2
<1>8. \A p \in DOMAIN pv : pv[p] \in 0 .. VersionMod - 1
  <2>1. ASSUME NEW p \in DOMAIN pv PROVE Version(p) \in 0 .. VersionMod - 1
    <3>1. VersionMod \in Nat \ {0} /\ 0 \in 0 .. VersionMod - 1
      BY JitAssumption
    <3>2. CASE p \in Pages
      BY <1>6, <3>1, <3>2, VersionIs
    <3>3. CASE p \notin Pages
      <4>1. p \in Nat
        BY <1>2, <1>5, Span DEF span
      <4>2. ~(p < VersionsLen)
        BY <3>3, <4>1, JitAssumption DEF Pages
      <4> QED
        BY <3>1, <4>2 DEF Version
    <3> QED
      BY <3>2, <3>3
  <2> QED
    BY <1>3, <2>1
<1>9. DOMAIN at = span \cap Pages
  OBVIOUS
<1>10. DOMAIN code \subseteq DOMAIN at
  BY DEF span
<1> HIDE DEF at
<1>11. Snapshotted(b)
  BY <1>1, <1>5, <1>6, <1>7, <1>8, <1>9, <1>10 DEF Snapshotted
<1> QED
  BY <1>1, <1>5, <1>9, <1>11 DEF b, span

\* What a compilation has produced is a block.
LEMMA CompiledIsBlock ==
  ASSUME NEW j \in Jobs, Compiling(jobs[j]), NEW len \in Lens,
         SpannedPages(jobs[j].rip, len) \cap Pages \subseteq DOMAIN jobs[j].code
  PROVE  Block(Compiled(j, len))
<1>1. PICK b : b = jobs[j]
  OBVIOUS
<1> DEFINE span == SpannedPages(b.rip, len)
           h == Compiled(j, len)
           m == ShrinkMeta(b.meta, b.rip, len)
           pv == [p \in DOMAIN b.meta.page_versions \cap span |-> b.meta.page_versions[p]]
           code == [p \in span \cap Pages |-> b.code[p]]
<1>2. Compiling(b) /\ span \cap Pages \subseteq DOMAIN b.code
  BY <1>1
<1>3. DOMAIN b.meta = {"gen", "page_versions", "byte_len", "at"}
  BY <1>2 DEF Compiling, Snapshotted
<1>4. /\ h.rip = b.rip /\ h.meta = m /\ h.code = code
      /\ DOMAIN h = {"rip", "meta", "code"}
  BY <1>1 DEF Compiled
<1>5. /\ m.gen = b.meta.gen /\ m.at = b.meta.at /\ m.byte_len = len
      /\ m.page_versions = pv /\ DOMAIN m = DOMAIN b.meta
  BY <1>3 DEF ShrinkMeta
<1> HIDE DEF h, m
<1>6. b.rip \in Nat /\ PageOf(b.rip) \in span
  <2>1. b.rip \in Nat /\ len \in Nat \ {0}
    BY <1>2, JitAssumption DEF Compiling, Snapshotted
  <2> QED
    BY <2>1, Span
<1> HIDE DEF span
<1>7. /\ DOMAIN pv = DOMAIN b.meta.page_versions \cap span
      /\ \A p \in DOMAIN pv : pv[p] = b.meta.page_versions[p]
      /\ DOMAIN code = span \cap Pages
      /\ \A p \in DOMAIN code : code[p] = b.code[p]
  OBVIOUS
<1> HIDE DEF pv, code
<1>8. Snapshotted(h)
  BY <1>2, <1>3, <1>4, <1>5, <1>6, <1>7 DEF Snapshotted, Compiling
<1> QED
  BY <1>4, <1>5, <1>7, <1>8 DEF Block, h, span

-----------------------------------------------------------------------------
(* The steps.                                                              *)

LEMMA RequestedKeeps ==
  ASSUME NEW q \in Seq(Rips), NEW rip \in Rips
  PROVE  Requested(q, rip) \in Seq(Rips)
BY DEF Requested

LEMMA InstallKeeps ==
  ASSUME IInv, UNCHANGED <<guestVars, trackerVars>>, NEW h, Block(h), InstallHandle(h)
  PROVE  CacheOK' /\ queue' \in Seq(Rips)
<1>1. PICK S : cache \in Seq(S) /\ \A g \in S : Block(g)
  BY DEF IInv, CacheOK
<1> DEFINE T == S \cup {h}
<1>2. cache \in Seq(T) /\ h \in T /\ \A g \in T : Block(g)
  BY <1>1
<1> HIDE DEF T
<1>3. cache' \in Seq(T)
  BY <1>2, InsertKeeps, TouchRipKeeps, RemoveRipKeeps
     DEF InstallHandle, InstallValid, InstallIgnored, InstallRejected
<1>4. queue' \in Seq(Rips)
  BY RequestedKeeps DEF IInv, Block, Snapshotted,
     InstallHandle, InstallValid, InstallIgnored, InstallRejected
<1>5. Tracker /\ Reported
  BY Quiet DEF IInv
<1> QED
  BY <1>2, <1>3, <1>4, <1>5, CacheKept

LEMMA NonePrepared == prepared' = None => PreparedIsFresh'
BY DEF PreparedIsFresh

LEMMA InitIInv == Init => IInv
<1> SUFFICES ASSUME Init PROVE IInv
  OBVIOUS
<1>1. Tracker
  <2>1. VersionMod \in Nat \ {0} /\ 0 % VersionMod = 0
    BY JitAssumption
  <2> QED
    BY <2>1 DEF Init, Tracker
<1>2. CacheOK
  <2>1. cache \in Seq({})
    BY DEF Init
  <2> QED
    BY <2>1 DEF CacheOK
<1>3. jobs \in [Jobs -> Range(jobs)] /\ JobsOK
  BY DEF Init, JobsOK, Range
<1> QED
  BY <1>1, <1>2, <1>3 DEF Init, IInv, PreparedIsFresh

LEMMA PrepareHitStep ==
  ASSUME IInv, NEW rip \in Rips, PrepareHit(rip)
  PROVE  IInv'
<1>1. PICK S : cache \in Seq(S) /\ \A g \in S : Block(g)
  BY DEF IInv, CacheOK
<1>2. Tracker' /\ Reported
  BY Quiet DEF IInv, PrepareHit
<1>3. cache' \in Seq(S)
  BY <1>1, TouchRipKeeps DEF PrepareHit
<1>4. prepared' \in S /\ IsBlockValid(prepared')
  <2>1. CacheIndex(cache, rip) \in 1 .. Len(cache)
    BY <1>1, CacheIndexOf DEF PrepareHit, IsCompiled
  <2> QED
    BY <1>1, <2>1 DEF PrepareHit
<1>5. PICK h : h = prepared'
  OBVIOUS
<1>6. Fresh(h)
  BY <1>1, <1>4, <1>5, ValidIsFresh DEF IInv
<1>7. PreparedIsFresh'
  BY <1>5, <1>6 DEF PreparedIsFresh, Fresh, PrepareHit, guestVars, trackerVars
<1>8. CacheOK' /\ JobsOK'
  BY <1>1, <1>2, <1>3, CacheKept, JobsKept DEF IInv, PrepareHit
<1> QED
  BY <1>2, <1>7, <1>8 DEF IInv, PrepareHit

LEMMA PrepareStaleStep ==
  ASSUME IInv, NEW rip \in Rips, PrepareStale(rip)
  PROVE  IInv'
<1>1. PICK S : cache \in Seq(S) /\ \A g \in S : Block(g)
  BY DEF IInv, CacheOK
<1>2. Tracker' /\ Reported
  BY Quiet DEF IInv, PrepareStale
<1>3. cache' \in Seq(S) /\ queue' \in Seq(Rips)
  BY <1>1, RemoveRipKeeps, RequestedKeeps DEF PrepareStale, IInv
<1>4. CacheOK' /\ JobsOK' /\ PreparedIsFresh'
  BY <1>1, <1>2, <1>3, CacheKept, JobsKept, NonePrepared DEF IInv, PrepareStale
<1> QED
  BY <1>2, <1>3, <1>4 DEF IInv, PrepareStale

LEMMA PrepareMissStep ==
  ASSUME IInv, NEW rip \in Rips, PrepareMiss(rip)
  PROVE  IInv'
<1>1. PICK S : cache \in Seq(S) /\ \A g \in S : Block(g)
  BY DEF IInv, CacheOK
<1>2. Tracker' /\ Reported
  BY Quiet DEF IInv, PrepareMiss
<1>3. cache' \in Seq(S) /\ queue' \in Seq(Rips)
  BY <1>1, RequestedKeeps DEF PrepareMiss, IInv, cacheVars
<1>4. CacheOK' /\ JobsOK' /\ PreparedIsFresh'
  BY <1>1, <1>2, <1>3, CacheKept, JobsKept, NonePrepared DEF IInv, PrepareMiss
<1> QED
  BY <1>2, <1>3, <1>4 DEF IInv, PrepareMiss

LEMMA InstallBlockStep ==
  ASSUME IInv, NEW rip \in Rips, NEW len \in Lens, InstallBlock(rip, len)
  PROVE  IInv'
<1>1. PICK h : h = [rip |-> rip, meta |-> SnapshotMeta(rip, len),
                    code |-> [p \in SpannedPages(rip, len) \cap Pages |-> mem[p]]]
  OBVIOUS
<1>2. len \in Nat \ {0}
  BY JitAssumption
<1>3. Block(h)
  BY <1>1, <1>2, FreshSnapshot DEF Block, IInv
<1>4. CacheOK' /\ queue' \in Seq(Rips)
  BY <1>1, <1>3, InstallKeeps DEF InstallBlock
<1>5. Tracker' /\ Reported
  BY Quiet DEF IInv, InstallBlock
<1>6. JobsOK' /\ PreparedIsFresh'
  BY <1>5, JobsKept, NonePrepared DEF IInv, InstallBlock
<1> QED
  BY <1>4, <1>5, <1>6 DEF IInv, InstallBlock

LEMMA InvalidateBlockStep ==
  ASSUME IInv, NEW rip \in Rips, InvalidateBlock(rip)
  PROVE  IInv'
<1>1. PICK S : cache \in Seq(S) /\ \A g \in S : Block(g)
  BY DEF IInv, CacheOK
<1>2. Tracker' /\ Reported
  BY Quiet DEF IInv, InvalidateBlock
<1>3. cache' \in Seq(S)
  BY <1>1, RemoveRipKeeps DEF InvalidateBlock
<1>4. CacheOK' /\ JobsOK' /\ PreparedIsFresh'
  BY <1>1, <1>2, <1>3, CacheKept, JobsKept, NonePrepared DEF IInv, InvalidateBlock
<1> QED
  BY <1>2, <1>4 DEF IInv, InvalidateBlock

\* A reset starts a generation that no snapshot was taken in.
LEMMA ResetStep == ASSUME IInv, Reset PROVE IInv'
<1>1. Tracker'
  <2>1. VersionMod \in Nat \ {0} /\ 0 % VersionMod = 0
    BY JitAssumption
  <2> QED
    BY <2>1 DEF Reset, Tracker, IInv
<1>2. CacheOK'
  <2>1. cache' \in Seq({})
    BY DEF Reset
  <2> QED
    BY <2>1 DEF CacheOK
<1>3. ASSUME NEW b, Compiling(b) PROVE Compiling(b)'
  <2>1. generation \in Nat /\ generation' = generation + 1 /\ b.meta.gen \in Nat
        /\ b.meta.gen <= generation
    BY <1>3 DEF IInv, Tracker, Reset, Compiling, Snapshotted
  <2>2. b.meta.gen # generation' /\ b.meta.gen <= generation'
    BY <2>1
  <2> QED
    BY <1>3, <2>2 DEF Compiling, Snapshotted
<1>4. JobsOK' /\ PreparedIsFresh'
  BY <1>3, NonePrepared DEF JobsOK, IInv, Reset
<1> QED
  BY <1>1, <1>2, <1>4 DEF IInv, Reset

\* The table counts the writes, wrapped.
LEMMA BumpWriteKeeps ==
  ASSUME Tracker, NEW a, NEW len, BumpWrite(a, len), UNCHANGED generation
  PROVE  /\ Tracker'
         /\ writes' = [p \in Pages |-> IF p \in SpannedPages(a, len) \cap Pages
                                       THEN writes[p] + 1 ELSE writes[p]]
<1>1. VersionMod \in Nat \ {0}
  BY JitAssumption
<1>2. ASSUME NEW p \in Pages
      PROVE  /\ writes[p] \in Nat /\ page_versions[p] = writes[p] % VersionMod
             /\ (page_versions[p] + 1) % VersionMod = (writes[p] + 1) % VersionMod
  <2>1. writes[p] \in Nat /\ page_versions[p] = writes[p] % VersionMod
    BY DEF Tracker
  <2> QED
    BY <1>1, <2>1, WrappedIncrement
<1>3. writes' = [p \in Pages |-> IF p \in SpannedPages(a, len) \cap Pages
                                 THEN writes[p] + 1 ELSE writes[p]]
  BY DEF BumpWrite
<1>4. page_versions' = [p \in Pages |-> IF p \in SpannedPages(a, len) \cap Pages
                            THEN (page_versions[p] + 1) % VersionMod
                            ELSE page_versions[p]]
  BY DEF BumpWrite
<1>5. writes' \in [Pages -> Nat]
  BY <1>2, <1>3
<1>6. page_versions' = [p \in Pages |-> writes'[p] % VersionMod]
  BY <1>2, <1>3, <1>4
<1> QED
  BY <1>3, <1>5, <1>6 DEF Tracker

\* The steps that change RAM or the tracker keep everything else.
LEMMA WriteKeeps ==
  ASSUME IInv, Tracker', Reported, prepared' = None, UNCHANGED <<cacheVars, queue, jobs>>
  PROVE  IInv'
<1>1. PICK S : cache \in Seq(S) /\ \A g \in S : Block(g)
  BY DEF IInv, CacheOK
<1>2. cache' \in Seq(S)
  BY <1>1 DEF cacheVars
<1>3. CacheOK' /\ JobsOK' /\ PreparedIsFresh'
  BY <1>1, <1>2, CacheKept, JobsKept, NonePrepared DEF IInv
<1> QED
  BY <1>3 DEF IInv

LEMMA GuestWriteStep ==
  ASSUME IInv, NEW a, NEW len, GuestWrite(a, len)
  PROVE  IInv'
<1> DEFINE T == SpannedPages(a, len) \cap Pages
<1>1. /\ Tracker' /\ writes' = [p \in Pages |-> IF p \in T THEN writes[p] + 1 ELSE writes[p]]
  BY BumpWriteKeeps DEF IInv, GuestWrite
<1>2. mem' = [p \in Pages |-> IF p \in T THEN mem[p] + 1 ELSE mem[p]]
      /\ unnotified' = unnotified /\ generation' = generation
  BY DEF GuestWrite, Stored
<1> HIDE DEF T
<1>3. ASSUME NEW p \in Pages
      PROVE  /\ writes[p] <= writes'[p]
             /\ writes'[p] = writes[p] /\ p \notin unnotified'
                  => mem'[p] = mem[p] /\ p \notin unnotified
  <2>1. writes[p] \in Nat
    BY DEF IInv, Tracker
  <2>2. writes'[p] = IF p \in T THEN writes[p] + 1 ELSE writes[p]
    BY <1>1
  <2>3. p \notin T => mem'[p] = mem[p]
    BY <1>2
  <2> QED
    BY <1>2, <2>1, <2>2, <2>3
<1>4. Reported
  BY <1>1, <1>2, <1>3 DEF Reported, Tracker
<1> QED
  BY <1>1, <1>4, WriteKeeps DEF GuestWrite

LEMMA DmaStoreStep ==
  ASSUME IInv, NEW page, DmaStore(page)
  PROVE  IInv'
<1>1. /\ writes' = writes /\ generation' = generation /\ page_versions' = page_versions
      /\ unnotified' = unnotified \cup {page}
      /\ mem' = [p \in Pages |-> IF p \in {page} THEN mem[p] + 1 ELSE mem[p]]
  BY DEF DmaStore, Stored, trackerVars
<1>2. Tracker'
  BY <1>1 DEF IInv, Tracker
<1>3. \A p \in Pages : writes[p] <= writes'[p]
  BY <1>1 DEF IInv, Tracker
<1>4. Reported
  BY <1>1, <1>2, <1>3 DEF Reported, Tracker
<1> QED
  BY <1>2, <1>4, WriteKeeps DEF DmaStore

LEMMA DmaNotifyStep ==
  ASSUME IInv, NEW page \in Pages, DmaNotify(page)
  PROVE  IInv'
<1> DEFINE T == SpannedPages(page * PageSize, 1) \cap Pages
<1>1. Tracker' /\ writes' = [p \in Pages |-> IF p \in T THEN writes[p] + 1 ELSE writes[p]]
  BY BumpWriteKeeps DEF IInv, DmaNotify
<1>2. page \in T
  BY SpanOfPage
<1> HIDE DEF T
<1>3. mem' = mem /\ unnotified' = unnotified \ {page} /\ generation' = generation
  BY DEF DmaNotify
<1>4. ASSUME NEW p \in Pages
      PROVE  /\ writes[p] <= writes'[p]
             /\ writes'[p] = writes[p] /\ p \notin unnotified'
                  => mem'[p] = mem[p] /\ p \notin unnotified
  <2>1. writes[p] \in Nat
    BY DEF IInv, Tracker
  <2>2. writes'[p] = IF p \in T THEN writes[p] + 1 ELSE writes[p]
    BY <1>1
  <2>3. writes'[p] = writes[p] => p # page
    BY <1>2, <2>1, <2>2
  <2> QED
    BY <1>3, <2>1, <2>2, <2>3
<1>5. Reported
  BY <1>1, <1>3, <1>4 DEF Reported, Tracker
<1> QED
  BY <1>1, <1>5, WriteKeeps DEF DmaNotify

\* The steps of one compilation.
LEMMA JobStep ==
  ASSUME IInv, Tracker, Reported, NEW j \in Jobs, NEW b, b = None \/ Compiling(b),
         jobs' = [jobs EXCEPT ![j] = b]
  PROVE  jobs' \in [Jobs -> Range(jobs')] /\ JobsOK'
<1>1. /\ jobs \in [Jobs -> Range(jobs)]
      /\ \A i \in Jobs : jobs[i] = None \/ Compiling(jobs[i])
  BY DEF IInv, JobsOK
<1>2. DOMAIN jobs' = Jobs /\ \A i \in Jobs : jobs'[i] = IF i = j THEN b ELSE jobs[i]
  BY <1>1
<1>3. jobs' = [i \in Jobs |-> jobs'[i]]
  BY <1>1
<1>4. jobs' \in [Jobs -> Range(jobs')]
  BY <1>2, <1>3 DEF Range
<1>5. ASSUME NEW i \in Jobs PROVE jobs'[i] = None \/ Compiling(jobs'[i])
  BY <1>1, <1>2
<1>6. ASSUME NEW i \in Jobs PROVE (jobs[i] = None \/ Compiling(jobs[i]))'
  <2>1. PICK g : g = jobs'[i]
    OBVIOUS
  <2>2. g = None \/ Compiling(g)
    BY <1>5, <2>1
  <2>3. g = None \/ Compiling(g)'
    BY <2>2, BlockKept
  <2> QED
    BY <2>1, <2>3
<1> QED
  BY <1>4, <1>6 DEF JobsOK

LEMMA StartCompileStep ==
  ASSUME IInv, NEW j \in Jobs, StartCompile(j)
  PROVE  IInv'
<1>1. queue \in Seq(Rips) /\ queue # << >>
  BY DEF IInv, StartCompile
<1>2. Head(queue) \in Rips /\ queue' \in Seq(Rips)
  BY <1>1 DEF StartCompile
<1>3. PICK b : b = [rip |-> Head(queue), meta |-> SnapshotMeta(Head(queue), SnapshotLen),
                    code |-> << >>]
  OBVIOUS
<1>4. Compiling(b)
  <2>1. DOMAIN << >> = {} /\ SnapshotLen \in Nat \ {0}
    BY JitAssumption
  <2> QED
    BY <1>2, <1>3, <2>1, FreshSnapshot DEF Compiling, IInv
<1>5. Tracker' /\ Reported
  BY Quiet DEF IInv, StartCompile
<1>6. jobs' \in [Jobs -> Range(jobs')] /\ JobsOK'
  BY <1>3, <1>4, <1>5, JobStep DEF IInv, StartCompile
<1>7. CacheOK' /\ PreparedIsFresh'
  BY <1>5, CacheKept, NonePrepared DEF IInv, CacheOK, StartCompile, cacheVars
<1> QED
  BY <1>2, <1>5, <1>6, <1>7 DEF IInv

LEMMA ReadCodeStep ==
  ASSUME IInv, NEW j \in Jobs, ReadCode(j)
  PROVE  IInv'
<1>1. PICK b : b = jobs[j]
  OBVIOUS
<1>2. Compiling(b) /\ DOMAIN b = {"rip", "meta", "code"}
  BY <1>1 DEF IInv, JobsOK, ReadCode, Compiling, Snapshotted
<1>3. PICK p : p = Min(Unread(j))
  OBVIOUS
<1>4. p \in DOMAIN b.meta.at /\ p \in Pages
  <2>1. Unread(j) \in SUBSET Nat /\ Unread(j) # {}
    BY JitAssumption DEF Unread, Pages, ReadCode
  <2>2. p \in Unread(j)
    BY <1>3, <2>1, MinIsLeast
  <2> QED
    BY <1>1, <1>2, <2>2 DEF Unread, Compiling
<1> DEFINE code == [q \in DOMAIN b.code \cup {p} |-> IF q = p THEN mem[p] ELSE b.code[q]]
<1>5. PICK d : d = [b EXCEPT !.code = code]
  OBVIOUS
<1>6. jobs' = [jobs EXCEPT ![j] = d]
  <2>1. jobs \in [Jobs -> Range(jobs)]
    BY DEF IInv
  <2> QED
    BY <1>1, <1>3, <1>5, <2>1 DEF ReadCode
<1>7. d.rip = b.rip /\ d.meta = b.meta /\ d.code = code /\ DOMAIN d = DOMAIN b
  BY <1>2, <1>5
<1>8. /\ DOMAIN code = DOMAIN b.code \cup {p}
      /\ \A q \in DOMAIN code : code[q] = IF q = p THEN mem[p] ELSE b.code[q]
  OBVIOUS
<1> HIDE DEF code
<1>9. Snapshotted(d) /\ Compiling(d)
  BY <1>2, <1>4, <1>7, <1>8 DEF Compiling, Snapshotted
<1>10. Tracker' /\ Reported
  BY Quiet DEF IInv, ReadCode
<1>11. jobs' \in [Jobs -> Range(jobs')] /\ JobsOK'
  BY <1>6, <1>9, <1>10, JobStep DEF IInv
<1>12. CacheOK' /\ PreparedIsFresh'
  BY <1>10, CacheKept, NonePrepared DEF IInv, CacheOK, ReadCode, cacheVars
<1> QED
  BY <1>10, <1>11, <1>12 DEF IInv, ReadCode

LEMMA FinishCompileStep ==
  ASSUME IInv, NEW j \in Jobs, NEW len \in Lens, FinishCompile(j, len)
  PROVE  IInv'
<1>1. PICK h : h = Compiled(j, len)
  OBVIOUS
<1>2. Block(h)
  <2>1. Compiling(jobs[j])
    BY DEF IInv, JobsOK, FinishCompile
  <2> QED
    BY <1>1, <2>1, CompiledIsBlock DEF FinishCompile
<1>3. CacheOK' /\ queue' \in Seq(Rips)
  BY <1>1, <1>2, InstallKeeps DEF FinishCompile
<1>4. Tracker' /\ Reported
  BY Quiet DEF IInv, FinishCompile
<1>5. jobs' \in [Jobs -> Range(jobs')] /\ JobsOK'
  BY <1>4, JobStep DEF IInv, FinishCompile
<1> QED
  BY <1>3, <1>4, <1>5, NonePrepared DEF IInv, FinishCompile

LEMMA FailCompileStep ==
  ASSUME IInv, NEW j \in Jobs, FailCompile(j)
  PROVE  IInv'
<1>1. Tracker' /\ Reported
  BY Quiet DEF IInv, FailCompile
<1>2. jobs' \in [Jobs -> Range(jobs')] /\ JobsOK'
  BY <1>1, JobStep DEF IInv, FailCompile
<1>3. CacheOK' /\ PreparedIsFresh'
  BY <1>1, CacheKept, NonePrepared DEF IInv, CacheOK, FailCompile, cacheVars
<1> QED
  BY <1>1, <1>2, <1>3 DEF IInv, FailCompile

LEMMA StutterStep == ASSUME IInv, UNCHANGED vars PROVE IInv'
<1>1. Tracker' /\ Reported
  BY Quiet DEF IInv, vars, guestVars, trackerVars
<1>2. CacheOK' /\ JobsOK'
  BY <1>1, CacheKept, JobsKept DEF IInv, CacheOK, vars
<1>3. PreparedIsFresh'
  BY DEF IInv, PreparedIsFresh, Fresh, vars
<1> QED
  BY <1>1, <1>2, <1>3 DEF IInv, vars

LEMMA IInvStep == IInv /\ [Next]_vars => IInv'
<1> SUFFICES ASSUME IInv, [Next]_vars PROVE IInv'
  OBVIOUS
<1>1. ASSUME NEW rip \in Rips, PrepareBlock(rip) PROVE IInv'
  BY <1>1, PrepareHitStep, PrepareStaleStep, PrepareMissStep DEF PrepareBlock
<1>2. ASSUME NEW p \in Pages, NEW len \in Lens, GuestWrite((p + 1) * PageSize - 1, len)
      PROVE  IInv'
  BY <1>2, GuestWriteStep
<1>3. ASSUME NEW p \in Pages, DmaStore(p) \/ DmaNotify(p) PROVE IInv'
  BY <1>3, DmaStoreStep, DmaNotifyStep
<1>4. ASSUME NEW j \in Jobs, CompileStep(j) PROVE IInv'
  BY <1>4, StartCompileStep, ReadCodeStep, FinishCompileStep, FailCompileStep DEF CompileStep
<1>5. ASSUME NEW rip \in Rips, NEW len \in Lens, InstallBlock(rip, len) PROVE IInv'
  BY <1>5, InstallBlockStep, JitAssumption
<1>6. ASSUME NEW rip \in Rips, InvalidateBlock(rip) PROVE IInv'
  BY <1>6, InvalidateBlockStep
<1>7. CASE Reset
  BY <1>7, ResetStep
<1>8. CASE UNCHANGED vars
  BY <1>8, StutterStep
<1> QED
  BY <1>1, <1>2, <1>3, <1>4, <1>5, <1>6, <1>7, <1>8 DEF Next, RunStep

LEMMA IInvAlways == Spec => []IInv
BY InitIInv, IInvStep, PTL DEF Spec

\* Whatever stores, device reports, resets, compilations, evictions and
\* invalidations interleave, prepare_block hands out no block that was compiled
\* from other bytes than the guest's code has now.
THEOREM PreparedBlocksAreFresh == Spec => []PreparedIsFresh
<1>1. IInv => PreparedIsFresh
  BY DEF IInv
<1> QED
  BY <1>1, IInvAlways, PTL

-----------------------------------------------------------------------------
(* The hotness profile.                                                    *)

Injective(order) == \A i, k \in 1 .. Len(order) : order[i] = order[k] => i = k
CountLimit == Max({CountMax, Threshold})

\* Every counter is in the recency order once, and every requested RIP has one.
ProfileOK(pf) ==
  /\ DOMAIN pf = {"counters", "recency", "requested"}
  /\ pf.counters \in [Tracked(pf) -> 1 .. CountLimit]
  /\ Tracked(pf) \subseteq Rips
  /\ IsFiniteSet(Tracked(pf)) /\ Cardinality(Tracked(pf)) <= Capacity
  /\ pf.recency \in Seq(Rips) /\ Injective(pf.recency)
  /\ Range(pf.recency) = Tracked(pf)
  /\ pf.requested \subseteq Tracked(pf)

LEMMA MaxOfTwo ==
  ASSUME NEW a \in Nat, NEW b \in Nat
  PROVE  Max({a, b}) = IF a >= b THEN a ELSE b
<1>1. /\ {a, b} \in SUBSET Nat /\ {a, b} # {} /\ a + b \in Nat
      /\ \A x \in {a, b} : x <= a + b
  OBVIOUS
<1>2. Max({a, b}) \in {a, b} /\ \A y \in {a, b} : y <= Max({a, b})
  BY <1>1, MaxIsGreatest
<1> QED
  BY <1>2

LEMMA MinOfTwo ==
  ASSUME NEW a \in Nat, NEW b \in Nat
  PROVE  Min({a, b}) = IF a <= b THEN a ELSE b
<1>1. Min({a, b}) \in {a, b} /\ \A y \in {a, b} : Min({a, b}) <= y
  BY MinIsLeast
<1> QED
  BY <1>1

LEMMA WithoutProperties ==
  ASSUME NEW S, NEW o \in Seq(S), Injective(o), NEW rip
  PROVE  /\ Without(o, rip) \in Seq(S) /\ Injective(Without(o, rip))
         /\ Range(Without(o, rip)) = Range(o) \ {rip}
<1>1. CASE rip \notin Range(o)
  BY <1>1 DEF Without
<1>2. CASE rip \in Range(o)
  <2> DEFINE i == Position(o, rip)
             d == RemoveAt(o, i)
             N == Len(o)
  <2>1. DOMAIN o = 1 .. N /\ N \in Nat
    OBVIOUS
  <2>2. i \in 1 .. N /\ o[i] = rip
    BY <1>2, <2>1 DEF Position, Range
  <2> HIDE DEF i
  <2>3. /\ d \in Seq(S) /\ Len(d) = N - 1
        /\ \A k \in 1 .. i - 1 : d[k] = o[k]
        /\ \A k \in i .. N - 1 : d[k] = o[k + 1]
    BY <2>2, RemoveAtProperties
  <2>4. DOMAIN d = 1 .. N - 1
    BY <2>3
  <2> HIDE DEF d
  <2> DEFINE m(k) == IF k < i THEN k ELSE k + 1
  <2>5. ASSUME NEW k \in 1 .. N - 1
        PROVE  d[k] = o[m(k)] /\ m(k) \in 1 .. N /\ m(k) # i
    <3>1. CASE k < i
      <4>1. k \in 1 .. i - 1 /\ k \in 1 .. N
        BY <2>1, <2>2, <3>1
      <4> QED
        BY <2>3, <3>1, <4>1
    <3>2. CASE ~(k < i)
      <4>1. k \in i .. N - 1 /\ k + 1 \in 1 .. N /\ k + 1 # i
        BY <2>1, <2>2, <3>2
      <4> QED
        BY <2>3, <3>2, <4>1
    <3> QED
      BY <3>1, <3>2
  <2>6. ASSUME NEW k \in 1 .. N, k # i PROVE \E l \in 1 .. N - 1 : d[l] = o[k]
    <3>1. CASE k < i
      <4>1. k \in 1 .. i - 1 /\ k \in 1 .. N - 1
        BY <2>1, <2>2, <3>1
      <4> QED
        BY <2>3, <4>1
    <3>2. CASE k > i
      <4>1. k - 1 \in i .. N - 1 /\ k - 1 \in 1 .. N - 1 /\ (k - 1) + 1 = k
        BY <2>1, <2>2, <3>2
      <4> QED
        BY <2>3, <4>1
    <3> QED
      BY <2>1, <2>2, <2>6, <3>1, <3>2
  <2>7. \A k, l \in 1 .. N - 1 : m(k) = m(l) => k = l
    BY <2>1, <2>2
  <2> HIDE DEF m
  <2>8. \A k \in 1 .. N : o[k] = rip => k = i
    BY <2>2 DEF Injective
  <2>9. Injective(d)
    <3> SUFFICES ASSUME NEW k \in 1 .. N - 1, NEW l \in 1 .. N - 1, d[k] = d[l] PROVE k = l
      BY <2>3 DEF Injective
    <3>1. o[m(k)] = o[m(l)] /\ m(k) \in 1 .. N /\ m(l) \in 1 .. N
      BY <2>5
    <3>2. m(k) = m(l)
      BY <3>1 DEF Injective
    <3> QED
      BY <2>7, <3>2
  <2>10. Range(d) = Range(o) \ {rip}
    <3>1. Range(o) = {o[k] : k \in 1 .. N} /\ Range(d) = {d[k] : k \in 1 .. N - 1}
      BY <2>1, <2>4 DEF Range
    <3>2. ASSUME NEW x \in Range(d) PROVE x \in Range(o) \ {rip}
      <4>1. PICK k \in 1 .. N - 1 : x = d[k]
        BY <3>1
      <4>2. x = o[m(k)] /\ m(k) \in 1 .. N /\ m(k) # i
        BY <2>5, <4>1
      <4> QED
        BY <2>8, <3>1, <4>2
    <3>3. ASSUME NEW x \in Range(o), x # rip PROVE x \in Range(d)
      <4>1. PICK k \in 1 .. N : x = o[k]
        BY <3>1
      <4>2. k # i
        BY <2>2, <3>3, <4>1
      <4>3. PICK l \in 1 .. N - 1 : d[l] = o[k]
        BY <2>6, <4>2
      <4> QED
        BY <3>1, <4>1, <4>3
    <3> QED
      BY <3>2, <3>3
  <2> QED
    BY <1>2, <2>3, <2>9, <2>10 DEF Without, d, i
<1> QED
  BY <1>1, <1>2

LEMMA MovedToEnd ==
  ASSUME NEW S, NEW o \in Seq(S), Injective(o), NEW rip \in S
  PROVE  LET t == Append(Without(o, rip), rip)
         IN  t \in Seq(S) /\ Injective(t) /\ Range(t) = Range(o) \cup {rip}
<1> DEFINE d == Without(o, rip)
           t == Append(d, rip)
           N == Len(d)
<1>1. d \in Seq(S) /\ Injective(d) /\ Range(d) = Range(o) \ {rip}
  BY WithoutProperties
<1> HIDE DEF d
<1>2. /\ t \in Seq(S) /\ Len(t) = N + 1 /\ N \in Nat
      /\ \A k \in 1 .. N : t[k] = d[k]
      /\ t[N + 1] = rip
  BY <1>1
<1>3. DOMAIN d = 1 .. N /\ DOMAIN t = 1 .. N + 1
  BY <1>1, <1>2
<1> HIDE DEF t, N
<1>4. Range(d) = {d[k] : k \in 1 .. N} /\ Range(t) = {t[k] : k \in 1 .. N + 1}
  BY <1>3 DEF Range
<1>5. \A k \in 1 .. N : d[k] # rip
  BY <1>1, <1>4
<1>6. 1 .. N + 1 = (1 .. N) \cup {N + 1}
  BY <1>2
<1>7. Range(t) = Range(o) \cup {rip}
  <2>1. Range(t) = {t[k] : k \in 1 .. N} \cup {t[N + 1]}
    BY <1>4, <1>6
  <2>2. {t[k] : k \in 1 .. N} = Range(d)
    BY <1>2, <1>4
  <2> QED
    BY <1>1, <1>2, <2>1, <2>2
<1>8. Injective(t)
  <2>1. \A k, l \in 1 .. N : d[k] = d[l] => k = l
    BY <1>1 DEF Injective, N
  <2> QED
    BY <1>2, <1>5, <1>6, <2>1 DEF Injective
<1> QED
  BY <1>2, <1>7, <1>8 DEF t, d

\* pick_victim picks one of the candidates.
LEMMA VictimIsCandidate ==
  ASSUME NEW pf, ProfileOK(pf), NEW C \in SUBSET Tracked(pf), C # {}
  PROVE  PickVictim(pf, C) \in C
<1>1. \A r \in C : pf.counters[r] \in Nat
  <2>1. CountLimit \in Nat
    BY JitAssumption, MaxOfTwo DEF CountLimit
  <2>2. \A r \in C : pf.counters[r] \in 1 .. CountLimit
    BY DEF ProfileOK
  <2> QED
    BY <2>1, <2>2
<1>2. \A r \in C : Position(pf.recency, r) \in Nat
  <2>1. DOMAIN pf.recency = 1 .. Len(pf.recency) /\ Len(pf.recency) \in Nat
    BY DEF ProfileOK
  <2>2. \A r \in C : \E i \in DOMAIN pf.recency : pf.recency[i] = r
    BY DEF ProfileOK, Range
  <2>3. \A r \in C : Position(pf.recency, r) \in DOMAIN pf.recency
    BY <2>2 DEF Position
  <2> QED
    BY <2>1, <2>3
<1> DEFINE A == {pf.counters[r] : r \in C}
<1>3. A \in SUBSET Nat /\ A # {}
  BY <1>1
<1>4. PICK a \in A : \A x \in A : a <= x
  BY <1>3, LeastExists
<1> DEFINE D == {r \in C : pf.counters[r] = a}
           B == {Position(pf.recency, r) : r \in D}
<1>5. B \in SUBSET Nat /\ B # {}
  BY <1>2
<1> HIDE DEF B
<1>6. PICK b \in B : \A x \in B : b <= x
  BY <1>5, LeastExists
<1>7. PICK r \in D : b = Position(pf.recency, r)
  BY DEF B
<1>8. ASSUME NEW s \in C
      PROVE  \/ pf.counters[r] < pf.counters[s]
             \/ pf.counters[r] = pf.counters[s] /\ Position(pf.recency, r) <= Position(pf.recency, s)
  <2>1. a <= pf.counters[s] /\ a \in Nat /\ pf.counters[s] \in Nat /\ pf.counters[r] = a
    BY <1>1, <1>3, <1>4
  <2>2. CASE s \in D
    BY <1>6, <1>7, <2>1, <2>2 DEF B
  <2>3. CASE s \notin D
    BY <2>1, <2>3
  <2> QED
    BY <2>2, <2>3
<1> QED
  BY <1>8 DEF PickVictim

LEMMA EvictCounterKeeps ==
  ASSUME NEW pf, ProfileOK(pf), NEW v \in Tracked(pf)
  PROVE  LET e == EvictCounter(pf, v)
         IN  /\ ProfileOK(e) /\ Tracked(e) = Tracked(pf) \ {v}
             /\ Cardinality(Tracked(e)) < Capacity /\ e.requested \subseteq pf.requested
<1> DEFINE e == EvictCounter(pf, v)
<1>1. /\ DOMAIN e = {"counters", "recency", "requested"}
      /\ e.counters = [r \in Tracked(pf) \ {v} |-> pf.counters[r]]
      /\ e.recency = Without(pf.recency, v) /\ e.requested = pf.requested \ {v}
  BY DEF EvictCounter
<1> HIDE DEF e
<1>2. Tracked(e) = Tracked(pf) \ {v}
  BY <1>1 DEF Tracked
<1>3. e.counters \in [Tracked(e) -> 1 .. CountLimit]
  BY <1>1, <1>2 DEF ProfileOK
<1>4. /\ e.recency \in Seq(Rips) /\ Injective(e.recency)
      /\ Range(e.recency) = Range(pf.recency) \ {v}
  BY <1>1, WithoutProperties DEF ProfileOK
<1>5. IsFiniteSet(Tracked(e)) /\ Cardinality(Tracked(e)) < Capacity
  <2>1. /\ IsFiniteSet(Tracked(pf)) /\ Cardinality(Tracked(pf)) \in Nat
        /\ Cardinality(Tracked(pf)) <= Capacity /\ Capacity \in Nat
    BY FS_CardinalityType, JitAssumption DEF ProfileOK
  <2>2. /\ IsFiniteSet(Tracked(pf) \ {v})
        /\ Cardinality(Tracked(pf) \ {v}) = Cardinality(Tracked(pf)) - 1
    BY <2>1, FS_RemoveElement
  <2> QED
    BY <1>2, <2>1, <2>2
<1>6. Cardinality(Tracked(e)) <= Capacity
  BY <1>5, FS_CardinalityType, JitAssumption
<1>7. ProfileOK(e)
  BY <1>1, <1>2, <1>3, <1>4, <1>5, <1>6 DEF ProfileOK
<1> QED
  BY <1>1, <1>2, <1>5, <1>7 DEF e

LEMMA RefreshKeeps ==
  ASSUME NEW pf, ProfileOK(pf), NEW rip \in Tracked(pf)
  PROVE  LET e == Refresh(pf, rip)
         IN  ProfileOK(e) /\ Tracked(e) = Tracked(pf) /\ e.requested = pf.requested
<1> DEFINE e == Refresh(pf, rip)
<1>1. /\ DOMAIN e = {"counters", "recency", "requested"}
      /\ e.counters = pf.counters /\ e.requested = pf.requested
      /\ e.recency = Append(Without(pf.recency, rip), rip)
  BY DEF Refresh, ProfileOK
<1> HIDE DEF e
<1>2. Tracked(e) = Tracked(pf)
  BY <1>1 DEF Tracked
<1>3. /\ e.recency \in Seq(Rips) /\ Injective(e.recency)
      /\ Range(e.recency) = Range(pf.recency) \cup {rip}
  BY <1>1, MovedToEnd DEF ProfileOK
<1> QED
  BY <1>1, <1>2, <1>3 DEF ProfileOK, e

\* A counter is set and becomes the most recently hit one.
LEMMA CountKeeps ==
  ASSUME NEW pf, ProfileOK(pf), NEW rip \in Rips, NEW n \in 1 .. CountLimit,
         rip \in Tracked(pf) \/ Cardinality(Tracked(pf)) < Capacity
  PROVE  LET e == Refresh(Count(pf, rip, n), rip)
         IN  /\ ProfileOK(e) /\ Tracked(e) = Tracked(pf) \cup {rip}
             /\ e.requested = pf.requested
<1> DEFINE c == Count(pf, rip, n)
           e == Refresh(c, rip)
<1>1. /\ DOMAIN c = {"counters", "recency", "requested"}
      /\ c.counters = [r \in Tracked(pf) \cup {rip} |-> IF r = rip THEN n ELSE pf.counters[r]]
      /\ c.requested = pf.requested /\ c.recency = pf.recency
  BY DEF Count, ProfileOK, Tracked
<1> HIDE DEF c
<1>2. /\ DOMAIN e = {"counters", "recency", "requested"}
      /\ e.counters = c.counters /\ e.requested = pf.requested
      /\ e.recency = Append(Without(pf.recency, rip), rip)
  BY <1>1 DEF Refresh
<1> HIDE DEF e
<1>3. Tracked(e) = Tracked(pf) \cup {rip}
  BY <1>1, <1>2 DEF Tracked
<1>4. e.counters \in [Tracked(e) -> 1 .. CountLimit]
  BY <1>1, <1>2, <1>3 DEF ProfileOK
<1>5. /\ e.recency \in Seq(Rips) /\ Injective(e.recency)
      /\ Range(e.recency) = Range(pf.recency) \cup {rip}
  BY <1>2, MovedToEnd DEF ProfileOK
<1>6. IsFiniteSet(Tracked(e)) /\ Cardinality(Tracked(e)) <= Capacity
  <2>1. IsFiniteSet(Tracked(pf)) /\ Cardinality(Tracked(pf)) \in Nat /\ Capacity \in Nat
    BY FS_CardinalityType, JitAssumption DEF ProfileOK
  <2>2. CASE rip \in Tracked(pf)
    <3>1. Tracked(e) = Tracked(pf)
      BY <1>3, <2>2
    <3> QED
      BY <3>1 DEF ProfileOK
  <2>3. CASE rip \notin Tracked(pf)
    <3>1. /\ IsFiniteSet(Tracked(pf) \cup {rip})
          /\ Cardinality(Tracked(pf) \cup {rip}) = Cardinality(Tracked(pf)) + 1
      BY <2>1, <2>3, FS_AddElement
    <3> QED
      BY <1>3, <2>1, <2>3, <3>1
  <2> QED
    BY <2>2, <2>3
<1>7. ProfileOK(e)
  BY <1>2, <1>3, <1>4, <1>5, <1>6 DEF ProfileOK
<1> QED
  BY <1>2, <1>3, <1>7 DEF e, c

LEMMA RequestKeeps ==
  ASSUME NEW pf, ProfileOK(pf), NEW rip \in Tracked(pf)
  PROVE  LET e == [pf EXCEPT !.requested = @ \cup {rip}]
         IN  ProfileOK(e) /\ e.requested = pf.requested \cup {rip}
<1> DEFINE e == [pf EXCEPT !.requested = @ \cup {rip}]
<1>1. /\ DOMAIN e = {"counters", "recency", "requested"}
      /\ e.counters = pf.counters /\ e.recency = pf.recency
      /\ e.requested = pf.requested \cup {rip}
  BY DEF ProfileOK
<1> HIDE DEF e
<1>2. Tracked(e) = Tracked(pf)
  BY <1>1 DEF Tracked
<1> QED
  BY <1>1, <1>2 DEF ProfileOK, e

LEMMA ClearRequestedKeeps ==
  ASSUME NEW pf, ProfileOK(pf), NEW rips
  PROVE  LET e == ClearRequested(pf, rips)
         IN  ProfileOK(e) /\ e.requested = pf.requested \ rips
<1> DEFINE e == ClearRequested(pf, rips)
<1>1. /\ DOMAIN e = {"counters", "recency", "requested"}
      /\ e.counters = pf.counters /\ e.recency = pf.recency
      /\ e.requested = pf.requested \ rips
  BY DEF ProfileOK, ClearRequested
<1> HIDE DEF e
<1>2. Tracked(e) = Tracked(pf)
  BY <1>1 DEF Tracked
<1> QED
  BY <1>1, <1>2 DEF ProfileOK, e

LEMMA NotFull ==
  ASSUME NEW pf, ProfileOK(pf), ~Full(pf)
  PROVE  Cardinality(Tracked(pf)) < Capacity
BY FS_CardinalityType, JitAssumption DEF Full, ProfileOK

LEMMA FullHasCounters ==
  ASSUME NEW pf, ProfileOK(pf), Full(pf)
  PROVE  Tracked(pf) # {}
BY FS_EmptySet, JitAssumption DEF Full, ProfileOK

LEMMA MarkRequestedKeeps ==
  ASSUME NEW pf, ProfileOK(pf), NEW rip \in Rips
  PROVE  LET e == MarkRequested(pf, rip)
         IN  ProfileOK(e) /\ e.requested \subseteq pf.requested \cup {rip}
<1> DEFINE n == Max({Threshold, 1})
           e == MarkRequested(pf, rip)
<1>1. n \in 1 .. CountLimit
  BY MaxOfTwo, JitAssumption DEF CountLimit
<1>2. CASE rip \in Tracked(pf)
  <2>1. e = [Refresh(pf, rip) EXCEPT !.requested = @ \cup {rip}]
    BY <1>2 DEF MarkRequested
  <2>2. /\ ProfileOK(Refresh(pf, rip)) /\ rip \in Tracked(Refresh(pf, rip))
        /\ Refresh(pf, rip).requested = pf.requested
    BY <1>2, RefreshKeeps
  <2> QED
    BY <2>1, <2>2, RequestKeeps
<1>3. CASE rip \notin Tracked(pf)
  <2>1. PICK s : s = SpaceForRequested(pf)
    OBVIOUS
  <2>2. ProfileOK(s) /\ Cardinality(Tracked(s)) < Capacity /\ s.requested \subseteq pf.requested
    <3>1. CASE ~Full(pf)
      BY <2>1, <3>1, NotFull DEF SpaceForRequested
    <3>2. CASE Full(pf)
      <4>1. PICK v : v = PickVictim(pf, IF Unrequested(pf) # {} THEN Unrequested(pf)
                                        ELSE Tracked(pf))
        OBVIOUS
      <4>2. v \in Tracked(pf)
        <5>1. CASE Unrequested(pf) # {}
          <6>1. Unrequested(pf) \in SUBSET Tracked(pf)
            BY DEF Unrequested
          <6> QED
            BY <4>1, <5>1, <6>1, VictimIsCandidate
        <5>2. CASE Unrequested(pf) = {}
          BY <3>2, <4>1, <5>2, FullHasCounters, VictimIsCandidate
        <5> QED
          BY <5>1, <5>2
      <4>3. s = EvictCounter(pf, v)
        BY <2>1, <3>2, <4>1 DEF SpaceForRequested
      <4> QED
        BY <4>2, <4>3, EvictCounterKeeps
    <3> QED
      BY <3>1, <3>2
  <2>3. PICK q : q = Refresh(Count(s, rip, n), rip)
    OBVIOUS
  <2>4. ProfileOK(q) /\ rip \in Tracked(q) /\ q.requested = s.requested
    BY <1>1, <2>2, <2>3, CountKeeps
  <2>5. e = [q EXCEPT !.requested = @ \cup {rip}]
    BY <1>3, <2>1, <2>3 DEF MarkRequested
  <2> QED
    BY <2>2, <2>4, <2>5, RequestKeeps
<1> QED
  BY <1>2, <1>3

LEMMA RecordHitKeeps ==
  ASSUME NEW pf, ProfileOK(pf), NEW rip \in Rips, NEW compiled \in BOOLEAN
  PROVE  LET hit == RecordHit(pf, rip, compiled)
         IN  /\ ProfileOK(hit.profile) /\ hit.due \in BOOLEAN
             /\ hit.profile.requested \subseteq pf.requested \cup IF hit.due THEN {rip} ELSE {}
             /\ compiled => ~hit.due
<1> DEFINE hit == RecordHit(pf, rip, compiled)
<1>1. CASE Saturated(pf, rip)
  <2>1. hit = [profile |-> pf, due |-> FALSE]
    BY <1>1 DEF RecordHit
  <2> QED
    BY <2>1
<1>2. CASE ~Saturated(pf, rip)
  <2>1. PICK n : n = IF rip \in Tracked(pf) THEN Min({pf.counters[rip] + 1, CountMax}) ELSE 1
    OBVIOUS
  <2>2. n \in 1 .. CountLimit
    <3>1. CountLimit = IF CountMax >= Threshold THEN CountMax ELSE Threshold
      BY MaxOfTwo, JitAssumption DEF CountLimit
    <3>2. CountMax \in Nat \ {0} /\ Threshold \in Nat
      BY JitAssumption
    <3>3. CASE rip \in Tracked(pf)
      <4>1. pf.counters[rip] \in 1 .. CountLimit
        BY <3>3 DEF ProfileOK
      <4>2. pf.counters[rip] + 1 \in Nat /\ pf.counters[rip] + 1 >= 1
        BY <3>1, <3>2, <4>1
      <4>3. n = IF pf.counters[rip] + 1 <= CountMax THEN pf.counters[rip] + 1 ELSE CountMax
        BY <2>1, <3>2, <3>3, <4>2, MinOfTwo
      <4> QED
        BY <3>1, <3>2, <4>2, <4>3
    <3>4. CASE rip \notin Tracked(pf)
      BY <2>1, <3>1, <3>2, <3>4
    <3> QED
      BY <3>3, <3>4
  <2>3. PICK s : s = IF rip \in Tracked(pf) \/ ~Full(pf) THEN pf
                     ELSE EvictCounter(pf, PickVictim(pf, Unrequested(pf)))
    OBVIOUS
  <2>4. /\ ProfileOK(s) /\ s.requested \subseteq pf.requested
        /\ rip \in Tracked(s) \/ Cardinality(Tracked(s)) < Capacity
    <3>1. CASE rip \in Tracked(pf) \/ ~Full(pf)
      BY <2>3, <3>1, NotFull
    <3>2. CASE ~(rip \in Tracked(pf) \/ ~Full(pf))
      <4>1. Unrequested(pf) # {} /\ Unrequested(pf) \in SUBSET Tracked(pf)
        BY <1>2, <3>2 DEF Saturated, Unrequested
      <4>2. PICK v : v = PickVictim(pf, Unrequested(pf))
        OBVIOUS
      <4>3. v \in Tracked(pf)
        BY <4>1, <4>2, VictimIsCandidate
      <4> QED
        BY <2>3, <3>2, <4>2, <4>3, EvictCounterKeeps
    <3> QED
      BY <3>1, <3>2
  <2>5. PICK q : q = CountHit(pf, rip)
    OBVIOUS
  <2>6. q = Refresh(Count(s, rip, n), rip)
    BY <2>1, <2>3, <2>5 DEF CountHit
  <2>7. ProfileOK(q) /\ rip \in Tracked(q) /\ q.requested = s.requested
    BY <2>2, <2>4, <2>6, CountKeeps
  <2>8. PICK due \in BOOLEAN :
          due = (~compiled /\ q.counters[rip] >= Threshold /\ rip \notin q.requested)
    OBVIOUS
  <2>9. hit = [profile |-> IF due THEN [q EXCEPT !.requested = @ \cup {rip}] ELSE q,
               due |-> due]
    BY <1>2, <2>5, <2>8 DEF RecordHit
  <2>10. CASE due
    <3>1. PICK e : e = [q EXCEPT !.requested = @ \cup {rip}]
      OBVIOUS
    <3>2. ProfileOK(e) /\ e.requested = q.requested \cup {rip}
      BY <2>7, <3>1, RequestKeeps
    <3>3. hit.profile = e /\ hit.due = due
      <4>1. hit = [profile |-> e, due |-> due]
        BY <2>9, <2>10, <3>1, Zenon
      <4> HIDE DEF hit
      <4> QED
        BY <4>1
    <3>4. ~compiled
      BY <2>8, <2>10, Zenon
    <3> QED
      BY <2>4, <2>7, <2>8, <2>10, <3>2, <3>3, <3>4
  <2>11. CASE ~due
    BY <2>4, <2>7, <2>8, <2>9, <2>11
  <2> QED
    BY <2>10, <2>11
<1> QED
  BY <1>1, <1>2

LEMMA EmptyProfileOK == ProfileOK(EmptyProfile) /\ EmptyProfile.requested = {}
<1>1. PICK pf : pf = EmptyProfile
  OBVIOUS
<1>2. /\ DOMAIN pf = {"counters", "recency", "requested"} /\ pf.counters = << >>
      /\ pf.recency = << >> /\ pf.requested = {}
  BY <1>1 DEF EmptyProfile
<1>3. Tracked(pf) = {}
  BY <1>2 DEF Tracked
<1>4. IsFiniteSet({}) /\ Cardinality({}) <= Capacity
  BY FS_EmptySet, JitAssumption
<1>5. Range(<< >>) = {} /\ Injective(<< >>) /\ << >> \in Seq(Rips)
  BY DEF Range, Injective
<1>6. << >> \in [{} -> 1 .. CountLimit]
  OBVIOUS
<1>7. ProfileOK(pf)
  BY <1>2, <1>3, <1>4, <1>5, <1>6 DEF ProfileOK
<1> QED
  BY <1>1, <1>2, <1>7

LEMMA RequestedQueues ==
  ASSUME NEW q \in Seq(Rips), NEW rip \in Rips
  PROVE  Range(q) \cup {rip} \subseteq Range(Requested(q, rip))
<1>1. CASE rip \in Range(q)
  BY <1>1 DEF Requested
<1>2. CASE rip \notin Range(q)
  <2> DEFINE t == Append(q, rip)
             N == Len(q)
  <2>1. /\ t \in Seq(Rips) /\ Len(t) = N + 1 /\ N \in Nat
        /\ \A k \in 1 .. N : t[k] = q[k]
        /\ t[N + 1] = rip
    OBVIOUS
  <2>2. DOMAIN q = 1 .. N /\ DOMAIN t = 1 .. N + 1
    BY <2>1
  <2> HIDE DEF t, N
  <2>3. N + 1 \in 1 .. N + 1 /\ \A k \in 1 .. N : k \in 1 .. N + 1
    BY <2>1
  <2>4. Range(q) = {q[k] : k \in 1 .. N} /\ Range(t) = {t[k] : k \in 1 .. N + 1}
    BY <2>2 DEF Range
  <2>5. Range(q) \cup {rip} \subseteq Range(t)
    BY <2>1, <2>3, <2>4
  <2> QED
    BY <1>2, <2>5 DEF Requested, t
<1> QED
  BY <1>1, <1>2

LEMMA HeadOrTail ==
  ASSUME NEW q \in Seq(Rips), q # << >>
  PROVE  Range(q) \subseteq Range(Tail(q)) \cup {Head(q)}
<1> DEFINE t == Tail(q)
           N == Len(q)
<1>1. /\ t \in Seq(Rips) /\ Len(t) = N - 1 /\ N \in Nat \ {0} /\ Head(q) = q[1]
      /\ \A k \in 1 .. N - 1 : t[k] = q[k + 1]
  OBVIOUS
<1>2. DOMAIN q = 1 .. N /\ DOMAIN t = 1 .. N - 1
  BY <1>1
<1> HIDE DEF t, N
<1>3. ASSUME NEW k \in 1 .. N PROVE q[k] \in Range(t) \cup {Head(q)}
  <2>1. CASE k = 1
    BY <1>1, <2>1
  <2>2. CASE k # 1
    <3>1. k - 1 \in 1 .. N - 1 /\ (k - 1) + 1 = k
      BY <1>1, <2>2
    <3> QED
      BY <1>1, <1>2, <3>1 DEF Range
  <2> QED
    BY <2>1, <2>2
<1> QED
  BY <1>2, <1>3 DEF Range, t

BInv == ProfileOK(profile) /\ RequestedIsBacked

LEMMA BackedPrepareHit ==
  ASSUME IInv, BInv, NEW rip \in Rips, PrepareHit(rip)
  PROVE  BInv'
<1>1. PICK S : cache \in Seq(S)
  BY DEF IInv, CacheOK
<1>2. \A r : HasRip(cache, r) => HasRip(cache', r)
  BY <1>1, TouchRipKeeps DEF PrepareHit
<1>3. ProfileOK(profile') /\ profile'.requested \subseteq profile.requested
  BY RecordHitKeeps DEF PrepareHit, BInv
<1>4. RequestedIsBacked'
  BY <1>2, <1>3 DEF BInv, RequestedIsBacked, InFlight, IsCompiled, PrepareHit
<1> QED
  BY <1>3, <1>4 DEF BInv

LEMMA BackedPrepareStale ==
  ASSUME IInv, BInv, NEW rip \in Rips, PrepareStale(rip)
  PROVE  BInv'
<1>1. PICK S : cache \in Seq(S)
  BY DEF IInv, CacheOK
<1>2. \A r : r # rip /\ HasRip(cache, r) => HasRip(cache', r)
  BY <1>1, RemoveRipKeeps DEF PrepareStale
<1>3. PICK c : c = ClearRequested(profile, {rip})
  OBVIOUS
<1>4. PICK m : m = MarkRequested(c, rip)
  OBVIOUS
<1>5. ProfileOK(c) /\ c.requested \subseteq profile.requested
  BY <1>3, ClearRequestedKeeps DEF BInv
<1>6. ProfileOK(m) /\ m.requested \subseteq profile.requested \cup {rip}
  BY <1>4, <1>5, MarkRequestedKeeps
<1>7. profile' = RecordHit(m, rip, FALSE).profile
  BY <1>3, <1>4 DEF PrepareStale
<1>8. ProfileOK(profile') /\ profile'.requested \subseteq profile.requested \cup {rip}
  BY <1>6, <1>7, RecordHitKeeps
<1>9. Range(queue) \cup {rip} \subseteq Range(queue')
  BY RequestedQueues DEF PrepareStale, IInv
<1>10. RequestedIsBacked'
  BY <1>2, <1>8, <1>9 DEF BInv, RequestedIsBacked, InFlight, IsCompiled, PrepareStale
<1> QED
  BY <1>8, <1>10 DEF BInv

LEMMA BackedPrepareMiss ==
  ASSUME IInv, BInv, NEW rip \in Rips, PrepareMiss(rip)
  PROVE  BInv'
<1>1. PICK hit : hit = RecordHit(profile, rip, FALSE)
  OBVIOUS
<1>2. /\ ProfileOK(hit.profile) /\ hit.due \in BOOLEAN
      /\ hit.profile.requested \subseteq profile.requested \cup IF hit.due THEN {rip} ELSE {}
  BY <1>1, RecordHitKeeps DEF BInv
<1>3. profile' = hit.profile /\ queue' = IF hit.due THEN Requested(queue, rip) ELSE queue
  BY <1>1 DEF PrepareMiss
<1>4. cache' = cache /\ jobs' = jobs /\ failed' = failed
  BY DEF PrepareMiss, cacheVars
<1>5. CASE hit.due
  <2>1. Range(queue) \cup {rip} \subseteq Range(queue')
    BY <1>3, <1>5, RequestedQueues DEF IInv
  <2>2. profile'.requested \subseteq profile.requested \cup {rip}
    BY <1>2, <1>3, <1>5
  <2>3. RequestedIsBacked'
    BY <1>4, <2>1, <2>2 DEF BInv, RequestedIsBacked, InFlight, IsCompiled
  <2> QED
    BY <1>2, <1>3, <2>3 DEF BInv
<1>6. CASE ~hit.due
  <2>1. profile'.requested \subseteq profile.requested /\ queue' = queue
    BY <1>2, <1>3, <1>6
  <2>2. RequestedIsBacked'
    BY <1>4, <2>1 DEF BInv, RequestedIsBacked, InFlight, IsCompiled
  <2> QED
    BY <1>2, <1>3, <2>2 DEF BInv
<1> QED
  BY <1>2, <1>5, <1>6

LEMMA BackedInstall ==
  ASSUME IInv, BInv, NEW h, Block(h), InstallHandle(h),
         \A j \in Jobs : jobs'[j].rip = jobs[j].rip \/ jobs[j].rip = h.rip,
         failed' = failed
  PROVE  BInv'
<1>1. PICK S : cache \in Seq(S)
  BY DEF IInv, CacheOK
<1> DEFINE T == S \cup {h}
<1>2. cache \in Seq(T) /\ h \in T /\ h.rip \in Rips
  BY <1>1 DEF Block, Snapshotted
<1> HIDE DEF T
<1>3. CASE InstallValid(h)
  <2>1. PICK ins : ins = Insert(h)
    OBVIOUS
  <2>2. \A r : r = h.rip \/ HasRip(cache, r) => HasRip(ins.cache, r) \/ r \in ins.evicted
    BY <1>2, <2>1, InsertKeeps
  <2>3. cache' = ins.cache /\ profile' = ClearRequested(profile, ins.evicted) /\ queue' = queue
    BY <1>3, <2>1 DEF InstallValid
  <2>4. ProfileOK(profile') /\ profile'.requested = profile.requested \ ins.evicted
    BY <2>3, ClearRequestedKeeps DEF BInv
  <2>5. RequestedIsBacked'
    BY <2>2, <2>3, <2>4 DEF BInv, RequestedIsBacked, InFlight, IsCompiled
  <2> QED
    BY <2>4, <2>5 DEF BInv
<1>4. CASE InstallIgnored(h)
  <2>1. \A r : HasRip(cache, r) => HasRip(cache', r)
    BY <1>2, <1>4, TouchRipKeeps DEF InstallIgnored
  <2>2. HasRip(cache, h.rip) /\ profile' = profile /\ queue' = queue
    BY <1>4 DEF InstallIgnored, IsCompiled
  <2>3. RequestedIsBacked'
    BY <2>1, <2>2 DEF BInv, RequestedIsBacked, InFlight, IsCompiled
  <2> QED
    BY <2>2, <2>3 DEF BInv
<1>5. CASE InstallRejected(h)
  <2>1. \A r : r # h.rip /\ HasRip(cache, r) => HasRip(cache', r)
    BY <1>2, <1>5, RemoveRipKeeps DEF InstallRejected
  <2>2. PICK c : c = IF IsCompiled(h.rip) THEN ClearRequested(profile, {h.rip}) ELSE profile
    OBVIOUS
  <2>3. ProfileOK(c) /\ c.requested \subseteq profile.requested
    BY <2>2, ClearRequestedKeeps DEF BInv
  <2>4. profile' = MarkRequested(c, h.rip)
    BY <1>5, <2>2 DEF InstallRejected
  <2>5. ProfileOK(profile') /\ profile'.requested \subseteq profile.requested \cup {h.rip}
    BY <1>2, <2>3, <2>4, MarkRequestedKeeps
  <2>6. Range(queue) \cup {h.rip} \subseteq Range(queue')
    BY <1>2, <1>5, RequestedQueues DEF InstallRejected, IInv
  <2>7. RequestedIsBacked'
    BY <2>1, <2>5, <2>6 DEF BInv, RequestedIsBacked, InFlight, IsCompiled
  <2> QED
    BY <2>5, <2>7 DEF BInv
<1> QED
  BY <1>3, <1>4, <1>5 DEF InstallHandle

LEMMA BackedInvalidate ==
  ASSUME IInv, BInv, NEW rip \in Rips, InvalidateBlock(rip)
  PROVE  BInv'
<1>1. PICK S : cache \in Seq(S)
  BY DEF IInv, CacheOK
<1>2. \A r : r # rip /\ HasRip(cache, r) => HasRip(cache', r)
  BY <1>1, RemoveRipKeeps DEF InvalidateBlock
<1>3. ProfileOK(profile') /\ profile'.requested = profile.requested \ {rip}
  BY ClearRequestedKeeps DEF InvalidateBlock, BInv
<1>4. RequestedIsBacked'
  BY <1>2, <1>3 DEF BInv, RequestedIsBacked, InFlight, IsCompiled, InvalidateBlock
<1> QED
  BY <1>3, <1>4 DEF BInv

LEMMA BackedStartCompile ==
  ASSUME IInv, BInv, NEW j \in Jobs, StartCompile(j)
  PROVE  BInv'
<1>1. /\ jobs[j] = None /\ queue # << >> /\ queue' = Tail(queue)
      /\ cache' = cache /\ profile' = profile /\ failed' = failed \ {Head(queue)}
  BY DEF StartCompile, cacheVars
<1>2. Range(queue) \subseteq Range(queue') \cup {Head(queue)}
  BY <1>1, HeadOrTail DEF IInv
<1>3. jobs'[j].rip = Head(queue) /\ \A i \in Jobs : i # j => jobs'[i] = jobs[i]
  BY DEF IInv, StartCompile
<1>4. \A r \in profile.requested : jobs[j].rip # r
  BY <1>1, JitAssumption DEF None, BInv, ProfileOK
<1>5. RequestedIsBacked'
  BY <1>1, <1>2, <1>3, <1>4 DEF BInv, RequestedIsBacked, InFlight, IsCompiled
<1> QED
  BY <1>1, <1>5 DEF BInv

LEMMA BackedReadCode ==
  ASSUME IInv, BInv, NEW j \in Jobs, ReadCode(j)
  PROVE  BInv'
<1>1. cache' = cache /\ profile' = profile /\ queue' = queue /\ failed' = failed
  BY DEF ReadCode, cacheVars
<1>2. DOMAIN jobs[j] = {"rip", "meta", "code"} /\ jobs \in [Jobs -> Range(jobs)]
  BY DEF IInv, JobsOK, ReadCode, Compiling, Snapshotted
<1>3. \A i \in Jobs : jobs'[i].rip = jobs[i].rip
  BY <1>2 DEF ReadCode
<1>4. RequestedIsBacked'
  BY <1>1, <1>3 DEF BInv, RequestedIsBacked, InFlight, IsCompiled
<1> QED
  BY <1>1, <1>4 DEF BInv

LEMMA BackedFailCompile ==
  ASSUME IInv, BInv, NEW j \in Jobs, FailCompile(j)
  PROVE  BInv'
<1>1. /\ cache' = cache /\ profile' = profile /\ queue' = queue
      /\ failed' = failed \cup {jobs[j].rip}
  BY DEF FailCompile, cacheVars
<1>2. \A i \in Jobs : i # j => jobs'[i] = jobs[i]
  BY DEF FailCompile, IInv
<1>3. RequestedIsBacked'
  BY <1>1, <1>2 DEF BInv, RequestedIsBacked, InFlight, IsCompiled
<1> QED
  BY <1>1, <1>3 DEF BInv

LEMMA BackedFinishCompile ==
  ASSUME IInv, BInv, NEW j \in Jobs, NEW len \in Lens, FinishCompile(j, len)
  PROVE  BInv'
<1>1. PICK h : h = Compiled(j, len)
  OBVIOUS
<1>2. Block(h)
  <2>1. Compiling(jobs[j])
    BY DEF IInv, JobsOK, FinishCompile
  <2> QED
    BY <1>1, <2>1, CompiledIsBlock DEF FinishCompile
<1>3. h.rip = jobs[j].rip
  BY <1>1 DEF Compiled
<1>4. \A i \in Jobs : jobs'[i].rip = jobs[i].rip \/ jobs[i].rip = h.rip
  BY <1>3 DEF FinishCompile, IInv
<1> QED
  BY <1>1, <1>2, <1>4, BackedInstall DEF FinishCompile

LEMMA BackedInstallBlock ==
  ASSUME IInv, BInv, NEW rip \in Rips, NEW len \in Lens, InstallBlock(rip, len)
  PROVE  BInv'
<1>1. PICK h : h = [rip |-> rip, meta |-> SnapshotMeta(rip, len),
                    code |-> [p \in SpannedPages(rip, len) \cap Pages |-> mem[p]]]
  OBVIOUS
<1>2. len \in Nat \ {0}
  BY JitAssumption
<1>3. Block(h)
  BY <1>1, <1>2, FreshSnapshot DEF Block, IInv
<1> QED
  BY <1>1, <1>3, BackedInstall DEF InstallBlock

LEMMA BackedReset == ASSUME Reset PROVE BInv'
BY EmptyProfileOK DEF Reset, BInv, RequestedIsBacked

LEMMA BackedUnchanged ==
  ASSUME BInv, UNCHANGED <<cacheVars, profile, queue, jobs, failed>>
  PROVE  BInv'
BY DEF BInv, RequestedIsBacked, InFlight, IsCompiled, cacheVars

LEMMA BInvStep == IInv /\ BInv /\ [Next]_vars => BInv'
<1> SUFFICES ASSUME IInv, BInv, [Next]_vars PROVE BInv'
  OBVIOUS
<1>1. ASSUME NEW rip \in Rips, PrepareBlock(rip) PROVE BInv'
  BY <1>1, BackedPrepareHit, BackedPrepareStale, BackedPrepareMiss DEF PrepareBlock
<1>2. ASSUME NEW a, NEW len, GuestWrite(a, len) PROVE BInv'
  BY <1>2, BackedUnchanged DEF GuestWrite
<1>3. ASSUME NEW p \in Pages, DmaStore(p) \/ DmaNotify(p) PROVE BInv'
  BY <1>3, BackedUnchanged DEF DmaStore, DmaNotify
<1>4. ASSUME NEW j \in Jobs, CompileStep(j) PROVE BInv'
  BY <1>4, BackedStartCompile, BackedReadCode, BackedFinishCompile, BackedFailCompile
     DEF CompileStep
<1>5. ASSUME NEW rip \in Rips, NEW len \in Lens, InstallBlock(rip, len) PROVE BInv'
  BY <1>5, BackedInstallBlock, JitAssumption
<1>6. ASSUME NEW rip \in Rips, InvalidateBlock(rip) PROVE BInv'
  BY <1>6, BackedInvalidate
<1>7. CASE Reset
  BY <1>7, BackedReset
<1>8. CASE UNCHANGED vars
  BY <1>8, BackedUnchanged DEF vars, cacheVars
<1> QED
  BY <1>1, <1>2, <1>3, <1>4, <1>5, <1>6, <1>7, <1>8 DEF Next, RunStep

LEMMA BInvAlways == Spec => []BInv
<1>1. Init => BInv
  BY EmptyProfileOK DEF BInv, RequestedIsBacked, Init
<1> QED
  BY <1>1, BInvStep, IInvAlways, PTL DEF Spec

\* record_hit, mark_requested, eviction and reset keep the hotness profile and
\* its set of requested RIPs within the profile's capacity.
THEOREM ProfileStaysWithinCapacity == Spec => []ProfileWithinCapacity
<1>1. BInv => ProfileWithinCapacity
  BY DEF BInv, ProfileOK, ProfileWithinCapacity
<1> QED
  BY <1>1, BInvAlways, PTL

\* A request that is marked is never lost between the queue, the compilations
\* and the cache, through stale results, evictions and resets: only a failed
\* compilation leaves a mark with nothing behind it.
THEOREM RequestsStayBacked == Spec => []RequestedIsBacked
<1>1. BInv => RequestedIsBacked
  BY DEF BInv
<1> QED
  BY <1>1, BInvAlways, PTL

-----------------------------------------------------------------------------
(* Sums.                                                                   *)

\* f[k] is the sum of the first k numbers of w.
IsSum(f, w) ==
  /\ f \in [0 .. Len(w) -> Int] /\ f[0] = 0
  /\ \A k \in 1 .. Len(w) : f[k] = f[k - 1] + w[k]

\* A set of numbers that holds 0, and k + 1 with k, up to a bound, is all of them.
LEMMA UpTo ==
  ASSUME NEW n \in Nat, NEW P, 0 \in P, \A k \in 1 .. n : k - 1 \in P => k \in P
  PROVE  n \in P
<1> DEFINE T == (0 .. n) \ P
<1> SUFFICES ASSUME T # {} PROVE FALSE
  OBVIOUS
<1>1. T \in SUBSET Nat
  OBVIOUS
<1>2. PICK x \in T : \A y \in T : x <= y
  BY <1>1, LeastExists
<1>3. x \in 1 .. n /\ x - 1 \in 0 .. n /\ ~(x <= x - 1)
  OBVIOUS
<1>4. x - 1 \in P
  BY <1>2, <1>3
<1> QED
  BY <1>3, <1>4

LEMMA SumExists ==
  ASSUME NEW w \in Seq(Int)
  PROVE  \E f : IsSum(f, w)
<1> DEFINE N == Len(w)
           Upto(f, n) == /\ f \in [0 .. n -> Int] /\ f[0] = 0
                         /\ \A k \in 1 .. n : f[k] = f[k - 1] + w[k]
           P == {n \in 0 .. N : \E f : Upto(f, n)}
<1>1. N \in Nat
  OBVIOUS
<1>2. 0 \in P
  <2>1. Upto([k \in 0 .. 0 |-> 0], 0)
    OBVIOUS
  <2> HIDE DEF Upto
  <2> QED
    BY <1>1, <2>1
<1>3. ASSUME NEW n \in 1 .. N, n - 1 \in P PROVE n \in P
  <2>1. PICK f : Upto(f, n - 1)
    BY <1>3
  <2>2. w[n] \in Int /\ n - 1 \in 0 .. n - 1 /\ 0 \in 0 .. n - 1
    BY <1>1
  <2> DEFINE g == [k \in 0 .. n |-> IF k = n THEN f[n - 1] + w[n] ELSE f[k]]
  <2>3. \A k \in 0 .. n : k # n => k \in 0 .. n - 1
    BY <1>1
  <2>4. g \in [0 .. n -> Int] /\ g[0] = 0
    BY <1>1, <2>1, <2>2, <2>3
  <2>5. ASSUME NEW k \in 1 .. n PROVE g[k] = g[k - 1] + w[k]
    <3>1. k \in 0 .. n /\ k - 1 \in 0 .. n /\ k - 1 # n
      BY <1>1
    <3>2. g[k - 1] = f[k - 1]
      BY <3>1
    <3>3. CASE k = n
      BY <3>1, <3>2, <3>3
    <3>4. CASE k # n
      <4>1. k \in 1 .. n - 1
        BY <1>1, <3>4
      <4> QED
        BY <2>1, <3>1, <3>2, <3>4, <4>1
    <3> QED
      BY <3>3, <3>4
  <2>6. Upto(g, n)
    BY <2>4, <2>5
  <2>7. n \in 0 .. N
    BY <1>1
  <2> HIDE DEF Upto
  <2> QED
    BY <2>6, <2>7
<1> HIDE DEF P
<1>4. N \in P
  BY <1>1, <1>2, <1>3, UpTo
<1> QED
  BY <1>4 DEF P, IsSum

LEMMA SumUnique ==
  ASSUME NEW w \in Seq(Int), NEW f, NEW g, IsSum(f, w), IsSum(g, w)
  PROVE  f[Len(w)] = g[Len(w)]
<1> DEFINE N == Len(w)
           P == {k \in 0 .. N : f[k] = g[k]}
<1>1. N \in Nat
  OBVIOUS
<1>2. 0 \in P
  BY <1>1 DEF IsSum
<1>3. ASSUME NEW k \in 1 .. N, k - 1 \in P PROVE k \in P
  <2>1. f[k - 1] = g[k - 1] /\ f[k] = f[k - 1] + w[k] /\ g[k] = g[k - 1] + w[k]
    BY <1>3 DEF IsSum
  <2> QED
    BY <1>1, <2>1
<1> HIDE DEF P
<1>4. N \in P
  BY <1>1, <1>2, <1>3, UpTo
<1> QED
  BY <1>4 DEF P

\* The definition of Total chooses the sums.
LEMMA TotalIs ==
  ASSUME NEW w \in Seq(Int), NEW f, IsSum(f, w)
  PROVE  Total(w) = f[Len(w)] /\ Total(w) \in Int
<1> DEFINE N == Len(w)
<1>1. N \in Nat
  OBVIOUS
<1>2. f = [k \in 0 .. N |-> IF k = 0 THEN 0 ELSE f[k - 1] + w[k]]
  <2>1. f = [k \in 0 .. N |-> f[k]]
    BY DEF IsSum
  <2>2. \A k \in 0 .. N : f[k] = IF k = 0 THEN 0 ELSE f[k - 1] + w[k]
    <3>1. \A k \in 0 .. N : k # 0 => k \in 1 .. N
      BY <1>1
    <3> QED
      BY <3>1 DEF IsSum
  <2> QED
    BY <2>1, <2>2
<1>3. PICK g : g = [k \in 0 .. N |-> IF k = 0 THEN 0 ELSE g[k - 1] + w[k]] /\ Total(w) = g[N]
  BY <1>2 DEF Total
<1> DEFINE P == {k \in 0 .. N : g[k] = f[k]}
<1>4. 0 \in P
  <2>1. 0 \in 0 .. N
    BY <1>1
  <2> QED
    BY <1>3, <2>1 DEF IsSum
<1>5. ASSUME NEW k \in 1 .. N, k - 1 \in P PROVE k \in P
  <2>1. k \in 0 .. N /\ k # 0
    BY <1>1
  <2>2. g[k] = g[k - 1] + w[k]
    BY <1>3, <2>1
  <2>3. f[k] = f[k - 1] + w[k]
    BY DEF IsSum
  <2> QED
    BY <1>5, <2>1, <2>2, <2>3
<1> HIDE DEF P
<1>6. N \in P
  BY <1>1, <1>4, <1>5, UpTo
<1>7. g[N] = f[N] /\ f[N] \in Int
  BY <1>1, <1>6 DEF P, IsSum
<1> QED
  BY <1>3, <1>7

LEMMA TotalNat == ASSUME NEW w \in Seq(Nat) PROVE Total(w) \in Nat
<1> DEFINE N == Len(w)
<1>1. w \in Seq(Int) /\ N \in Nat
  OBVIOUS
<1>2. PICK f : IsSum(f, w)
  BY <1>1, SumExists
<1> DEFINE P == {k \in 0 .. N : f[k] \in Nat}
<1>3. 0 \in P
  BY <1>1, <1>2 DEF IsSum
<1>4. ASSUME NEW k \in 1 .. N, k - 1 \in P PROVE k \in P
  <2>1. f[k] = f[k - 1] + w[k] /\ w[k] \in Nat /\ f[k - 1] \in Nat
    BY <1>2, <1>4 DEF IsSum
  <2> QED
    BY <1>1, <2>1
<1> HIDE DEF P
<1>5. N \in P
  BY <1>1, <1>3, <1>4, UpTo
<1> QED
  BY <1>1, <1>2, <1>5, TotalIs DEF P

LEMMA TotalEmpty == ASSUME NEW w \in Seq(Int), Len(w) = 0 PROVE Total(w) = 0
<1>1. PICK f : IsSum(f, w)
  BY SumExists
<1> QED
  BY <1>1, TotalIs DEF IsSum

\* A number taken out of a sequence is taken out of its sum.
LEMMA TotalRemove ==
  ASSUME NEW w \in Seq(Int), NEW v \in Seq(Int), NEW i \in 1 .. Len(w), Len(v) = Len(w) - 1,
         \A k \in 1 .. i - 1 : v[k] = w[k], \A k \in i .. Len(w) - 1 : v[k] = w[k + 1]
  PROVE  Total(v) = Total(w) - w[i]
<1> DEFINE N == Len(w)
<1>1. PICK f : IsSum(f, w)
  BY SumExists
<1> DEFINE g == [k \in 0 .. N - 1 |-> IF k < i THEN f[k] ELSE f[k + 1] - w[i]]
<1>2. N \in Nat /\ i \in 1 .. N /\ w[i] \in Int /\ f[i] = f[i - 1] + w[i]
  BY <1>1 DEF IsSum
<1>3. f \in [0 .. N -> Int] /\ \A k \in 1 .. N : w[k] \in Int /\ f[k] = f[k - 1] + w[k]
  BY <1>1 DEF IsSum
<1> HIDE DEF N
<1>4. g \in [0 .. N - 1 -> Int] /\ g[0] = 0
  <2>1. \A k \in 0 .. N - 1 : k \in 0 .. N /\ k + 1 \in 0 .. N
    BY <1>2
  <2>2. \A k \in 0 .. N - 1 : f[k] \in Int /\ f[k + 1] - w[i] \in Int
    BY <1>2, <1>3, <2>1
  <2>3. 0 \in 0 .. N - 1 /\ 0 < i /\ f[0] = 0
    BY <1>1, <1>2 DEF IsSum
  <2> QED
    BY <2>2, <2>3
<1>5. ASSUME NEW k \in 1 .. N - 1 PROVE g[k] = g[k - 1] + v[k]
  <2>1. k \in 0 .. N - 1 /\ k - 1 \in 0 .. N - 1 /\ k \in 0 .. N /\ k - 1 \in 0 .. N
        /\ k + 1 \in 1 .. N /\ k \in 1 .. N
    BY <1>2
  <2>2. f[k] \in Int /\ f[k - 1] \in Int /\ f[k + 1] \in Int
    BY <1>2, <1>3, <2>1
  <2>3. (k + 1) - 1 = k /\ (k - 1) + 1 = k
    BY <1>2
  <2>4. f[k] = f[k - 1] + w[k] /\ f[k + 1] = f[k] + w[k + 1]
    BY <1>3, <2>1, <2>3
  <2>5. w[k] \in Int /\ w[k + 1] \in Int
    BY <1>3, <2>1
  <2>6. CASE k < i
    <3>1. g[k] = f[k] /\ g[k - 1] = f[k - 1] /\ v[k] = w[k]
      <4>1. k - 1 < i /\ k \in 1 .. i - 1
        BY <1>2, <2>6
      <4> QED
        BY <2>1, <2>6, <4>1
    <3> HIDE DEF g
    <3> QED
      BY <2>4, <3>1
  <2>7. CASE k = i
    <3>1. g[k] = f[k + 1] - w[i] /\ g[k - 1] = f[k - 1] /\ v[k] = w[k + 1]
      <4>1. k - 1 < i /\ ~(k < i) /\ k \in i .. N - 1
        BY <1>2, <2>7
      <4> QED
        BY <2>1, <4>1 DEF N
    <3> HIDE DEF g
    <3> QED
      BY <1>2, <2>2, <2>4, <2>5, <2>7, <3>1
  <2>8. CASE k > i
    <3>1. g[k] = f[k + 1] - w[i] /\ g[k - 1] = f[k] - w[i] /\ v[k] = w[k + 1]
      <4>1. ~(k - 1 < i) /\ ~(k < i) /\ k \in i .. N - 1
        BY <1>2, <2>8
      <4> QED
        BY <2>1, <2>3, <4>1 DEF N
    <3>2. \A x, y, z \in Int : (x + y) - z = (x - z) + y
      OBVIOUS
    <3>3. (f[k] + w[k + 1]) - w[i] = (f[k] - w[i]) + w[k + 1]
      BY <1>2, <2>2, <2>5, <3>2
    <3> HIDE DEF g
    <3> QED
      BY <2>4, <3>1, <3>3, Zenon
  <2> QED
    BY <1>2, <2>6, <2>7, <2>8
<1>6. IsSum(g, v)
  BY <1>4, <1>5 DEF IsSum, N
<1>7. g[N - 1] = f[N] - w[i]
  <2>1. N - 1 \in 0 .. N - 1 /\ (N - 1) + 1 = N
    BY <1>2
  <2>2. CASE N - 1 < i
    <3>1. i = N
      BY <1>2, <2>2
    <3>2. g[N - 1] = f[N - 1] /\ f[N] = f[N - 1] + w[i] /\ f[N - 1] \in Int
      BY <1>2, <1>3, <2>1, <2>2, <3>1
    <3> QED
      BY <1>2, <3>2
  <2>3. CASE ~(N - 1 < i)
    BY <2>1, <2>3
  <2> QED
    BY <2>2, <2>3
<1> HIDE DEF g
<1>8. Total(v) = g[N - 1] /\ Total(w) = f[N]
  BY <1>1, <1>6, TotalIs DEF N
<1> QED
  BY <1>7, <1>8

\* The sum of a sequence is that of its first k numbers and that of the rest.
LEMMA TotalSplit ==
  ASSUME NEW w \in Seq(Int), NEW a \in Seq(Int), NEW b \in Seq(Int),
         Len(w) = Len(a) + Len(b),
         \A k \in 1 .. Len(a) : a[k] = w[k], \A k \in 1 .. Len(b) : b[k] = w[Len(a) + k]
  PROVE  Total(w) = Total(a) + Total(b)
<1> DEFINE A == Len(a)
           B == Len(b)
<1>1. PICK f : IsSum(f, w)
  BY SumExists
<1>2. A \in Nat /\ B \in Nat /\ Len(w) = A + B
  OBVIOUS
<1> HIDE DEF A, B
<1>3. f \in [0 .. A + B -> Int]
  BY <1>1, <1>2 DEF IsSum
<1> DEFINE g == [k \in 0 .. A |-> f[k]]
           h == [k \in 0 .. B |-> f[A + k] - f[A]]
<1>4. \A k \in 0 .. A : k \in 0 .. A + B /\ f[k] \in Int
  BY <1>2, <1>3
<1>5. \A k \in 0 .. B : A + k \in 0 .. A + B /\ f[A + k] \in Int
  BY <1>2, <1>3
<1>6. f[A] \in Int /\ A + 0 = A /\ 0 \in 0 .. A /\ 0 \in 0 .. B
  BY <1>2, <1>4
<1>7. IsSum(g, a)
  <2>1. g \in [0 .. A -> Int] /\ g[0] = 0
    BY <1>1, <1>4, <1>6 DEF IsSum
  <2>2. ASSUME NEW k \in 1 .. A PROVE g[k] = g[k - 1] + a[k]
    <3>1. k \in 1 .. A + B /\ k \in 0 .. A /\ k - 1 \in 0 .. A
      BY <1>2
    <3>2. f[k] = f[k - 1] + w[k] /\ a[k] = w[k]
      BY <1>1, <1>2, <3>1 DEF IsSum, A
    <3> QED
      BY <3>1, <3>2
  <2> QED
    BY <2>1, <2>2 DEF IsSum, A
<1>8. IsSum(h, b)
  <2>1. h \in [0 .. B -> Int] /\ h[0] = 0
    BY <1>5, <1>6
  <2>2. ASSUME NEW k \in 1 .. B PROVE h[k] = h[k - 1] + b[k]
    <3>1. /\ A + k \in 1 .. A + B /\ k \in 0 .. B /\ k - 1 \in 0 .. B
          /\ A + (k - 1) = (A + k) - 1
      BY <1>2
    <3>2. f[A + k] = f[(A + k) - 1] + w[A + k] /\ b[k] = w[A + k]
      BY <1>1, <1>2, <3>1 DEF IsSum, A, B
    <3>3. w[A + k] \in Int /\ f[A + k] \in Int /\ f[A + (k - 1)] \in Int
      <4>1. w[A + k] \in Int
        BY <1>2, <3>1
      <4> QED
        BY <1>5, <3>1, <4>1
    <3>4. h[k] = f[A + k] - f[A] /\ h[k - 1] = f[A + (k - 1)] - f[A]
      BY <3>1
    <3> QED
      BY <1>6, <3>1, <3>2, <3>3, <3>4
  <2> QED
    BY <2>1, <2>2 DEF IsSum, B
<1>9. g[A] = f[A] /\ h[B] = f[A + B] - f[A] /\ f[A + B] \in Int
  BY <1>2, <1>3, <1>5
<1> HIDE DEF g, h
<1>10. Total(a) = g[A] /\ Total(b) = h[B] /\ Total(w) = f[A + B]
  BY <1>1, <1>2, <1>7, <1>8, TotalIs DEF A, B
<1> QED
  BY <1>6, <1>9, <1>10

-----------------------------------------------------------------------------
(* The limits of the code cache.                                           *)

Weights(c) == [i \in DOMAIN c |-> c[i].meta.byte_len]
Unique(c) == \A i, k \in 1 .. Len(c) : c[i].rip = c[k].rip => i = k
Sized(S) == \A h \in S : h.meta.byte_len \in Nat

LEMMA WeightsOf ==
  ASSUME NEW S, Sized(S), NEW c \in Seq(S)
  PROVE  /\ Weights(c) \in Seq(Nat) /\ Weights(c) \in Seq(Int) /\ Len(Weights(c)) = Len(c)
         /\ \A i \in 1 .. Len(c) : Weights(c)[i] = c[i].meta.byte_len
         /\ Bytes(c) = Total(Weights(c)) /\ Bytes(c) \in Nat
<1> DEFINE N == Len(c)
<1>1. N \in Nat /\ DOMAIN c = 1 .. N /\ \A i \in 1 .. N : c[i] \in S
  OBVIOUS
<1>2. \A i \in 1 .. N : c[i].meta.byte_len \in Nat
  BY <1>1 DEF Sized
<1>3. Weights(c) \in [1 .. N -> Nat]
  BY <1>1, <1>2 DEF Weights
<1>4. Weights(c) \in Seq(Nat) /\ Weights(c) \in Seq(Int) /\ Len(Weights(c)) = N
  BY <1>1, <1>3
<1>5. \A i \in 1 .. N : Weights(c)[i] = c[i].meta.byte_len
  BY <1>1 DEF Weights
<1>6. Bytes(c) = Total(Weights(c))
  BY DEF Bytes, Weights
<1> QED
  BY <1>4, <1>5, <1>6, TotalNat

LEMMA BytesRemoveAt ==
  ASSUME NEW S, Sized(S), NEW c \in Seq(S), NEW i \in 1 .. Len(c)
  PROVE  Bytes(RemoveAt(c, i)) = Bytes(c) - c[i].meta.byte_len
<1> DEFINE d == RemoveAt(c, i)
           N == Len(c)
<1>1. /\ d \in Seq(S) /\ Len(d) = N - 1 /\ N \in Nat
      /\ \A k \in 1 .. i - 1 : d[k] = c[k]
      /\ \A k \in i .. N - 1 : d[k] = c[k + 1]
  BY RemoveAtProperties
<1> HIDE DEF d
<1> DEFINE w == Weights(c)
           v == Weights(d)
<1>2. /\ w \in Seq(Int) /\ Len(w) = N /\ \A k \in 1 .. N : w[k] = c[k].meta.byte_len
      /\ Bytes(c) = Total(w)
  BY WeightsOf
<1>3. /\ v \in Seq(Int) /\ Len(v) = N - 1 /\ \A k \in 1 .. N - 1 : v[k] = d[k].meta.byte_len
      /\ Bytes(d) = Total(v)
  BY <1>1, WeightsOf
<1> HIDE DEF w, v
<1>4. i \in 1 .. N
  OBVIOUS
<1> HIDE DEF N
<1>5. ASSUME NEW k \in 1 .. i - 1 PROVE v[k] = w[k]
  <2>1. k \in 1 .. N /\ k \in 1 .. N - 1
    BY <1>1, <1>4
  <2> QED
    BY <1>1, <1>2, <1>3, <2>1
<1>6. ASSUME NEW k \in i .. N - 1 PROVE v[k] = w[k + 1]
  <2>1. k + 1 \in 1 .. N /\ k \in 1 .. N - 1
    BY <1>1, <1>4
  <2> QED
    BY <1>1, <1>2, <1>3, <2>1
<1>7. Total(v) = Total(w) - w[i]
  BY <1>2, <1>3, <1>4, <1>5, <1>6, TotalRemove
<1> QED
  BY <1>2, <1>3, <1>4, <1>7 DEF d

LEMMA BytesPrepend ==
  ASSUME NEW S, Sized(S), NEW h \in S, NEW d \in Seq(S)
  PROVE  Bytes(<<h>> \o d) = h.meta.byte_len + Bytes(d)
<1> DEFINE c == <<h>> \o d
           N == Len(d)
<1>1. /\ c \in Seq(S) /\ Len(c) = N + 1 /\ c[1] = h /\ N \in Nat
      /\ \A i \in 1 .. N : c[i + 1] = d[i]
  BY PrependProperties
<1> HIDE DEF c
<1> DEFINE w == Weights(c)
           v == Weights(d)
<1>2. /\ w \in Seq(Int) /\ Len(w) = N + 1 /\ \A k \in 1 .. N + 1 : w[k] = c[k].meta.byte_len
      /\ Bytes(c) = Total(w) /\ Bytes(c) \in Nat
  BY <1>1, WeightsOf
<1>3. /\ v \in Seq(Int) /\ Len(v) = N /\ \A k \in 1 .. N : v[k] = d[k].meta.byte_len
      /\ Bytes(d) = Total(v) /\ Bytes(d) \in Nat
  BY WeightsOf
<1> HIDE DEF w, v, N
<1>4. ASSUME NEW k \in 1 .. N PROVE v[k] = w[k + 1]
  <2>1. k + 1 \in 1 .. N + 1
    BY <1>1
  <2> QED
    BY <1>1, <1>2, <1>3, <2>1
<1>5. Total(v) = Total(w) - w[1]
  <2>1. 1 \in 1 .. Len(w) /\ Len(v) = Len(w) - 1
    BY <1>1, <1>2, <1>3
  <2>2. \A k \in 1 .. 1 - 1 : v[k] = w[k]
    OBVIOUS
  <2>3. \A k \in 1 .. Len(w) - 1 : v[k] = w[k + 1]
    BY <1>1, <1>2, <1>4
  <2> QED
    BY <1>2, <1>3, <2>1, <2>2, <2>3, TotalRemove
<1>6. w[1] = h.meta.byte_len /\ h.meta.byte_len \in Nat
  <2>1. 1 \in 1 .. N + 1
    BY <1>1
  <2> QED
    BY <1>1, <1>2, <2>1 DEF Sized
<1> QED
  BY <1>2, <1>3, <1>5, <1>6 DEF c

LEMMA BytesSplit ==
  ASSUME NEW S, Sized(S), NEW c \in Seq(S), NEW k \in 0 .. Len(c)
  PROVE  Bytes(c) = Bytes(SubSeq(c, 1, k)) + Bytes(SubSeq(c, k + 1, Len(c)))
<1> DEFINE N == Len(c)
           a == SubSeq(c, 1, k)
           b == SubSeq(c, k + 1, N)
<1>1. /\ a \in Seq(S) /\ Len(a) = k /\ \A i \in 1 .. k : a[i] = c[i]
      /\ b \in Seq(S) /\ Len(b) = N - k /\ \A i \in 1 .. N - k : b[i] = c[k + i]
  BY SplitProperties
<1>2. N \in Nat /\ k \in 0 .. N
  OBVIOUS
<1> HIDE DEF a, b
<1> DEFINE w == Weights(c)
           u == Weights(a)
           v == Weights(b)
<1>3. /\ w \in Seq(Int) /\ Len(w) = N /\ \A i \in 1 .. N : w[i] = c[i].meta.byte_len
      /\ Bytes(c) = Total(w)
  BY WeightsOf
<1>4. /\ u \in Seq(Int) /\ Len(u) = k /\ \A i \in 1 .. k : u[i] = a[i].meta.byte_len
      /\ Bytes(a) = Total(u)
  BY <1>1, WeightsOf
<1>5. /\ v \in Seq(Int) /\ Len(v) = N - k /\ \A i \in 1 .. N - k : v[i] = b[i].meta.byte_len
      /\ Bytes(b) = Total(v)
  BY <1>1, WeightsOf
<1> HIDE DEF u, v, w, N
<1>6. ASSUME NEW i \in 1 .. k PROVE u[i] = w[i]
  <2>1. i \in 1 .. N
    BY <1>2
  <2> QED
    BY <1>1, <1>3, <1>4, <2>1
<1>7. ASSUME NEW i \in 1 .. N - k PROVE v[i] = w[k + i]
  <2>1. k + i \in 1 .. N
    BY <1>2
  <2> QED
    BY <1>1, <1>3, <1>5, <2>1
<1>8. Len(w) = Len(u) + Len(v)
  BY <1>2, <1>3, <1>4, <1>5
<1>9. Total(w) = Total(u) + Total(v)
  <2>1. \A i \in 1 .. Len(u) : u[i] = w[i]
    BY <1>4, <1>6
  <2>2. \A i \in 1 .. Len(v) : v[i] = w[Len(u) + i]
    BY <1>4, <1>5, <1>7
  <2> QED
    BY <1>3, <1>4, <1>5, <1>8, <2>1, <2>2, TotalSplit
<1> QED
  BY <1>3, <1>4, <1>5, <1>9 DEF a, b, N

\* One block per RIP, through removal and insertion at the front.
LEMMA RemoveAtUnique ==
  ASSUME NEW S, NEW c \in Seq(S), NEW i \in 1 .. Len(c), Unique(c)
  PROVE  Unique(RemoveAt(c, i)) /\ ~HasRip(RemoveAt(c, i), c[i].rip)
<1> DEFINE d == RemoveAt(c, i)
           N == Len(c)
<1>1. /\ d \in Seq(S) /\ Len(d) = N - 1 /\ N \in Nat
      /\ \A k \in 1 .. i - 1 : d[k] = c[k]
      /\ \A k \in i .. N - 1 : d[k] = c[k + 1]
  <2>1. c \in Seq(S) /\ i \in 1 .. Len(c) /\ N \in Nat
    OBVIOUS
  <2> QED
    BY <2>1, RemoveAtProperties, Zenon
<1>2. i \in 1 .. N /\ \A k, l \in 1 .. N : c[k].rip = c[l].rip => k = l
  BY DEF Unique
<1> HIDE DEF d, N
<1> DEFINE m(k) == IF k < i THEN k ELSE k + 1
<1>3. ASSUME NEW k \in 1 .. N - 1
      PROVE  d[k] = c[m(k)] /\ m(k) \in 1 .. N /\ m(k) # i
  <2>1. CASE k < i
    <3>1. k \in 1 .. i - 1 /\ k \in 1 .. N
      BY <1>1, <1>2, <2>1
    <3> QED
      BY <1>1, <2>1, <3>1
  <2>2. CASE ~(k < i)
    <3>1. k \in i .. N - 1 /\ k + 1 \in 1 .. N /\ k + 1 # i
      BY <1>1, <1>2, <2>2
    <3> QED
      BY <1>1, <2>2, <3>1
  <2> QED
    BY <2>1, <2>2
<1>4. \A k, l \in 1 .. N - 1 : m(k) = m(l) => k = l
  BY <1>1, <1>2
<1> HIDE DEF m
<1>5. DOMAIN d = 1 .. N - 1 /\ Len(d) = N - 1
  BY <1>1
<1>6. Unique(d)
  BY <1>2, <1>3, <1>4, <1>5 DEF Unique
<1>7. ~HasRip(d, c[i].rip)
  BY <1>2, <1>3, <1>5 DEF HasRip
<1> QED
  BY <1>6, <1>7 DEF d

LEMMA PrependUnique ==
  ASSUME NEW S, NEW h \in S, NEW d \in Seq(S), Unique(d), ~HasRip(d, h.rip)
  PROVE  Unique(<<h>> \o d)
<1> DEFINE c == <<h>> \o d
           N == Len(d)
<1>1. /\ Len(c) = N + 1 /\ c[1] = h /\ N \in Nat
      /\ \A i \in 1 .. N : c[i + 1] = d[i]
  BY PrependProperties
<1>2. /\ \A i \in 1 .. N : d[i].rip # h.rip
      /\ \A i, k \in 1 .. N : d[i].rip = d[k].rip => i = k
  <2>1. DOMAIN d = 1 .. N
    OBVIOUS
  <2> QED
    BY <2>1 DEF Unique, HasRip
<1> HIDE DEF c, N
<1>3. ASSUME NEW i \in 1 .. N + 1, i # 1
      PROVE  i - 1 \in 1 .. N /\ c[i] = d[i - 1]
  <2>1. i - 1 \in 1 .. N /\ (i - 1) + 1 = i
    BY <1>1, <1>3
  <2> QED
    BY <1>1, <2>1
<1>4. ASSUME NEW i \in 1 .. N + 1, NEW k \in 1 .. N + 1, c[i].rip = c[k].rip PROVE i = k
  <2>1. CASE i = 1 \/ k = 1
    BY <1>1, <1>2, <1>3, <1>4, <2>1
  <2>2. CASE i # 1 /\ k # 1
    <3>1. i - 1 = k - 1
      BY <1>2, <1>3, <1>4, <2>2
    <3> QED
      BY <1>1, <3>1
  <2> QED
    BY <2>1, <2>2
<1> QED
  BY <1>1, <1>4 DEF Unique, c

LEMMA TouchRipLimits ==
  ASSUME NEW S, Sized(S), NEW c \in Seq(S), NEW rip, Unique(c)
  PROVE  LET t == TouchRip(c, rip)
         IN  Unique(t) /\ Bytes(t) = Bytes(c) /\ Len(t) = Len(c)
<1>1. CASE ~HasRip(c, rip)
  BY <1>1 DEF TouchRip
<1>2. CASE HasRip(c, rip)
  <2> DEFINE i == CacheIndex(c, rip)
             d == RemoveAt(c, i)
             t == <<c[i]>> \o d
  <2>1. i \in 1 .. Len(c) /\ c[i] \in S /\ Len(c) \in Nat
    BY <1>2, CacheIndexOf
  <2> HIDE DEF i
  <2>2. d \in Seq(S) /\ Len(d) = Len(c) - 1 /\ Unique(d) /\ ~HasRip(d, c[i].rip)
    BY <2>1, RemoveAtProperties, RemoveAtUnique
  <2>3. Bytes(d) = Bytes(c) - c[i].meta.byte_len
    BY <2>1, BytesRemoveAt
  <2> HIDE DEF d
  <2>4. Unique(t) /\ Bytes(t) = c[i].meta.byte_len + Bytes(d) /\ Len(t) = Len(d) + 1
    BY <2>1, <2>2, PrependUnique, BytesPrepend, PrependProperties
  <2>5. Bytes(c) \in Nat /\ c[i].meta.byte_len \in Nat
    BY <2>1, WeightsOf DEF Sized
  <2>6. TouchRip(c, rip) = t
    BY <1>2 DEF TouchRip, Touch, i, d
  <2> HIDE DEF t
  <2> QED
    BY <2>1, <2>2, <2>3, <2>4, <2>5, <2>6
<1> QED
  BY <1>1, <1>2

LEMMA RemoveRipLimits ==
  ASSUME NEW S, Sized(S), NEW c \in Seq(S), NEW rip, Unique(c)
  PROVE  LET d == RemoveRip(c, rip)
         IN  /\ Unique(d) /\ ~HasRip(d, rip) /\ Len(d) \in Nat /\ Len(d) <= Len(c)
             /\ Bytes(d) = Bytes(c) - ByteLenOf(c, rip) /\ ByteLenOf(c, rip) \in Nat
<1>1. CASE ~HasRip(c, rip)
  <2>1. RemoveRip(c, rip) = c /\ ByteLenOf(c, rip) = 0 /\ Len(c) \in Nat /\ Bytes(c) \in Nat
    BY <1>1, WeightsOf DEF RemoveRip, ByteLenOf
  <2> QED
    BY <1>1, <2>1
<1>2. CASE HasRip(c, rip)
  <2> DEFINE i == CacheIndex(c, rip)
             d == RemoveAt(c, i)
  <2>1. i \in 1 .. Len(c) /\ c[i] \in S /\ c[i].rip = rip /\ Len(c) \in Nat
    BY <1>2, CacheIndexOf
  <2> HIDE DEF i
  <2>2. Len(d) = Len(c) - 1 /\ Unique(d) /\ ~HasRip(d, rip)
    BY <2>1, RemoveAtProperties, RemoveAtUnique
  <2>3. Bytes(d) = Bytes(c) - c[i].meta.byte_len
    BY <2>1, BytesRemoveAt
  <2>4. c[i].meta.byte_len \in Nat
    BY <2>1 DEF Sized
  <2>5. RemoveRip(c, rip) = d /\ ByteLenOf(c, rip) = c[i].meta.byte_len
    BY <1>2 DEF RemoveRip, ByteLenOf, i
  <2> HIDE DEF d
  <2> QED
    BY <2>1, <2>2, <2>3, <2>4, <2>5
<1> QED
  BY <1>1, <1>2

\* evict_if_needed leaves the cache within both limits.
LEMMA InsertLimits ==
  ASSUME NEW S, Sized(S), cache \in Seq(S), Unique(cache), current_bytes = Bytes(cache),
         NEW h \in S
  PROVE  LET ins == Insert(h)
         IN  /\ Unique(ins.cache) /\ ins.bytes = Bytes(ins.cache)
             /\ ~OverLimit(Len(ins.cache), ins.bytes)
<1> DEFINE d == RemoveRip(cache, h.rip)
           c == <<h>> \o d
           bytes == current_bytes - ByteLenOf(cache, h.rip) + h.meta.byte_len
           k == Kept(c, bytes)
           N == Len(c)
           kept == SubSeq(c, 1, k)
           gone == SubSeq(c, k + 1, N)
<1>1. /\ Insert(h).cache = kept
      /\ Insert(h).bytes = bytes - Bytes(gone)
  BY DEF Insert
<1>2. /\ d \in Seq(S) /\ Unique(d) /\ ~HasRip(d, h.rip)
      /\ Bytes(d) = Bytes(cache) - ByteLenOf(cache, h.rip)
      /\ ByteLenOf(cache, h.rip) \in Nat /\ Bytes(cache) \in Nat /\ h.meta.byte_len \in Nat
  BY RemoveRipKeeps, RemoveRipLimits, WeightsOf DEF Sized
<1> HIDE DEF d
<1>3. c \in Seq(S) /\ Unique(c) /\ Bytes(c) = h.meta.byte_len + Bytes(d) /\ N \in Nat
  BY <1>2, PrependProperties, PrependUnique, BytesPrepend
<1>4. bytes = Bytes(c) /\ Bytes(c) \in Nat
  <2>1. \A x, y, z \in Nat : (x - y) + z = z + (x - y)
    OBVIOUS
  <2>2. (Bytes(cache) - ByteLenOf(cache, h.rip)) + h.meta.byte_len
          = h.meta.byte_len + (Bytes(cache) - ByteLenOf(cache, h.rip))
    BY <1>2, <2>1
  <2>3. Bytes(c) \in Nat
    BY <1>3, WeightsOf
  <2> HIDE DEF c
  <2> QED
    BY <1>2, <1>3, <2>2, <2>3, Zenon
<1> HIDE DEF c, bytes
<1>5. k \in 0 .. N
  BY <1>3, KeptInRange
<1>6. k # 0 => ~OverLimit(k, bytes - Bytes(gone))
  <2> DEFINE T == {0} \cup {j \in 1 .. N : ~OverLimit(j, bytes - Bytes(SubSeq(c, j + 1, N)))}
  <2>1. T \in SUBSET Nat /\ T # {} /\ \A x \in T : x <= N
    BY <1>3
  <2>2. k = Max(T)
    BY DEF Kept
  <2> HIDE DEF T
  <2>3. k \in T
    BY <1>3, <2>1, <2>2, MaxIsGreatest
  <2> QED
    BY <2>3 DEF T
<1> HIDE DEF k
<1>7. /\ kept \in Seq(S) /\ Len(kept) = k /\ \A i \in 1 .. k : kept[i] = c[i]
      /\ gone \in Seq(S) /\ Bytes(c) = Bytes(kept) + Bytes(gone)
  BY <1>3, <1>5, SplitProperties, BytesSplit
<1> HIDE DEF kept, gone
<1>8. Bytes(kept) \in Nat /\ Bytes(gone) \in Nat
  BY <1>7, WeightsOf
<1>9. bytes - Bytes(gone) = Bytes(kept)
  BY <1>4, <1>7, <1>8
<1>10. Unique(kept)
  <2>1. \A i \in 1 .. k : i \in 1 .. N
    BY <1>3, <1>5
  <2> QED
    BY <1>3, <1>7, <2>1 DEF Unique
<1>11. ~OverLimit(k, Bytes(kept))
  <2>1. CASE k # 0
    BY <1>6, <1>9, <2>1
  <2>2. CASE k = 0
    <3>1. Weights(kept) \in Seq(Int) /\ Len(Weights(kept)) = 0 /\ Bytes(kept) = Total(Weights(kept))
      BY <1>7, <2>2, WeightsOf
    <3>2. Bytes(kept) = 0
      BY <3>1, TotalEmpty
    <3> QED
      BY <2>2, <3>2, JitAssumption DEF OverLimit
  <2> QED
    BY <2>1, <2>2
<1> QED
  BY <1>1, <1>7, <1>9, <1>10, <1>11

Limits(c, bytes) == Unique(c) /\ bytes = Bytes(c) /\ ~OverLimit(Len(c), bytes)

LEMMA SizedBlocks == ASSUME IInv PROVE \E S : Sized(S) /\ cache \in Seq(S) /\ \A h \in S : Block(h)
<1>1. PICK S : cache \in Seq(S) /\ \A h \in S : Block(h)
  BY DEF IInv, CacheOK
<1>2. Sized(S)
  BY <1>1, JitAssumption DEF Sized, Block
<1> QED
  BY <1>1, <1>2

LEMMA LimitsAre == ASSUME NEW S, cache \in Seq(S) PROVE CacheWithinLimits <=> Limits(cache, current_bytes)
<1>1. DOMAIN cache = 1 .. Len(cache)
  OBVIOUS
<1> QED
  BY <1>1 DEF CacheWithinLimits, Limits, Unique

LEMMA RemoveRipWithin ==
  ASSUME NEW S, Sized(S), NEW c \in Seq(S), NEW rip, NEW bytes, Limits(c, bytes)
  PROVE  Limits(RemoveRip(c, rip), bytes - ByteLenOf(c, rip))
<1>1. PICK d : d = RemoveRip(c, rip)
  OBVIOUS
<1>2. /\ Unique(d) /\ Len(d) \in Nat /\ Len(d) <= Len(c) /\ Len(c) \in Nat
      /\ Bytes(d) = Bytes(c) - ByteLenOf(c, rip)
      /\ ByteLenOf(c, rip) \in Nat /\ Bytes(c) \in Nat /\ bytes = Bytes(c)
  BY <1>1, RemoveRipLimits, WeightsOf DEF Limits
<1>3. ~OverLimit(Len(d), bytes - ByteLenOf(c, rip))
  BY <1>2, JitAssumption DEF OverLimit, Limits
<1> QED
  BY <1>1, <1>2, <1>3 DEF Limits

LEMMA EmptyWithin == Limits(<< >>, 0)
<1>1. << >> \in Seq({}) /\ Len(<< >>) = 0 /\ Sized({})
  BY DEF Sized
<1>2. Bytes(<< >>) = 0
  BY <1>1, WeightsOf, TotalEmpty
<1> QED
  BY <1>1, <1>2, JitAssumption DEF Limits, Unique, OverLimit

LEMMA LimitsStep == IInv /\ CacheWithinLimits /\ [Next]_vars => CacheWithinLimits'
<1> SUFFICES ASSUME IInv, CacheWithinLimits, [Next]_vars PROVE CacheWithinLimits'
  OBVIOUS
<1>1. PICK S : Sized(S) /\ cache \in Seq(S) /\ \A h \in S : Block(h)
  BY SizedBlocks
<1>2. Limits(cache, current_bytes)
  BY <1>1, LimitsAre
<1>3. ASSUME UNCHANGED cacheVars PROVE CacheWithinLimits'
  BY <1>3 DEF CacheWithinLimits, cacheVars
<1>4. ASSUME NEW T, cache' \in Seq(T), Limits(cache', current_bytes') PROVE CacheWithinLimits'
  <2>1. DOMAIN cache' = 1 .. Len(cache')
    BY <1>4
  <2> QED
    BY <1>4, <2>1 DEF CacheWithinLimits, Limits, Unique
<1>5. ASSUME NEW rip, cache' = TouchRip(cache, rip), current_bytes' = current_bytes
      PROVE  CacheWithinLimits'
  <2>1. PICK t : t = cache'
    OBVIOUS
  <2>2. t \in Seq(S) /\ Unique(t) /\ Bytes(t) = Bytes(cache) /\ Len(t) = Len(cache)
    BY <1>1, <1>2, <1>5, <2>1, TouchRipKeeps, TouchRipLimits DEF Limits
  <2>3. Limits(t, current_bytes')
    BY <1>2, <1>5, <2>2 DEF Limits
  <2> QED
    BY <1>4, <2>1, <2>2, <2>3
<1>6. ASSUME NEW rip, cache' = RemoveRip(cache, rip),
             current_bytes' = current_bytes - ByteLenOf(cache, rip)
      PROVE  CacheWithinLimits'
  BY <1>1, <1>2, <1>4, <1>6, RemoveRipKeeps, RemoveRipWithin
<1>7. ASSUME NEW h, Block(h), InstallHandle(h) PROVE CacheWithinLimits'
  <2>1. CASE InstallValid(h)
    <3> DEFINE T == S \cup {h}
    <3>1. cache \in Seq(T) /\ h \in T /\ Sized(T)
      <4>1. h.meta.byte_len \in Nat
        BY <1>7, JitAssumption DEF Block
      <4> QED
        BY <1>1, <4>1 DEF Sized
    <3> HIDE DEF T
    <3>2. PICK ins : ins = Insert(h)
      OBVIOUS
    <3>3. ins.cache \in Seq(T) /\ Limits(ins.cache, ins.bytes)
      BY <1>2, <3>1, <3>2, InsertKeeps, InsertLimits DEF Limits
    <3>4. cache' = ins.cache /\ current_bytes' = ins.bytes
      BY <2>1, <3>2 DEF InstallValid
    <3> QED
      BY <1>4, <3>3, <3>4
  <2>2. CASE InstallIgnored(h)
    BY <1>5, <2>2 DEF InstallIgnored
  <2>3. CASE InstallRejected(h)
    BY <1>6, <2>3 DEF InstallRejected
  <2> QED
    BY <1>7, <2>1, <2>2, <2>3 DEF InstallHandle
<1>8. ASSUME NEW rip \in Rips, PrepareBlock(rip) PROVE CacheWithinLimits'
  BY <1>3, <1>5, <1>6, <1>8 DEF PrepareBlock, PrepareHit, PrepareStale, PrepareMiss
<1>9. ASSUME NEW a, NEW len, GuestWrite(a, len) PROVE CacheWithinLimits'
  BY <1>3, <1>9 DEF GuestWrite
<1>10. ASSUME NEW p \in Pages, DmaStore(p) \/ DmaNotify(p) PROVE CacheWithinLimits'
  BY <1>3, <1>10 DEF DmaStore, DmaNotify
<1>11. ASSUME NEW j \in Jobs, CompileStep(j) PROVE CacheWithinLimits'
  <2>1. ASSUME NEW len \in Lens, FinishCompile(j, len) PROVE CacheWithinLimits'
    <3>1. Compiling(jobs[j])
      BY <2>1 DEF IInv, JobsOK, FinishCompile
    <3>2. Block(Compiled(j, len))
      BY <2>1, <3>1, CompiledIsBlock DEF FinishCompile
    <3> QED
      BY <1>7, <2>1, <3>2 DEF FinishCompile
  <2>2. CASE StartCompile(j) \/ ReadCode(j) \/ FailCompile(j)
    BY <1>3, <2>2 DEF StartCompile, ReadCode, FailCompile
  <2> QED
    BY <1>11, <2>1, <2>2 DEF CompileStep
<1>12. ASSUME NEW rip \in Rips, NEW len \in Lens, InstallBlock(rip, len)
       PROVE  CacheWithinLimits'
  <2>1. PICK h : h = [rip |-> rip, meta |-> SnapshotMeta(rip, len),
                      code |-> [p \in SpannedPages(rip, len) \cap Pages |-> mem[p]]]
    OBVIOUS
  <2>2. len \in Nat \ {0} /\ rip \in Rips
    BY JitAssumption
  <2>3. Block(h)
    BY <2>1, <2>2, FreshSnapshot DEF Block, IInv
  <2> QED
    BY <1>7, <1>12, <2>1, <2>3 DEF InstallBlock
<1>13. ASSUME NEW rip \in Rips, InvalidateBlock(rip) PROVE CacheWithinLimits'
  BY <1>6, <1>13 DEF InvalidateBlock
<1>14. CASE Reset
  <2>1. cache' = << >> /\ current_bytes' = 0 /\ << >> \in Seq({})
    BY <1>14 DEF Reset
  <2> QED
    BY <1>4, <2>1, EmptyWithin
<1>15. CASE UNCHANGED vars
  BY <1>3, <1>15 DEF vars, cacheVars
<1> QED
  BY <1>8, <1>9, <1>10, <1>11, <1>12, <1>13, <1>14, <1>15 DEF Next, RunStep

\* insert, get_cloned, remove and evict_if_needed keep one block per RIP, the
\* byte count equal to the sum of the blocks that are cached, and both limits.
THEOREM CacheStaysWithinLimits == Spec => []CacheWithinLimits
<1>1. Init => CacheWithinLimits
  <2>1. Init => cache = << >> /\ current_bytes = 0 /\ cache \in Seq({})
    BY DEF Init
  <2> QED
    BY <2>1, EmptyWithin, LimitsAre
<1> QED
  BY <1>1, LimitsStep, IInvAlways, PTL DEF Spec

-----------------------------------------------------------------------------
(* Types.                                                                  *)

\* A reset changes every page once; the bounded stores account for the rest.
TInv ==
  /\ resets \in 0 .. MaxResets /\ generation = resets
  /\ mem \in [Pages -> Nat] /\ unnotified \subseteq Pages
  /\ \A p \in Pages : resets <= mem[p] /\ mem[p] <= resets + MaxStores
  /\ prepared = None \/ Handle(prepared)
  /\ failed \subseteq Rips

LEMMA StoresBound ==
  ASSUME mem \in [Pages -> Nat], resets \in Nat, \A p \in Pages : resets <= mem[p],
         NEW p \in Pages
  PROVE  Stores \in Nat /\ mem[p] - resets <= Stores
<1> DEFINE w == [i \in 1 .. VersionsLen |-> mem[i - 1] - resets]
<1>1. VersionsLen \in Nat /\ p + 1 \in 1 .. VersionsLen /\ (p + 1) - 1 = p
  BY JitAssumption DEF Pages
<1>2. \A i \in 1 .. VersionsLen : mem[i - 1] - resets \in Nat
  <2>1. \A i \in 1 .. VersionsLen : i - 1 \in Pages
    BY <1>1 DEF Pages
  <2>2. \A i \in 1 .. VersionsLen : mem[i - 1] \in Nat /\ resets <= mem[i - 1]
    BY <2>1
  <2> QED
    BY <2>2
<1>3. w \in Seq(Nat) /\ w \in Seq(Int) /\ Len(w) = VersionsLen
  BY <1>1, <1>2
<1>4. w[p + 1] = mem[p] - resets
  BY <1>1
<1>5. Stores = Total(w)
  BY DEF Stores
<1> HIDE DEF w
<1>6. PICK v : v = RemoveAt(w, p + 1)
  OBVIOUS
<1>7. /\ v \in Seq(Nat) /\ Len(v) = Len(w) - 1
      /\ \A k \in 1 .. (p + 1) - 1 : v[k] = w[k]
      /\ \A k \in p + 1 .. Len(w) - 1 : v[k] = w[k + 1]
  BY <1>1, <1>3, <1>6, RemoveAtProperties
<1>8. Total(v) = Total(w) - w[p + 1]
  <2>1. v \in Seq(Int) /\ p + 1 \in 1 .. Len(w)
    BY <1>1, <1>3, <1>7
  <2> QED
    BY <1>3, <1>7, <2>1, TotalRemove
<1>9. Total(v) \in Nat /\ Total(w) \in Nat /\ w[p + 1] \in Nat
  BY <1>1, <1>3, <1>7, TotalNat
<1> QED
  BY <1>4, <1>5, <1>8, <1>9

LEMMA StoredKeeps ==
  ASSUME TInv, NEW T, Stored(T), UNCHANGED resets
  PROVE  mem' \in [Pages -> Nat]
         /\ \A p \in Pages : resets' <= mem'[p] /\ mem'[p] <= resets' + MaxStores
<1>1. resets \in Nat /\ MaxStores \in Nat
  BY JitAssumption DEF TInv
<1>2. mem' = [p \in Pages |-> IF p \in T THEN mem[p] + 1 ELSE mem[p]] /\ Stores < MaxStores
  BY DEF Stored
<1>3. ASSUME NEW p \in Pages
      PROVE  mem'[p] \in Nat /\ resets <= mem'[p] /\ mem'[p] <= resets + MaxStores
  <2>1. mem[p] \in Nat /\ resets <= mem[p] /\ mem[p] <= resets + MaxStores
    BY DEF TInv
  <2>2. Stores \in Nat /\ mem[p] - resets <= Stores
    BY <1>1, StoresBound DEF TInv
  <2>3. mem'[p] = IF p \in T THEN mem[p] + 1 ELSE mem[p]
    BY <1>2
  <2> QED
    BY <1>1, <1>2, <2>1, <2>2, <2>3
<1>4. mem' = [p \in Pages |-> mem'[p]]
  BY <1>2
<1>5. mem' \in [Pages -> Nat]
  BY <1>3, <1>4
<1> QED
  BY <1>3, <1>5

LEMMA BlockIsHandle ==
  ASSUME TInv, NEW h, Block(h)
  PROVE  Handle(h)
<1>1. h.meta.gen \in 0 .. MaxResets
  BY JitAssumption DEF TInv, Block, Snapshotted
<1> QED
  BY <1>1 DEF Handle, Block, Snapshotted

LEMMA TInvStep == IInv /\ TInv /\ [Next]_vars => TInv'
<1> SUFFICES ASSUME IInv, TInv, [Next]_vars PROVE TInv'
  OBVIOUS
<1>1. ASSUME UNCHANGED <<guestVars, trackerVars>>, prepared' = None \/ Handle(prepared'),
             failed' \subseteq Rips
      PROVE  TInv'
  BY <1>1 DEF TInv, guestVars, trackerVars, Handle
<1>2. ASSUME NEW rip \in Rips, PrepareHit(rip) PROVE TInv'
  <2>1. PICK S : cache \in Seq(S) /\ \A g \in S : Block(g)
    BY DEF IInv, CacheOK
  <2>2. CacheIndex(cache, rip) \in 1 .. Len(cache)
    BY <1>2, <2>1, CacheIndexOf DEF PrepareHit, IsCompiled
  <2>3. Block(prepared')
    BY <1>2, <2>1, <2>2 DEF PrepareHit
  <2>4. Handle(prepared')
    BY <2>3, BlockIsHandle
  <2> QED
    BY <1>1, <1>2, <2>4 DEF PrepareHit, TInv
<1>3. ASSUME NEW rip \in Rips, PrepareBlock(rip) PROVE TInv'
  BY <1>1, <1>2, <1>3 DEF PrepareBlock, PrepareStale, PrepareMiss, TInv
<1>4. ASSUME NEW a, NEW len, GuestWrite(a, len) PROVE TInv'
  <2>1. /\ unnotified' = unnotified /\ generation' = generation /\ resets' = resets
        /\ prepared' = None /\ failed' = failed /\ Stored(SpannedPages(a, len) \cap Pages)
    BY <1>4 DEF GuestWrite
  <2> QED
    BY <2>1, StoredKeeps DEF TInv
<1>5. ASSUME NEW p \in Pages, DmaStore(p) PROVE TInv'
  <2>1. /\ unnotified' = unnotified \cup {p} /\ generation' = generation /\ resets' = resets
        /\ prepared' = None /\ failed' = failed /\ Stored({p})
    BY <1>5 DEF DmaStore, trackerVars
  <2> QED
    BY <2>1, StoredKeeps DEF TInv
<1>6. ASSUME NEW p \in Pages, DmaNotify(p) PROVE TInv'
  BY <1>6 DEF DmaNotify, TInv
<1>7. ASSUME NEW j \in Jobs, CompileStep(j) PROVE TInv'
  <2>1. ASSUME FailCompile(j) PROVE failed' \subseteq Rips
    <3>1. jobs[j].rip \in Rips
      BY <2>1 DEF FailCompile, IInv, JobsOK, Compiling, Snapshotted
    <3> QED
      BY <2>1, <3>1 DEF FailCompile, TInv
  <2>2. failed' \subseteq Rips
    BY <1>7, <2>1 DEF CompileStep, StartCompile, ReadCode, FinishCompile, TInv
  <2> QED
    BY <1>1, <1>7, <2>2 DEF CompileStep, StartCompile, ReadCode, FinishCompile, FailCompile
<1>8. ASSUME NEW rip, NEW len, InstallBlock(rip, len) PROVE TInv'
  BY <1>1, <1>8 DEF InstallBlock, TInv
<1>9. ASSUME NEW rip, InvalidateBlock(rip) PROVE TInv'
  BY <1>1, <1>9 DEF InvalidateBlock, TInv
<1>10. CASE Reset
  <2>1. /\ resets < MaxResets /\ resets' = resets + 1 /\ generation' = generation + 1
        /\ mem' = [p \in Pages |-> mem[p] + 1] /\ unnotified' = unnotified /\ prepared' = None
        /\ failed' = {}
    BY <1>10 DEF Reset
  <2>2. resets \in 0 .. MaxResets /\ generation = resets /\ MaxResets \in Nat /\ MaxStores \in Nat
    BY JitAssumption DEF TInv
  <2>3. resets' \in 0 .. MaxResets /\ generation' = resets'
    BY <2>1, <2>2
  <2>4. ASSUME NEW p \in Pages
        PROVE  mem'[p] \in Nat /\ resets' <= mem'[p] /\ mem'[p] <= resets' + MaxStores
    <3>1. mem[p] \in Nat /\ resets <= mem[p] /\ mem[p] <= resets + MaxStores
      BY DEF TInv
    <3> QED
      BY <2>1, <2>2, <3>1
  <2>5. mem' \in [Pages -> Nat]
    BY <2>1 DEF TInv
  <2> QED
    BY <2>1, <2>3, <2>4, <2>5 DEF TInv
<1>11. CASE UNCHANGED vars
  BY <1>11 DEF TInv, vars, Handle
<1> QED
  BY <1>3, <1>4, <1>5, <1>6, <1>7, <1>8, <1>9, <1>10, <1>11 DEF Next, RunStep

\* The values of every structure: versions below their modulus, generations up
\* to the number of resets, blocks of lengths that were compiled, counters below
\* saturation, the recency order of exactly the tracked RIPs.
THEOREM JitTypeOK == Spec => []TypeOK
<1>1. Init => TInv
  <2>1. MaxResets \in Nat /\ MaxStores \in Nat
    BY JitAssumption
  <2> QED
    BY <2>1 DEF Init, TInv
<1>2. Spec => []TInv
  BY <1>1, TInvStep, IInvAlways, PTL DEF Spec
<1>3. IInv /\ BInv /\ CacheWithinLimits /\ TInv => TypeOK
  <2> SUFFICES ASSUME IInv, BInv, CacheWithinLimits, TInv PROVE TypeOK
    OBVIOUS
  <2>1. PICK S : Sized(S) /\ cache \in Seq(S) /\ \A h \in S : Block(h)
    BY SizedBlocks
  <2>2. \A i \in DOMAIN cache : Handle(cache[i])
    BY <2>1, BlockIsHandle
  <2>3. current_bytes \in Nat
    BY <2>1, WeightsOf DEF CacheWithinLimits
  <2>4. mem \in [Pages -> 0 .. MaxStores + MaxResets + 1]
    <3>1. ASSUME NEW p \in Pages PROVE mem[p] \in 0 .. MaxStores + MaxResets + 1
      BY JitAssumption DEF TInv
    <3> QED
      BY <3>1 DEF TInv
  <2>5. page_versions \in [Pages -> 0 .. VersionMod - 1] /\ writes \in [Pages -> Nat]
    <3>1. VersionMod \in Nat \ {0}
      BY JitAssumption
    <3>2. \A p \in Pages : writes[p] % VersionMod \in 0 .. VersionMod - 1
      BY <3>1 DEF IInv, Tracker
    <3> QED
      BY <3>2 DEF IInv, Tracker
  <2>6. /\ Tracked(profile) \subseteq Rips
        /\ \A r \in Tracked(profile) : profile.counters[r] \in 1 .. Max({CountMax, Threshold})
        /\ Range(profile.recency) = Tracked(profile) /\ profile.requested \subseteq Rips
    BY DEF BInv, ProfileOK, CountLimit
  <2>7. Range(queue) \subseteq Rips
    BY DEF IInv, Range
  <2>8. \A j \in Jobs : jobs[j] = None \/ jobs[j].rip \in Rips
    BY DEF IInv, JobsOK, Compiling, Snapshotted
  <2> QED
    BY <2>2, <2>3, <2>4, <2>5, <2>6, <2>7, <2>8 DEF TypeOK, TInv
<1> QED
  BY <1>2, <1>3, IInvAlways, BInvAlways, CacheStaysWithinLimits, PTL
=============================================================================
