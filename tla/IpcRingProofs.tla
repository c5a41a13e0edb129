----------------------------- MODULE IpcRingProofs -----------------------------
(***************************************************************************)
(* The safety of IpcRing, proved for every number of producers, every      *)
(* capacity and cursor width, any lengths and any number of pushes and     *)
(* deaths.  The one hypothesis beyond RingAssumption is CapacityDivides:   *)
(* RingBuffer::new does not ask for it, every ring of the repository has   *)
(* it, and without it the index of a cursor jumps when its word wraps.     *)
(*                                                                         *)
(* The argument is about cursors, never about offsets.  The claims that    *)
(* are not committed are disjoint ranges between tail_commit and           *)
(* tail_reserve; the bytes between head and tail_commit are the committed  *)
(* records that were not popped, one after the other; and all of this      *)
(* lies within Cap bytes, where different cursors have different offsets.  *)
(* So a write into a claim changes nothing that somebody else has written  *)
(* or will read.  At the end, the steps of the ring are shown to be steps  *)
(* of the abstract queue.                                                  *)
(***************************************************************************)
EXTENDS IpcRing, BasicLemmas, TLAPS

CapacityDivides == CursorMod % Cap = 0

\* The cursor at which the record of a claim at c starts.
Start(c, l) == c + Padding(c, l)
ClaimEnd(c, l) == c + Reserve(c, l)

\* What p is pushing, and the word of the buffer at a cursor.
Message(p) == [from |-> p, n |-> n[p], len |-> len[p]]
WordAt(c) == data[Index(c)]

MarkerAt(c, l) == NeedsMarker(c, l) => WordAt(c) = WRAP_MARKER
LengthAt(c, l) == WordAt(Start(c, l)) = LenWord(l)
PayloadAt(c, m) ==
  \A k \in 1 .. PayloadWords(m.len) :
    WordAt(Start(c, m.len) + 4 * k) = PayloadWord(m.from, m.n, k)

\* The payload of a push fits an empty ring.
Pushing == {"load_head", "load_tail", "full", "cas", "marker", "length",
            "payload", "commit_wait", "commit"}
PushFits == \A p \in Producers : pc[p] \in Pushing => RecordSize(len[p]) <= Cap

\* What a producer loaded is old, but less than a lap of the words, and its
\* claim fits behind the head it saw.
LoadedView ==
  \A p \in Producers :
    /\ pc[p] \in {"load_tail", "cas"} =>
         seenHead[p] <= head /\ tail_reserve - seenHead[p] < CursorMod
    /\ pc[p] = "cas" =>
         /\ seenHead[p] <= seenTail[p] /\ seenTail[p] <= tail_reserve
         /\ NewTail(p) <= seenHead[p] + Cap

\* Claims are disjoint ranges of the claimed and not committed bytes, and
\* whoever commits has the first of them.
ClaimsApart ==
  /\ \A p \in Claiming :
       /\ tail_commit <= seenTail[p] /\ NewTail(p) <= tail_reserve
       /\ pc[p] = "commit" => seenTail[p] = tail_commit
  /\ \A p, q \in Claiming :
       p # q => NewTail(p) <= seenTail[q] \/ NewTail(q) <= seenTail[p]

\* What a producer has written of its claim is there.
ClaimsWritten ==
  \A p \in Claiming :
    /\ pc[p] # "marker" => MarkerAt(seenTail[p], len[p])
    /\ pc[p] \in {"payload", "commit_wait", "commit"} => LengthAt(seenTail[p], len[p])
    /\ pc[p] \in {"commit_wait", "commit"} => PayloadAt(seenTail[p], Message(p))

\* pos[i] is the cursor at which the i-th record was claimed, and the last one
\* is where the next record will be.
Positions(pos) ==
  /\ pos \in [1 .. Len(sent) + 1 -> Aligned]
  /\ pos[Len(sent) + 1] = tail_commit
  /\ \A i \in 1 .. Len(sent) :
       /\ RecordSize(sent[i].len) <= Cap
       /\ pos[i + 1] = ClaimEnd(pos[i], sent[i].len)
       /\ \A j \in i + 1 .. Len(sent) + 1 : ClaimEnd(pos[i], sent[i].len) <= pos[j]

\* The record the consumer is at.
First == Len(received) + 1
AtStart(pos) == First <= Len(sent) /\ head = Start(pos[First], sent[First].len)

\* The head is at the front record, before or after its padding.
HeadAt(pos) == First <= Len(sent) + 1 /\ (head = pos[First] \/ AtStart(pos))

\* The records that were not popped are in the buffer.
RecordsLaid(pos) ==
  \A i \in First .. Len(sent) :
    /\ head <= pos[i] => MarkerAt(pos[i], sent[i].len)
    /\ LengthAt(pos[i], sent[i].len)
    /\ PayloadAt(pos[i], sent[i])

\* A pop under way saw the end of a record behind the head, and what it has
\* read is the front record.
PopView(pos) ==
  /\ cpc # "corrupt"
  /\ cpc # "idle" => /\ First <= Len(sent)
                     /\ \E j \in First + 1 .. Len(sent) + 1 : popTail = pos[j]
  /\ cpc = "skip" => head = pos[First] /\ NeedsMarker(pos[First], sent[First].len)
  /\ cpc \in {"copy", "advance", "drop"} => AtStart(pos) /\ popLen = sent[First].len
  /\ cpc = "drop" => popLen > MaxPop
  /\ cpc \in {"copy", "advance"} => popLen <= MaxPop
  /\ cpc = "advance" => popOut = PayloadOf(sent[First])

Laid(pos) == Positions(pos) /\ HeadAt(pos) /\ RecordsLaid(pos) /\ PopView(pos)

IInv ==
  /\ TypeOK /\ CursorsOrdered /\ PushFits /\ LoadedView
  /\ ClaimsApart /\ ClaimsWritten /\ DeliversInOrder
  /\ \E pos : Laid(pos)

-----------------------------------------------------------------------------
(* Arithmetic of records and cursors.                                      *)

\* A record is its length word and its payload words.
LEMMA RecordWords ==
  ASSUME NEW l \in Nat
  PROVE  /\ PayloadWords(l) \in Nat /\ RecordSize(l) = 4 + 4 * PayloadWords(l)
         /\ RecordSize(l) \in Aligned /\ RecordSize(l) >= 4
BY DEF PayloadWords, RecordSize, AlignUp, RECORD_ALIGN, Aligned

LEMMA AlignedSum ==
  ASSUME NEW a \in Aligned, NEW b \in Aligned
  PROVE  /\ a + b \in Aligned
         /\ a <= b => b - a \in Aligned
         /\ a < b => b - a >= 4
BY DEF Aligned, RECORD_ALIGN

LEMMA AlignedMultiple == \A k \in Nat : 4 * k \in Aligned
BY DEF Aligned, RECORD_ALIGN

\* The remainder of an aligned number by an aligned one is aligned.
LEMMA AlignedRemainder ==
  ASSUME NEW a \in Aligned, NEW C \in Aligned \ {0}
  PROVE  a % C \in Aligned
<1> DEFINE q == a \div C
           r == a % C
           h == C \div 4
           g == a \div 4
<1>1. q \in Nat /\ a = C * q + r /\ r \in 0 .. C - 1 /\ a \in Nat /\ C \in Nat
  BY DivMod DEF Aligned
<1>2. h \in Nat /\ C = 4 * h /\ g \in Nat /\ a = 4 * g
  BY <1>1 DEF Aligned, RECORD_ALIGN
<1> HIDE DEF q, r, h, g
<1>3. C * q = 4 * (h * q)
  BY <1>1, <1>2, SMT
<1>4. r = 4 * (g - h * q)
  BY <1>1, <1>2, <1>3, SMT
<1>5. h * q \in Nat
  BY <1>1, <1>2
<1>6. r \in Nat /\ r % 4 = 0
  BY <1>1, <1>2, <1>4, <1>5
<1> QED
  BY <1>6 DEF r, Aligned, RECORD_ALIGN

\* The index of a cursor is its remainder by the capacity: the wrap of its
\* word does not show.
LEMMA IndexIsRemainder ==
  ASSUME CapacityDivides, NEW c \in Nat
  PROVE  Index(c) = c % Cap /\ Index(c) \in 0 .. Cap - 1
<1>1. Cap \in Nat \ {0} /\ CursorMod \in Nat \ {0}
  BY RingAssumption
<1>2. (c % CursorMod) % Cap = c % Cap
  BY <1>1, ModOfMod DEF CapacityDivides
<1>3. c % Cap \in 0 .. Cap - 1
  BY <1>1, DivMod
<1> QED
  BY <1>2, <1>3 DEF Index, Word

LEMMA AlignedIndex ==
  ASSUME CapacityDivides, NEW c \in Aligned
  PROVE  /\ Index(c) \in Offsets
         /\ Remaining(c) \in Aligned /\ Remaining(c) >= 4 /\ Remaining(c) <= Cap
         /\ Index(c) + Remaining(c) = Cap
<1>1. Cap \in Aligned \ {0} /\ c \in Nat
  BY RingAssumption DEF Aligned
<1>2. Index(c) \in Aligned /\ Index(c) \in 0 .. Cap - 1
  BY <1>1, IndexIsRemainder, AlignedRemainder
<1> QED
  BY <1>1, <1>2, AlignedSum DEF Remaining, Offsets, Aligned, RECORD_ALIGN

\* Within the buffer the index follows the cursor, and the padding leads to
\* its first byte.
LEMMA IndexShift ==
  ASSUME CapacityDivides, NEW c \in Nat, NEW k \in Nat
  PROVE  /\ Index(c) + k < Cap => Index(c + k) = Index(c) + k
         /\ Index(c + Remaining(c)) = 0
<1> DEFINE q == c \div Cap
           r == c % Cap
<1>1. q \in Nat /\ c = Cap * q + r /\ r \in 0 .. Cap - 1 /\ Cap \in Nat \ {0}
  BY RingAssumption, DivMod
<1>2. Index(c) = r /\ Remaining(c) = Cap - r
  BY IndexIsRemainder DEF Remaining
<1> HIDE DEF q, r
<1>3. ASSUME r + k < Cap PROVE (c + k) % Cap = r + k
  <2>1. c + k = Cap * q + (r + k) /\ r + k \in 0 .. Cap - 1 /\ c + k \in Nat
    BY <1>1, <1>3
  <2> QED
    BY <1>1, <2>1, ModUnique
<1>4. (c + (Cap - r)) % Cap = 0
  <2>1. Cap * (q + 1) = Cap * q + Cap
    BY <1>1
  <2>2. c + (Cap - r) = Cap * (q + 1) + 0 /\ 0 \in 0 .. Cap - 1 /\ c + (Cap - r) \in Nat
        /\ q + 1 \in Int
    BY <1>1, <2>1
  <2> QED
    BY <1>1, <2>2, ModUnique
<1>5. c + k \in Nat /\ c + (Cap - r) \in Nat
  BY <1>1
<1> QED
  BY <1>2, <1>3, <1>4, <1>5, IndexIsRemainder

\* Cursors less than Cap apart have different offsets.
LEMMA IndexInjective ==
  ASSUME CapacityDivides, NEW a \in Nat, NEW b \in Nat, a < b, b < a + Cap
  PROVE  Index(a) # Index(b)
<1>1. Cap \in Nat \ {0}
  BY RingAssumption
<1>2. Index(a) = a % Cap /\ Index(b) = b % Cap
  BY IndexIsRemainder
<1>3. a <= b /\ b - a < Cap
  BY <1>1
<1>4. a % Cap = b % Cap => a = b
  BY <1>1, <1>3, WrappedEqual
<1> QED
  BY <1>2, <1>4

LEMMA WordInjective ==
  ASSUME NEW a \in Nat, NEW b \in Nat, b <= a, a - b < CursorMod, Word(a) = Word(b)
  PROVE  a = b
<1>1. CursorMod \in Nat \ {0}
  BY RingAssumption
<1> QED
  BY <1>1, WrappedEqual DEF Word

\* wrapping_sub gives the distance of cursors less than a lap apart.
LEMMA DistanceExact ==
  ASSUME NEW a \in Nat, NEW b \in Nat, b <= a, a - b < CursorMod
  PROVE  Distance(a, b) = a - b
<1> DEFINE M == CursorMod
           qa == a \div M
           ra == a % M
           qb == b \div M
           rb == b % M
<1>1. M \in Nat \ {0}
  BY RingAssumption
<1>2. /\ qa \in Nat /\ ra \in 0 .. M - 1 /\ a = M * qa + ra
      /\ qb \in Nat /\ rb \in 0 .. M - 1 /\ b = M * qb + rb
  BY <1>1, DivMod
<1>3. Distance(a, b) = (ra - rb) % M
  BY DEF Distance, Word
<1> HIDE DEF M, qa, ra, qb, rb
<1>4. ra - rb = M * (qb - qa) + (a - b)
  BY <1>1, <1>2, SMT
<1>5. a - b \in 0 .. M - 1 /\ ra - rb \in Int /\ qb - qa \in Int
  BY <1>1, <1>2 DEF M
<1> QED
  BY <1>1, <1>3, <1>4, <1>5, ModUnique

\* The record of a claim starts at the claim, or after the padding, at the
\* first byte of the buffer; it lies within the buffer.
LEMMA ClaimLayout ==
  ASSUME CapacityDivides, NEW c \in Aligned, NEW l \in Nat, RecordSize(l) <= Cap
  PROVE  /\ Start(c, l) \in Aligned /\ c <= Start(c, l)
         /\ RecordSize(l) <= Remaining(Start(c, l))
         /\ ClaimEnd(c, l) = Start(c, l) + RecordSize(l) /\ ClaimEnd(c, l) \in Aligned
         /\ NeedsMarker(c, l) => Start(c, l) = c + Remaining(c) /\ c < Start(c, l)
         /\ ~NeedsMarker(c, l) => Start(c, l) = c
<1>1. c \in Nat /\ Remaining(c) \in Aligned /\ Remaining(c) \in Nat
      /\ Remaining(c) >= 4 /\ Remaining(c) <= Cap
  BY AlignedIndex DEF Aligned
<1>2. RecordSize(l) \in Nat /\ RecordSize(l) \in Aligned /\ Cap \in Nat
  BY RecordWords, RingAssumption DEF Aligned
<1>3. CASE NeedsMarker(c, l)
  <2>1. Start(c, l) = c + Remaining(c)
    BY <1>1, <1>2, <1>3 DEF Start, Padding, NeedsMarker
  <2>2. Start(c, l) \in Aligned /\ Start(c, l) \in Nat
    BY <1>1, <2>1, AlignedSum DEF Aligned
  <2>3. Index(Start(c, l)) = 0
    BY <1>1, <2>1, IndexShift
  <2>4. RecordSize(l) <= Remaining(Start(c, l))
    BY <1>2, <2>3 DEF Remaining
  <2>5. ClaimEnd(c, l) = Start(c, l) + RecordSize(l)
    BY <1>1, <1>2, <1>3 DEF ClaimEnd, Reserve, Start, Padding, NeedsMarker
  <2>6. Start(c, l) + RecordSize(l) \in Aligned
    BY <1>2, <2>2, AlignedSum
  <2>7. c <= Start(c, l) /\ c < Start(c, l)
    BY <1>1, <2>1
  <2> QED
    BY <1>3, <2>1, <2>2, <2>4, <2>5, <2>6, <2>7
<1>4. CASE ~NeedsMarker(c, l)
  <2>1. Start(c, l) = c /\ RecordSize(l) <= Remaining(c) /\ Padding(c, l) = 0
    BY <1>1, <1>2, <1>4 DEF Start, Padding, NeedsMarker
  <2>2. c + RecordSize(l) \in Aligned
    BY <1>2, AlignedSum
  <2>3. ClaimEnd(c, l) = c + RecordSize(l)
    BY <1>1, <1>2, <2>1 DEF ClaimEnd, Reserve
  <2> QED
    BY <1>1, <1>4, <2>1, <2>2, <2>3
<1> QED
  BY <1>3, <1>4

-----------------------------------------------------------------------------
(* The words of records and claims.                                        *)

\* The claim of p, in terms of cursors.
LEMMA ClaimOf ==
  ASSUME CapacityDivides, TypeOK, PushFits, NEW p \in Producers, pc[p] \in Pushing
  PROVE  /\ seenTail[p] \in Aligned /\ len[p] \in Nat /\ RecordSize(len[p]) <= Cap
         /\ NewTail(p) = ClaimEnd(seenTail[p], len[p])
         /\ NewTail(p) = Start(seenTail[p], len[p]) + RecordSize(len[p])
         /\ NewTail(p) \in Aligned
         /\ StartIndex(p) = Index(Start(seenTail[p], len[p]))
<1>1. seenTail[p] \in Aligned /\ len[p] \in Nat /\ RecordSize(len[p]) <= Cap
  BY DEF TypeOK, PushFits
<1>2. /\ NewTail(p) = ClaimEnd(seenTail[p], len[p])
      /\ StartIndex(p) = Index(Start(seenTail[p], len[p]))
  BY DEF NewTail, ClaimEnd, StartIndex, Start
<1> QED
  BY <1>1, <1>2, ClaimLayout

LEMMA ClaimingIsPushing == ASSUME NEW p \in Claiming PROVE p \in Producers /\ pc[p] \in Pushing
BY DEF Claiming, Pushing

\* Each word of a record has a cursor of its own between the start of the
\* record and its end, and an offset of its own within the buffer.
LEMMA RecordCursors ==
  ASSUME CapacityDivides, NEW c \in Aligned, NEW l \in Nat, RecordSize(l) <= Cap,
         NEW k \in 0 .. PayloadWords(l)
  PROVE  /\ Start(c, l) + 4 * k \in Aligned
         /\ c <= Start(c, l) + 4 * k /\ Start(c, l) + 4 * k < ClaimEnd(c, l)
         /\ Index(Start(c, l) + 4 * k) = Index(Start(c, l)) + 4 * k
         /\ Index(Start(c, l)) + 4 * k \in Offsets
<1> DEFINE s == Start(c, l)
<1>1. s \in Aligned /\ s \in Nat /\ c \in Nat /\ c <= s /\ RecordSize(l) <= Remaining(s)
      /\ ClaimEnd(c, l) = s + RecordSize(l)
  BY ClaimLayout DEF Aligned
<1>2. PayloadWords(l) \in Nat /\ RecordSize(l) = 4 + 4 * PayloadWords(l)
  BY RecordWords
<1>3. k \in Nat /\ 4 * k \in Nat /\ 4 * k < RecordSize(l) /\ 4 * k \in Aligned
  BY <1>2, AlignedMultiple
<1>4. Index(s) \in Nat /\ Remaining(s) \in Nat /\ Index(s) + Remaining(s) = Cap /\ Cap \in Nat
  BY <1>1, AlignedIndex, RingAssumption DEF Offsets, Aligned
<1> HIDE DEF s
<1>5. Index(s) + 4 * k < Cap
  BY <1>1, <1>2, <1>3, <1>4
<1>6. s + 4 * k \in Aligned
  BY <1>1, <1>3, AlignedSum
<1>7. Index(s + 4 * k) = Index(s) + 4 * k
  BY <1>1, <1>3, <1>5, IndexShift
<1>8. Index(s + 4 * k) \in Offsets
  BY <1>6, AlignedIndex
<1>9. c <= s + 4 * k /\ s + 4 * k < ClaimEnd(c, l)
  BY <1>1, <1>2, <1>3
<1> QED
  BY <1>6, <1>7, <1>8, <1>9 DEF s

\* The records that were not popped lie between head and tail_commit.
LEMMA UnreadRecord ==
  ASSUME CapacityDivides, TypeOK, NEW pos, Positions(pos), HeadAt(pos),
         NEW i \in First .. Len(sent)
  PROVE  /\ i \in 1 .. Len(sent) /\ pos[i] \in Aligned
         /\ sent[i].len \in Nat /\ RecordSize(sent[i].len) <= Cap
         /\ head <= Start(pos[i], sent[i].len)
         /\ ClaimEnd(pos[i], sent[i].len) <= tail_commit
         /\ i # First => head < pos[i]
<1>1. First \in Nat /\ First >= 1 /\ Len(sent) \in Nat
  BY DEF TypeOK, First
<1>2. i \in 1 .. Len(sent) /\ First \in 1 .. Len(sent)
  BY <1>1
<1>3. \A j \in 1 .. Len(sent) :
        /\ pos[j] \in Aligned /\ sent[j].len \in Nat /\ RecordSize(sent[j].len) <= Cap
        /\ \A m \in j + 1 .. Len(sent) + 1 : ClaimEnd(pos[j], sent[j].len) <= pos[m]
  <2> TAKE j \in 1 .. Len(sent)
  <2> DEFINE Messages == [from : Producers, n : Nat, len : Nat]
  <2>0. sent \in Seq(Messages)
    BY DEF TypeOK
  <2> HIDE DEF Messages
  <2>1a. sent[j] \in Messages
    BY <2>0
  <2>1. sent[j].len \in Nat
    BY <2>1a DEF Messages
  <2>2. j \in 1 .. Len(sent) + 1
    BY <1>1
  <2>3. pos[j] \in Aligned
    BY <2>2 DEF Positions
  <2> QED
    BY <2>1, <2>3 DEF Positions
<1>4. ClaimEnd(pos[i], sent[i].len) <= tail_commit
  BY <1>1, <1>2, <1>3 DEF Positions
<1>5. \A j \in 1 .. Len(sent) :
        /\ pos[j] \in Nat /\ Start(pos[j], sent[j].len) \in Nat
        /\ pos[j] <= Start(pos[j], sent[j].len)
        /\ Start(pos[j], sent[j].len) < ClaimEnd(pos[j], sent[j].len)
        /\ ClaimEnd(pos[j], sent[j].len) \in Nat
  <2> TAKE j \in 1 .. Len(sent)
  <2>1. pos[j] \in Aligned /\ sent[j].len \in Nat /\ RecordSize(sent[j].len) <= Cap
    BY <1>3
  <2>2. RecordSize(sent[j].len) \in Nat /\ RecordSize(sent[j].len) >= 4
    BY <2>1, RecordWords DEF Aligned
  <2>3. /\ Start(pos[j], sent[j].len) \in Aligned /\ pos[j] <= Start(pos[j], sent[j].len)
        /\ ClaimEnd(pos[j], sent[j].len) = Start(pos[j], sent[j].len) + RecordSize(sent[j].len)
    BY <2>1, ClaimLayout
  <2>4. pos[j] \in Nat /\ Start(pos[j], sent[j].len) \in Nat
    BY <2>1, <2>3 DEF Aligned
  <2> QED
    BY <2>2, <2>3, <2>4
<1>6. head \in Nat /\ head <= Start(pos[First], sent[First].len)
  <2>1. head \in Nat
    BY DEF TypeOK, Aligned
  <2>2. head = pos[First] \/ head = Start(pos[First], sent[First].len)
    BY DEF HeadAt, AtStart
  <2> QED
    BY <1>2, <1>5, <2>1, <2>2
<1>7. CASE i = First
  BY <1>2, <1>3, <1>4, <1>6, <1>7
<1>8. CASE i # First
  <2>1. i \in First + 1 .. Len(sent) + 1
    BY <1>1, <1>2, <1>8
  <2>2. ClaimEnd(pos[First], sent[First].len) <= pos[i]
    BY <1>2, <1>3, <2>1
  <2>3. head < pos[i] /\ head <= Start(pos[i], sent[i].len)
    BY <1>2, <1>5, <1>6, <2>2
  <2> QED
    BY <1>2, <1>3, <1>4, <2>3
<1> QED
  BY <1>7, <1>8

-----------------------------------------------------------------------------
(* The inductive invariant.                                                *)

LEMMA InitIInv == ASSUME CapacityDivides PROVE Init => IInv
<1> SUFFICES ASSUME Init PROVE IInv
  OBVIOUS
<1>1. 0 \in Aligned /\ LenWord(0) \in BufferWords
  BY DEF Aligned, RECORD_ALIGN, LenWord, BufferWords
<1>2. TypeOK
  BY <1>1 DEF Init, TypeOK, PcValues, CpcValues
<1>3. CursorsOrdered /\ PushFits /\ LoadedView /\ DeliversInOrder
  BY RingAssumption DEF Init, CursorsOrdered, PushFits, Pushing, LoadedView, DeliversInOrder
<1>4. Claiming = {}
  BY DEF Init, Claiming
<1>5. ClaimsApart /\ ClaimsWritten
  BY <1>4 DEF ClaimsApart, ClaimsWritten
<1>6. Laid([i \in 1 .. 1 |-> 0])
  <2>1. Len(sent) = 0 /\ Len(received) = 0 /\ First = 1
    BY DEF Init, First
  <2> QED
    BY <1>1, <2>1 DEF Init, Laid, Positions, HeadAt, RecordsLaid, PopView, AtStart
<1> QED
  BY <1>2, <1>3, <1>5, <1>6 DEF IInv

\* A step of p that moves no cursor and writes nothing.
LEMMA LocalStep ==
  ASSUME CapacityDivides, IInv, TypeOK', NEW p \in Producers,
         UNCHANGED <<cursorVars, data, consumerVars, sent, received>>,
         \A q \in Producers \ {p} :
           /\ pc'[q] = pc[q] /\ n'[q] = n[q] /\ len'[q] = len[q]
           /\ seenHead'[q] = seenHead[q] /\ seenTail'[q] = seenTail[q],
         pc'[p] \in Pushing => RecordSize(len'[p]) <= Cap,
         pc'[p] \in {"load_tail", "cas"} =>
           seenHead'[p] <= head /\ tail_reserve - seenHead'[p] < CursorMod,
         pc'[p] = "cas" =>
           /\ seenHead'[p] <= seenTail'[p] /\ seenTail'[p] <= tail_reserve
           /\ ClaimEnd(seenTail'[p], len'[p]) <= seenHead'[p] + Cap,
         pc'[p] \notin {"marker", "length", "payload", "commit_wait"},
         pc'[p] = "commit" =>
           /\ pc[p] = "commit_wait" /\ seenTail[p] = tail_commit
           /\ UNCHANGED <<n, len, seenTail>>
  PROVE  IInv'
<1>1. CursorsOrdered' /\ DeliversInOrder'
  BY DEF IInv, CursorsOrdered, DeliversInOrder, cursorVars
<1>2. PushFits'
  BY DEF IInv, PushFits
<1>3. LoadedView'
  BY DEF IInv, LoadedView, NewTail, ClaimEnd, cursorVars
<1>4. \A q \in Claiming' :
        /\ q \in Claiming /\ len'[q] = len[q] /\ seenTail'[q] = seenTail[q] /\ n'[q] = n[q]
        /\ q # p => pc'[q] = pc[q]
        /\ q = p => pc'[q] = "commit" /\ pc[q] = "commit_wait" /\ seenTail[q] = tail_commit
  BY DEF Claiming
<1>5. ClaimsApart'
  BY <1>4 DEF IInv, ClaimsApart, NewTail, cursorVars
<1>6. ClaimsWritten'
  <2> SUFFICES ASSUME NEW q \in Claiming'
               PROVE  /\ pc'[q] # "marker" => MarkerAt(seenTail[q], len[q])
                      /\ pc'[q] \in {"payload", "commit_wait", "commit"} => LengthAt(seenTail[q], len[q])
                      /\ pc'[q] \in {"commit_wait", "commit"} => PayloadAt(seenTail[q], Message(q))
    BY <1>4 DEF ClaimsWritten, MarkerAt, LengthAt, PayloadAt, WordAt, Message
  <2> QED
    BY <1>4 DEF IInv, ClaimsWritten
<1>7. ASSUME NEW pos, Laid(pos) PROVE Laid(pos)'
  BY <1>7 DEF Laid, Positions, HeadAt, RecordsLaid, PopView, AtStart, First, MarkerAt,
              LengthAt, PayloadAt, WordAt, cursorVars, consumerVars
<1> QED
  BY <1>1, <1>2, <1>3, <1>5, <1>6, <1>7 DEF IInv

LEMMA CallPushStep == ASSUME CapacityDivides, IInv, NEW p \in Producers, CallPush(p) PROVE IInv'
<1>1. PICK l \in Lens : /\ len' = [len EXCEPT ![p] = l]
                        /\ pc' = [pc EXCEPT ![p] = IF RecordSize(l) > Cap THEN "idle" ELSE "load_head"]
  BY DEF CallPush, Goto
<1>2. n' = [n EXCEPT ![p] = n[p] + 1]
      /\ UNCHANGED <<cursorVars, data, seenHead, seenTail, consumerVars, sent, received>>
  BY DEF CallPush
<1>3. l \in Nat /\ RecordSize(l) \in Nat /\ Cap \in Nat
  BY RingAssumption, RecordWords DEF Aligned
<1>4. TypeOK'
  BY <1>1, <1>2, <1>3 DEF IInv, TypeOK, PcValues, cursorVars, consumerVars
<1>5. pc \in [Producers -> PcValues] /\ len \in [Producers -> Nat] /\ n \in [Producers -> Nat]
  BY DEF IInv, TypeOK
<1> QED
  BY <1>1, <1>2, <1>3, <1>4, <1>5, LocalStep DEF Pushing

LEMMA LoadHeadStep == ASSUME CapacityDivides, IInv, NEW p \in Producers, LoadHead(p) PROVE IInv'
<1>1. /\ pc[p] = "load_head" /\ pc' = [pc EXCEPT ![p] = "load_tail"]
      /\ seenHead' = [seenHead EXCEPT ![p] = head]
      /\ UNCHANGED <<cursorVars, data, n, len, seenTail, consumerVars, sent, received>>
  BY DEF LoadHead, Goto
<1>2. TypeOK'
  BY <1>1 DEF IInv, TypeOK, PcValues, cursorVars, consumerVars
<1>3. pc \in [Producers -> PcValues] /\ seenHead \in [Producers -> Aligned]
  BY DEF IInv, TypeOK
<1>4. head \in Nat /\ tail_reserve \in Nat /\ tail_reserve <= head + Cap
  BY DEF IInv, TypeOK, Aligned, CursorsOrdered
<1>5. tail_reserve - head < CursorMod
  BY <1>4, RingAssumption
<1>6. RecordSize(len[p]) <= Cap
  BY <1>1 DEF IInv, PushFits, Pushing
<1> QED
  BY <1>1, <1>2, <1>3, <1>4, <1>5, <1>6, LocalStep

LEMMA LoadTailStep == ASSUME CapacityDivides, IInv, NEW p \in Producers, LoadTail(p) PROVE IInv'
<1> DEFINE used == Distance(tail_reserve, seenHead[p])
           full == Reserve(tail_reserve, len[p]) > Cap - used
<1>1. /\ pc[p] = "load_tail" /\ seenTail' = [seenTail EXCEPT ![p] = tail_reserve]
      /\ pc' = [pc EXCEPT ![p] = IF used > Cap THEN "load_head" ELSE IF full THEN "full" ELSE "cas"]
      /\ UNCHANGED <<cursorVars, data, n, len, seenHead, consumerVars, sent, received>>
  BY DEF LoadTail, Goto
<1> HIDE DEF full
<1>2. TypeOK'
  BY <1>1 DEF IInv, TypeOK, PcValues, cursorVars, consumerVars
<1>3. pc \in [Producers -> PcValues] /\ seenTail \in [Producers -> Aligned]
      /\ seenHead[p] \in Nat /\ tail_reserve \in Aligned /\ tail_reserve \in Nat
      /\ head \in Nat /\ len[p] \in Nat
  BY DEF IInv, TypeOK, Aligned
<1>4. seenHead[p] <= head /\ tail_reserve - seenHead[p] < CursorMod /\ head <= tail_reserve
  BY <1>1, <1>3 DEF IInv, LoadedView, CursorsOrdered, TypeOK, Aligned
<1>5. used = tail_reserve - seenHead[p] /\ seenHead[p] <= tail_reserve
  BY <1>3, <1>4, DistanceExact
<1>6. RecordSize(len[p]) <= Cap
  BY <1>1 DEF IInv, PushFits, Pushing
<1>7. ~full => ClaimEnd(tail_reserve, len[p]) <= seenHead[p] + Cap
  <2>1. ClaimEnd(tail_reserve, len[p]) = tail_reserve + Reserve(tail_reserve, len[p])
    BY DEF ClaimEnd
  <2>2. Reserve(tail_reserve, len[p]) \in Nat
    <3>1. Remaining(tail_reserve) \in Nat /\ RecordSize(len[p]) \in Nat
      BY <1>3, AlignedIndex, RecordWords DEF Aligned
    <3> QED
      BY <3>1 DEF Reserve, Padding
  <2> QED
    BY <1>3, <1>5, <2>1, <2>2, RingAssumption DEF full
<1> HIDE DEF used
<1> QED
  BY <1>1, <1>2, <1>3, <1>4, <1>5, <1>6, <1>7, LocalStep

LEMMA FullStep == ASSUME CapacityDivides, IInv, NEW p \in Producers, Full(p) PROVE IInv'
<1>1. /\ pc[p] = "full"
      /\ pc' = [pc EXCEPT ![p] = IF p \in SpinningProducers THEN "load_head" ELSE "idle"]
      /\ UNCHANGED <<cursorVars, data, n, len, seenHead, seenTail, consumerVars, sent, received>>
  BY DEF Full, Goto
<1>2. TypeOK' /\ pc \in [Producers -> PcValues]
  BY <1>1 DEF IInv, TypeOK, PcValues, cursorVars, consumerVars
<1>3. RecordSize(len[p]) <= Cap
  BY <1>1 DEF IInv, PushFits, Pushing
<1> QED
  BY <1>1, <1>2, <1>3, LocalStep

LEMMA CommitWaitStep == ASSUME CapacityDivides, IInv, NEW p \in Producers, CommitWait(p) PROVE IInv'
<1>1. /\ pc[p] = "commit_wait" /\ Word(tail_commit) = Word(seenTail[p])
      /\ pc' = [pc EXCEPT ![p] = "commit"]
      /\ UNCHANGED <<cursorVars, data, n, len, seenHead, seenTail, consumerVars, sent, received>>
  BY DEF CommitWait, Goto
<1>2. TypeOK' /\ pc \in [Producers -> PcValues]
  BY <1>1 DEF IInv, TypeOK, PcValues, cursorVars, consumerVars
<1>3. RecordSize(len[p]) <= Cap
  BY <1>1 DEF IInv, PushFits, Pushing
<1>4. seenTail[p] = tail_commit
  <2>1. p \in Claiming /\ pc[p] \in Pushing
    BY <1>1 DEF Claiming, Pushing
  <2>2. tail_commit \in Nat /\ seenTail[p] \in Nat /\ head \in Nat /\ tail_reserve \in Nat
    BY DEF IInv, TypeOK, Aligned
  <2>3. NewTail(p) \in Nat /\ seenTail[p] < NewTail(p)
    <3>1. /\ seenTail[p] \in Aligned /\ len[p] \in Nat /\ RecordSize(len[p]) <= Cap
          /\ NewTail(p) = Start(seenTail[p], len[p]) + RecordSize(len[p])
      BY <2>1, ClaimOf DEF IInv
    <3>2. Start(seenTail[p], len[p]) \in Nat /\ seenTail[p] <= Start(seenTail[p], len[p])
      BY <3>1, ClaimLayout DEF Aligned
    <3>3. RecordSize(len[p]) \in Nat /\ RecordSize(len[p]) >= 4
      BY <3>1, RecordWords DEF Aligned
    <3> QED
      BY <2>2, <3>1, <3>2, <3>3
  <2>4. tail_commit <= seenTail[p] /\ NewTail(p) <= tail_reserve
        /\ tail_reserve <= head + Cap /\ head <= tail_commit
    BY <2>1 DEF IInv, ClaimsApart, CursorsOrdered
  <2>5. seenTail[p] - tail_commit < CursorMod
    BY <2>2, <2>3, <2>4, RingAssumption
  <2> QED
    BY <1>1, <2>2, <2>4, <2>5, WordInjective
<1> QED
  BY <1>1, <1>2, <1>3, <1>4, LocalStep

LEMMA CrashStep == ASSUME CapacityDivides, IInv, NEW p \in Producers, Crash(p) PROVE IInv'
<1>1. /\ pc' = [pc EXCEPT ![p] = IF p \in Claiming THEN "lost" ELSE "dead"]
      /\ UNCHANGED <<cursorVars, data, n, len, seenHead, seenTail, consumerVars, sent, received>>
  BY DEF Crash, Goto
<1>2. TypeOK' /\ pc \in [Producers -> PcValues]
  BY <1>1 DEF IInv, TypeOK, PcValues, cursorVars, consumerVars
<1> QED
  BY <1>1, <1>2, LocalStep DEF Pushing

LEMMA CompareExchangeStep ==
  ASSUME CapacityDivides, IInv, NEW p \in Producers, CompareExchange(p) PROVE IInv'
<1>1. /\ pc[p] = "cas" /\ NoCursorLap(p)
      /\ UNCHANGED <<head, tail_commit, data, n, len, seenHead, seenTail,
                     consumerVars, sent, received>>
  BY DEF CompareExchange
<1>2. pc \in [Producers -> PcValues] /\ pc[p] \in Pushing /\ RecordSize(len[p]) <= Cap
  BY <1>1 DEF IInv, TypeOK, PushFits, Pushing
<1>3. CASE Word(tail_reserve) = Word(seenTail[p])
  <2>1. /\ tail_reserve' = tail_reserve + Reserve(seenTail[p], len[p])
        /\ pc' = [pc EXCEPT ![p] = IF NeedsMarker(seenTail[p], len[p]) THEN "marker" ELSE "length"]
    BY <1>3 DEF CompareExchange, Goto
  <2>2. /\ tail_reserve \in Nat /\ tail_commit \in Nat /\ head \in Nat
        /\ \A q \in Producers : seenTail[q] \in Nat /\ seenHead[q] \in Nat
    BY DEF IInv, TypeOK, Aligned
  <2>3. /\ seenHead[p] <= head /\ tail_reserve - seenHead[p] < CursorMod
        /\ seenHead[p] <= seenTail[p] /\ seenTail[p] <= tail_reserve
        /\ NewTail(p) <= seenHead[p] + Cap
    BY <1>1 DEF IInv, LoadedView
  <2>4. tail_reserve - seenTail[p] < CursorMod /\ Cap \in Nat /\ CursorMod \in Nat
    BY <2>2, <2>3, RingAssumption
  <2>5. tail_reserve = seenTail[p]
    BY <1>3, <2>2, <2>3, <2>4, WordInjective
  <2>6. tail_reserve' = NewTail(p) /\ NewTail(p) \in Aligned /\ NewTail(p) \in Nat
    <3>1. tail_reserve' = NewTail(p)
      BY <2>1, <2>5 DEF NewTail
    <3> QED
      BY <1>2, <3>1, ClaimOf DEF IInv, Aligned
  <2>7. tail_reserve <= tail_reserve'
    <3>1. /\ seenTail[p] \in Aligned /\ len[p] \in Nat
          /\ NewTail(p) = Start(seenTail[p], len[p]) + RecordSize(len[p])
      BY <1>2, ClaimOf DEF IInv
    <3>2. seenTail[p] <= Start(seenTail[p], len[p]) /\ Start(seenTail[p], len[p]) \in Nat
          /\ RecordSize(len[p]) \in Nat
      BY <1>2, <3>1, ClaimLayout, RecordWords DEF Aligned
    <3> QED
      BY <2>2, <2>5, <2>6, <3>1, <3>2
  <2>8. TypeOK'
    BY <1>1, <2>1, <2>6 DEF IInv, TypeOK, PcValues, consumerVars
  <2>9. CursorsOrdered' /\ DeliversInOrder' /\ PushFits'
    <3>1. CursorsOrdered'
      BY <1>1, <2>2, <2>3, <2>4, <2>6, <2>7 DEF IInv, CursorsOrdered
    <3> QED
      BY <1>1, <1>2, <2>1, <3>1 DEF IInv, DeliversInOrder, PushFits, Pushing
  <2>10. LoadedView'
    <3> SUFFICES ASSUME NEW q \in Producers, q # p, pc[q] \in {"load_tail", "cas"}
                 PROVE  /\ seenHead[q] <= head /\ tail_reserve' - seenHead[q] < CursorMod
                        /\ pc[q] = "cas" =>
                             /\ seenHead[q] <= seenTail[q] /\ seenTail[q] <= tail_reserve'
                             /\ NewTail(q) <= seenHead[q] + Cap
      BY <1>1, <1>2, <2>1 DEF LoadedView, NewTail
    <3>1. tail_reserve' - seenHead[q] < CursorMod
      BY <1>1, <2>6 DEF NoCursorLap
    <3> QED
      BY <2>2, <2>6, <2>7, <3>1 DEF IInv, LoadedView
  <2>11. \A q \in Claiming' : q \in Producers /\ (q # p => q \in Claiming /\ pc'[q] = pc[q])
    BY <1>2, <2>1 DEF Claiming
  <2>12. ClaimsApart'
    <3>1. \A q \in Claiming : NewTail(q) <= tail_reserve /\ NewTail(q) \in Nat
      BY ClaimingIsPushing, ClaimOf DEF IInv, ClaimsApart, Aligned
    <3>2. tail_commit <= seenTail[p]
      BY <2>5 DEF IInv, CursorsOrdered
    <3>3. \A q \in Claiming' :
            /\ tail_commit <= seenTail[q] /\ NewTail(q) <= tail_reserve'
            /\ pc'[q] = "commit" => seenTail[q] = tail_commit
      BY <1>2, <2>1, <2>2, <2>6, <2>7, <2>11, <3>1, <3>2 DEF IInv, ClaimsApart
    <3>4. \A q, r \in Claiming' :
            q # r => NewTail(q) <= seenTail[r] \/ NewTail(r) <= seenTail[q]
      BY <2>5, <2>11, <3>1 DEF IInv, ClaimsApart
    <3> QED
      BY <1>1, <3>3, <3>4 DEF ClaimsApart, NewTail
  <2>13. ClaimsWritten'
    <3> SUFFICES ASSUME NEW q \in Claiming'
                 PROVE  /\ pc'[q] # "marker" => MarkerAt(seenTail[q], len[q])
                        /\ pc'[q] \in {"payload", "commit_wait", "commit"} => LengthAt(seenTail[q], len[q])
                        /\ pc'[q] \in {"commit_wait", "commit"} => PayloadAt(seenTail[q], Message(q))
      BY <1>1 DEF ClaimsWritten, MarkerAt, LengthAt, PayloadAt, WordAt, Message
    <3>1. CASE q = p
      BY <1>2, <2>1, <3>1 DEF MarkerAt
    <3>2. CASE q # p
      BY <2>11, <3>2 DEF IInv, ClaimsWritten
    <3> QED
      BY <3>1, <3>2
  <2>14. ASSUME NEW pos, Laid(pos) PROVE Laid(pos)'
    BY <1>1, <2>14 DEF Laid, Positions, HeadAt, RecordsLaid, PopView, AtStart, First, MarkerAt,
                LengthAt, PayloadAt, WordAt, consumerVars
  <2> QED
    BY <2>8, <2>9, <2>10, <2>12, <2>13, <2>14 DEF IInv
<1>4. CASE Word(tail_reserve) # Word(seenTail[p])
  <2>1. pc' = [pc EXCEPT ![p] = "load_head"] /\ UNCHANGED tail_reserve
    BY <1>4 DEF CompareExchange, Goto
  <2>2. TypeOK'
    BY <1>1, <2>1 DEF IInv, TypeOK, PcValues, consumerVars
  <2> QED
    BY <1>1, <1>2, <2>1, <2>2, LocalStep DEF cursorVars
<1> QED
  BY <1>3, <1>4

\* A write of p into its own claim.
LEMMA WriteStep ==
  ASSUME CapacityDivides, IInv, TypeOK', NEW p \in Claiming,
         UNCHANGED <<cursorVars, n, len, seenHead, seenTail, consumerVars, sent, received>>,
         \A q \in Producers \ {p} : pc'[q] = pc[q],
         pc'[p] \in {"length", "payload", "commit_wait"},
         \A c \in Aligned :
           /\ head <= c /\ c < tail_reserve
           /\ c < seenTail[p] \/ NewTail(p) <= c
           => WordAt(c)' = WordAt(c),
         MarkerAt(seenTail[p], len[p])',
         pc'[p] \in {"payload", "commit_wait"} => LengthAt(seenTail[p], len[p])',
         pc'[p] = "commit_wait" => PayloadAt(seenTail[p], Message(p))'
  PROVE  IInv'
<1>1. p \in Producers /\ pc[p] \in Pushing
  BY ClaimingIsPushing
<1>2. CursorsOrdered' /\ DeliversInOrder' /\ PushFits' /\ LoadedView'
  BY <1>1 DEF IInv, CursorsOrdered, DeliversInOrder, PushFits, Pushing, LoadedView, NewTail, cursorVars
<1>3. Claiming' = Claiming /\ pc'[p] \notin {"marker", "commit"}
  BY <1>1 DEF Claiming
<1>4. ClaimsApart'
  BY <1>3 DEF IInv, ClaimsApart, NewTail, cursorVars, Claiming
<1>5. /\ head \in Nat /\ tail_commit \in Nat /\ tail_reserve \in Nat
      /\ head <= tail_commit /\ tail_commit <= tail_reserve
      /\ tail_commit <= seenTail[p] /\ NewTail(p) <= tail_reserve
      /\ seenTail[p] \in Nat /\ NewTail(p) \in Nat
  BY <1>1, ClaimOf DEF IInv, TypeOK, Aligned, CursorsOrdered, ClaimsApart
<1>6. ClaimsWritten'
  <2> SUFFICES ASSUME NEW q \in Claiming, q # p
               PROVE  /\ pc[q] # "marker" => MarkerAt(seenTail[q], len[q])'
                      /\ pc[q] \in {"payload", "commit_wait", "commit"} => LengthAt(seenTail[q], len[q])'
                      /\ pc[q] \in {"commit_wait", "commit"} => PayloadAt(seenTail[q], Message(q))'
    BY <1>3, ClaimingIsPushing DEF ClaimsWritten
  <2>1. /\ seenTail[q] \in Aligned /\ len[q] \in Nat /\ RecordSize(len[q]) <= Cap
        /\ NewTail(q) = ClaimEnd(seenTail[q], len[q]) /\ NewTail(q) \in Nat
        /\ seenTail[q] \in Nat
    BY ClaimingIsPushing, ClaimOf DEF IInv, Aligned
  <2>2. /\ tail_commit <= seenTail[q] /\ NewTail(q) <= tail_reserve
        /\ NewTail(q) <= seenTail[p] \/ NewTail(p) <= seenTail[q]
    BY DEF IInv, ClaimsApart
  <2>3. ASSUME NEW c \in Aligned, seenTail[q] <= c, c < NewTail(q)
        PROVE  WordAt(c)' = WordAt(c)
    <3>1. c \in Nat
      BY DEF Aligned
    <3> QED
      BY <1>5, <2>1, <2>2, <2>3, <3>1
  <2>4. \A k \in 0 .. PayloadWords(len[q]) :
          WordAt(Start(seenTail[q], len[q]) + 4 * k)' = WordAt(Start(seenTail[q], len[q]) + 4 * k)
    <3> TAKE k \in 0 .. PayloadWords(len[q])
    <3>1. Start(seenTail[q], len[q]) + 4 * k \in Aligned
          /\ seenTail[q] <= Start(seenTail[q], len[q]) + 4 * k
          /\ Start(seenTail[q], len[q]) + 4 * k < NewTail(q)
      BY <2>1, RecordCursors
    <3>2. seenTail'[q] = seenTail[q] /\ len'[q] = len[q]
      OBVIOUS
    <3> QED
      BY <2>3, <3>1, <3>2 DEF WordAt
  <2>5. PayloadWords(len[q]) \in Nat /\ Start(seenTail[q], len[q]) \in Nat
    BY <2>1, RecordWords, ClaimLayout DEF Aligned
  <2>6. seenTail[q] < NewTail(q)
    <3>1. RecordSize(len[q]) \in Nat /\ RecordSize(len[q]) >= 4
          /\ NewTail(q) = Start(seenTail[q], len[q]) + RecordSize(len[q])
          /\ seenTail[q] <= Start(seenTail[q], len[q])
      BY <2>1, RecordWords, ClaimLayout DEF Aligned
    <3> QED
      BY <2>1, <2>5, <3>1
  <2>7. WordAt(seenTail[q])' = WordAt(seenTail[q])
    BY <2>1, <2>3, <2>6 DEF WordAt
  <2>8. WordAt(Start(seenTail[q], len[q]))' = WordAt(Start(seenTail[q], len[q]))
    <3>1. 0 \in 0 .. PayloadWords(len[q]) /\ Start(seenTail[q], len[q]) + 4 * 0 = Start(seenTail[q], len[q])
      BY <2>5
    <3> QED
      BY <2>4, <3>1 DEF WordAt
  <2>9. pc[q] # "marker" => MarkerAt(seenTail[q], len[q])'
    BY <2>7 DEF IInv, ClaimsWritten, MarkerAt
  <2>10. pc[q] \in {"payload", "commit_wait", "commit"} => LengthAt(seenTail[q], len[q])'
    BY <2>8 DEF IInv, ClaimsWritten, LengthAt
  <2>11. pc[q] \in {"commit_wait", "commit"} => PayloadAt(seenTail[q], Message(q))'
    <3> SUFFICES ASSUME pc[q] \in {"commit_wait", "commit"}, NEW k \in 1 .. PayloadWords(len[q])
                 PROVE  WordAt(Start(seenTail[q], len[q]) + 4 * k)' = PayloadWord(q, n[q], k)
      BY DEF PayloadAt, Message
    <3>1. k \in 0 .. PayloadWords(len[q])
      BY <2>5
    <3>2. PayloadAt(seenTail[q], Message(q))
      BY DEF IInv, ClaimsWritten
    <3> QED
      BY <2>4, <3>1, <3>2 DEF PayloadAt, Message
  <2> QED
    BY <2>9, <2>10, <2>11
<1>7. ASSUME NEW pos, Laid(pos) PROVE Laid(pos)'
  <2>1. Positions(pos)' /\ HeadAt(pos)' /\ PopView(pos)'
    BY <1>7 DEF Laid, Positions, HeadAt, PopView, AtStart, First, cursorVars, consumerVars
  <2>2. RecordsLaid(pos)'
    <3> SUFFICES ASSUME NEW i \in First .. Len(sent)
                 PROVE  /\ head <= pos[i] => MarkerAt(pos[i], sent[i].len)'
                        /\ LengthAt(pos[i], sent[i].len)'
                        /\ PayloadAt(pos[i], sent[i])'
      BY DEF RecordsLaid, First, cursorVars
    <3> DEFINE c == pos[i]
               l == sent[i].len
    <3>1. /\ c \in Aligned /\ c \in Nat /\ l \in Nat /\ RecordSize(l) <= Cap
          /\ head <= Start(c, l) /\ ClaimEnd(c, l) <= tail_commit
      BY <1>7, UnreadRecord DEF IInv, Laid, Aligned
    <3>2. /\ Start(c, l) \in Nat /\ ClaimEnd(c, l) \in Nat /\ c < ClaimEnd(c, l)
          /\ PayloadWords(l) \in Nat
      <4>1. Start(c, l) \in Nat /\ c <= Start(c, l) /\ ClaimEnd(c, l) = Start(c, l) + RecordSize(l)
            /\ RecordSize(l) \in Nat /\ RecordSize(l) >= 4 /\ PayloadWords(l) \in Nat
        BY <3>1, ClaimLayout, RecordWords DEF Aligned
      <4> QED
        BY <3>1, <4>1
    <3>3. ASSUME NEW x \in Aligned, head <= x, x < ClaimEnd(c, l)
          PROVE  WordAt(x)' = WordAt(x)
      <4>1. x \in Nat
        BY DEF Aligned
      <4> QED
        BY <1>5, <3>1, <3>2, <3>3, <4>1
    <3>4. \A k \in 0 .. PayloadWords(l) : WordAt(Start(c, l) + 4 * k)' = WordAt(Start(c, l) + 4 * k)
      <4> TAKE k \in 0 .. PayloadWords(l)
      <4>1. Start(c, l) + 4 * k \in Aligned /\ Start(c, l) + 4 * k < ClaimEnd(c, l)
        BY <3>1, RecordCursors
      <4>2. head <= Start(c, l) + 4 * k
        BY <1>5, <3>1, <3>2
      <4> QED
        BY <3>3, <4>1, <4>2 DEF WordAt
    <3>5. RecordsLaid(pos)
      BY <1>7 DEF Laid
    <3>6. head <= c => MarkerAt(c, l)'
      BY <3>1, <3>2, <3>3, <3>5 DEF RecordsLaid, MarkerAt
    <3>7. LengthAt(c, l)'
      <4>1. 0 \in 0 .. PayloadWords(l) /\ Start(c, l) + 4 * 0 = Start(c, l)
        BY <3>2
      <4> QED
        BY <3>4, <3>5, <4>1 DEF RecordsLaid, LengthAt, WordAt
    <3>8. PayloadAt(c, sent[i])'
      <4> SUFFICES ASSUME NEW k \in 1 .. PayloadWords(l)
                   PROVE  WordAt(Start(c, l) + 4 * k)' = PayloadWord(sent[i].from, sent[i].n, k)
        BY DEF PayloadAt
      <4>1. k \in 0 .. PayloadWords(l)
        BY <3>2
      <4> QED
        BY <3>4, <3>5, <4>1 DEF RecordsLaid, PayloadAt
    <3> QED
      BY <3>6, <3>7, <3>8
  <2> QED
    BY <2>1, <2>2 DEF Laid
<1> QED
  BY <1>2, <1>4, <1>6, <1>7 DEF IInv

\* Different cursors between head and tail_reserve have different offsets.
LEMMA OffsetsApart ==
  ASSUME CapacityDivides, IInv, NEW c \in Nat, NEW d \in Nat, c # d,
         head <= c, c < tail_reserve, head <= d, d < tail_reserve
  PROVE  Index(c) # Index(d)
<1>1. head \in Nat /\ tail_reserve \in Nat /\ tail_reserve <= head + Cap /\ Cap \in Nat
  BY RingAssumption DEF IInv, TypeOK, Aligned, CursorsOrdered
<1>2. CASE c < d
  <2>1. d < c + Cap
    BY <1>1
  <2> QED
    BY <1>2, <2>1, IndexInjective
<1>3. CASE d < c
  <2>1. c < d + Cap
    BY <1>1
  <2> QED
    BY <1>3, <2>1, IndexInjective
<1> QED
  BY <1>2, <1>3

\* Where the claim of p is.
LEMMA ClaimPlace ==
  ASSUME CapacityDivides, IInv, NEW p \in Claiming
  PROVE  /\ p \in Producers /\ seenTail[p] \in Aligned /\ seenTail[p] \in Nat
         /\ len[p] \in Nat /\ RecordSize(len[p]) <= Cap
         /\ head \in Nat /\ tail_reserve \in Nat
         /\ head <= seenTail[p] /\ seenTail[p] < NewTail(p) /\ NewTail(p) <= tail_reserve
         /\ Start(seenTail[p], len[p]) \in Aligned /\ Start(seenTail[p], len[p]) \in Nat
         /\ seenTail[p] <= Start(seenTail[p], len[p]) /\ Start(seenTail[p], len[p]) < NewTail(p)
         /\ NeedsMarker(seenTail[p], len[p]) => seenTail[p] # Start(seenTail[p], len[p])
         /\ NewTail(p) = ClaimEnd(seenTail[p], len[p]) /\ NewTail(p) \in Nat
         /\ StartIndex(p) = Index(Start(seenTail[p], len[p]))
<1>1. p \in Producers /\ pc[p] \in Pushing
  BY ClaimingIsPushing
<1>2. /\ seenTail[p] \in Aligned /\ len[p] \in Nat /\ RecordSize(len[p]) <= Cap
      /\ NewTail(p) = ClaimEnd(seenTail[p], len[p]) /\ NewTail(p) \in Nat
      /\ NewTail(p) = Start(seenTail[p], len[p]) + RecordSize(len[p])
      /\ StartIndex(p) = Index(Start(seenTail[p], len[p]))
  BY <1>1, ClaimOf DEF IInv, Aligned
<1>3. /\ Start(seenTail[p], len[p]) \in Aligned /\ Start(seenTail[p], len[p]) \in Nat
      /\ seenTail[p] \in Nat /\ seenTail[p] <= Start(seenTail[p], len[p])
      /\ NeedsMarker(seenTail[p], len[p]) => seenTail[p] < Start(seenTail[p], len[p])
      /\ RecordSize(len[p]) \in Nat /\ RecordSize(len[p]) >= 4
  BY <1>2, ClaimLayout, RecordWords DEF Aligned
<1>4. /\ head \in Nat /\ tail_reserve \in Nat /\ tail_commit \in Nat
      /\ head <= tail_commit /\ tail_commit <= seenTail[p] /\ NewTail(p) <= tail_reserve
  BY DEF IInv, TypeOK, Aligned, CursorsOrdered, ClaimsApart
<1> QED
  BY <1>1, <1>2, <1>3, <1>4

LEMMA WriteMarkerStep ==
  ASSUME CapacityDivides, IInv, NEW p \in Producers, WriteMarker(p) PROVE IInv'
<1> DEFINE t == seenTail[p]
<1>1. /\ pc[p] = "marker" /\ pc' = [pc EXCEPT ![p] = "length"]
      /\ data' = [data EXCEPT ![Index(t)] = WRAP_MARKER]
      /\ UNCHANGED <<cursorVars, n, len, seenHead, seenTail, consumerVars, sent, received>>
  BY DEF WriteMarker, Goto
<1>2. p \in Claiming /\ pc \in [Producers -> PcValues] /\ data \in [Offsets -> BufferWords]
  BY <1>1 DEF Claiming, IInv, TypeOK
<1>3. TypeOK'
  <2>1. WRAP_MARKER \in BufferWords
    BY DEF BufferWords
  <2> QED
    BY <1>1, <2>1 DEF IInv, TypeOK, PcValues, cursorVars, consumerVars
<1>4. /\ t \in Aligned /\ t \in Nat /\ head <= t /\ t < NewTail(p) /\ NewTail(p) <= tail_reserve
      /\ NewTail(p) \in Nat /\ tail_reserve \in Nat
  BY <1>2, ClaimPlace
<1>5. Index(t) \in Offsets
  BY <1>4, AlignedIndex
<1>6. MarkerAt(seenTail[p], len[p])'
  BY <1>1, <1>2, <1>5 DEF MarkerAt, WordAt
<1>7. ASSUME NEW c \in Aligned, head <= c, c < tail_reserve, c < t \/ NewTail(p) <= c
      PROVE  WordAt(c)' = WordAt(c)
  <2>1. c \in Nat /\ c # t /\ t < tail_reserve
    BY <1>4, <1>7 DEF Aligned
  <2>2. Index(c) # Index(t)
    BY <1>4, <1>7, <2>1, OffsetsApart
  <2> QED
    BY <1>1, <1>2, <2>2 DEF WordAt
<1> QED
  BY <1>1, <1>2, <1>3, <1>6, <1>7, WriteStep

LEMMA WriteLengthStep ==
  ASSUME CapacityDivides, IInv, NEW p \in Producers, WriteLength(p) PROVE IInv'
<1> DEFINE t == seenTail[p]
           s == Start(seenTail[p], len[p])
<1>1. /\ pc[p] = "length" /\ pc' = [pc EXCEPT ![p] = "payload"]
      /\ data' = [data EXCEPT ![StartIndex(p)] = LenWord(len[p])]
      /\ UNCHANGED <<cursorVars, n, len, seenHead, seenTail, consumerVars, sent, received>>
  BY DEF WriteLength, Goto
<1>2. p \in Claiming /\ pc \in [Producers -> PcValues] /\ data \in [Offsets -> BufferWords]
  BY <1>1 DEF Claiming, IInv, TypeOK
<1>4. /\ t \in Aligned /\ t \in Nat /\ head <= t /\ t < NewTail(p) /\ NewTail(p) <= tail_reserve
      /\ NewTail(p) \in Nat /\ tail_reserve \in Nat /\ head \in Nat /\ len[p] \in Nat
      /\ s \in Aligned /\ s \in Nat /\ t <= s /\ s < NewTail(p) /\ StartIndex(p) = Index(s)
      /\ NeedsMarker(t, len[p]) => t # s
  BY <1>2, ClaimPlace
<1> HIDE DEF s, t
<1>3. TypeOK'
  <2>1. LenWord(len[p]) \in BufferWords
    BY <1>4 DEF BufferWords, LenWord
  <2> QED
    BY <1>1, <2>1 DEF IInv, TypeOK, PcValues, cursorVars, consumerVars
<1>5. Index(s) \in Offsets
  BY <1>4, AlignedIndex
<1>6. ASSUME NEW c \in Aligned, head <= c, c < tail_reserve, c # s
      PROVE  data'[Index(c)] = data[Index(c)]
  <2>1. c \in Nat /\ s < tail_reserve /\ head <= s
    BY <1>4 DEF Aligned
  <2>2. Index(c) # Index(s)
    BY <1>4, <1>6, <2>1, OffsetsApart
  <2> QED
    BY <1>1, <1>2, <1>4, <2>2
<1>7. MarkerAt(seenTail[p], len[p])'
  <2>1. MarkerAt(t, len[p])
    BY <1>1, <1>2 DEF IInv, ClaimsWritten, t
  <2>2. NeedsMarker(t, len[p]) => data'[Index(t)] = data[Index(t)]
    <3>1. t < tail_reserve
      BY <1>4
    <3> QED
      BY <1>4, <1>6, <3>1
  <2>3. t = seenTail[p] /\ UNCHANGED <<seenTail, len>>
    BY <1>1 DEF t
  <2> QED
    BY <2>1, <2>2, <2>3 DEF MarkerAt, WordAt
<1>8. LengthAt(seenTail[p], len[p])'
  BY <1>1, <1>2, <1>4, <1>5 DEF LengthAt, WordAt, s
<1>9. \A c \in Aligned :
        head <= c /\ c < tail_reserve /\ (c < seenTail[p] \/ NewTail(p) <= c)
          => WordAt(c)' = WordAt(c)
  <2> SUFFICES ASSUME NEW c \in Aligned, head <= c, c < tail_reserve,
                      c < seenTail[p] \/ NewTail(p) <= c
               PROVE  WordAt(c)' = WordAt(c)
    OBVIOUS
  <2>1. c # s
    BY <1>4 DEF Aligned, t
  <2> QED
    BY <1>6, <2>1 DEF WordAt
<1>10. pc'[p] = "payload" /\ \A q \in Producers \ {p} : pc'[q] = pc[q]
  BY <1>1, <1>2
<1> QED
  BY <1>1, <1>2, <1>3, <1>7, <1>8, <1>9, <1>10, WriteStep

LEMMA WritePayloadStep ==
  ASSUME CapacityDivides, IInv, NEW p \in Producers, WritePayload(p) PROVE IInv'
<1> DEFINE t == seenTail[p]
           s == Start(seenTail[p], len[p])
           K == PayloadWords(len[p])
<1>1. /\ pc[p] = "payload" /\ pc' = [pc EXCEPT ![p] = "commit_wait"]
      /\ UNCHANGED <<cursorVars, n, len, seenHead, seenTail, consumerVars, sent, received>>
  BY DEF WritePayload, Goto
<1>2. data' = [i \in Offsets |-> IF (i - StartIndex(p)) \div 4 \in 1 .. K
                                 THEN PayloadWord(p, n[p], (i - StartIndex(p)) \div 4) ELSE data[i]]
  BY DEF WritePayload
<1>3. p \in Claiming /\ pc \in [Producers -> PcValues] /\ data \in [Offsets -> BufferWords]
      /\ n[p] \in Nat
  BY <1>1 DEF Claiming, IInv, TypeOK
<1>4. /\ t \in Aligned /\ t \in Nat /\ head <= t /\ t < NewTail(p) /\ NewTail(p) <= tail_reserve
      /\ NewTail(p) \in Nat /\ tail_reserve \in Nat /\ head \in Nat /\ len[p] \in Nat
      /\ s \in Aligned /\ s \in Nat /\ t <= s /\ s < NewTail(p) /\ StartIndex(p) = Index(s)
      /\ NeedsMarker(t, len[p]) => t # s
  BY <1>3, ClaimPlace
<1>5. Index(s) \in Offsets /\ K \in Nat
  BY <1>4, AlignedIndex, RecordWords
<1>6. \A k \in 1 .. K : /\ s + 4 * k \in Aligned /\ s + 4 * k \in Nat /\ s + 4 * k < NewTail(p)
                        /\ Index(s + 4 * k) = Index(s) + 4 * k /\ Index(s) + 4 * k \in Offsets
  <2> TAKE k \in 1 .. K
  <2>1. k \in 0 .. K
    BY <1>5
  <2>2. RecordSize(len[p]) <= Cap /\ NewTail(p) = ClaimEnd(t, len[p])
    BY <1>3, ClaimPlace
  <2> QED
    BY <1>4, <2>1, <2>2, RecordCursors DEF Aligned
<1> HIDE DEF s, t, K
<1>7. TypeOK'
  <2>1. \A k \in 1 .. K : PayloadWord(p, n[p], k) \in BufferWords
    BY <1>3, <1>5 DEF BufferWords, PayloadWord
  <2>2. data' \in [Offsets -> BufferWords]
    BY <1>2, <1>3, <2>1
  <2> QED
    BY <1>1, <2>2 DEF IInv, TypeOK, PcValues, cursorVars, consumerVars
\* A word that is none of the payload's is kept.
<1>8. ASSUME NEW c \in Aligned, head <= c, c < tail_reserve, \A k \in 1 .. K : c # s + 4 * k
      PROVE  data'[Index(c)] = data[Index(c)]
  <2> DEFINE k == (Index(c) - Index(s)) \div 4
  <2>1. Index(c) \in Offsets /\ c \in Nat
    BY AlignedIndex DEF Aligned
  <2>2. k \in 1 .. K => Index(c) = Index(s) + 4 * k
    BY <1>5, <2>1 DEF Offsets, RECORD_ALIGN
  <2> HIDE DEF k
  <2>3. k \notin 1 .. K
    <3> SUFFICES ASSUME k \in 1 .. K PROVE FALSE
      OBVIOUS
    <3>1. Index(c) = Index(s + 4 * k) /\ s + 4 * k \in Nat /\ c # s + 4 * k
      BY <1>6, <1>8, <2>2
    <3>2. head <= s + 4 * k /\ s + 4 * k < tail_reserve
      BY <1>4, <1>5, <1>6
    <3> QED
      BY <1>8, <2>1, <3>1, <3>2, OffsetsApart
  <2> QED
    BY <1>2, <1>4, <2>1, <2>3 DEF k
<1>9. MarkerAt(seenTail[p], len[p])' /\ LengthAt(seenTail[p], len[p])'
  <2>1. MarkerAt(t, len[p]) /\ LengthAt(t, len[p])
    BY <1>1, <1>3 DEF IInv, ClaimsWritten, t
  <2>2. \A k \in 1 .. K : s # s + 4 * k /\ t # s + 4 * k
    BY <1>4, <1>5
  <2>3. data'[Index(t)] = data[Index(t)] /\ data'[Index(s)] = data[Index(s)]
    <3>1. head <= s /\ s < tail_reserve /\ t < tail_reserve
      BY <1>4
    <3> QED
      BY <1>4, <1>8, <2>2, <3>1
  <2>4. t = seenTail[p] /\ s = Start(t, len[p]) /\ UNCHANGED <<seenTail, len>>
    BY <1>1 DEF t, s
  <2> QED
    BY <2>1, <2>3, <2>4 DEF MarkerAt, LengthAt, WordAt
<1>10. PayloadAt(seenTail[p], Message(p))'
  <2> SUFFICES ASSUME NEW k \in 1 .. K PROVE data'[Index(s + 4 * k)] = PayloadWord(p, n[p], k)
    BY <1>1 DEF PayloadAt, Message, WordAt, s, K
  <2>1. Index(s + 4 * k) = Index(s) + 4 * k /\ Index(s) + 4 * k \in Offsets
    BY <1>6
  <2>2. Index(s) \in Nat /\ k \in Nat /\ StartIndex(p) = Index(s)
    BY <1>4, <1>5 DEF Offsets
  <2>3. Index(s + 4 * k) - StartIndex(p) = 4 * k
    BY <2>1, <2>2
  <2>4. (Index(s + 4 * k) - StartIndex(p)) \div 4 = k
    BY <2>2, <2>3
  <2> QED
    BY <1>2, <2>1, <2>4
<1>11. \A c \in Aligned :
        head <= c /\ c < tail_reserve /\ (c < seenTail[p] \/ NewTail(p) <= c)
          => WordAt(c)' = WordAt(c)
  <2> SUFFICES ASSUME NEW c \in Aligned, head <= c, c < tail_reserve,
                      c < seenTail[p] \/ NewTail(p) <= c
               PROVE  WordAt(c)' = WordAt(c)
    OBVIOUS
  <2>1. \A k \in 1 .. K : c # s + 4 * k
    BY <1>4, <1>5, <1>6 DEF Aligned, t
  <2> QED
    BY <1>8, <2>1 DEF WordAt
<1>12. pc'[p] = "commit_wait" /\ \A q \in Producers \ {p} : pc'[q] = pc[q]
  BY <1>1, <1>3
<1> QED
  BY <1>1, <1>3, <1>7, <1>9, <1>10, <1>11, <1>12, WriteStep

\* The committed record joins the ones that were not popped.
LEMMA CommitStep ==
  ASSUME CapacityDivides, IInv, NEW p \in Producers, Commit(p) PROVE IInv'
<1> DEFINE N == Len(sent)
           Messages == [from : Producers, n : Nat, len : Nat]
<1>1. /\ pc[p] = "commit" /\ pc' = [pc EXCEPT ![p] = "idle"] /\ tail_commit' = NewTail(p)
      /\ sent' = Append(sent, Message(p))
      /\ UNCHANGED <<head, tail_reserve, data, n, len, seenHead, seenTail, consumerVars, received>>
  BY DEF Commit, Goto, Message
<1>2. p \in Claiming /\ pc \in [Producers -> PcValues] /\ pc[p] \in Pushing
  BY <1>1 DEF Claiming, Pushing, IInv, TypeOK
<1>3. /\ seenTail[p] \in Aligned /\ seenTail[p] \in Nat /\ len[p] \in Nat /\ RecordSize(len[p]) <= Cap
      /\ seenTail[p] < NewTail(p) /\ NewTail(p) <= tail_reserve
      /\ NewTail(p) = ClaimEnd(seenTail[p], len[p]) /\ NewTail(p) \in Nat
  BY <1>2, ClaimPlace
<1>4. NewTail(p) \in Aligned
  BY <1>2, ClaimOf DEF IInv
<1>5. seenTail[p] = tail_commit
  BY <1>1, <1>2 DEF IInv, ClaimsApart
<1>6. /\ N \in Nat /\ Len(sent') = N + 1 /\ sent'[N + 1] = Message(p)
      /\ \A i \in 1 .. N : sent'[i] = sent[i]
      /\ Len(received) \in Nat /\ First' = First
  <2>1. sent \in Seq(Messages)
    BY DEF IInv, TypeOK
  <2> HIDE DEF Messages
  <2>2. Len(received) \in Nat /\ First' = First
    BY <1>1 DEF IInv, TypeOK, First
  <2> QED
    BY <1>1, <2>1, <2>2
<1>7. TypeOK'
  <2>1. Message(p) \in Messages
    BY DEF IInv, TypeOK, Message
  <2>2. sent' \in Seq(Messages)
    <3>1. sent \in Seq(Messages)
      BY DEF IInv, TypeOK
    <3> HIDE DEF Messages
    <3> QED
      BY <1>1, <2>1, <3>1
  <2> QED
    BY <1>1, <1>4, <2>2 DEF IInv, TypeOK, PcValues, consumerVars
<1>8. CursorsOrdered' /\ PushFits' /\ LoadedView'
  <2>1. head \in Nat /\ tail_commit \in Nat
    BY DEF IInv, TypeOK, Aligned
  <2>2. CursorsOrdered'
    BY <1>1, <1>3, <1>5, <2>1 DEF IInv, CursorsOrdered
  <2> QED
    BY <1>1, <1>2, <2>2 DEF IInv, PushFits, Pushing, LoadedView, NewTail
<1>9. DeliversInOrder'
  <2>1. \A i \in 1 .. Len(received) : i \in 1 .. N
    BY <1>6 DEF IInv, DeliversInOrder
  <2> QED
    BY <1>1, <1>6, <2>1 DEF IInv, DeliversInOrder
<1>10. \A q \in Claiming' : q \in Claiming /\ q # p /\ pc'[q] = pc[q]
  BY <1>1, <1>2 DEF Claiming
<1>11. ClaimsApart'
  <2>1. ASSUME NEW q \in Claiming'
        PROVE  NewTail(p) <= seenTail[q] /\ NewTail(q) <= tail_reserve /\ pc[q] # "commit"
    <3>1. q \in Claiming /\ q # p
      BY <1>10
    <3>2. seenTail[q] \in Nat /\ seenTail[q] < NewTail(q) /\ NewTail(q) \in Nat
      BY <3>1, ClaimPlace
    <3>3. /\ tail_commit <= seenTail[q] /\ NewTail(q) <= tail_reserve
          /\ pc[q] = "commit" => seenTail[q] = tail_commit
          /\ NewTail(p) <= seenTail[q] \/ NewTail(q) <= seenTail[p]
      BY <1>2, <3>1 DEF IInv, ClaimsApart
    <3> QED
      BY <1>3, <1>5, <3>2, <3>3
  <2> QED
    BY <1>1, <1>10, <2>1 DEF IInv, ClaimsApart, NewTail
<1>12. ClaimsWritten'
  BY <1>1, <1>10 DEF IInv, ClaimsWritten, MarkerAt, LengthAt, PayloadAt, WordAt, Message
<1>13. PICK pos : Laid(pos)
  BY DEF IInv
<1>14. PICK npos : npos = [i \in 1 .. N + 2 |-> IF i <= N + 1 THEN pos[i] ELSE NewTail(p)]
  OBVIOUS
<1>15. /\ npos \in [1 .. N + 2 -> Aligned] /\ npos[N + 2] = NewTail(p) /\ npos[N + 1] = tail_commit
       /\ \A i \in 1 .. N + 1 : npos[i] = pos[i]
  <2>1. pos \in [1 .. N + 1 -> Aligned] /\ pos[N + 1] = tail_commit
    BY <1>13 DEF Laid, Positions
  <2> HIDE DEF N
  <2>2. \A i \in 1 .. N + 2 : i <= N + 1 => i \in 1 .. N + 1
    BY <1>6
  <2>3. npos \in [1 .. N + 2 -> Aligned]
    BY <1>4, <1>14, <2>1, <2>2
  <2> QED
    BY <1>6, <1>14, <2>1, <2>3
<1> HIDE DEF N, Messages
<1>16. Positions(npos)'
  <2>1. ASSUME NEW i \in 1 .. N + 1
        PROVE  /\ RecordSize(sent'[i].len) <= Cap
               /\ npos[i + 1] = ClaimEnd(npos[i], sent'[i].len)
               /\ \A j \in i + 1 .. N + 2 : ClaimEnd(npos[i], sent'[i].len) <= npos[j]
    <3>1. CASE i = N + 1
      <4>1. sent'[i].len = len[p] /\ npos[i] = seenTail[p] /\ npos[i + 1] = NewTail(p)
        BY <1>5, <1>6, <1>15, <3>1 DEF Message
      <4>2. \A j \in i + 1 .. N + 2 : npos[j] = NewTail(p)
        BY <1>6, <1>15, <3>1
      <4> QED
        BY <1>3, <4>1, <4>2
    <3>2. CASE i # N + 1
      <4>1. i \in 1 .. N /\ i + 1 \in 1 .. N + 1
        BY <1>6, <3>2
      <4>2. npos[i] = pos[i] /\ npos[i + 1] = pos[i + 1] /\ sent'[i] = sent[i]
        BY <1>6, <1>15, <4>1
      <4>3. /\ RecordSize(sent[i].len) <= Cap /\ pos[i + 1] = ClaimEnd(pos[i], sent[i].len)
            /\ \A j \in i + 1 .. N + 1 : ClaimEnd(pos[i], sent[i].len) <= pos[j]
        BY <1>13, <4>1 DEF Laid, Positions, N
      <4>4. pos[i + 1] \in Nat /\ pos[N + 1] = tail_commit
        <5>1. pos \in [1 .. N + 1 -> Aligned] /\ pos[N + 1] = tail_commit
          BY <1>13 DEF Laid, Positions, N
        <5> QED
          BY <4>1, <5>1 DEF Aligned
      <4>5. ClaimEnd(pos[i], sent[i].len) <= NewTail(p)
        <5>1. N + 1 \in i + 1 .. N + 1
          BY <1>6, <4>1
        <5> QED
          BY <1>3, <1>5, <4>3, <4>4, <5>1
      <4>6. \A j \in i + 1 .. N + 2 : j = N + 2 \/ (j \in i + 1 .. N + 1 /\ npos[j] = pos[j])
        BY <1>6, <1>15, <4>1
      <4> QED
        BY <1>15, <4>2, <4>3, <4>5, <4>6
    <3> QED
      BY <3>1, <3>2
  <2>2. Len(sent') + 1 = N + 2 /\ Len(sent') = N + 1
    BY <1>6
  <2> QED
    BY <1>1, <1>15, <2>1, <2>2 DEF Positions
<1>17. First \in 1 .. N + 1 /\ npos[First] = pos[First]
       /\ (First <= N => First \in 1 .. N /\ sent'[First] = sent[First])
  <2>1. First <= N + 1 /\ First \in Nat /\ First >= 1
    BY <1>6, <1>13 DEF Laid, HeadAt, N, First
  <2>2. First \in 1 .. N + 1 /\ (First <= N => First \in 1 .. N)
    BY <1>6, <2>1
  <2> QED
    BY <1>6, <1>15, <2>2
<1>18. AtStart(pos) => AtStart(npos)'
  BY <1>1, <1>6, <1>17 DEF AtStart, N
<1>19. HeadAt(npos)'
  BY <1>1, <1>6, <1>13, <1>17, <1>18 DEF Laid, HeadAt, N
<1>20. RecordsLaid(npos)'
  <2> SUFFICES ASSUME NEW i \in First .. N + 1
               PROVE  /\ head <= npos[i] => MarkerAt(npos[i], sent'[i].len)
                      /\ LengthAt(npos[i], sent'[i].len)
                      /\ PayloadAt(npos[i], sent'[i])
    BY <1>1, <1>6 DEF RecordsLaid, MarkerAt, LengthAt, PayloadAt, WordAt
  <2>1. CASE i = N + 1
    <3>1. npos[i] = seenTail[p] /\ sent'[i] = Message(p) /\ Message(p).len = len[p]
      BY <1>5, <1>6, <1>15, <2>1 DEF Message
    <3> QED
      BY <1>1, <1>2, <3>1 DEF IInv, ClaimsWritten
  <2>2. CASE i # N + 1
    <3>1. i \in First .. N /\ i \in 1 .. N /\ i \in 1 .. N + 1
      BY <1>6, <1>17, <2>2
    <3>2. npos[i] = pos[i] /\ sent'[i] = sent[i]
      BY <1>6, <1>15, <3>1
    <3> QED
      BY <1>13, <3>1, <3>2 DEF Laid, RecordsLaid, N
  <2> QED
    BY <2>1, <2>2
<1>21. PopView(npos)'
  <2>1. PopView(pos)
    BY <1>13 DEF Laid
  <2>2. ASSUME cpc # "idle"
        PROVE  First <= N + 1 /\ \E j \in First + 1 .. N + 2 : popTail = npos[j]
    <3>1. PICK j \in First + 1 .. N + 1 : popTail = pos[j]
      BY <2>1, <2>2 DEF PopView, N
    <3>2. j \in 1 .. N + 1 /\ j \in First + 1 .. N + 2
      BY <1>6, <1>17
    <3> QED
      BY <1>15, <1>17, <3>1, <3>2
  <2>3. cpc # "idle" => First <= N
    BY <2>1 DEF PopView, N
  <2>4. /\ cpc' = cpc /\ popTail' = popTail /\ popLen' = popLen /\ popOut' = popOut /\ head' = head
        /\ Len(sent') = N + 1 /\ Len(sent') + 1 = N + 2
    BY <1>1, <1>6 DEF consumerVars
  <2> QED
    BY <1>6, <1>17, <1>18, <2>1, <2>2, <2>3, <2>4 DEF PopView
<1>22. Laid(npos)'
  BY <1>16, <1>19, <1>20, <1>21 DEF Laid
<1> QED
  BY <1>7, <1>8, <1>9, <1>11, <1>12, <1>22 DEF IInv

-----------------------------------------------------------------------------
(* The consumer.                                                           *)

\* A step of the consumer, which may move the head forward.
LEMMA ConsumerStep ==
  ASSUME CapacityDivides, IInv, TypeOK',
         UNCHANGED <<tail_reserve, tail_commit, data, producerVars, sent>>,
         head <= head', head' <= tail_commit, DeliversInOrder', NEW pos, Laid(pos)'
  PROVE  IInv'
<1>1. /\ head \in Nat /\ head' \in Nat /\ tail_commit \in Nat /\ tail_reserve \in Nat
      /\ tail_reserve' \in Nat /\ Cap \in Nat
  BY RingAssumption DEF IInv, TypeOK, Aligned
<1>2. \A p \in Producers : seenHead[p] \in Nat
  BY DEF IInv, TypeOK, Aligned
<1>3. CursorsOrdered'
  <2>1. head <= head' /\ head' <= tail_commit' /\ tail_commit' <= tail_reserve'
        /\ tail_reserve' <= head + Cap
    BY DEF IInv, CursorsOrdered
  <2>2. \A a, b, c \in Nat : a <= b /\ c <= a + Cap => c <= b + Cap
    BY RingAssumption
  <2>3. tail_reserve' <= head' + Cap
    BY <1>1, <2>1, <2>2
  <2> QED
    BY <2>1, <2>3 DEF CursorsOrdered
<1>4. LoadedView'
  BY <1>1, <1>2 DEF IInv, LoadedView, NewTail, producerVars
<1>5. PushFits' /\ ClaimsApart' /\ ClaimsWritten'
  BY DEF IInv, PushFits, ClaimsApart, ClaimsWritten, Claiming, NewTail, MarkerAt, LengthAt,
         PayloadAt, WordAt, Message, producerVars
<1> QED
  BY <1>3, <1>4, <1>5 DEF IInv

\* The front record, once a pop has seen bytes to read.
LEMMA FrontRecord ==
  ASSUME CapacityDivides, IInv, NEW pos, Laid(pos), First <= Len(sent)
  PROVE  /\ First \in First .. Len(sent) /\ First \in 1 .. Len(sent) /\ Len(sent) \in Nat
         /\ head \in Aligned /\ head \in Nat /\ tail_commit \in Nat
         /\ pos[First] \in Aligned /\ pos[First] \in Nat
         /\ sent[First].len \in Nat /\ RecordSize(sent[First].len) <= Cap
         /\ Start(pos[First], sent[First].len) \in Aligned
         /\ Start(pos[First], sent[First].len) \in Nat
         /\ pos[First + 1] = Start(pos[First], sent[First].len) + RecordSize(sent[First].len)
         /\ RecordSize(sent[First].len) \in Nat
         /\ pos[First] <= Start(pos[First], sent[First].len)
         /\ pos[First + 1] <= tail_commit
<1>1. First \in Nat /\ First >= 1 /\ Len(sent) \in Nat /\ head \in Aligned /\ tail_commit \in Aligned
  BY DEF IInv, TypeOK, First
<1>2. First \in First .. Len(sent) /\ First \in 1 .. Len(sent)
  BY <1>1
<1>3. /\ pos[First] \in Aligned /\ sent[First].len \in Nat /\ RecordSize(sent[First].len) <= Cap
      /\ ClaimEnd(pos[First], sent[First].len) <= tail_commit
  BY <1>2, UnreadRecord DEF IInv, Laid
<1>4. /\ Start(pos[First], sent[First].len) \in Aligned
      /\ pos[First] <= Start(pos[First], sent[First].len)
      /\ ClaimEnd(pos[First], sent[First].len)
           = Start(pos[First], sent[First].len) + RecordSize(sent[First].len)
  BY <1>3, ClaimLayout
<1>5. pos[First + 1] = ClaimEnd(pos[First], sent[First].len)
  BY <1>2 DEF Laid, Positions
<1>6. RecordSize(sent[First].len) \in Aligned
  BY <1>3, RecordWords
<1>7. \A c \in Aligned : c \in Nat
  BY DEF Aligned
<1> QED
  BY <1>1, <1>2, <1>3, <1>4, <1>5, <1>6, <1>7

LEMMA PopLoadStep == ASSUME CapacityDivides, IInv, PopLoad PROVE IInv'
<1>1. /\ cpc = "idle" /\ Word(head) # Word(tail_commit) /\ popTail' = tail_commit /\ cpc' = "read"
      /\ UNCHANGED <<cursorVars, data, producerVars, popLen, popOut, sent, received>>
  BY DEF PopLoad
<1>2. TypeOK'
  BY <1>1 DEF IInv, TypeOK, CpcValues, cursorVars, producerVars
<1>3. PICK pos : Laid(pos)
  BY DEF IInv
<1>4. First <= Len(sent) /\ First \in Nat /\ Len(sent) \in Nat /\ pos[Len(sent) + 1] = tail_commit
  <2>1. First \in Nat /\ Len(sent) \in Nat
    BY DEF IInv, TypeOK, First
  <2>2. head # tail_commit /\ First <= Len(sent) + 1 /\ pos[Len(sent) + 1] = tail_commit
    BY <1>1, <1>3 DEF Laid, HeadAt, Positions
  <2>3. First <= Len(sent) \/ head = pos[First]
    BY <1>3 DEF Laid, HeadAt, AtStart
  <2> QED
    BY <2>1, <2>2, <2>3
<1>5. Laid(pos)'
  <2>1. Positions(pos)' /\ HeadAt(pos)' /\ RecordsLaid(pos)'
    BY <1>1, <1>3 DEF Laid, Positions, HeadAt, RecordsLaid, AtStart, First, MarkerAt,
                      LengthAt, PayloadAt, WordAt, cursorVars
  <2>2. Len(sent) + 1 \in First + 1 .. Len(sent) + 1
    BY <1>4
  <2>3. PopView(pos)'
    BY <1>1, <1>4, <2>2 DEF PopView, First
  <2> QED
    BY <2>1, <2>3 DEF Laid
<1>6. DeliversInOrder' /\ head <= head' /\ head' <= tail_commit
  BY <1>1 DEF IInv, DeliversInOrder, CursorsOrdered, TypeOK, Aligned, cursorVars
<1> QED
  BY <1>1, <1>2, <1>5, <1>6, ConsumerStep DEF cursorVars

\* A pop reads the wrap marker, or the length of the front record, which it
\* never takes for corrupt.
LEMMA PopReadStep == ASSUME CapacityDivides, IInv, PopRead PROVE IInv'
<1>1. /\ cpc = "read" /\ UNCHANGED <<cursorVars, data, producerVars, popTail, popOut, sent, received>>
  BY DEF PopRead
<1>2. PICK pos : Laid(pos)
  BY DEF IInv
<1> DEFINE c == pos[First]
           l == sent[First].len
<1>3. /\ First <= Len(sent)
      /\ \E j \in First + 1 .. Len(sent) + 1 : popTail = pos[j]
  BY <1>1, <1>2 DEF Laid, PopView
<1>4. /\ First \in First .. Len(sent) /\ First \in 1 .. Len(sent) /\ Len(sent) \in Nat
      /\ head \in Aligned /\ head \in Nat /\ tail_commit \in Nat
      /\ c \in Aligned /\ c \in Nat /\ l \in Nat /\ RecordSize(l) <= Cap
      /\ Start(c, l) \in Nat /\ RecordSize(l) \in Nat /\ pos[First + 1] = Start(c, l) + RecordSize(l)
  BY <1>2, <1>3, FrontRecord
<1>5. /\ head <= c => MarkerAt(c, l)
      /\ LengthAt(c, l)
  BY <1>2, <1>4 DEF Laid, RecordsLaid
<1>6. /\ RecordSize(l) <= Remaining(Start(c, l))
      /\ ~NeedsMarker(c, l) => Start(c, l) = c
  BY <1>4, ClaimLayout
<1>7. head = c \/ head = Start(c, l)
  BY <1>2 DEF Laid, HeadAt, AtStart
<1>8. /\ Positions(pos)' /\ HeadAt(pos)' /\ RecordsLaid(pos)'
  BY <1>1, <1>2 DEF Laid, Positions, HeadAt, RecordsLaid, AtStart, First, MarkerAt,
                    LengthAt, PayloadAt, WordAt, cursorVars
<1>9. DeliversInOrder' /\ head <= head' /\ head' <= tail_commit
  BY <1>1 DEF IInv, DeliversInOrder, CursorsOrdered, TypeOK, Aligned, cursorVars
<1>10. Remaining(head) >= 4 /\ Remaining(head) \in Nat
  BY <1>4, AlignedIndex DEF Aligned
<1>11. CASE head = c /\ NeedsMarker(c, l)
  <2>1. AtPadding
    BY <1>4, <1>5, <1>11 DEF MarkerAt, WordAt, AtPadding
  <2>2. cpc' = "skip" /\ popLen' = popLen
    BY <2>1 DEF PopRead
  <2>3. TypeOK'
    BY <1>1, <2>2 DEF IInv, TypeOK, CpcValues, cursorVars, producerVars
  <2>4. PopView(pos)'
    BY <1>1, <1>3, <1>11, <2>2 DEF PopView, First, cursorVars
  <2>5. Laid(pos)'
    BY <1>8, <2>4 DEF Laid
  <2> QED
    BY <1>1, <1>9, <2>3, <2>5, ConsumerStep DEF cursorVars
<1>12. CASE ~(head = c /\ NeedsMarker(c, l))
  <2>1. head = Start(c, l)
    BY <1>6, <1>7, <1>12
  <2>2. data[Index(head)] = LenWord(l)
    BY <1>5, <2>1 DEF LengthAt, WordAt
  <2>3. LenWord(l) # WRAP_MARKER
    <3>1. LenWord(l)[1] = "len" /\ WRAP_MARKER[1] = "wrap"
      BY DEF LenWord, WRAP_MARKER
    <3> QED
      BY <3>1
  <2>4. ~AtPadding
    BY <1>10, <2>2, <2>3 DEF AtPadding
  <2>5. LensReadFrom(data[Index(head)]) = {l}
    BY <2>2 DEF LensReadFrom, LenWord
  <2>6. ~Corrupt(l)
    <3>1. PICK j \in First + 1 .. Len(sent) + 1 : popTail = pos[j]
      BY <1>3
    <3>2. pos[First + 1] <= pos[j]
      BY <1>2, <1>4 DEF Laid, Positions
    <3>3. pos[j] <= tail_commit /\ pos[j] \in Nat
      <4>1. j \in 1 .. Len(sent) + 1 /\ pos \in [1 .. Len(sent) + 1 -> Aligned]
            /\ pos[Len(sent) + 1] = tail_commit
        BY <1>2, <1>4 DEF Laid, Positions
      <4>2. pos[j] \in Aligned /\ pos[j] \in Nat
        BY <4>1 DEF Aligned
      <4>3. CASE j = Len(sent) + 1
        BY <1>4, <4>1, <4>2, <4>3
      <4>4. CASE j # Len(sent) + 1
        <5>1. j \in First .. Len(sent)
          BY <1>4, <4>4
        <5>2. /\ sent[j].len \in Nat /\ RecordSize(sent[j].len) <= Cap
              /\ ClaimEnd(pos[j], sent[j].len) <= tail_commit
          BY <1>2, <5>1, UnreadRecord DEF IInv, Laid
        <5>3. /\ pos[j] <= Start(pos[j], sent[j].len) /\ Start(pos[j], sent[j].len) \in Nat
              /\ ClaimEnd(pos[j], sent[j].len)
                   = Start(pos[j], sent[j].len) + RecordSize(sent[j].len)
              /\ RecordSize(sent[j].len) \in Nat
          BY <4>2, <5>2, ClaimLayout, RecordWords DEF Aligned
        <5> QED
          BY <1>4, <4>2, <5>2, <5>3
      <4> QED
        BY <4>3, <4>4
    <3>4. tail_commit <= head + Cap /\ Cap \in Nat /\ Cap < CursorMod - 1 /\ CursorMod \in Nat
      <4>1. tail_commit <= tail_reserve /\ tail_reserve <= head + Cap /\ tail_reserve \in Nat
        BY DEF IInv, CursorsOrdered, TypeOK, Aligned
      <4> QED
        BY <1>4, <4>1, RingAssumption
    <3>5. /\ popTail \in Nat /\ head + RecordSize(l) <= popTail /\ head <= popTail
          /\ popTail - head < CursorMod
      <4>1. popTail \in Nat /\ popTail <= tail_commit /\ head + RecordSize(l) <= popTail
        BY <1>4, <2>1, <3>1, <3>2, <3>3
      <4> HIDE DEF l
      <4> QED
        BY <1>4, <3>4, <4>1
    <3>6. Distance(popTail, head) = popTail - head
      BY <1>4, <3>5, DistanceExact
    <3>7. RecordSize(l) <= Remaining(head)
      BY <1>6, <2>1
    <3> QED
      BY <1>4, <1>10, <3>5, <3>6, <3>7 DEF Corrupt
  <2>7. popLen' = l /\ cpc' = IF l > MaxPop THEN "drop" ELSE "copy"
    BY <2>4, <2>5, <2>6 DEF PopRead
  <2>8. TypeOK'
    BY <1>1, <1>4, <2>7 DEF IInv, TypeOK, CpcValues, cursorVars, producerVars
  <2>9. PopView(pos)'
    <3>1. AtStart(pos)'
      BY <1>1, <1>3, <2>1 DEF AtStart, First, cursorVars
    <3>2. MaxPop \in Nat /\ l \in Nat
      BY <1>4, RingAssumption
    <3> QED
      BY <1>1, <1>3, <2>7, <3>1, <3>2 DEF PopView, First, cursorVars
  <2>10. Laid(pos)'
    BY <1>8, <2>9 DEF Laid
  <2> QED
    BY <1>1, <1>9, <2>8, <2>10, ConsumerStep DEF cursorVars
<1> QED
  BY <1>11, <1>12

\* The skipped padding ends where the front record starts.
LEMMA PopSkipStep == ASSUME CapacityDivides, IInv, PopSkip PROVE IInv'
<1>1. /\ cpc = "skip" /\ head' = head + Remaining(head) /\ cpc' = "idle"
      /\ UNCHANGED <<tail_reserve, tail_commit, data, producerVars, popTail, popLen, popOut,
                     sent, received>>
  BY DEF PopSkip
<1>2. PICK pos : Laid(pos)
  BY DEF IInv
<1> DEFINE c == pos[First]
           l == sent[First].len
<1>3. First <= Len(sent) /\ head = c /\ NeedsMarker(c, l)
  BY <1>1, <1>2 DEF Laid, PopView
<1>4. /\ c \in Aligned /\ l \in Nat /\ RecordSize(l) <= Cap /\ c \in Nat /\ tail_commit \in Nat
      /\ Start(c, l) \in Nat /\ RecordSize(l) \in Nat /\ Start(c, l) \in Aligned
      /\ pos[First + 1] = Start(c, l) + RecordSize(l) /\ pos[First + 1] <= tail_commit
      /\ c <= Start(c, l)
  BY <1>2, <1>3, FrontRecord
<1>5. head' = Start(c, l)
  BY <1>1, <1>3, <1>4, ClaimLayout
<1>6. TypeOK'
  BY <1>1, <1>4, <1>5 DEF IInv, TypeOK, CpcValues, producerVars
<1>7. head <= head' /\ head' <= tail_commit
  BY <1>3, <1>4, <1>5
<1>8. Laid(pos)'
  <2>1. Positions(pos)' /\ PopView(pos)'
    BY <1>1, <1>2 DEF Laid, Positions, PopView
  <2>2. AtStart(pos)' /\ HeadAt(pos)'
    BY <1>1, <1>2, <1>3, <1>5 DEF Laid, HeadAt, AtStart, First
  <2>3. RecordsLaid(pos)'
    <3> SUFFICES ASSUME NEW i \in First .. Len(sent)
                 PROVE  /\ head' <= pos[i] => MarkerAt(pos[i], sent[i].len)
                        /\ LengthAt(pos[i], sent[i].len) /\ PayloadAt(pos[i], sent[i])
      BY <1>1 DEF RecordsLaid, First, MarkerAt, LengthAt, PayloadAt, WordAt
    <3>1. pos[i] \in Nat
      BY <1>2, UnreadRecord DEF IInv, Laid, Aligned
    <3>2. head' <= pos[i] => head <= pos[i]
      BY <1>3, <1>4, <1>5, <3>1
    <3> QED
      BY <1>2, <3>2 DEF Laid, RecordsLaid
  <2> QED
    BY <2>1, <2>2, <2>3 DEF Laid
<1>9. DeliversInOrder'
  BY <1>1 DEF IInv, DeliversInOrder
<1> QED
  BY <1>1, <1>6, <1>7, <1>8, <1>9, ConsumerStep

\* What is copied is the payload of the front record.
LEMMA PopCopyStep == ASSUME CapacityDivides, IInv, PopCopy PROVE IInv'
<1>1. /\ cpc = "copy" /\ cpc' = "advance"
      /\ popOut' = [k \in 1 .. PayloadWords(popLen) |-> data[Index(head) + 4 * k]]
      /\ UNCHANGED <<cursorVars, data, producerVars, popTail, popLen, sent, received>>
  BY DEF PopCopy
<1>2. PICK pos : Laid(pos)
  BY DEF IInv
<1> DEFINE c == pos[First]
           m == sent[First]
           K == PayloadWords(m.len)
<1>3. /\ First <= Len(sent) /\ head = Start(c, m.len) /\ popLen = m.len /\ popLen <= MaxPop
      /\ AtStart(pos)
  BY <1>1, <1>2 DEF Laid, PopView, AtStart
<1>4. /\ First \in First .. Len(sent) /\ c \in Aligned /\ m.len \in Nat /\ RecordSize(m.len) <= Cap
      /\ head \in Nat
  BY <1>2, <1>3, FrontRecord
<1>5. PayloadAt(c, m) /\ K \in Nat
  BY <1>2, <1>4, RecordWords DEF Laid, RecordsLaid
<1>6. \A k \in 1 .. K :
        /\ data[Index(head) + 4 * k] = PayloadWord(m.from, m.n, k)
        /\ data[Index(head) + 4 * k] \in BufferWords
  <2> TAKE k \in 1 .. K
  <2>1. k \in 0 .. K
    BY <1>5
  <2>2. /\ Index(Start(c, m.len) + 4 * k) = Index(Start(c, m.len)) + 4 * k
        /\ Index(Start(c, m.len)) + 4 * k \in Offsets
    BY <1>4, <2>1, RecordCursors
  <2>3. data[Index(Start(c, m.len) + 4 * k)] = PayloadWord(m.from, m.n, k)
    BY <1>5 DEF PayloadAt, WordAt
  <2>4. data \in [Offsets -> BufferWords]
    BY DEF IInv, TypeOK
  <2> QED
    BY <1>3, <2>2, <2>3, <2>4
<1>7. popOut' = PayloadOf(m)
  BY <1>1, <1>3, <1>6 DEF PayloadOf
<1>8. popOut' \in Seq(BufferWords)
  <2> HIDE DEF K
  <2>1. popOut' = [k \in 1 .. K |-> data[Index(head) + 4 * k]]
    BY <1>1, <1>3 DEF K
  <2>2. popOut' \in [1 .. K -> BufferWords]
    BY <1>6, <2>1
  <2> QED
    BY <1>5, <2>2
<1>9. TypeOK'
  BY <1>1, <1>8 DEF IInv, TypeOK, CpcValues, cursorVars, producerVars
<1>10. Positions(pos)' /\ HeadAt(pos)' /\ RecordsLaid(pos)'
  BY <1>1, <1>2 DEF Laid, Positions, HeadAt, RecordsLaid, AtStart, First, MarkerAt,
                    LengthAt, PayloadAt, WordAt, cursorVars
<1>11. PopView(pos)'
  <2>1. /\ AtStart(pos)' /\ popLen' = sent'[First'].len /\ popLen' <= MaxPop
        /\ popOut' = PayloadOf(sent'[First']) /\ First' <= Len(sent')
    BY <1>1, <1>3, <1>7 DEF AtStart, First, cursorVars
  <2>2. \E j \in First' + 1 .. Len(sent') + 1 : popTail' = pos[j]
    BY <1>1, <1>2 DEF Laid, PopView, First
  <2> QED
    BY <1>1, <2>1, <2>2 DEF PopView
<1>12. Laid(pos)'
  BY <1>10, <1>11 DEF Laid
<1>13. DeliversInOrder' /\ head <= head' /\ head' <= tail_commit
  BY <1>1 DEF IInv, DeliversInOrder, CursorsOrdered, TypeOK, Aligned, cursorVars
<1> QED
  BY <1>1, <1>9, <1>12, <1>13, ConsumerStep DEF cursorVars

\* The head moves to the end of the front record, and what is returned is that
\* record.
LEMMA PopAdvanceStep ==
  ASSUME CapacityDivides, IInv, PopAdvance
  PROVE  IInv' /\ received' = Append(received, Result(sent[First])) /\ First <= Len(sent)
<1> DEFINE Results == [ok : BOOLEAN, len : Nat, payload : Seq(BufferWords)]
<1>1. /\ cpc \in {"advance", "drop"} /\ head' = head + RecordSize(popLen) /\ cpc' = "idle"
      /\ UNCHANGED <<tail_reserve, tail_commit, data, producerVars, popTail, popLen, popOut, sent>>
  BY DEF PopAdvance
<1>2. PICK pos : Laid(pos)
  BY DEF IInv
<1> DEFINE c == pos[First]
           m == sent[First]
<1>3. /\ First <= Len(sent) /\ head = Start(c, m.len) /\ popLen = m.len
      /\ cpc = "drop" => popLen > MaxPop
      /\ cpc = "advance" => popLen <= MaxPop /\ popOut = PayloadOf(m)
  BY <1>1, <1>2 DEF Laid, PopView, AtStart
<1>4. /\ First \in 1 .. Len(sent) /\ Len(sent) \in Nat /\ head \in Nat /\ tail_commit \in Nat
      /\ c \in Aligned /\ m.len \in Nat /\ RecordSize(m.len) <= Cap
      /\ RecordSize(m.len) \in Nat /\ pos[First + 1] = Start(c, m.len) + RecordSize(m.len)
      /\ pos[First + 1] <= tail_commit
  BY <1>2, <1>3, FrontRecord
<1>5. head' = pos[First + 1] /\ head <= head' /\ head' <= tail_commit
  BY <1>1, <1>3, <1>4
<1>6. received' = Append(received, Result(m))
  <2>1. CASE cpc = "drop"
    BY <1>3, <2>1 DEF PopAdvance, Result
  <2>2. CASE cpc = "advance"
    <3>1. ~(m.len > MaxPop)
      BY <1>3, <1>4, <2>2, RingAssumption
    <3> QED
      BY <1>3, <2>2, <3>1 DEF PopAdvance, Result
  <2> QED
    BY <1>1, <2>1, <2>2
<1>7. Result(m) \in Results
  <2>1. CASE cpc = "drop"
    BY <1>3, <1>4, <2>1 DEF Result
  <2>2. CASE cpc = "advance"
    <3>1. ~(m.len > MaxPop)
      BY <1>3, <1>4, <2>2, RingAssumption
    <3>2. PayloadOf(m) \in Seq(BufferWords)
      BY <1>3, <2>2 DEF IInv, TypeOK
    <3> QED
      BY <1>4, <3>1, <3>2 DEF Result
  <2> QED
    BY <1>1, <2>1, <2>2
<1>8. received \in Seq(Results)
  BY DEF IInv, TypeOK
<1>9. /\ received' \in Seq(Results) /\ Len(received) \in Nat /\ Len(received') = Len(received) + 1
      /\ received'[First] = Result(m)
      /\ \A i \in 1 .. Len(received) : received'[i] = received[i]
  <2> HIDE DEF Results, m
  <2> QED
    BY <1>6, <1>7, <1>8 DEF First
<1>10. TypeOK'
  <2>1. head' \in Aligned
    <3>1. pos \in [1 .. Len(sent) + 1 -> Aligned]
      BY <1>2 DEF Laid, Positions
    <3>2. First + 1 \in 1 .. Len(sent) + 1
      BY <1>4
    <3> QED
      BY <1>5, <3>1, <3>2
  <2> QED
    BY <1>1, <1>9, <2>1 DEF IInv, TypeOK, CpcValues, producerVars
<1>11. First' = First + 1 /\ First \in Nat
  BY <1>9 DEF First
<1>12. DeliversInOrder'
  <2>1. Len(received') <= Len(sent')
    BY <1>1, <1>3, <1>4, <1>9 DEF First
  <2>2. \A i \in 1 .. Len(received') : i = First \/ i \in 1 .. Len(received)
    BY <1>9 DEF First
  <2>3. \A i \in 1 .. Len(received') : received'[i] = Result(sent'[i])
    BY <1>1, <1>9, <2>2 DEF IInv, DeliversInOrder
  <2> QED
    BY <2>1, <2>3 DEF DeliversInOrder
<1>13. Laid(pos)'
  <2>1. Positions(pos)' /\ PopView(pos)'
    BY <1>1, <1>2 DEF Laid, Positions, PopView
  <2>2. HeadAt(pos)'
    BY <1>1, <1>4, <1>5, <1>11 DEF HeadAt
  <2>3. RecordsLaid(pos)'
    <3> SUFFICES ASSUME NEW i \in First + 1 .. Len(sent)
                 PROVE  /\ head' <= pos[i] => MarkerAt(pos[i], sent[i].len)
                        /\ LengthAt(pos[i], sent[i].len) /\ PayloadAt(pos[i], sent[i])
      BY <1>1, <1>11 DEF RecordsLaid, MarkerAt, LengthAt, PayloadAt, WordAt
    <3>1. i \in First .. Len(sent)
      BY <1>4
    <3>2. pos[i] \in Nat
      BY <1>2, <3>1, UnreadRecord DEF IInv, Laid, Aligned
    <3>3. head' \in Nat
      BY <1>10 DEF TypeOK, Aligned
    <3>4. head' <= pos[i] => head <= pos[i]
      BY <1>4, <1>5, <3>2, <3>3
    <3> QED
      BY <1>2, <3>1, <3>4 DEF Laid, RecordsLaid
  <2> QED
    BY <2>1, <2>2, <2>3 DEF Laid
<1>14. IInv'
  BY <1>1, <1>5, <1>10, <1>12, <1>13, ConsumerStep
<1> QED
  BY <1>3, <1>6, <1>14

LEMMA IInvStep == ASSUME CapacityDivides PROVE IInv /\ [Next]_vars => IInv'
<1> SUFFICES ASSUME IInv, [Next]_vars PROVE IInv'
  OBVIOUS
<1>1. CASE Consumer
  BY <1>1, PopLoadStep, PopReadStep, PopSkipStep, PopCopyStep, PopAdvanceStep DEF Consumer
<1>2. ASSUME NEW p \in Producers, Producer(p) PROVE IInv'
  BY <1>2, CallPushStep, LoadHeadStep, LoadTailStep, FullStep, CompareExchangeStep,
     WriteMarkerStep, WriteLengthStep, WritePayloadStep, CommitWaitStep, CommitStep DEF Producer
<1>3. ASSUME NEW p \in Producers, Crash(p) PROVE IInv'
  BY <1>3, CrashStep
<1>4. CASE UNCHANGED vars
  <2>1. TypeOK' /\ CursorsOrdered' /\ PushFits' /\ LoadedView' /\ ClaimsApart' /\ DeliversInOrder'
    BY <1>4 DEF vars, IInv, TypeOK, CursorsOrdered, PushFits, LoadedView, ClaimsApart,
                Claiming, NewTail, DeliversInOrder
  <2>2. ClaimsWritten'
    BY <1>4 DEF vars, IInv, ClaimsWritten, Claiming, MarkerAt, LengthAt, PayloadAt, WordAt, Message
  <2>3. ASSUME NEW pos, Laid(pos) PROVE Laid(pos)'
    BY <1>4, <2>3 DEF vars, Laid, Positions, HeadAt, RecordsLaid, PopView, AtStart, First,
                      MarkerAt, LengthAt, PayloadAt, WordAt
  <2> QED
    BY <2>1, <2>2, <2>3 DEF IInv
<1> QED
  BY <1>1, <1>2, <1>3, <1>4 DEF Next, Terminated

-----------------------------------------------------------------------------
(* What the invariant is for.                                              *)

LEMMA AlwaysIInv == ASSUME CapacityDivides PROVE Spec => []IInv
BY InitIInv, IInvStep, PTL DEF Spec

\* Whatever p writes is in its claim.
LEMMA WritesInClaim ==
  ASSUME CapacityDivides, IInv, NEW p \in Claiming, NEW x \in Writes(p)
  PROVE  \E c \in Aligned : seenTail[p] <= c /\ c < NewTail(p) /\ x = Index(c)
<1> DEFINE t == seenTail[p]
           s == Start(seenTail[p], len[p])
<1>1. /\ t \in Aligned /\ t \in Nat /\ len[p] \in Nat /\ RecordSize(len[p]) <= Cap
      /\ t < NewTail(p) /\ NewTail(p) = ClaimEnd(t, len[p]) /\ StartIndex(p) = Index(s)
  BY ClaimPlace
<1>2. CASE x = Index(t)
  BY <1>1, <1>2
<1>3. CASE x # Index(t)
  <2>1. PICK k \in 0 .. PayloadWords(len[p]) : x = StartIndex(p) + 4 * k
    BY <1>3 DEF Writes
  <2>2. /\ s + 4 * k \in Aligned /\ t <= s + 4 * k /\ s + 4 * k < NewTail(p)
        /\ Index(s + 4 * k) = Index(s) + 4 * k
    BY <1>1, RecordCursors
  <2> QED
    BY <1>1, <2>1, <2>2
<1> QED
  BY <1>2, <1>3

\* Every variable keeps its type and every cursor stays a multiple of
\* RECORD_ALIGN, for every ring and every number of threads.
THEOREM RingTypeOK == ASSUME CapacityDivides PROVE Spec => []TypeOK
<1>1. IInv => TypeOK
  BY DEF IInv
<1> QED
  BY <1>1, AlwaysIInv, PTL

\* try_push never claims bytes the consumer has not released, a commit never
\* passes a claim, and a pop never passes a commit: at most Cap bytes are in
\* use, whatever the interleaving and however often the words wrap.
THEOREM RingCursorsOrdered == ASSUME CapacityDivides PROVE Spec => []CursorsOrdered
<1>1. IInv => CursorsOrdered
  BY DEF IInv
<1> QED
  BY <1>1, AlwaysIInv, PTL

\* The plain stores of try_push race with nothing: no other producer writes
\* the same word and no pop may read it.
THEOREM RingExclusive == ASSUME CapacityDivides PROVE Spec => []Exclusive
<1>1. IInv => Exclusive
  <2> SUFFICES ASSUME IInv, NEW p \in Claiming PROVE
                 /\ Writes(p) \cap Unread = {}
                 /\ \A q \in Claiming \ {p} : Writes(p) \cap Writes(q) = {}
    BY DEF Exclusive
  <2>0. /\ head \in Nat /\ tail_commit \in Nat /\ tail_reserve \in Nat
        /\ head <= tail_commit /\ tail_commit <= tail_reserve
    BY DEF IInv, TypeOK, Aligned, CursorsOrdered
  <2>1. ASSUME NEW q \in Claiming, NEW x \in Writes(q)
        PROVE  \E c \in Nat : /\ seenTail[q] <= c /\ c < NewTail(q) /\ x = Index(c)
                              /\ tail_commit <= c /\ head <= c /\ c < tail_reserve
    <3>1. PICK c \in Aligned : seenTail[q] <= c /\ c < NewTail(q) /\ x = Index(c)
      BY <2>1, WritesInClaim
    <3>2. /\ seenTail[q] \in Nat /\ NewTail(q) \in Nat
          /\ tail_commit <= seenTail[q] /\ NewTail(q) <= tail_reserve
      BY ClaimPlace DEF IInv, ClaimsApart
    <3> QED
      BY <2>0, <3>1, <3>2 DEF Aligned
  <2>2. ASSUME NEW x \in Writes(p), x \in Unread PROVE FALSE
    <3>1. PICK c \in Nat : x = Index(c) /\ tail_commit <= c /\ head <= c /\ c < tail_reserve
      BY <2>1
    <3>2. PICK d \in head .. tail_commit - 1 : x = Index(d)
      BY <2>2 DEF Unread
    <3>3. d \in Nat /\ c # d /\ head <= d /\ d < tail_reserve
      BY <2>0, <3>1
    <3> QED
      BY <3>1, <3>2, <3>3, OffsetsApart
  <2>3. ASSUME NEW q \in Claiming \ {p}, NEW x \in Writes(p), x \in Writes(q) PROVE FALSE
    <3>1. PICK c \in Nat : /\ seenTail[p] <= c /\ c < NewTail(p) /\ x = Index(c)
                           /\ head <= c /\ c < tail_reserve
      BY <2>1
    <3>2. PICK d \in Nat : /\ seenTail[q] <= d /\ d < NewTail(q) /\ x = Index(d)
                           /\ head <= d /\ d < tail_reserve
      BY <2>1, <2>3
    <3>3. NewTail(p) <= seenTail[q] \/ NewTail(q) <= seenTail[p]
      BY <2>3 DEF IInv, ClaimsApart
    <3>4. seenTail[p] \in Nat /\ NewTail(p) \in Nat /\ seenTail[q] \in Nat /\ NewTail(q) \in Nat
      BY ClaimPlace
    <3>5. c # d
      BY <3>1, <3>2, <3>3, <3>4
    <3> QED
      BY <3>1, <3>2, <3>5, OffsetsApart
  <2> QED
    BY <2>2, <2>3
<1> QED
  BY <1>1, AlwaysIInv, PTL

\* No store of try_push lands outside the buffer: the record fits between
\* start_index and the end.
THEOREM RingRecordFits == ASSUME CapacityDivides PROVE Spec => []RecordFits
<1>1. IInv => RecordFits
  <2> SUFFICES ASSUME IInv, NEW p \in Claiming, NEW x \in Writes(p) PROVE x \in Offsets
    BY DEF RecordFits
  <2>1. PICK c \in Aligned : x = Index(c)
    BY WritesInClaim
  <2> QED
    BY <2>1, AlignedIndex
<1> QED
  BY <1>1, AlwaysIInv, PTL

\* The consumer is handed the committed records, whole, once each and in commit
\* order, whoever dies in the middle of a push.
THEOREM RingDeliversInOrder == ASSUME CapacityDivides PROVE Spec => []DeliversInOrder
<1>1. IInv => DeliversInOrder
  BY DEF IInv
<1> QED
  BY <1>1, AlwaysIInv, PTL

\* try_pop never returns PopError::Corrupt.
THEOREM RingNeverCorrupt == ASSUME CapacityDivides PROVE Spec => []NeverCorrupt
<1>1. IInv => NeverCorrupt
  BY DEF IInv, Laid, PopView, NeverCorrupt
<1> QED
  BY <1>1, AlwaysIInv, PTL

-----------------------------------------------------------------------------
(* IpcRing implements the safety part of IpcQueue: its steps are steps of  *)
(* a FIFO queue.  The store of tail_commit enqueues, the store of head     *)
(* dequeues, every other step changes nothing the queue has.               *)
(*                                                                         *)
(* Beyond IInv this takes a fact about the producers: a producer that is   *)
(* pushing has not yet committed the record with its current number, so    *)
(* its records enter the queue in order.                                   *)

Messages == [from : Producers, n : Nat, len : Nat]
Mine(p) == {i \in 1 .. Len(sent) : sent[i].from = p}
IsLast(p, k) == k \in Mine(p) /\ \A j \in Mine(p) : j <= k

\* What the producers number and what they have committed.
PushNumbers ==
  /\ \A p \in Producers :
       /\ n[p] <= MaxPush
       /\ pc[p] \in Pushing => n[p] >= 1 /\ len[p] \in Lens
  /\ \A i \in 1 .. Len(sent) :
       /\ sent[i].n <= n[sent[i].from]
       /\ pc[sent[i].from] \in Pushing => sent[i].n < n[sent[i].from]

\* A producer that has committed a record has committed a last one.
LastExists == \A p \in Producers : Mine(p) = {} \/ \E k \in 1 .. Len(sent) : IsLast(p, k)

QInv == IInv /\ PushNumbers /\ LastExists

\* The queue of the refinement mapping.
Waiting == SubSeq(sent, Len(received) + 1, Len(sent))

-----------------------------------------------------------------------------
LEMMA SentTypes ==
  ASSUME TypeOK
  PROVE  /\ sent \in Seq(Messages) /\ Len(sent) \in Nat /\ Len(received) \in Nat
         /\ \A i \in 1 .. Len(sent) :
              sent[i].from \in Producers /\ sent[i].n \in Nat /\ sent[i].len \in Nat
<1>1. sent \in Seq(Messages) /\ Len(received) \in Nat
  BY DEF TypeOK, Messages
<1>2. \A i \in 1 .. Len(sent) : sent[i] \in Messages
  BY <1>1
<1> QED
  BY <1>1, <1>2 DEF Messages

LEMMA InitQInv == ASSUME CapacityDivides PROVE Init => QInv
<1> SUFFICES ASSUME Init PROVE QInv
  OBVIOUS
<1>1. IInv
  BY InitIInv
<1>2. PushNumbers /\ LastExists
  BY RingAssumption DEF Init, PushNumbers, LastExists, Mine, Pushing
<1> QED
  BY <1>1, <1>2 DEF QInv

\* A step that commits nothing keeps the numbers, if the producers do.
LEMMA NumbersKept ==
  ASSUME QInv, UNCHANGED sent, NEW p,
         \A q \in Producers : q # p => pc'[q] = pc[q] /\ n'[q] = n[q] /\ len'[q] = len[q],
         p \in Producers =>
           \/ /\ pc[p] \in Pushing \/ pc'[p] \notin Pushing
              /\ UNCHANGED <<n, len>>
           \/ /\ n'[p] = n[p] + 1 /\ n[p] < MaxPush
              /\ len'[p] \in Lens
  PROVE  PushNumbers' /\ LastExists'
<1>1. \A q \in Producers : n[q] \in Nat
  BY DEF QInv, IInv, TypeOK
<1>2. \A i \in 1 .. Len(sent) : sent[i].from \in Producers /\ sent[i].n \in Nat
  BY SentTypes DEF QInv, IInv
<1>3. MaxPush \in Nat
  BY RingAssumption
<1>4. LastExists'
  <2>1. \A q \in Producers : Mine(q)' = Mine(q)
    BY DEF Mine
  <2>2. LastExists
    BY DEF QInv
  <2> QED
    BY <2>1, <2>2 DEF LastExists, IsLast
<1>5. \A q \in Producers : n'[q] = n[q] \/ (q = p /\ n'[q] = n[q] + 1 /\ n[q] < MaxPush)
  OBVIOUS
<1>6. \A q \in Producers :
        /\ n'[q] <= MaxPush
        /\ pc'[q] \in Pushing => n'[q] >= 1 /\ len'[q] \in Lens
  BY <1>1, <1>3, <1>5 DEF QInv, PushNumbers
<1>7. \A i \in 1 .. Len(sent) :
       /\ sent[i].n <= n'[sent[i].from]
       /\ pc'[sent[i].from] \in Pushing => sent[i].n < n'[sent[i].from]
  BY <1>1, <1>2, <1>5 DEF QInv, PushNumbers
<1> QED
  BY <1>4, <1>6, <1>7 DEF PushNumbers

LEMMA CommitNumbers ==
  ASSUME CapacityDivides, QInv, NEW p \in Producers, Commit(p)
  PROVE  /\ PushNumbers' /\ LastExists'
         /\ sent' = Append(sent, Message(p)) /\ Message(p) \in Messages
         /\ Mine(p)' = Mine(p) \cup {Len(sent) + 1}
         /\ \A q \in Producers : q # p => Mine(q)' = Mine(q)
<1> DEFINE N == Len(sent)
<1>1. /\ pc[p] = "commit" /\ pc' = [pc EXCEPT ![p] = "idle"] /\ UNCHANGED <<n, len>>
      /\ sent' = Append(sent, Message(p))
  BY DEF Commit, Goto, Message
<1>2. /\ sent \in Seq(Messages) /\ N \in Nat /\ \A q \in Producers : n[q] \in Nat
      /\ pc \in [Producers -> PcValues]
      /\ \A i \in 1 .. N : sent[i].from \in Producers /\ sent[i].n \in Nat
  BY SentTypes DEF QInv, IInv, TypeOK
<1>3. Message(p) \in Messages /\ Message(p).from = p /\ Message(p).n = n[p]
  BY DEF QInv, IInv, TypeOK, Message, Messages
<1>4. /\ Len(sent') = N + 1 /\ sent'[N + 1] = Message(p)
      /\ \A i \in 1 .. N : sent'[i] = sent[i]
  BY <1>1, <1>2, <1>3
<1> HIDE DEF N
<1>5. \A q \in Producers : Mine(q)' = {i \in 1 .. N + 1 : sent'[i].from = q}
  BY <1>4 DEF Mine
<1>6. \A q \in Producers : Mine(q) = {i \in 1 .. N : sent[i].from = q}
  BY DEF Mine, N
<1>7. 1 .. N + 1 = (1 .. N) \cup {N + 1} /\ N + 1 \notin 1 .. N
  BY <1>2
<1>8. Mine(p)' = Mine(p) \cup {N + 1}
  BY <1>3, <1>4, <1>5, <1>6, <1>7
<1>9. \A q \in Producers : q # p => Mine(q)' = Mine(q)
  <2> SUFFICES ASSUME NEW q \in Producers, q # p
               PROVE  {i \in 1 .. N + 1 : sent'[i].from = q} = {i \in 1 .. N : sent[i].from = q}
    BY <1>5, <1>6
  <2>1. sent'[N + 1].from # q
    BY <1>3, <1>4
  <2> QED
    BY <1>4, <1>7, <2>1
<1>10. LastExists'
  <2> SUFFICES ASSUME NEW q \in Producers
               PROVE  \/ Mine(q)' = {}
                      \/ \E k \in 1 .. N + 1 : k \in Mine(q)' /\ \A j \in Mine(q)' : j <= k
    BY <1>4 DEF LastExists, IsLast
  <2>1. CASE q = p
    <3>1. \A j \in Mine(p)' : j <= N + 1
      BY <1>2, <1>5
    <3>2. N + 1 \in Mine(p)' /\ N + 1 \in 1 .. N + 1
      BY <1>2, <1>8
    <3> QED
      BY <2>1, <3>1, <3>2
  <2>2. CASE q # p
    <3>1. Mine(q) = {} \/ \E k \in 1 .. N : IsLast(q, k)
      BY DEF QInv, LastExists, N
    <3> QED
      BY <1>7, <1>9, <2>2, <3>1 DEF IsLast
  <2> QED
    BY <2>1, <2>2
<1>11. PushNumbers'
  <2>1. \A q \in Producers :
          /\ n[q] <= MaxPush
          /\ pc'[q] \in Pushing => n[q] >= 1 /\ len[q] \in Lens
    BY <1>1, <1>2 DEF QInv, PushNumbers, Pushing
  <2>2. \A i \in 1 .. N + 1 :
          /\ sent'[i].n <= n[sent'[i].from]
          /\ pc'[sent'[i].from] \in Pushing => sent'[i].n < n[sent'[i].from]
    <3> TAKE i \in 1 .. N + 1
    <3>1. CASE i = N + 1
      BY <1>1, <1>2, <1>3, <1>4, <3>1 DEF Pushing
    <3>2. CASE i # N + 1
      <4>1. i \in 1 .. N /\ sent'[i] = sent[i]
        BY <1>2, <1>4, <3>2
      <4>2. sent[i].from # p => pc'[sent[i].from] = pc[sent[i].from]
        BY <1>1, <1>2, <4>1
      <4>3. pc'[p] \notin Pushing
        BY <1>1, <1>2 DEF Pushing
      <4> QED
        BY <4>1, <4>2, <4>3 DEF QInv, PushNumbers, N
    <3> QED
      BY <3>1, <3>2
  <2> QED
    BY <1>1, <1>4, <2>1, <2>2 DEF PushNumbers
<1> QED
  BY <1>1, <1>3, <1>8, <1>9, <1>10, <1>11 DEF N

LEMMA QInvStep == ASSUME CapacityDivides PROVE QInv /\ [Next]_vars => QInv'
<1> SUFFICES ASSUME QInv, [Next]_vars PROVE QInv'
  OBVIOUS
<1>1. IInv'
  BY IInvStep DEF QInv
<1>2. pc \in [Producers -> PcValues] /\ n \in [Producers -> Nat] /\ len \in [Producers -> Nat]
  BY DEF QInv, IInv, TypeOK
<1>3. CASE Consumer \/ UNCHANGED vars
  <2>1. UNCHANGED <<sent, pc, n, len>>
    BY <1>3 DEF Consumer, PopLoad, PopRead, PopSkip, PopCopy, PopAdvance, producerVars, vars
  <2>2. PICK p : p \notin Producers
    BY NoSetContainsEverything
  <2>3. PushNumbers' /\ LastExists'
    BY <2>1, <2>2, NumbersKept
  <2> QED
    BY <1>1, <2>3 DEF QInv
<1>4. ASSUME NEW p \in Producers, Producer(p) \/ Crash(p) PROVE QInv'
  <2>1. CASE Commit(p)
    BY <1>1, <2>1, CommitNumbers DEF QInv
  <2>2. CASE CallPush(p)
    <3>1. /\ n[p] < MaxPush /\ n' = [n EXCEPT ![p] = n[p] + 1] /\ UNCHANGED sent
          /\ \E l \in Lens : len' = [len EXCEPT ![p] = l]
          /\ \E v : pc' = [pc EXCEPT ![p] = v]
      BY <2>2 DEF CallPush, Goto
    <3>2. PushNumbers' /\ LastExists'
      BY <1>2, <3>1, NumbersKept
    <3> QED
      BY <1>1, <3>2 DEF QInv
  <2>3. CASE ~Commit(p) /\ ~CallPush(p)
    <3>1. UNCHANGED <<sent, n, len>> /\ \E v : pc' = [pc EXCEPT ![p] = v]
      BY <1>4, <2>3 DEF Producer, LoadHead, LoadTail, Full, CompareExchange, WriteMarker,
                        WriteLength, WritePayload, CommitWait, Crash, Goto
    <3>2. pc[p] \in Pushing \/ pc'[p] \notin Pushing
      BY <1>2, <1>4, <2>3 DEF Producer, LoadHead, LoadTail, Full, CompareExchange, WriteMarker,
                         WriteLength, WritePayload, CommitWait, Crash, Goto, Pushing
    <3>3. PushNumbers' /\ LastExists'
      BY <1>2, <3>1, <3>2, NumbersKept
    <3> QED
      BY <1>1, <3>3 DEF QInv
  <2> QED
    BY <2>1, <2>2, <2>3
<1> QED
  BY <1>3, <1>4 DEF Next, Terminated

-----------------------------------------------------------------------------
(* The refinement mapping.                                                 *)

LEMMA SubSeqAppend ==
  ASSUME NEW S, NEW s \in Seq(S), NEW e \in S, NEW r \in 0 .. Len(s)
  PROVE  SubSeq(Append(s, e), r + 1, Len(s) + 1) = Append(SubSeq(s, r + 1, Len(s)), e)
<1> DEFINE N == Len(s)
           t == Append(s, e)
           a == SubSeq(t, r + 1, N + 1)
           b == SubSeq(s, r + 1, N)
<1>1. N \in Nat /\ r \in Nat /\ r <= N
  OBVIOUS
<1>2. t \in Seq(S) /\ Len(t) = N + 1 /\ t[N + 1] = e /\ \A i \in 1 .. N : t[i] = s[i]
  BY AppendProperties
<1> HIDE DEF N, t
<1>3. /\ a \in Seq(S) /\ Len(a) = N - r + 1 /\ \A i \in 1 .. N - r + 1 : a[i] = t[r + i]
  <2>1. \A i \in r + 1 .. N + 1 : t[i] \in S
    BY <1>1, <1>2
  <2>2. /\ a \in Seq(S) /\ Len(a) = IF r + 1 <= N + 1 THEN (N + 1) - (r + 1) + 1 ELSE 0
        /\ \A i \in 1 .. (N + 1) - (r + 1) + 1 : a[i] = t[(r + 1) + i - 1]
    BY <1>1, <2>1, SubSeqProperties
  <2> HIDE DEF a
  <2>3. Len(a) = N - r + 1
    BY <1>1, <2>2
  <2>4. ASSUME NEW i \in 1 .. N - r + 1 PROVE a[i] = t[r + i]
    <3>1. i \in 1 .. (N + 1) - (r + 1) + 1 /\ (r + 1) + i - 1 = r + i
      BY <1>1
    <3>2. a[i] = t[(r + 1) + i - 1]
      BY <2>2, <3>1
    <3> QED
      BY <3>1, <3>2
  <2> QED
    BY <2>2, <2>3, <2>4
<1>4. /\ b \in Seq(S) /\ Len(b) = N - r /\ \A i \in 1 .. N - r : b[i] = s[r + i]
  <2>1. \A i \in r + 1 .. N : s[i] \in S
    BY <1>1 DEF N
  <2>2. /\ b \in Seq(S) /\ Len(b) = IF r + 1 <= N THEN N - (r + 1) + 1 ELSE 0
        /\ \A i \in 1 .. N - (r + 1) + 1 : b[i] = s[(r + 1) + i - 1]
    BY <1>1, <2>1, SubSeqProperties
  <2> HIDE DEF b
  <2>3. Len(b) = N - r
    BY <1>1, <2>2
  <2>4. ASSUME NEW i \in 1 .. N - r PROVE b[i] = s[r + i]
    <3>1. i \in 1 .. N - (r + 1) + 1 /\ (r + 1) + i - 1 = r + i
      BY <1>1
    <3>2. b[i] = s[(r + 1) + i - 1]
      BY <2>2, <3>1
    <3> QED
      BY <3>1, <3>2
  <2> QED
    BY <2>2, <2>3, <2>4
<1> HIDE DEF a, b
<1>5. /\ Append(b, e) \in Seq(S) /\ Len(Append(b, e)) = N - r + 1 /\ Append(b, e)[N - r + 1] = e
      /\ \A i \in 1 .. N - r : Append(b, e)[i] = b[i]
  BY <1>4, AppendProperties
<1>6. \A i \in 1 .. N - r + 1 : a[i] = Append(b, e)[i]
  <2> TAKE i \in 1 .. N - r + 1
  <2>1. CASE i = N - r + 1
    BY <1>1, <1>2, <1>3, <1>5, <2>1
  <2>2. CASE i # N - r + 1
    <3>1. i \in 1 .. N - r /\ r + i \in 1 .. N
      BY <1>1, <2>2
    <3> QED
      BY <1>2, <1>3, <1>4, <1>5, <3>1
  <2> QED
    BY <2>1, <2>2
<1>7. a = Append(b, e)
  BY <1>3, <1>5, <1>6, SeqEqual
<1> QED
  BY <1>7 DEF a, b, t, N

\* LastSent, for any sequence of records.
LastIn(s, p) ==
  LET mine == {i \in 1 .. Len(s) : s[i].from = p}
  IN IF mine = {} THEN 0 ELSE s[CHOOSE i \in mine : \A j \in mine : j <= i].n

LEMMA LastInIs ==
  ASSUME NEW s, NEW p, Len(s) \in Nat, NEW k \in 1 .. Len(s), s[k].from = p,
         \A j \in 1 .. Len(s) : s[j].from = p => j <= k
  PROVE  LastIn(s, p) = s[k].n
<1> DEFINE mine == {i \in 1 .. Len(s) : s[i].from = p}
           c == CHOOSE i \in mine : \A j \in mine : j <= i
<1>1. k \in mine /\ \A j \in mine : j <= k
  OBVIOUS
<1>2. c \in mine /\ \A j \in mine : j <= c
  BY <1>1
<1>3. c = k
  BY <1>1, <1>2
<1> QED
  BY <1>1, <1>3 DEF LastIn

LEMMA LastInNone ==
  ASSUME NEW s, NEW p, \A j \in 1 .. Len(s) : s[j].from # p
  PROVE  LastIn(s, p) = 0
<1>1. {i \in 1 .. Len(s) : s[i].from = p} = {}
  OBVIOUS
<1> QED
  BY <1>1 DEF LastIn

\* The store of tail_commit enqueues the record.
LEMMA CommitEnqueues ==
  ASSUME CapacityDivides, QInv, NEW p \in Producers, Commit(p)
  PROVE  Abstract!QNext
<1> DEFINE N == Len(sent)
           R == Len(received)
           m == Message(p)
<1>1. /\ sent' = Append(sent, m) /\ m \in Messages
      /\ Mine(p)' = Mine(p) \cup {N + 1}
      /\ \A q \in Producers : q # p => Mine(q)' = Mine(q)
  BY CommitNumbers
<1>2. /\ pc[p] \in Pushing /\ UNCHANGED received
      /\ m.from = p /\ m.n = n[p] /\ m.len = len[p]
  BY DEF Commit, Pushing, Message
<1>3. /\ sent \in Seq(Messages) /\ N \in Nat /\ R \in Nat /\ R \in 0 .. N
      /\ \A i \in 1 .. N : sent[i].from \in Producers /\ sent[i].n \in Nat
      /\ \A q \in Producers : n[q] \in Nat
  <2>1. TypeOK /\ R <= N
    BY DEF QInv, IInv, DeliversInOrder
  <2>2. /\ sent \in Seq(Messages) /\ N \in Nat /\ R \in Nat
        /\ \A i \in 1 .. N : sent[i].from \in Producers /\ sent[i].n \in Nat
    BY <2>1, SentTypes
  <2>3. \A q \in Producers : n[q] \in Nat
    BY <2>1 DEF TypeOK
  <2> QED
    BY <2>1, <2>2, <2>3
<1>4. m \in Abstract!Records
  BY <1>2, <1>3, RingAssumption DEF QInv, PushNumbers, Message, Abstract!Records
<1>5. /\ Len(sent') = N + 1 /\ sent'[N + 1] = m
      /\ \A i \in 1 .. N : sent'[i] = sent[i]
  BY <1>1, <1>3, AppendProperties
<1> HIDE DEF N, R, m
<1>6. Waiting' = Append(Waiting, m)
  <2>1. Waiting' = SubSeq(Append(sent, m), R + 1, N + 1)
    BY <1>1, <1>2, <1>5 DEF Waiting, R
  <2>2. Waiting = SubSeq(sent, R + 1, N)
    BY DEF Waiting, R, N
  <2> QED
    BY <1>1, <1>3, <2>1, <2>2, SubSeqAppend DEF N
<1>7. LastSent(p) < m.n
  <2>1. CASE Mine(p) = {}
    <3>1. LastIn(sent, p) = 0
      BY <2>1, LastInNone DEF Mine
    <3> QED
      BY <1>2, <1>3, <3>1 DEF LastIn, LastSent, QInv, PushNumbers
  <2>2. CASE Mine(p) # {}
    <3>1. PICK k \in 1 .. N : IsLast(p, k)
      BY <2>2 DEF QInv, LastExists, N
    <3>2. LastIn(sent, p) = sent[k].n
      BY <1>3, <3>1, LastInIs DEF IsLast, Mine, N
    <3>3. sent[k].n < n[p]
      BY <1>2, <3>1 DEF QInv, PushNumbers, IsLast, Mine, N
    <3> QED
      BY <1>2, <3>2, <3>3 DEF LastIn, LastSent
  <2> QED
    BY <2>1, <2>2
<1>8. LastIn(sent', p) = m.n
  <2>1. \A j \in 1 .. N + 1 : j <= N + 1
    BY <1>3
  <2>2. N + 1 \in 1 .. N + 1 /\ N + 1 \in Nat
    BY <1>3
  <2> QED
    BY <1>2, <1>5, <2>1, <2>2, LastInIs
<1>9. ASSUME NEW q \in Producers, q # p PROVE LastIn(sent', q) = LastIn(sent, q)
  <2>1. {i \in 1 .. Len(sent') : sent'[i].from = q} = {i \in 1 .. Len(sent) : sent[i].from = q}
    BY <1>1, <1>9 DEF Mine
  <2>2. CASE Mine(q) = {}
    BY <2>1, <2>2 DEF LastIn, Mine
  <2>3. CASE Mine(q) # {}
    <3>1. PICK k \in 1 .. N : IsLast(q, k)
      BY <2>3 DEF QInv, LastExists, N
    <3>2. LastIn(sent, q) = sent[k].n
      BY <1>3, <3>1, LastInIs DEF IsLast, Mine, N
    <3>3. /\ k \in 1 .. Len(sent') /\ Len(sent') \in Nat /\ sent'[k].from = q
          /\ \A j \in 1 .. Len(sent') : sent'[j].from = q => j <= k
      <4>1. \A j \in 1 .. Len(sent') : sent'[j].from = q => j \in Mine(q)
        BY <2>1 DEF Mine
      <4> QED
        BY <1>3, <1>5, <3>1, <4>1 DEF IsLast, Mine, N
    <3>4. LastIn(sent', q) = sent'[k].n
      BY <3>3, LastInIs
    <3> QED
      BY <1>5, <3>2, <3>4
  <2> QED
    BY <2>2, <2>3
<1>10. [q \in Producers |-> LastSent(q)']
         = [[q \in Producers |-> LastSent(q)] EXCEPT ![m.from] = m.n]
  <2>1. \A q \in Producers : LastSent(q)' = LastIn(sent', q) /\ LastSent(q) = LastIn(sent, q)
    BY DEF LastSent, LastIn
  <2> QED
    BY <1>2, <1>8, <1>9, <2>1
<1>11. Abstract!Enqueue(m)
  BY <1>2, <1>6, <1>7, <1>10 DEF Abstract!Enqueue, Waiting
<1> QED
  BY <1>4, <1>11 DEF Abstract!QNext

\* The store of head dequeues it.
LEMMA AdvanceDequeues ==
  ASSUME CapacityDivides, QInv, PopAdvance
  PROVE  Abstract!QNext
<1> DEFINE N == Len(sent)
           R == Len(received)
<1>1. received' = Append(received, Result(sent[R + 1])) /\ R + 1 <= N /\ UNCHANGED sent
  BY PopAdvanceStep DEF QInv, First, PopAdvance
<1>2. sent \in Seq(Messages) /\ N \in Nat /\ R \in Nat
  BY SentTypes DEF QInv, IInv
<1>3. Len(received') = R + 1
  <2>1. received \in Seq([ok : BOOLEAN, len : Nat, payload : Seq(BufferWords)])
    BY DEF QInv, IInv, TypeOK
  <2> DEFINE S == [ok : BOOLEAN, len : Nat, payload : Seq(BufferWords)]
  <2> HIDE DEF S
  <2>2. received \in Seq(S)
    BY <2>1 DEF S
  <2> QED
    BY <1>1, <2>2
<1>4. Waiting = SubSeq(sent, R + 1, N) /\ Waiting' = SubSeq(sent, (R + 1) + 1, N)
  BY <1>1, <1>3 DEF Waiting
<1>5. R + 1 \in 1 .. N /\ N \in R + 1 .. N
  BY <1>1, <1>2
<1> HIDE DEF N, R
<1>6. Head(Waiting) = sent[R + 1] /\ Tail(Waiting) = Waiting'
  BY <1>2, <1>4, <1>5, HeadTailOfSubSeq DEF N
<1>7. Waiting # <<>>
  <2>1. \A i \in R + 1 .. N : sent[i] \in Messages
    BY <1>2, <1>5 DEF N
  <2>2. Len(Waiting) = N - (R + 1) + 1
    BY <1>2, <1>4, <1>5, <2>1, SubSeqProperties
  <2> QED
    BY <1>1, <1>2, <2>2
<1>8. [q \in Producers |-> LastSent(q)]' = [q \in Producers |-> LastSent(q)]
  BY <1>1 DEF LastSent
<1>9. Abstract!Dequeue
  BY <1>1, <1>6, <1>7, <1>8 DEF Abstract!Dequeue, Waiting
<1> QED
  BY <1>9 DEF Abstract!QNext

LEMMA StepSimulates ==
  ASSUME CapacityDivides PROVE QInv /\ [Next]_vars => [Abstract!QNext]_(Abstract!queueVars)
<1> SUFFICES ASSUME QInv, [Next]_vars PROVE Abstract!QNext \/ UNCHANGED Abstract!queueVars
  OBVIOUS
<1>1. ASSUME UNCHANGED <<sent, received>> PROVE UNCHANGED Abstract!queueVars
  BY <1>1 DEF Abstract!queueVars, LastSent
<1>2. CASE PopAdvance
  BY <1>2, AdvanceDequeues
<1>3. ASSUME NEW p \in Producers, Commit(p) PROVE Abstract!QNext
  BY <1>3, CommitEnqueues
<1>4. CASE ~PopAdvance /\ ~\E p \in Producers : Commit(p)
  <2>1. UNCHANGED <<sent, received>>
    BY <1>4 DEF Next, Terminated, vars, Consumer, PopLoad, PopRead, PopSkip, PopCopy, Producer,
                CallPush, LoadHead, LoadTail, Full, CompareExchange, WriteMarker, WriteLength,
                WritePayload, CommitWait, Crash
  <2> QED
    BY <1>1, <2>1
<1> QED
  BY <1>2, <1>3, <1>4

LEMMA InitSimulates == Init => Abstract!QInit
<1> SUFFICES ASSUME Init PROVE Abstract!QInit
  OBVIOUS
<1>1. sent = <<>> /\ received = <<>> /\ Len(sent) = 0 /\ Len(received) = 0
  BY DEF Init
<1>2. SubSeq(sent, Len(received) + 1, Len(sent)) = <<>>
  <2>1. 0 < 1 /\ 0 \in Int /\ 1 \in Int
    OBVIOUS
  <2> QED
    BY <1>1, <2>1, SubSeqEmpty
<1>3. \A p \in Producers : LastSent(p) = 0
  BY <1>1 DEF LastSent
<1> QED
  BY <1>1, <1>2, <1>3 DEF Abstract!QInit

\* The ring is a FIFO queue of whole records in which the records of one
\* producer stay in the order of its pushes: try_push, push_spinning and
\* try_pop_capped implement the safety part of IpcQueue, for every ring whose
\* capacity divides the cursor range, through full rings, lost races, wrapped
\* cursors and producers that die in the middle of a push.
THEOREM RingImplementsQueue == ASSUME CapacityDivides PROVE Spec => Abstract!QSafe
<1>1. Spec => []QInv
  BY InitQInv, QInvStep, PTL DEF Spec
<1> QED
  BY <1>1, InitSimulates, StepSimulates, PTL DEF Spec, Abstract!QSafe
=============================================================================
