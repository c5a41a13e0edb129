------------------------------- MODULE IpcRing -------------------------------
(***************************************************************************)
(* The lock-free MPSC byte ring of crates/aero-ipc/src/ring.rs.            *)
(*                                                                         *)
(* Three u32 cursors count bytes: `head` (consumer), `tail_reserve` (a     *)
(* producer claims a range by compare-exchange) and `tail_commit` (claims  *)
(* become visible in the order in which they were made).  A record is a    *)
(* 4-byte length followed by the payload, padded to RECORD_ALIGN; a record *)
(* that does not fit before the end of the buffer is preceded by a wrap    *)
(* marker and starts at offset 0.                                          *)
(*                                                                         *)
(* The cursor variables here hold the total number of bytes ever counted.  *)
(* The code has the u32 words only, so every test and every index goes     *)
(* through Word: the totals are what the properties are stated with.       *)
(***************************************************************************)
EXTENDS Integers, Sequences, FiniteSets

CONSTANTS
  Producers,          \* threads calling try_push / push_spinning
  SpinningProducers,  \* those that retry for ever when the ring is full
  Cap,                \* capacity_bytes of the ring
  CursorMod,          \* number of values of a cursor word (2^32)
  Lens,               \* payload lengths the producers use
  MaxPop,             \* max_len of try_pop_capped (at least Cap: plain try_pop)
  MaxPush,            \* bound: pushes per producer
  MaxCrashes          \* bound: producers that die inside a push

RECORD_ALIGN == 4

\* RingBuffer::new asserts the first; the rest bounds the instance.
ASSUME RingAssumption ==
  /\ Cap \in Nat \ {0} /\ Cap % RECORD_ALIGN = 0
  /\ CursorMod \in Nat /\ Cap < CursorMod - 1
  /\ Lens \subseteq Nat
  /\ MaxPop \in Nat /\ MaxPush \in Nat /\ MaxCrashes \in Nat
  /\ SpinningProducers \subseteq Producers

VARIABLES
  head, tail_reserve, tail_commit,  \* the control words
  data,                             \* the buffer, by offset of each 4-byte word
  pc, n, len, seenHead, seenTail,   \* per producer: locals of try_push
  cpc, popTail, popLen, popOut,     \* consumer: locals of try_pop_capped
  sent,                             \* history: records in commit order
  received                          \* history: what the pops returned, in order

cursorVars   == <<head, tail_reserve, tail_commit>>
producerVars == <<pc, n, len, seenHead, seenTail>>
consumerVars == <<cpc, popTail, popLen, popOut>>
vars == <<head, tail_reserve, tail_commit, data, pc, n, len, seenHead, seenTail,
          cpc, popTail, popLen, popOut, sent, received>>

-----------------------------------------------------------------------------
(* The buffer's words, and the arithmetic of records and cursors.          *)

LenWord(l)         == <<"len", l>>
WRAP_MARKER        == <<"wrap">>
PayloadWord(p,i,k) == <<"pay", p, i, k>>   \* k-th word of p's i-th payload

Offsets == {i \in 0 .. Cap - 1 : i % RECORD_ALIGN = 0}

AlignUp(v, a) == ((v + a - 1) \div a) * a

PayloadWords(l) == AlignUp(l, RECORD_ALIGN) \div RECORD_ALIGN

\* Slip: the record's size is not rounded up.
RecordSizeUnaligned(l) == 4 + l

RecordSize(l) == AlignUp(4 + l, RECORD_ALIGN)

Word(c)      == c % CursorMod
Index(c)     == Word(c) % Cap
Remaining(c) == Cap - Index(c)
\* wrapping_sub of two cursor words
Distance(a, b) == (Word(a) - Word(b)) % CursorMod

\* Bytes skipped before a record of length l claimed at cursor c, the claim's
\* size, and whether a wrap marker is written into the skipped bytes.
\* Slip: the 4-byte header is left out of the fit test.
PaddingForPayloadOnly(c, l) ==
  IF Remaining(c) < 4 \/ Remaining(c) < RecordSize(l) - 4 THEN Remaining(c) ELSE 0

Padding(c, l) ==
  IF Remaining(c) < 4 \/ Remaining(c) < RecordSize(l) THEN Remaining(c) ELSE 0

\* Slip: the claim does not count the padding.
ReserveRecordOnly(c, l) == RecordSize(l)

Reserve(c, l) == Padding(c, l) + RecordSize(l)

\* Slip: no wrap marker is ever written.
NeverMarked(c, l) == FALSE

NeedsMarker(c, l) == Remaining(c) >= 4 /\ Remaining(c) < RecordSize(l)

\* Where p's record starts, and the offset of the k-th word after that.
StartIndex(p) == Index(seenTail[p] + Padding(seenTail[p], len[p]))
NewTail(p)    == seenTail[p] + Reserve(seenTail[p], len[p])

\* A length read from a word: a payload word can look like any length.
LensReadFrom(w) == IF w[1] = "len" THEN {w[2]} ELSE 0 .. Cap

PayloadOf(m) == [k \in 1 .. PayloadWords(m.len) |-> PayloadWord(m.from, m.n, k)]
\* What a pop returns for record m: its payload, or TooLarge with its length.
Result(m) ==
  IF m.len > MaxPop THEN [ok |-> FALSE, len |-> m.len, payload |-> <<>>]
                     ELSE [ok |-> TRUE,  len |-> m.len, payload |-> PayloadOf(m)]

-----------------------------------------------------------------------------
Init ==
  /\ head = 0 /\ tail_reserve = 0 /\ tail_commit = 0
  /\ data = [i \in Offsets |-> LenWord(0)]
  /\ pc = [p \in Producers |-> "idle"]
  /\ n = [p \in Producers |-> 0]
  /\ len = [p \in Producers |-> 0]
  /\ seenHead = [p \in Producers |-> 0]
  /\ seenTail = [p \in Producers |-> 0]
  /\ cpc = "idle" /\ popTail = 0 /\ popLen = 0 /\ popOut = <<>>
  /\ sent = <<>> /\ received = <<>>

-----------------------------------------------------------------------------
(* Producer p: try_push, and push_spinning for the spinning producers.     *)

Goto(p, l) == pc' = [pc EXCEPT ![p] = l]

\* A call with some payload; TooLarge returns at once.
CallPush(p) ==
  /\ pc[p] = "idle" /\ n[p] < MaxPush
  /\ n' = [n EXCEPT ![p] = n[p] + 1]
  /\ \E l \in Lens :
       /\ len' = [len EXCEPT ![p] = l]
       /\ Goto(p, IF RecordSize(l) > Cap THEN "idle" ELSE "load_head")
  /\ UNCHANGED <<cursorVars, data, seenHead, seenTail, consumerVars, sent, received>>

LoadHead(p) ==
  /\ pc[p] = "load_head"
  /\ seenHead' = [seenHead EXCEPT ![p] = head]
  /\ Goto(p, "load_tail")
  /\ UNCHANGED <<cursorVars, data, n, len, seenTail, consumerVars, sent, received>>

\* Slip: the free space is not tested.
LoadTailUnchecked(p) ==
  /\ pc[p] = "load_tail"
  /\ seenTail' = [seenTail EXCEPT ![p] = tail_reserve]
  /\ Goto(p, "cas")
  /\ UNCHANGED <<cursorVars, data, n, len, seenHead, consumerVars, sent, received>>

\* The tail is read after the head: the head may have moved in between, which
\* shows as more bytes in use than the ring holds, and the attempt starts over.
LoadTail(p) ==
  /\ pc[p] = "load_tail"
  /\ seenTail' = [seenTail EXCEPT ![p] = tail_reserve]
  /\ LET used == Distance(tail_reserve, seenHead[p])
         full == Reserve(tail_reserve, len[p]) > Cap - used
     IN Goto(p, IF used > Cap THEN "load_head" ELSE IF full THEN "full" ELSE "cas")
  /\ UNCHANGED <<cursorVars, data, n, len, seenHead, consumerVars, sent, received>>

\* Err(Full): push_spinning calls try_push again, other callers drop the record.
Full(p) ==
  /\ pc[p] = "full"
  /\ Goto(p, IF p \in SpinningProducers THEN "load_head" ELSE "idle")
  /\ UNCHANGED <<cursorVars, data, n, len, seenHead, seenTail, consumerVars, sent, received>>

\* Bound: no cursor moves by a whole CursorMod while a producer holds values
\* it loaded (4 GiB through the ring during one attempt of another thread).
NoCursorLap(p) ==
  \A q \in Producers \ {p} :
    pc[q] \in {"load_tail", "cas"} => NewTail(p) - seenHead[q] < CursorMod

\* Slip: after a lost race the old tail is tried again.
CompareExchangeNoReload(p) ==
  /\ pc[p] = "cas" /\ NoCursorLap(p)
  /\ Word(tail_reserve) = Word(seenTail[p])
  /\ tail_reserve' = tail_reserve + Reserve(seenTail[p], len[p])
  /\ Goto(p, IF NeedsMarker(seenTail[p], len[p]) THEN "marker" ELSE "length")
  /\ UNCHANGED <<head, tail_commit, data, n, len, seenHead, seenTail,
                 consumerVars, sent, received>>

CompareExchange(p) ==
  /\ pc[p] = "cas" /\ NoCursorLap(p)
  /\ IF Word(tail_reserve) = Word(seenTail[p])
       THEN /\ tail_reserve' = tail_reserve + Reserve(seenTail[p], len[p])
            /\ Goto(p, IF NeedsMarker(seenTail[p], len[p]) THEN "marker" ELSE "length")
       ELSE /\ Goto(p, "load_head")
            /\ UNCHANGED tail_reserve
  /\ UNCHANGED <<head, tail_commit, data, n, len, seenHead, seenTail,
                 consumerVars, sent, received>>

WriteMarker(p) ==
  /\ pc[p] = "marker"
  /\ data' = [data EXCEPT ![Index(seenTail[p])] = WRAP_MARKER]
  /\ Goto(p, "length")
  /\ UNCHANGED <<cursorVars, n, len, seenHead, seenTail, consumerVars, sent, received>>

WriteLength(p) ==
  /\ pc[p] = "length"
  /\ data' = [data EXCEPT ![StartIndex(p)] = LenWord(len[p])]
  /\ Goto(p, "payload")
  /\ UNCHANGED <<cursorVars, n, len, seenHead, seenTail, consumerVars, sent, received>>

\* copy_nonoverlapping from start_index + 4.
WritePayload(p) ==
  /\ pc[p] = "payload"
  /\ data' = [i \in Offsets |->
       LET k == (i - StartIndex(p)) \div 4
       IN IF k \in 1 .. PayloadWords(len[p]) THEN PayloadWord(p, n[p], k) ELSE data[i]]
  /\ Goto(p, "commit_wait")
  /\ UNCHANGED <<cursorVars, n, len, seenHead, seenTail, consumerVars, sent, received>>

\* Slip: the commit does not wait for the earlier claims.
CommitAtOnce(p) ==
  /\ pc[p] = "commit_wait"
  /\ Goto(p, "commit")
  /\ UNCHANGED <<cursorVars, data, n, len, seenHead, seenTail, consumerVars, sent, received>>

CommitWait(p) ==
  /\ pc[p] = "commit_wait"
  /\ Word(tail_commit) = Word(seenTail[p])
  /\ Goto(p, "commit")
  /\ UNCHANGED <<cursorVars, data, n, len, seenHead, seenTail, consumerVars, sent, received>>

\* Slip: push_spinning tries again although the record was pushed.
CommitAndRetry(p) ==
  /\ pc[p] = "commit"
  /\ tail_commit' = NewTail(p)
  /\ sent' = Append(sent, [from |-> p, n |-> n[p], len |-> len[p]])
  /\ Goto(p, IF p \in SpinningProducers THEN "load_head" ELSE "idle")
  /\ UNCHANGED <<head, tail_reserve, data, n, len, seenHead, seenTail, consumerVars, received>>

Commit(p) ==
  /\ pc[p] = "commit"
  /\ tail_commit' = NewTail(p)
  /\ sent' = Append(sent, [from |-> p, n |-> n[p], len |-> len[p]])
  /\ Goto(p, "idle")
  /\ UNCHANGED <<head, tail_reserve, data, n, len, seenHead, seenTail, consumerVars, received>>

\* Producers that own a claimed, not yet committed range.
Claiming == {p \in Producers :
               pc[p] \in {"marker", "length", "payload", "commit_wait", "commit"}}
Dead == {p \in Producers : pc[p] \in {"dead", "lost"}}

\* The worker that runs p is terminated in the middle of a push.  The claim it
\* may hold stays in the ring, lost: nobody commits it.
Crash(p) ==
  /\ pc[p] # "idle" /\ p \notin Dead /\ Cardinality(Dead) < MaxCrashes
  /\ Goto(p, IF p \in Claiming THEN "lost" ELSE "dead")
  /\ UNCHANGED <<cursorVars, data, n, len, seenHead, seenTail, consumerVars, sent, received>>

-----------------------------------------------------------------------------
(* The consumer: try_pop_capped, called again whenever it returns.  Only   *)
(* the consumer writes `head`.  A pop of an empty ring changes nothing.    *)

PopLoad ==
  /\ cpc = "idle"
  /\ Word(head) # Word(tail_commit)
  /\ popTail' = tail_commit
  /\ cpc' = "read"
  /\ UNCHANGED <<cursorVars, data, producerVars, popLen, popOut, sent, received>>

\* Implicit padding, or an explicit wrap marker.
AtPadding == Remaining(head) < 4 \/ data[Index(head)] = WRAP_MARKER

\* The length does not fit the segment, or reaches past the committed bytes.
Corrupt(l) ==
  \/ RecordSize(l) > Remaining(head)
  \/ Distance(popTail, head) < RecordSize(l)

PopRead ==
  /\ cpc = "read"
  /\ IF AtPadding
       THEN cpc' = "skip" /\ UNCHANGED popLen
       ELSE \E l \in LensReadFrom(data[Index(head)]) :
              /\ popLen' = l
              /\ cpc' = IF Corrupt(l) THEN "corrupt"
                        ELSE IF l > MaxPop THEN "drop" ELSE "copy"
  /\ UNCHANGED <<cursorVars, data, producerVars, popTail, popOut, sent, received>>

\* Slip: the padding at the end of the buffer is not skipped.
PopSkipStays ==
  /\ cpc = "skip"
  /\ cpc' = "idle"
  /\ UNCHANGED <<cursorVars, data, producerVars, popTail, popLen, popOut, sent, received>>

PopSkip ==
  /\ cpc = "skip"
  /\ head' = head + Remaining(head)
  /\ cpc' = "idle"
  /\ UNCHANGED <<tail_reserve, tail_commit, data, producerVars,
                 popTail, popLen, popOut, sent, received>>

PopCopy ==
  /\ cpc = "copy"
  /\ popOut' = [k \in 1 .. PayloadWords(popLen) |-> data[Index(head) + 4 * k]]
  /\ cpc' = "advance"
  /\ UNCHANGED <<cursorVars, data, producerVars, popTail, popLen, sent, received>>

\* The head store and the return of the payload, or of TooLarge.
PopAdvance ==
  /\ cpc \in {"advance", "drop"}
  /\ head' = head + RecordSize(popLen)
  /\ received' = Append(received,
       IF cpc = "drop" THEN [ok |-> FALSE, len |-> popLen, payload |-> <<>>]
                       ELSE [ok |-> TRUE,  len |-> popLen, payload |-> popOut])
  /\ cpc' = "idle"
  /\ UNCHANGED <<tail_reserve, tail_commit, data, producerVars,
                 popTail, popLen, popOut, sent>>

-----------------------------------------------------------------------------
Producer(p) ==
  \/ CallPush(p) \/ LoadHead(p) \/ LoadTail(p) \/ Full(p) \/ CompareExchange(p)
  \/ WriteMarker(p) \/ WriteLength(p) \/ WritePayload(p)
  \/ CommitWait(p) \/ Commit(p)

Consumer == PopLoad \/ PopRead \/ PopSkip \/ PopCopy \/ PopAdvance

\* A claim before p's own will never be committed.
BehindLostClaim(p) ==
  pc[p] = "commit_wait" /\ \E q \in Producers : pc[q] = "lost" /\ seenTail[q] < seenTail[p]

\* The bounded instance is over: every push returned, died or waits behind a
\* lost claim, and the ring is drained.
Quiescent ==
  /\ \A p \in Producers :
       (pc[p] = "idle" /\ n[p] = MaxPush) \/ p \in Dead \/ BehindLostClaim(p)
  /\ cpc = "idle" /\ Word(head) = Word(tail_commit)

Terminated == Quiescent /\ UNCHANGED vars

Next == Consumer \/ (\E p \in Producers : Producer(p) \/ Crash(p)) \/ Terminated

Spec == Init /\ [][Next]_vars

\* Threads inside a push keep running, and the consumer keeps polling; nobody
\* is obliged to start a push.
PushStep(p) == Producer(p) /\ pc[p] # "idle"
Fairness == WF_vars(Consumer) /\ \A p \in Producers : WF_vars(PushStep(p))

FairSpec == Spec /\ Fairness

-----------------------------------------------------------------------------
(* Properties.                                                             *)

PcValues == {"idle", "load_head", "load_tail", "full", "cas", "marker",
             "length", "payload", "commit_wait", "commit", "dead", "lost"}
CpcValues == {"idle", "read", "skip", "copy", "advance", "drop", "corrupt"}

Aligned == {c \in Nat : c % RECORD_ALIGN = 0}
BufferWords ==
  {WRAP_MARKER} \cup ({"len"} \X Nat) \cup ({"pay"} \X Producers \X Nat \X Nat)

\* Every variable keeps its type; the cursors stay multiples of RECORD_ALIGN,
\* so `remaining` is never below 4 and the implicit padding is never taken.
TypeOK ==
  /\ head \in Aligned /\ tail_reserve \in Aligned /\ tail_commit \in Aligned
  /\ data \in [Offsets -> BufferWords]
  /\ pc \in [Producers -> PcValues]
  /\ n \in [Producers -> Nat]
  /\ len \in [Producers -> Nat]
  /\ seenHead \in [Producers -> Aligned]
  /\ seenTail \in [Producers -> Aligned]
  /\ cpc \in CpcValues
  /\ popTail \in Aligned /\ popLen \in Nat /\ popOut \in Seq(BufferWords)
  /\ sent \in Seq([from : Producers, n : Nat, len : Nat])
  /\ received \in Seq([ok : BOOLEAN, len : Nat, payload : Seq(BufferWords)])

\* The buffer words try_push writes for its claim, and those a pop may read.
Writes(p) ==
  (IF NeedsMarker(seenTail[p], len[p]) THEN {Index(seenTail[p])} ELSE {})
    \cup {StartIndex(p) + 4 * k : k \in 0 .. PayloadWords(len[p])}
Unread == {Index(c) : c \in {d \in head .. tail_commit - 1 : d % RECORD_ALIGN = 0}}

\* No data race: the words a producer writes after its compare-exchange are
\* neither written by another producer in the middle of its own push nor
\* readable by the consumer.
Exclusive ==
  \A p \in Claiming :
    /\ Writes(p) \cap Unread = {}
    /\ \A q \in Claiming \ {p} : Writes(p) \cap Writes(q) = {}

\* "The record is guaranteed to fit contiguously from `start_index`": no
\* write of try_push lands outside the buffer.
RecordFits == \A p \in Claiming : Writes(p) \subseteq Offsets

\* The consumer is handed exactly the committed records, whole, once each and
\* in commit order; a record above max_len is reported with its own length.
DeliversInOrder ==
  /\ Len(received) <= Len(sent)
  /\ \A i \in 1 .. Len(received) : received[i] = Result(sent[i])

\* PopError::Corrupt "shouldn't happen with in-order commits".
NeverCorrupt == cpc # "corrupt"

\* The consumer never passes the committed bytes, commits never pass claims,
\* and claims never lap the consumer: at most Cap bytes are in use.
CursorsOrdered ==
  /\ head <= tail_commit /\ tail_commit <= tail_reserve
  /\ tail_reserve <= head + Cap

\* The ring implements the queue of IpcQueue: a record enters at the store
\* of tail_commit and leaves at the store of head.
LastSent(p) ==
  LET mine == {i \in 1 .. Len(sent) : sent[i].from = p}
  IN IF mine = {} THEN 0 ELSE sent[CHOOSE i \in mine : \A j \in mine : j <= i].n

Abstract == INSTANCE IpcQueue WITH
  Numbers <- 1 .. MaxPush,
  queue   <- SubSeq(sent, Len(received) + 1, Len(sent)),
  last    <- [p \in Producers |-> LastSent(p)]

ImplementsQueue == Abstract!QSpec

\* Payload lengths that push_spinning can always place: the worst claim, the
\* record behind the largest possible padding, fits an empty ring.
FittingLens == {l \in Lens : 2 * RecordSize(l) - RECORD_ALIGN <= Cap}

\* push_spinning of such a record returns, whatever the other producers do
\* and wherever they die, unless one of them dies holding a claim.
SpinningPushReturns ==
  \A p \in SpinningProducers :
    (pc[p] # "idle" /\ len[p] \in FittingLens)
      ~> (pc[p] \in {"idle", "dead"} \/ \E q \in Producers : pc[q] = "lost")

\* What is committed is delivered, in particular everything before the claim
\* of a producer that died.
CommittedIsDelivered ==
  \A k \in 1 .. MaxPush * Cardinality(Producers) :
    (Len(sent) >= k) ~> (Len(received) >= k)
=============================================================================
