---------------------------- MODULE SeqlockProofs ----------------------------
(***************************************************************************)
(* The safety properties of Seqlock, proved for every number of writers,   *)
(* readers and payload words, every generation width and spin bound.       *)
(*                                                                         *)
(* The argument: the busy bit is held by exactly one writer, the holder    *)
(* knows the current generation, and while nobody holds it all payload     *)
(* words are those of the latest update.  A reader therefore has, as long  *)
(* as the generation word is still the one it started with, read only      *)
(* words of that generation's update.                                      *)
(***************************************************************************)
EXTENDS Seqlock, BasicLemmas, TLAPS

\* Busy exactly while a writer, alive or dead, is inside an update.
BusyMeansHeld == busy <=> Holders # {}

\* A writer that saw a generation saw a recent one; the holder saw the current.
WriterView ==
  \A w \in Writers :
    /\ wpc[w] = "acquire" => start[w].gen <= gen /\ gen - start[w].gen < GenMod
    /\ wpc[w] = "store" => start[w].gen = gen

\* The payload: whole when nobody writes, a prefix of the update when w does.
PayloadWhole == ~busy => \A i \in Fields : fields[i] = published[gen + 1]
PayloadPrefix ==
  \A w \in Writers : wpc[w] = "store" =>
    \A i \in Fields : i < wfield[w] => fields[i] = Update(w)

\* A reader saw a recent generation, no older than its latest snapshot, and if
\* it is still the current one, every word it read belongs to it.
ReaderView ==
  \A r \in Readers : rpc[r] = "read" =>
    /\ gen0[r] <= gen /\ gen - gen0[r] < GenMod /\ snap[r].gen <= gen0[r]
    /\ (~busy /\ gen = gen0[r]) =>
         \A i \in Fields : i < rfield[r] => got[r][i] = published[gen0[r] + 1]

IInv ==
  /\ TypeOK /\ WritersExclude /\ BusyMeansHeld /\ WriterView
  /\ PayloadWhole /\ PayloadPrefix /\ GenerationCountsUpdates
  /\ ReaderView /\ SnapshotCoherent

-----------------------------------------------------------------------------
(* Types.                                                                  *)

LEMMA InitType == Init => TypeOK
<1> SUFFICES ASSUME Init PROVE TypeOK
  OBVIOUS
<1>1. 1 \in 1 .. NumFields + 1
  BY SeqlockAssumption
<1>2. published \in Seq(Updates)
  BY DEF Init, Updates, Initial
<1> QED
  BY <1>1, <1>2 DEF Init, TypeOK, Updates, Initial

LEMMA TypeStep == TypeOK /\ [Next]_vars => TypeOK'
<1> SUFFICES ASSUME TypeOK, [Next]_vars PROVE TypeOK'
  OBVIOUS
<1> USE SeqlockAssumption DEF TypeOK, writerVars, readerVars
<1>1. ASSUME NEW w \in Writers, CallPublish(w) PROVE TypeOK'
  BY <1>1 DEF CallPublish
<1>2. ASSUME NEW w \in Writers, SpinWriter(w) PROVE TypeOK'
  BY <1>2 DEF SpinWriter
<1>3. ASSUME NEW w \in Writers, Acquire(w) PROVE TypeOK'
  BY <1>3 DEF Acquire
<1>4. ASSUME NEW w \in Writers, GiveUpWriter(w) PROVE TypeOK'
  BY <1>4 DEF GiveUpWriter
<1>5. ASSUME NEW w \in Writers, StoreField(w) PROVE TypeOK'
  <2>1. Update(w) \in Updates
    BY DEF Update, Updates
  <2> QED
    BY <1>5, <2>1 DEF StoreField, Fields
<1>6. ASSUME NEW w \in Writers, Publish(w) PROVE TypeOK'
  <2>1. Update(w) \in Updates
    BY DEF Update, Updates
  <2>2. published' \in Seq(Updates)
    BY <1>6, <2>1 DEF Publish
  <2>3. gen' \in Nat
    <3>1. start[w].gen \in Nat
      OBVIOUS
    <3> QED
      BY <1>6, <3>1 DEF Publish
  <2>3b. busy' \in BOOLEAN
    BY <1>6 DEF Publish
  <2>4. wpc' \in [Writers -> {"idle", "acquire", "store", "crashed"}]
    BY <1>6 DEF Publish
  <2>5. UNCHANGED <<fields, calls, start, wspins, wfield, readerVars>>
    BY <1>6 DEF Publish
  <2> QED
    BY <2>2, <2>3, <2>3b, <2>4, <2>5
<1>7. ASSUME NEW w \in Writers, Crash(w) PROVE TypeOK'
  BY <1>7 DEF Crash
<1>8. ASSUME NEW r \in Readers, CallSnapshot(r) PROVE TypeOK'
  BY <1>8 DEF CallSnapshot
<1>9. ASSUME NEW r \in Readers, LoadGen0(r) PROVE TypeOK'
  BY <1>9 DEF LoadGen0
<1>10. ASSUME NEW r \in Readers, SawBusy(r) PROVE TypeOK'
  BY <1>10 DEF SawBusy
<1>11. ASSUME NEW r \in Readers, LoadField(r) PROVE TypeOK'
  BY <1>11 DEF LoadField, Fields
<1>12. ASSUME NEW r \in Readers, ReturnSnapshot(r) PROVE TypeOK'
  BY <1>12 DEF ReturnSnapshot
<1>13. ASSUME NEW r \in Readers, RetrySnapshot(r) PROVE TypeOK'
  BY <1>13 DEF RetrySnapshot
<1>14. ASSUME NEW r \in Readers, GiveUpReader(r) PROVE TypeOK'
  BY <1>14 DEF GiveUpReader
<1>15. CASE UNCHANGED vars
  BY <1>15 DEF vars
<1> QED
  BY <1>1, <1>2, <1>3, <1>4, <1>5, <1>6, <1>7, <1>8, <1>9, <1>10, <1>11, <1>12, <1>13,
     <1>14, <1>15
  DEF Next, WriterStep, ReaderStep

\* Every variable of the descriptor protocol keeps its type.
THEOREM TypeCorrect == Spec => []TypeOK
<1> QED
  BY InitType, TypeStep, PTL DEF Spec
-----------------------------------------------------------------------------
(* The inductive invariant.                                                *)

LEMMA InitIInv == Init => IInv
<1> SUFFICES ASSUME Init PROVE IInv
  OBVIOUS
<1>1. TypeOK
  BY InitType
<1>2. Holders = {}
  BY DEF Init, Holders
<1>3. WritersExclude /\ BusyMeansHeld
  BY <1>2 DEF WritersExclude, BusyMeansHeld, Init
<1>4. WriterView /\ PayloadPrefix /\ ReaderView
  BY DEF Init, WriterView, PayloadPrefix, ReaderView
<1>5. published[1] = Initial /\ Len(published) = 1
  BY DEF Init
<1>6. PayloadWhole /\ GenerationCountsUpdates /\ SnapshotCoherent
  BY <1>5 DEF Init, PayloadWhole, GenerationCountsUpdates, SnapshotCoherent
<1> QED
  BY <1>1, <1>3, <1>4, <1>6 DEF IInv

LEMMA StepIInv == IInv /\ [Next]_vars => IInv'
<1> SUFFICES ASSUME IInv, [Next]_vars PROVE IInv'
  OBVIOUS
<1> USE SeqlockAssumption DEF IInv
<1>0. TypeOK'
  BY TypeStep
<1>1. ASSUME NEW w \in Writers, CallPublish(w) PROVE IInv'
  <2>1. WritersExclude'
    BY <1>1 DEF CallPublish, TypeOK, WritersExclude, Holders, writerVars, readerVars
  <2>2. BusyMeansHeld'
    BY <1>1 DEF CallPublish, TypeOK, BusyMeansHeld, Holders, WritersExclude, writerVars, readerVars
  <2>3. WriterView'
    BY <1>1 DEF CallPublish, TypeOK, WriterView, WritersExclude, Holders, writerVars, readerVars
  <2>4. PayloadWhole'
    BY <1>1 DEF CallPublish, TypeOK, PayloadWhole, writerVars, readerVars
  <2>5. PayloadPrefix'
    BY <1>1 DEF CallPublish, TypeOK, PayloadPrefix, WritersExclude, Holders, Update, writerVars, readerVars
  <2>6. GenerationCountsUpdates'
    BY <1>1 DEF CallPublish, TypeOK, GenerationCountsUpdates, writerVars, readerVars
  <2>7. ReaderView'
    BY <1>1 DEF CallPublish, TypeOK, ReaderView, writerVars, readerVars
  <2>8. SnapshotCoherent'
    BY <1>1 DEF CallPublish, TypeOK, SnapshotCoherent, writerVars, readerVars
  <2> QED
    BY <1>0, <2>1, <2>2, <2>3, <2>4, <2>5, <2>6, <2>7, <2>8
<1>2. ASSUME NEW w \in Writers, SpinWriter(w) PROVE IInv'
  <2>1. WritersExclude'
    BY <1>2 DEF SpinWriter, TypeOK, WritersExclude, Holders, writerVars, readerVars
  <2>2. BusyMeansHeld'
    BY <1>2 DEF SpinWriter, TypeOK, BusyMeansHeld, Holders, WritersExclude, writerVars, readerVars
  <2>3. WriterView'
    BY <1>2 DEF SpinWriter, TypeOK, WriterView, WritersExclude, Holders, writerVars, readerVars
  <2>4. PayloadWhole'
    BY <1>2 DEF SpinWriter, TypeOK, PayloadWhole, writerVars, readerVars
  <2>5. PayloadPrefix'
    BY <1>2 DEF SpinWriter, TypeOK, PayloadPrefix, WritersExclude, Holders, Update, writerVars, readerVars
  <2>6. GenerationCountsUpdates'
    BY <1>2 DEF SpinWriter, TypeOK, GenerationCountsUpdates, writerVars, readerVars
  <2>7. ReaderView'
    BY <1>2 DEF SpinWriter, TypeOK, ReaderView, writerVars, readerVars
  <2>8. SnapshotCoherent'
    BY <1>2 DEF SpinWriter, TypeOK, SnapshotCoherent, writerVars, readerVars
  <2> QED
    BY <1>0, <2>1, <2>2, <2>3, <2>4, <2>5, <2>6, <2>7, <2>8
<1>3. ASSUME NEW w \in Writers, Acquire(w) PROVE IInv'
  <2>a. Holders = {}
    BY <1>3 DEF Acquire, BusyMeansHeld
  <2>b. Holders' = {w}
    BY <1>3, <2>a DEF Acquire, Holders, TypeOK
  <2>c. start[w].gen = gen
    <3>1. /\ start[w].gen \in Nat /\ gen \in Nat
          /\ start[w].gen <= gen /\ gen - start[w].gen < GenMod
          /\ gen % GenMod = start[w].gen % GenMod
      BY <1>3 DEF Acquire, WriterView, TypeOK, Word
    <3> QED
      BY <3>1, WrappedEqual
  <2>1. WritersExclude'
    BY <2>b DEF WritersExclude
  <2>2. BusyMeansHeld'
    BY <1>3, <2>b DEF Acquire, BusyMeansHeld
  <2>3. WriterView'
    BY <1>3, <2>a, <2>c DEF Acquire, TypeOK, WriterView, Holders
  <2>4. PayloadWhole'
    BY <1>3 DEF Acquire, TypeOK, PayloadWhole, writerVars, readerVars
  <2>5. PayloadPrefix'
    BY <1>3, <2>a DEF Acquire, TypeOK, PayloadPrefix, Holders, Fields
  <2>6. GenerationCountsUpdates'
    BY <1>3 DEF Acquire, TypeOK, GenerationCountsUpdates, writerVars, readerVars
  <2>7. ReaderView'
    BY <1>3 DEF Acquire, TypeOK, ReaderView, writerVars, readerVars
  <2>8. SnapshotCoherent'
    BY <1>3 DEF Acquire, TypeOK, SnapshotCoherent, writerVars, readerVars
  <2> QED
    BY <1>0, <2>1, <2>2, <2>3, <2>4, <2>5, <2>6, <2>7, <2>8
<1>4. ASSUME NEW w \in Writers, GiveUpWriter(w) PROVE IInv'
  <2>1. WritersExclude'
    BY <1>4 DEF GiveUpWriter, TypeOK, WritersExclude, Holders, writerVars, readerVars
  <2>2. BusyMeansHeld'
    BY <1>4 DEF GiveUpWriter, TypeOK, BusyMeansHeld, Holders, WritersExclude, writerVars, readerVars
  <2>3. WriterView'
    BY <1>4 DEF GiveUpWriter, TypeOK, WriterView, WritersExclude, Holders, writerVars, readerVars
  <2>4. PayloadWhole'
    BY <1>4 DEF GiveUpWriter, TypeOK, PayloadWhole, writerVars, readerVars
  <2>5. PayloadPrefix'
    BY <1>4 DEF GiveUpWriter, TypeOK, PayloadPrefix, WritersExclude, Holders, Update, writerVars, readerVars
  <2>6. GenerationCountsUpdates'
    BY <1>4 DEF GiveUpWriter, TypeOK, GenerationCountsUpdates, writerVars, readerVars
  <2>7. ReaderView'
    BY <1>4 DEF GiveUpWriter, TypeOK, ReaderView, writerVars, readerVars
  <2>8. SnapshotCoherent'
    BY <1>4 DEF GiveUpWriter, TypeOK, SnapshotCoherent, writerVars, readerVars
  <2> QED
    BY <1>0, <2>1, <2>2, <2>3, <2>4, <2>5, <2>6, <2>7, <2>8
<1>5. ASSUME NEW w \in Writers, StoreField(w) PROVE IInv'
  <2>a. busy /\ \A v \in Writers : wpc[v] = "store" => v = w
    BY <1>5 DEF StoreField, BusyMeansHeld, WritersExclude, Holders
  <2>1. WritersExclude'
    BY <1>5 DEF StoreField, TypeOK, WritersExclude, Holders, writerVars, readerVars
  <2>2. BusyMeansHeld'
    BY <1>5 DEF StoreField, TypeOK, BusyMeansHeld, Holders, WritersExclude, writerVars, readerVars
  <2>3. WriterView'
    BY <1>5 DEF StoreField, TypeOK, WriterView, WritersExclude, Holders, writerVars, readerVars
  <2>4. PayloadWhole'
    BY <1>5, <2>a DEF StoreField, PayloadWhole
  <2>5. PayloadPrefix'
    <3>1. SUFFICES ASSUME NEW i \in Fields, i < wfield'[w]
                   PROVE  fields'[i] = <<w, calls[w]>>
      BY <1>5, <2>a DEF StoreField, PayloadPrefix, Update
    <3>2. wfield'[w] = wfield[w] + 1 /\ wfield[w] \in Fields
      BY <1>5 DEF StoreField, TypeOK, Fields
    <3>3. CASE i = wfield[w]
      BY <1>5, <3>2, <3>3 DEF StoreField, TypeOK, Update
    <3>4. CASE i # wfield[w]
      <4>1. i < wfield[w]
        BY <3>1, <3>2, <3>4 DEF Fields
      <4> QED
        BY <1>5, <3>4, <4>1 DEF StoreField, TypeOK, PayloadPrefix, Update
    <3> QED
      BY <3>3, <3>4
  <2>6. GenerationCountsUpdates'
    BY <1>5 DEF StoreField, TypeOK, GenerationCountsUpdates, writerVars, readerVars
  <2>7. ReaderView'
    BY <1>5 DEF StoreField, TypeOK, ReaderView, writerVars, readerVars
  <2>8. SnapshotCoherent'
    BY <1>5 DEF StoreField, TypeOK, SnapshotCoherent, writerVars, readerVars
  <2> QED
    BY <1>0, <2>1, <2>2, <2>3, <2>4, <2>5, <2>6, <2>7, <2>8
<1>6. ASSUME NEW w \in Writers, Publish(w) PROVE IInv'
  <2>a. \A v \in Writers : wpc[v] \in {"store", "crashed"} => v = w
    BY <1>6 DEF Publish, WritersExclude, Holders
  <2>b. gen \in Nat /\ gen' = gen + 1
    BY <1>6 DEF Publish, WriterView, TypeOK
  <2>c. \A i \in Fields : fields[i] = Update(w)
    BY <1>6 DEF Publish, PayloadPrefix, TypeOK, Fields
  <2>d. published \in Seq(Updates) /\ published' = Append(published, Update(w))
    BY <1>6 DEF Publish, TypeOK
  <2>e. /\ Len(published') = Len(published) + 1
        /\ published'[Len(published) + 1] = Update(w)
        /\ \A j \in 1 .. Len(published) : published'[j] = published[j]
    BY <2>d
  <2>1. WritersExclude'
    BY <1>6 DEF Publish, TypeOK, WritersExclude, Holders, writerVars, readerVars
  <2>2. BusyMeansHeld'
    BY <1>6 DEF Publish, TypeOK, BusyMeansHeld, Holders, WritersExclude, writerVars, readerVars
  <2>3. WriterView'
    <3>1. /\ start' = start /\ NoGenerationLap /\ GenMod \in Nat
          /\ \A v \in Writers : wpc'[v] = IF v = w THEN "idle" ELSE wpc[v]
      BY <1>6, SeqlockAssumption DEF Publish, TypeOK
    <3>2. ASSUME NEW v \in Writers, wpc'[v] = "acquire"
          PROVE  start'[v].gen <= gen' /\ gen' - start'[v].gen < GenMod
      <4>1. wpc[v] = "acquire" /\ start[v].gen \in Nat /\ start[v].gen <= gen
        BY <3>1, <3>2 DEF TypeOK, WriterView
      <4>2. gen + 1 - start[v].gen < GenMod
        BY <3>1, <4>1 DEF NoGenerationLap
      <4> QED
        BY <2>b, <3>1, <4>1, <4>2
    <3>3. \A v \in Writers : wpc'[v] # "store"
      BY <2>a, <3>1
    <3> QED
      BY <3>2, <3>3 DEF WriterView
  <2>4. PayloadWhole'
    BY <1>6, <2>b, <2>c, <2>e DEF Publish, PayloadWhole, GenerationCountsUpdates
  <2>5. PayloadPrefix'
    BY <1>6 DEF Publish, TypeOK, PayloadPrefix, WritersExclude, Holders, Update, writerVars, readerVars
  <2>6. GenerationCountsUpdates'
    BY <2>b, <2>e DEF GenerationCountsUpdates
  <2>7. ReaderView'
    <3>1. rpc' = rpc /\ gen0' = gen0 /\ snap' = snap /\ NoGenerationLap
      BY <1>6 DEF Publish, readerVars
    <3>2. ASSUME NEW r \in Readers, rpc[r] = "read"
          PROVE  /\ gen0[r] <= gen + 1 /\ gen + 1 - gen0[r] < GenMod
                 /\ snap[r].gen <= gen0[r] /\ gen + 1 # gen0[r]
      <4>1. gen0[r] \in Nat /\ gen0[r] <= gen /\ snap[r].gen <= gen0[r]
        BY <3>2 DEF ReaderView, TypeOK
      <4>2. gen + 1 - gen0[r] < GenMod
        BY <3>1, <3>2 DEF NoGenerationLap
      <4> QED
        BY <2>b, <4>1, <4>2
    <3>3. ASSUME NEW r \in Readers, rpc'[r] = "read"
          PROVE  /\ gen0'[r] <= gen' /\ gen' - gen0'[r] < GenMod
                 /\ snap'[r].gen <= gen0'[r] /\ gen' # gen0'[r]
      <4>1. rpc[r] = "read"
        BY <3>1, <3>3
      <4>2. /\ gen0[r] <= gen + 1 /\ gen + 1 - gen0[r] < GenMod
            /\ snap[r].gen <= gen0[r] /\ gen + 1 # gen0[r]
        BY <3>2, <4>1
      <4>3. gen0[r] \in Nat /\ snap[r].gen \in Nat
        BY DEF TypeOK
      <4> QED
        BY <2>b, <3>1, <4>2, <4>3
    <3> QED
      BY <3>3 DEF ReaderView
  <2>8. SnapshotCoherent'
    BY <1>6, <2>e DEF Publish, SnapshotCoherent, TypeOK, readerVars
  <2> QED
    BY <1>0, <2>1, <2>2, <2>3, <2>4, <2>5, <2>6, <2>7, <2>8
<1>7. ASSUME NEW w \in Writers, Crash(w) PROVE IInv'
  <2>1. WritersExclude'
    BY <1>7 DEF Crash, TypeOK, WritersExclude, Holders, writerVars, readerVars
  <2>2. BusyMeansHeld'
    BY <1>7 DEF Crash, TypeOK, BusyMeansHeld, Holders, WritersExclude, writerVars, readerVars
  <2>3. WriterView'
    BY <1>7 DEF Crash, TypeOK, WriterView, WritersExclude, Holders, writerVars, readerVars
  <2>4. PayloadWhole'
    BY <1>7 DEF Crash, TypeOK, PayloadWhole, writerVars, readerVars
  <2>5. PayloadPrefix'
    BY <1>7 DEF Crash, TypeOK, PayloadPrefix, WritersExclude, Holders, Update, writerVars, readerVars
  <2>6. GenerationCountsUpdates'
    BY <1>7 DEF Crash, TypeOK, GenerationCountsUpdates, writerVars, readerVars
  <2>7. ReaderView'
    BY <1>7 DEF Crash, TypeOK, ReaderView, writerVars, readerVars
  <2>8. SnapshotCoherent'
    BY <1>7 DEF Crash, TypeOK, SnapshotCoherent, writerVars, readerVars
  <2> QED
    BY <1>0, <2>1, <2>2, <2>3, <2>4, <2>5, <2>6, <2>7, <2>8
<1>8. ASSUME NEW r \in Readers, CallSnapshot(r) PROVE IInv'
  <2>1. WritersExclude'
    BY <1>8 DEF CallSnapshot, TypeOK, WritersExclude, Holders, writerVars, readerVars
  <2>2. BusyMeansHeld'
    BY <1>8 DEF CallSnapshot, TypeOK, BusyMeansHeld, Holders, WritersExclude, writerVars, readerVars
  <2>3. WriterView'
    BY <1>8 DEF CallSnapshot, TypeOK, WriterView, WritersExclude, Holders, writerVars, readerVars
  <2>4. PayloadWhole'
    BY <1>8 DEF CallSnapshot, TypeOK, PayloadWhole, writerVars, readerVars
  <2>5. PayloadPrefix'
    BY <1>8 DEF CallSnapshot, TypeOK, PayloadPrefix, WritersExclude, Holders, Update, writerVars, readerVars
  <2>6. GenerationCountsUpdates'
    BY <1>8 DEF CallSnapshot, TypeOK, GenerationCountsUpdates, writerVars, readerVars
  <2>7. ReaderView'
    BY <1>8 DEF CallSnapshot, TypeOK, ReaderView, writerVars, readerVars
  <2>8. SnapshotCoherent'
    BY <1>8 DEF CallSnapshot, TypeOK, SnapshotCoherent, writerVars, readerVars
  <2> QED
    BY <1>0, <2>1, <2>2, <2>3, <2>4, <2>5, <2>6, <2>7, <2>8
<1>9. ASSUME NEW r \in Readers, LoadGen0(r) PROVE IInv'
  <2>a. snap[r].gen \in Nat /\ snap[r].gen <= gen
    BY DEF SnapshotCoherent, GenerationCountsUpdates, TypeOK
  <2>1. WritersExclude'
    BY <1>9 DEF LoadGen0, TypeOK, WritersExclude, Holders, writerVars, readerVars
  <2>2. BusyMeansHeld'
    BY <1>9 DEF LoadGen0, TypeOK, BusyMeansHeld, Holders, WritersExclude, writerVars, readerVars
  <2>3. WriterView'
    BY <1>9 DEF LoadGen0, TypeOK, WriterView, WritersExclude, Holders, writerVars, readerVars
  <2>4. PayloadWhole'
    BY <1>9 DEF LoadGen0, TypeOK, PayloadWhole, writerVars, readerVars
  <2>5. PayloadPrefix'
    BY <1>9 DEF LoadGen0, TypeOK, PayloadPrefix, WritersExclude, Holders, Update, writerVars, readerVars
  <2>6. GenerationCountsUpdates'
    BY <1>9 DEF LoadGen0, TypeOK, GenerationCountsUpdates, writerVars, readerVars
  <2>7. ReaderView'
    <3>1. ASSUME NEW q \in Readers, q # r, rpc'[q] = "read"
          PROVE  /\ rpc[q] = "read" /\ gen0'[q] = gen0[q] /\ rfield'[q] = rfield[q]
      BY <1>9, <3>1 DEF LoadGen0, TypeOK
    <3>2. gen0'[r] = gen /\ rfield'[r] = 1
      BY <1>9 DEF LoadGen0, TypeOK
    <3>3. UNCHANGED <<gen, busy, got, snap, published>>
      BY <1>9 DEF LoadGen0
    <3>4. gen \in Nat /\ GenMod > 0
      BY DEF TypeOK
    <3> QED
      BY <2>a, <3>1, <3>2, <3>3, <3>4 DEF ReaderView, Fields
  <2>8. SnapshotCoherent'
    BY <1>9 DEF LoadGen0, TypeOK, SnapshotCoherent, writerVars, readerVars
  <2> QED
    BY <1>0, <2>1, <2>2, <2>3, <2>4, <2>5, <2>6, <2>7, <2>8
<1>10. ASSUME NEW r \in Readers, SawBusy(r) PROVE IInv'
  <2>1. WritersExclude'
    BY <1>10 DEF SawBusy, TypeOK, WritersExclude, Holders, writerVars, readerVars
  <2>2. BusyMeansHeld'
    BY <1>10 DEF SawBusy, TypeOK, BusyMeansHeld, Holders, WritersExclude, writerVars, readerVars
  <2>3. WriterView'
    BY <1>10 DEF SawBusy, TypeOK, WriterView, WritersExclude, Holders, writerVars, readerVars
  <2>4. PayloadWhole'
    BY <1>10 DEF SawBusy, TypeOK, PayloadWhole, writerVars, readerVars
  <2>5. PayloadPrefix'
    BY <1>10 DEF SawBusy, TypeOK, PayloadPrefix, WritersExclude, Holders, Update, writerVars, readerVars
  <2>6. GenerationCountsUpdates'
    BY <1>10 DEF SawBusy, TypeOK, GenerationCountsUpdates, writerVars, readerVars
  <2>7. ReaderView'
    BY <1>10 DEF SawBusy, TypeOK, ReaderView, writerVars, readerVars
  <2>8. SnapshotCoherent'
    BY <1>10 DEF SawBusy, TypeOK, SnapshotCoherent, writerVars, readerVars
  <2> QED
    BY <1>0, <2>1, <2>2, <2>3, <2>4, <2>5, <2>6, <2>7, <2>8
<1>11. ASSUME NEW r \in Readers, LoadField(r) PROVE IInv'
  <2>1. WritersExclude'
    BY <1>11 DEF LoadField, TypeOK, WritersExclude, Holders, writerVars, readerVars
  <2>2. BusyMeansHeld'
    BY <1>11 DEF LoadField, TypeOK, BusyMeansHeld, Holders, WritersExclude, writerVars, readerVars
  <2>3. WriterView'
    BY <1>11 DEF LoadField, TypeOK, WriterView, WritersExclude, Holders, writerVars, readerVars
  <2>4. PayloadWhole'
    BY <1>11 DEF LoadField, TypeOK, PayloadWhole, writerVars, readerVars
  <2>5. PayloadPrefix'
    BY <1>11 DEF LoadField, TypeOK, PayloadPrefix, WritersExclude, Holders, Update, writerVars, readerVars
  <2>6. GenerationCountsUpdates'
    BY <1>11 DEF LoadField, TypeOK, GenerationCountsUpdates, writerVars, readerVars
  <2>7. ReaderView'
    <3>1. SUFFICES ASSUME NEW q \in Readers, rpc[q] = "read", ~busy, gen = gen0[q],
                          NEW i \in Fields, i < rfield'[q]
                   PROVE  got'[q][i] = published[gen0[q] + 1]
      BY <1>11 DEF LoadField, ReaderView
    <3>2. CASE q = r /\ i = rfield[r]
      BY <1>11, <3>1, <3>2 DEF LoadField, PayloadWhole, TypeOK
    <3>3. CASE ~(q = r /\ i = rfield[r])
      <4>1. i < rfield[q]
        BY <1>11, <3>1, <3>3 DEF LoadField, TypeOK, Fields
      <4>2. got'[q][i] = got[q][i]
        BY <1>11, <3>3 DEF LoadField, TypeOK
      <4> QED
        BY <3>1, <4>1, <4>2 DEF ReaderView
    <3> QED
      BY <3>2, <3>3
  <2>8. SnapshotCoherent'
    BY <1>11 DEF LoadField, TypeOK, SnapshotCoherent, writerVars, readerVars
  <2> QED
    BY <1>0, <2>1, <2>2, <2>3, <2>4, <2>5, <2>6, <2>7, <2>8
<1>12. ASSUME NEW r \in Readers, ReturnSnapshot(r) PROVE IInv'
  <2>1. WritersExclude'
    BY <1>12 DEF ReturnSnapshot, TypeOK, WritersExclude, Holders, writerVars, readerVars
  <2>2. BusyMeansHeld'
    BY <1>12 DEF ReturnSnapshot, TypeOK, BusyMeansHeld, Holders, WritersExclude, writerVars, readerVars
  <2>3. WriterView'
    BY <1>12 DEF ReturnSnapshot, TypeOK, WriterView, WritersExclude, Holders, writerVars, readerVars
  <2>4. PayloadWhole'
    BY <1>12 DEF ReturnSnapshot, TypeOK, PayloadWhole, writerVars, readerVars
  <2>5. PayloadPrefix'
    BY <1>12 DEF ReturnSnapshot, TypeOK, PayloadPrefix, WritersExclude, Holders, Update, writerVars, readerVars
  <2>6. GenerationCountsUpdates'
    BY <1>12 DEF ReturnSnapshot, TypeOK, GenerationCountsUpdates, writerVars, readerVars
  <2>7. ReaderView'
    BY <1>12 DEF ReturnSnapshot, TypeOK, ReaderView, writerVars, readerVars
  <2>8. SnapshotCoherent'
    <3>1. gen = gen0[r]
      <4>1. /\ gen0[r] \in Nat /\ gen \in Nat /\ gen0[r] <= gen /\ gen - gen0[r] < GenMod
            /\ gen % GenMod = gen0[r] % GenMod
        BY <1>12 DEF ReturnSnapshot, SameGeneration, ReaderView, TypeOK, Word
      <4> QED
        BY <4>1, WrappedEqual
    <3>2. \A i \in Fields : got[r][i] = published[gen0[r] + 1]
      BY <1>12, <3>1 DEF ReturnSnapshot, SameGeneration, ReaderView, TypeOK, Fields
    <3>3. gen0[r] < Len(published)
      BY <3>1 DEF GenerationCountsUpdates, TypeOK
    <3> QED
      BY <1>12, <3>2, <3>3 DEF ReturnSnapshot, SnapshotCoherent, TypeOK
  <2> QED
    BY <1>0, <2>1, <2>2, <2>3, <2>4, <2>5, <2>6, <2>7, <2>8
<1>13. ASSUME NEW r \in Readers, RetrySnapshot(r) PROVE IInv'
  <2>1. WritersExclude'
    BY <1>13 DEF RetrySnapshot, TypeOK, WritersExclude, Holders, writerVars, readerVars
  <2>2. BusyMeansHeld'
    BY <1>13 DEF RetrySnapshot, TypeOK, BusyMeansHeld, Holders, WritersExclude, writerVars, readerVars
  <2>3. WriterView'
    BY <1>13 DEF RetrySnapshot, TypeOK, WriterView, WritersExclude, Holders, writerVars, readerVars
  <2>4. PayloadWhole'
    BY <1>13 DEF RetrySnapshot, TypeOK, PayloadWhole, writerVars, readerVars
  <2>5. PayloadPrefix'
    BY <1>13 DEF RetrySnapshot, TypeOK, PayloadPrefix, WritersExclude, Holders, Update, writerVars, readerVars
  <2>6. GenerationCountsUpdates'
    BY <1>13 DEF RetrySnapshot, TypeOK, GenerationCountsUpdates, writerVars, readerVars
  <2>7. ReaderView'
    BY <1>13 DEF RetrySnapshot, TypeOK, ReaderView, writerVars, readerVars
  <2>8. SnapshotCoherent'
    BY <1>13 DEF RetrySnapshot, TypeOK, SnapshotCoherent, writerVars, readerVars
  <2> QED
    BY <1>0, <2>1, <2>2, <2>3, <2>4, <2>5, <2>6, <2>7, <2>8
<1>14. ASSUME NEW r \in Readers, GiveUpReader(r) PROVE IInv'
  <2>1. WritersExclude'
    BY <1>14 DEF GiveUpReader, TypeOK, WritersExclude, Holders, writerVars, readerVars
  <2>2. BusyMeansHeld'
    BY <1>14 DEF GiveUpReader, TypeOK, BusyMeansHeld, Holders, WritersExclude, writerVars, readerVars
  <2>3. WriterView'
    BY <1>14 DEF GiveUpReader, TypeOK, WriterView, WritersExclude, Holders, writerVars, readerVars
  <2>4. PayloadWhole'
    BY <1>14 DEF GiveUpReader, TypeOK, PayloadWhole, writerVars, readerVars
  <2>5. PayloadPrefix'
    BY <1>14 DEF GiveUpReader, TypeOK, PayloadPrefix, WritersExclude, Holders, Update, writerVars, readerVars
  <2>6. GenerationCountsUpdates'
    BY <1>14 DEF GiveUpReader, TypeOK, GenerationCountsUpdates, writerVars, readerVars
  <2>7. ReaderView'
    BY <1>14 DEF GiveUpReader, TypeOK, ReaderView, writerVars, readerVars
  <2>8. SnapshotCoherent'
    BY <1>14 DEF GiveUpReader, TypeOK, SnapshotCoherent, writerVars, readerVars
  <2> QED
    BY <1>0, <2>1, <2>2, <2>3, <2>4, <2>5, <2>6, <2>7, <2>8
<1>15. CASE UNCHANGED vars
  BY <1>0, <1>15 DEF vars, WritersExclude, BusyMeansHeld, Holders, WriterView, PayloadWhole,
     PayloadPrefix, Update, GenerationCountsUpdates, ReaderView, SnapshotCoherent
<1> QED
  BY <1>1, <1>2, <1>3, <1>4, <1>5, <1>6, <1>7, <1>8, <1>9, <1>10, <1>11, <1>12, <1>13, <1>14, <1>15
  DEF Next, WriterStep, ReaderStep

LEMMA Invariance == Spec => []IInv
<1> QED
  BY InitIInv, StepIInv, PTL DEF Spec

-----------------------------------------------------------------------------
(* What follows.                                                           *)

\* try_publish: the busy bit excludes concurrent updates.
THEOREM WritersAreExclusive == Spec => []WritersExclude
<1>1. IInv => WritersExclude
  BY DEF IInv
<1> QED
  BY Invariance, <1>1, PTL

\* try_snapshot: a snapshot that is returned is one published update, whole,
\* with the generation it was published under.
THEOREM SnapshotsAreCoherent == Spec => []SnapshotCoherent
<1>1. IInv => SnapshotCoherent
  BY DEF IInv
<1> QED
  BY Invariance, <1>1, PTL

\* try_publish: the generation counts the completed updates.
THEOREM GenerationIsCount == Spec => []GenerationCountsUpdates
<1>1. IInv => GenerationCountsUpdates
  BY DEF IInv
<1> QED
  BY Invariance, <1>1, PTL

\* try_snapshot: the generations a reader gets never decrease.
THEOREM SnapshotsAreMonotonic == Spec => SnapshotsMonotonic
<1>1. ASSUME IInv, [Next]_vars
      PROVE  [\A r \in Readers : snap'[r].gen >= snap[r].gen]_vars
  <2>1. CASE UNCHANGED snap
    BY <1>1, <2>1 DEF IInv, TypeOK
  <2>2. ASSUME NEW r \in Readers, ReturnSnapshot(r)
        PROVE  \A q \in Readers : snap'[q].gen >= snap[q].gen
    <3>1. gen0[r] >= snap[r].gen
      BY <1>1, <2>2 DEF IInv, ReaderView, ReturnSnapshot, TypeOK
    <3> QED
      BY <1>1, <2>2, <3>1 DEF IInv, TypeOK, ReturnSnapshot
  <2>3. (\E r \in Readers : ReturnSnapshot(r)) \/ UNCHANGED snap
    BY <1>1 DEF Next, WriterStep, ReaderStep, vars, readerVars, CallPublish, SpinWriter,
       Acquire, GiveUpWriter, StoreField, Publish, Crash, CallSnapshot, LoadGen0, SawBusy,
       LoadField, RetrySnapshot, GiveUpReader
  <2> QED
    BY <2>1, <2>2, <2>3
<1> QED
  BY Invariance, <1>1, PTL DEF Spec, SnapshotsMonotonic
=============================================================================
