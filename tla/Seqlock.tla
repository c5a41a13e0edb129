------------------------------- MODULE Seqlock -------------------------------
(***************************************************************************)
(* The shared descriptors ScanoutState and CursorState of                  *)
(* crates/aero-shared: a `generation` word whose high bit marks an update  *)
(* in progress, and a row of payload words (7 for the scanout, 11 for the  *)
(* cursor) read and written one atomic access at a time.                   *)
(*                                                                         *)
(* The payload is abstracted to which update a word comes from.  `gen`     *)
(* counts all completed updates; the code has gen % GenMod only, and every *)
(* comparison goes through Word.                                           *)
(***************************************************************************)
EXTENDS Naturals, Sequences

CONSTANTS
  Writers, Readers,
  FragileWriters,   \* writers that may panic or be killed in an update
  NumFields,        \* payload words of the descriptor
  GenMod,           \* values of a generation without the busy bit (2^31)
  MaxSpins,         \* MAX_SPINS: iterations before a call gives up
  MaxPublishes      \* bound: calls of try_publish per writer

ASSUME SeqlockAssumption ==
  /\ FragileWriters \subseteq Writers
  /\ NumFields \in Nat \ {0} /\ GenMod \in Nat \ {0}
  /\ MaxSpins \in Nat \ {0} /\ MaxPublishes \in Nat

VARIABLES
  gen, busy,                         \* the generation word
  fields,                            \* the payload words
  wpc, calls, start, wspins, wfield, \* per writer: locals of try_publish
  rpc, gen0, got, rspins, rfield,    \* per reader: locals of try_snapshot
  snap,                              \* per reader: the latest snapshot returned
  published                          \* history: published[g + 1] is generation g's update

writerVars == <<wpc, calls, start, wspins, wfield>>
readerVars == <<rpc, gen0, got, rspins, rfield, snap>>
vars == <<gen, busy, fields, wpc, calls, start, wspins, wfield,
          rpc, gen0, got, rspins, rfield, snap, published>>

Fields  == 1 .. NumFields
Initial == <<"initial", 0>>          \* what ScanoutState::new stores
Updates == {Initial} \cup (Writers \X Nat)
Update(w) == <<w, calls[w]>>         \* the update of w's current call

Word(g) == g % GenMod

Init ==
  /\ gen = 0 /\ busy = FALSE
  /\ fields = [i \in Fields |-> Initial]
  /\ wpc = [w \in Writers |-> "idle"]
  /\ calls = [w \in Writers |-> 0]
  /\ start = [w \in Writers |-> [gen |-> 0, busy |-> FALSE]]
  /\ wspins = [w \in Writers |-> 0]
  /\ wfield = [w \in Writers |-> 1]
  /\ rpc = [r \in Readers |-> "idle"]
  /\ gen0 = [r \in Readers |-> 0]
  /\ got = [r \in Readers |-> [i \in Fields |-> Initial]]
  /\ rspins = [r \in Readers |-> 0]
  /\ rfield = [r \in Readers |-> 1]
  /\ snap = [r \in Readers |-> [gen |-> 0, fields |-> [i \in Fields |-> Initial]]]
  /\ published = <<Initial>>

-----------------------------------------------------------------------------
(* try_publish.                                                            *)

\* The call, with its load of the generation.
CallPublish(w) ==
  /\ wpc[w] = "idle" /\ calls[w] < MaxPublishes
  /\ calls' = [calls EXCEPT ![w] = calls[w] + 1]
  /\ start' = [start EXCEPT ![w] = [gen |-> gen, busy |-> busy]]
  /\ wspins' = [wspins EXCEPT ![w] = 0]
  /\ wpc' = [wpc EXCEPT ![w] = "acquire"]
  /\ UNCHANGED <<gen, busy, fields, wfield, readerVars, published>>

\* An iteration that does not acquire: the busy bit was set, or the weak
\* compare-exchange failed, for a reason or spuriously.  Either way `start`
\* becomes the current word.
SpinWriter(w) ==
  /\ wpc[w] = "acquire" /\ wspins[w] < MaxSpins
  /\ start' = [start EXCEPT ![w] = [gen |-> gen, busy |-> busy]]
  /\ wspins' = [wspins EXCEPT ![w] = wspins[w] + 1]
  /\ UNCHANGED <<gen, busy, fields, wpc, calls, wfield, readerVars, published>>

\* Slip: the busy bit in `start` is not tested and not compared.
AcquireUntested(w) ==
  /\ wpc[w] = "acquire" /\ wspins[w] < MaxSpins
  /\ Word(gen) = Word(start[w].gen)
  /\ busy' = TRUE
  /\ wfield' = [wfield EXCEPT ![w] = 1]
  /\ wpc' = [wpc EXCEPT ![w] = "store"]
  /\ UNCHANGED <<gen, fields, calls, start, wspins, readerVars, published>>

\* The compare-exchange of the word, busy bit included, succeeds.
Acquire(w) ==
  /\ wpc[w] = "acquire" /\ wspins[w] < MaxSpins
  /\ ~start[w].busy
  /\ ~busy /\ Word(gen) = Word(start[w].gen)
  /\ busy' = TRUE
  /\ wfield' = [wfield EXCEPT ![w] = 1]
  /\ wpc' = [wpc EXCEPT ![w] = "store"]
  /\ UNCHANGED <<gen, fields, calls, start, wspins, readerVars, published>>

\* Slip: the retry loop of the writer has no bound.
GiveUpNever(w) == FALSE /\ UNCHANGED vars

\* MAX_SPINS iterations without the lock: None (publish panics).
GiveUpWriter(w) ==
  /\ wpc[w] = "acquire" /\ wspins[w] = MaxSpins
  /\ wpc' = [wpc EXCEPT ![w] = "idle"]
  /\ UNCHANGED <<gen, busy, fields, calls, start, wspins, wfield, readerVars, published>>

\* Slip: one word too many is stored.
StoreFieldOneMore(w) ==
  /\ wpc[w] = "store" /\ wfield[w] <= NumFields + 1
  /\ fields' = [i \in Fields |-> IF i = wfield[w] THEN Update(w) ELSE fields[i]]
  /\ wfield' = [wfield EXCEPT ![w] = wfield[w] + 1]
  /\ UNCHANGED <<gen, busy, wpc, calls, start, wspins, readerVars, published>>

StoreField(w) ==
  /\ wpc[w] = "store" /\ wfield[w] <= NumFields
  /\ fields' = [fields EXCEPT ![wfield[w]] = Update(w)]
  /\ wfield' = [wfield EXCEPT ![w] = wfield[w] + 1]
  /\ UNCHANGED <<gen, busy, wpc, calls, start, wspins, readerVars, published>>

\* Bound: the generation does not come round to a value that a thread holds
\* (2^31 updates within one iteration of another thread's loop).
NoGenerationLap ==
  /\ \A r \in Readers : rpc[r] = "read" => gen + 1 - gen0[r] < GenMod
  /\ \A w \in Writers : wpc[w] = "acquire" => gen + 1 - start[w].gen < GenMod

Publish(w) ==
  /\ wpc[w] = "store" /\ wfield[w] > NumFields /\ NoGenerationLap
  /\ gen' = start[w].gen + 1 /\ busy' = FALSE
  /\ published' = Append(published, Update(w))
  /\ wpc' = [wpc EXCEPT ![w] = "idle"]
  /\ UNCHANGED <<fields, calls, start, wspins, wfield, readerVars>>

\* The worker dies while it holds the busy bit; nobody clears it.
Crash(w) ==
  /\ w \in FragileWriters /\ wpc[w] = "store"
  /\ wpc' = [wpc EXCEPT ![w] = "crashed"]
  /\ UNCHANGED <<gen, busy, fields, calls, start, wspins, wfield, readerVars, published>>

-----------------------------------------------------------------------------
(* try_snapshot.                                                           *)

CallSnapshot(r) ==
  /\ rpc[r] = "idle"
  /\ rspins' = [rspins EXCEPT ![r] = 0]
  /\ rpc' = [rpc EXCEPT ![r] = "begin"]
  /\ UNCHANGED <<gen, busy, fields, writerVars, gen0, got, rfield, snap, published>>

\* Load gen0; an update in progress costs an iteration.
LoadGen0(r) ==
  /\ rpc[r] = "begin" /\ rspins[r] < MaxSpins /\ ~busy
  /\ gen0' = [gen0 EXCEPT ![r] = gen]
  /\ rfield' = [rfield EXCEPT ![r] = 1]
  /\ rpc' = [rpc EXCEPT ![r] = "read"]
  /\ UNCHANGED <<gen, busy, fields, writerVars, got, rspins, snap, published>>

SawBusy(r) ==
  /\ rpc[r] = "begin" /\ rspins[r] < MaxSpins /\ busy
  /\ rspins' = [rspins EXCEPT ![r] = rspins[r] + 1]
  /\ UNCHANGED <<gen, busy, fields, writerVars, rpc, gen0, got, rfield, snap, published>>

LoadField(r) ==
  /\ rpc[r] = "read" /\ rfield[r] <= NumFields
  /\ got' = [got EXCEPT ![r][rfield[r]] = fields[rfield[r]]]
  /\ rfield' = [rfield EXCEPT ![r] = rfield[r] + 1]
  /\ UNCHANGED <<gen, busy, fields, writerVars, rpc, gen0, rspins, snap, published>>

\* Slip: the second load is compared without the busy bit.
SameGenerationIgnoresBusy(r) == Word(gen) = Word(gen0[r])

\* gen1 = gen0, as words; gen0 had the busy bit clear.
SameGeneration(r) == ~busy /\ Word(gen) = Word(gen0[r])

\* Load gen1: the snapshot is returned only if the whole word is unchanged.
ReturnSnapshot(r) ==
  /\ rpc[r] = "read" /\ rfield[r] > NumFields /\ SameGeneration(r)
  /\ snap' = [snap EXCEPT ![r] = [gen |-> gen0[r], fields |-> got[r]]]
  /\ rpc' = [rpc EXCEPT ![r] = "idle"]
  /\ UNCHANGED <<gen, busy, fields, writerVars, gen0, got, rspins, rfield, published>>

RetrySnapshot(r) ==
  /\ rpc[r] = "read" /\ rfield[r] > NumFields /\ ~SameGeneration(r)
  /\ rspins' = [rspins EXCEPT ![r] = rspins[r] + 1]
  /\ rpc' = [rpc EXCEPT ![r] = "begin"]
  /\ UNCHANGED <<gen, busy, fields, writerVars, gen0, got, rfield, snap, published>>

\* Slip: a reader that gives up returns the default descriptor.
GiveUpReaderDefault(r) ==
  /\ rpc[r] = "begin" /\ rspins[r] = MaxSpins
  /\ snap' = [snap EXCEPT ![r] = [gen |-> 0, fields |-> [i \in Fields |-> Initial]]]
  /\ rpc' = [rpc EXCEPT ![r] = "idle"]
  /\ UNCHANGED <<gen, busy, fields, writerVars, gen0, got, rspins, rfield, published>>

\* MAX_SPINS iterations without a stable generation: None (snapshot panics).
GiveUpReader(r) ==
  /\ rpc[r] = "begin" /\ rspins[r] = MaxSpins
  /\ rpc' = [rpc EXCEPT ![r] = "idle"]
  /\ UNCHANGED <<gen, busy, fields, writerVars, gen0, got, rspins, rfield, snap, published>>

-----------------------------------------------------------------------------
WriterStep(w) ==
  SpinWriter(w) \/ Acquire(w) \/ GiveUpWriter(w) \/ StoreField(w) \/ Publish(w)
ReaderStep(r) ==
  \/ LoadGen0(r) \/ SawBusy(r) \/ LoadField(r)
  \/ ReturnSnapshot(r) \/ RetrySnapshot(r) \/ GiveUpReader(r)

Next ==
  \/ \E w \in Writers : CallPublish(w) \/ WriterStep(w) \/ Crash(w)
  \/ \E r \in Readers : CallSnapshot(r) \/ ReaderStep(r)

Spec == Init /\ [][Next]_vars

\* A thread inside a call keeps running; nobody is obliged to call.
FairSpec ==
  /\ Spec
  /\ \A w \in Writers : WF_vars(WriterStep(w))
  /\ \A r \in Readers : WF_vars(ReaderStep(r))

-----------------------------------------------------------------------------
(* Properties.                                                             *)

\* Every variable keeps its type.
TypeOK ==
  /\ gen \in Nat /\ busy \in BOOLEAN
  /\ fields \in [Fields -> Updates]
  /\ wpc \in [Writers -> {"idle", "acquire", "store", "crashed"}]
  /\ calls \in [Writers -> Nat]
  /\ start \in [Writers -> [gen : Nat, busy : BOOLEAN]]
  /\ wspins \in [Writers -> Nat]
  /\ wfield \in [Writers -> 1 .. NumFields + 1]
  /\ rpc \in [Readers -> {"idle", "begin", "read"}]
  /\ gen0 \in [Readers -> Nat]
  /\ got \in [Readers -> [Fields -> Updates]]
  /\ rspins \in [Readers -> Nat]
  /\ rfield \in [Readers -> 1 .. NumFields + 1]
  /\ snap \in [Readers -> [gen : Nat, fields : [Fields -> Updates]]]
  /\ published \in Seq(Updates)

\* The busy bit is a lock: one writer at a time is between acquiring it and
\* publishing, dead writers included.
Holders == {w \in Writers : wpc[w] \in {"store", "crashed"}}
WritersExclude == \A v, w \in Holders : v = w

\* No torn snapshot: all words that try_snapshot returns are those of the one
\* update that was published with the generation it returns.
SnapshotCoherent ==
  \A r \in Readers :
    /\ snap[r].gen < Len(published)
    /\ \A i \in Fields : snap[r].fields[i] = published[snap[r].gen + 1]

\* "The published generation value ... increments by 1 per completed update":
\* generation g is the g-th completed update, none is lost or counted twice.
GenerationCountsUpdates == gen + 1 = Len(published)

\* A reader never sees the descriptor go back to an older update.
SnapshotsMonotonic == [][\A r \in Readers : snap'[r].gen >= snap[r].gen]_vars

\* try_publish and try_snapshot return, also when a writer died with the busy
\* bit set: "a hard iteration bound to guarantee we will not spin forever".
CallsReturn ==
  /\ \A w \in Writers : (wpc[w] = "acquire") ~> (wpc[w] # "acquire")
  /\ \A r \in Readers : (rpc[r] # "idle") ~> (rpc[r] = "idle")
=============================================================================
