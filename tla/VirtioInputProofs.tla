------------------------- MODULE VirtioInputProofs -------------------------
(***************************************************************************)
(* The event queue of virtio-input, proved for queues of any size, index   *)
(* ranges of any multiple of it, and any number of events, snapshots and   *)
(* moves in and out of D0.                                                 *)
(*                                                                         *)
(* Ring is the ownership of the buffers: from next_used to avail_idx the   *)
(* available ring lists the device's buffers (the one being completed,     *)
(* then the cached ones, then those not yet taken), from last_used to      *)
(* used_idx the used ring lists the completed ones, the rest are in the    *)
(* driver's hands, and these are all, once each.  Order lines up the       *)
(* events on their way: the one the driver is at, the completed ones, the  *)
(* one being written and the pending ones come in this order, behind all   *)
(* that were received.                                                     *)
(***************************************************************************)
EXTENDS VirtioInput, BasicLemmas, FiniteSetTheorems, WellFoundedInduction, TLAPS

-----------------------------------------------------------------------------
(* Types.                                                                  *)

MemType ==
  [avail_idx : Indices, avail : [Heads -> Heads], used_idx : Indices,
   used : [Heads -> [id : Heads, len : {0, 1}]], buf : [Heads -> Nat]]
DevType ==
  [on : BOOLEAN, next_avail : Indices, next_used : Indices, pending_notify : BOOLEAN,
   isr_status : BOOLEAN, irq : BOOLEAN, pending : Seq(Nat), buffers : Seq(Heads)]
IoType ==
  [pc : {"idle", "avail", "pop", "flush", "elem", "index", "signal"},
   after : {"avail", "signal"}, budget : Nat, need_irq : BOOLEAN,
   head : Heads \cup {NoHead}, len : {0, 1}]
DrvType ==
  [last_used : Indices, cookies : SUBSET Heads, started : BOOLEAN, enabled : BOOLEAN,
   reset_in_progress : BOOLEAN, pending_isr : BOOLEAN, dpc_queued : BOOLEAN]
DrainType ==
  [pc : {"idle", "add", "used", "take", "event", "process", "slot", "publish",
         "kick", "done"},
   head : Heads \cup {NoHead}, len : {0, 1}, reposted : BOOLEAN]
DownPower == {"off", "ring", "setup", "ring_off"}
UpPower == {"post", "start", "enable", "resume", "driver_ok", "drain", "on",
            "stop", "quiesce", "disable", "sync", "reset"}

Types ==
  /\ mem \in MemType /\ dev \in DevType /\ io \in IoType
  /\ drv \in DrvType /\ drain \in DrainType
  /\ lock \in {"none", "dpc", "power"}
  /\ isr \in {"idle", "latch"} /\ dpc \in {"idle", "claim", "lock", "drain"}
  /\ power \in DownPower \cup UpPower
  /\ injected \in Nat /\ received \in Seq(Nat) /\ lost \subseteq Nat

-----------------------------------------------------------------------------
(* Where the threads are.                                                  *)

\* The device works only while its queue is enabled, and completes a buffer
\* exactly while it holds one.
IoControl ==
  /\ dev.on <=> power \in UpPower
  /\ io.pc # "idle" => dev.on
  /\ io.pc = "idle" => io.need_irq = FALSE
  /\ io.pc \in {"elem", "index"} <=> io.head # NoHead
  /\ io.len = IF io.head = NoHead THEN 0 ELSE 1
  /\ ~dev.on => dev.buffers = << >>
  /\ dev.on => mem.used_idx = dev.next_used
  /\ power = "setup" => /\ mem.avail_idx = 0 /\ mem.used_idx = 0
                        /\ drv.last_used = 0 /\ drv.cookies = {}

\* The lock is held exactly during a drain or a posting, by the DPC or by the
\* power thread, and never while the queue is down.
LockControl ==
  /\ lock = "none" <=> drain.pc = "idle"
  /\ lock = "dpc" <=> dpc = "drain"
  /\ lock = "dpc" => power \in {"enable", "resume", "driver_ok", "drain", "on", "stop"}
  /\ lock = "power" => power \in {"post", "drain"}
  /\ drain.pc = "add" => power = "post"
  /\ drain.pc \in {"used", "take", "event", "process"} => power # "post"
  /\ drain.pc \in {"event", "process", "slot", "publish"} <=> drain.head # NoHead
  /\ drain.pc \in {"event", "process"} => drain.head \notin drv.cookies /\ drain.len = 1
  /\ drain.pc \in {"slot", "publish"} => drain.head \in drv.cookies
  /\ drv.started <=> (power \in {"enable", "resume", "driver_ok", "drain", "on"})
  /\ power \in {"driver_ok", "drain", "on"} => ~drv.reset_in_progress

\* No event is being processed once the release report is out.
HidControl ==
  /\ hid \in {"inactive", "active", "emit", "quiet", "sync", "released"}
  /\ hid = "released" => drain.pc # "process"

-----------------------------------------------------------------------------
(* Ownership, as a fact about the values it is about.                      *)

\* The buffers in the driver's hands.
Held(cookies, head) == {h \in Heads : h = head \/ h \notin cookies}
InDriver == Held(drv.cookies, drain.head)

\* The k-th buffer of the device, and the k-th completed one.
DevAt(av, nu, k) == av[Slot(nu + k)]
UsedAt(us, lu, k) == us[Slot(lu + k)].id
Taken(hd) == IF hd = NoHead THEN 0 ELSE 1

\* The device's part: what it has taken is the front of what was published.
DevRing(av, ai, nu, na, bufs, hd) ==
  LET t == Taken(hd)
  IN  /\ Ahead(nu, na) = t + Len(bufs) /\ t + Len(bufs) <= Ahead(nu, ai)
      /\ hd # NoHead => DevAt(av, nu, 0) = hd
      /\ \A k \in 1 .. Len(bufs) : bufs[k] = DevAt(av, nu, t + k - 1)

\* Every buffer is somewhere, once.
Owned(av, ai, nu, us, lu, D) ==
  LET c == Ahead(nu, ai)
      u == Ahead(lu, nu)
  IN  /\ c + u + Cardinality(D) = QueueSize
      /\ \A j, k \in 0 .. c - 1 : DevAt(av, nu, j) = DevAt(av, nu, k) => j = k
      /\ \A j, k \in 0 .. u - 1 : UsedAt(us, lu, j) = UsedAt(us, lu, k) => j = k
      /\ \A j \in 0 .. c - 1 : \A k \in 0 .. u - 1 : DevAt(av, nu, j) # UsedAt(us, lu, k)
      /\ \A j \in 0 .. c - 1 : DevAt(av, nu, j) \notin D
      /\ \A k \in 0 .. u - 1 : UsedAt(us, lu, k) \notin D
      /\ \A h \in Heads :
           \/ h \in D
           \/ \E j \in 0 .. c - 1 : DevAt(av, nu, j) = h
           \/ \E k \in 0 .. u - 1 : UsedAt(us, lu, k) = h

Ring ==
  dev.on =>
    /\ DevRing(mem.avail, mem.avail_idx, dev.next_used, dev.next_avail, dev.buffers, io.head)
    /\ Owned(mem.avail, mem.avail_idx, dev.next_used, mem.used, drv.last_used, InDriver)

\* Half-done steps: an entry that was seen is still there, and an entry that
\* was written is the one its index will cover.
HalfDone ==
  /\ io.pc = "pop" => mem.avail_idx # dev.next_avail
  /\ io.pc = "index" => mem.used[Slot(dev.next_used)] = [id |-> io.head, len |-> 1]
  /\ drain.pc = "take" => mem.used_idx # drv.last_used
  /\ drain.pc = "publish" => mem.avail[Slot(mem.avail_idx)] = drain.head

-----------------------------------------------------------------------------
(* The order of the events on their way.                                   *)

\* The k-th completed event.
UsedEvent(buf, us, lu, k) == buf[UsedAt(us, lu, k)]

\* x is an event injected and comes after all that were received.
OnItsWay(x, rc, inj) == x \in 1 .. inj /\ \A k \in 1 .. Len(rc) : rc[k] < x

\* de is the buffer of the event the driver is at, hd the one being written.
Order(buf, us, lu, ui, hd, de, pend, rc, inj) ==
  LET u == Ahead(lu, ui)
      U(k) == UsedEvent(buf, us, lu, k)
  IN  /\ \A j, k \in 1 .. Len(rc) : j < k => rc[j] < rc[k]
      /\ \A k \in 1 .. Len(rc) : rc[k] \in 1 .. inj
      /\ \A k \in 0 .. u - 1 : us[Slot(lu + k)].len = 1 /\ OnItsWay(U(k), rc, inj)
      /\ \A j, k \in 0 .. u - 1 : j < k => U(j) < U(k)
      /\ de # NoHead => /\ OnItsWay(buf[de], rc, inj)
                        /\ \A k \in 0 .. u - 1 : buf[de] < U(k)
      /\ hd # NoHead => /\ OnItsWay(buf[hd], rc, inj)
                        /\ \A k \in 0 .. u - 1 : U(k) < buf[hd]
                        /\ de # NoHead => buf[de] < buf[hd]
      /\ \A k \in 1 .. Len(pend) :
           /\ OnItsWay(pend[k], rc, inj)
           /\ \A j \in 0 .. u - 1 : U(j) < pend[k]
           /\ de # NoHead => buf[de] < pend[k]
           /\ hd # NoHead => buf[hd] < pend[k]
      /\ \A j, k \in 1 .. Len(pend) : j < k => pend[j] < pend[k]

EventHead == IF drain.pc \in {"event", "process"} THEN drain.head ELSE NoHead

Ordered ==
  Order(mem.buf, mem.used, drv.last_used, mem.used_idx, io.head, EventHead,
        dev.pending, received, injected)

Bounds ==
  /\ dev.irq = dev.isr_status /\ Len(dev.pending) <= MaxPending
  /\ injected <= MaxInjects * Burst /\ lost \subseteq 1 .. injected
  /\ \A h \in Heads : mem.buf[h] <= injected

\* UsedNotForgotten, from the moment the last drain of D0Entry has looked.
Looked == power = "on" \/ (power = "drain" /\ lock = "power")
NotForgotten ==
  Looked /\ mem.used_idx # drv.last_used =>
    \/ io.need_irq \/ dev.irq \/ isr = "latch"
    \/ drv.pending_isr /\ (drv.dpc_queued \/ dpc = "claim")
    \/ dpc = "lock" \/ Draining

IInv == /\ Types /\ IoControl /\ LockControl /\ HidControl
        /\ Ring /\ HalfDone /\ Ordered /\ Bounds

-----------------------------------------------------------------------------
(* Arithmetic of ring indices.                                             *)

LEMMA Sizes == /\ QueueSize \in Nat \ {0} /\ IdxMod \in Nat \ {0}
               /\ IdxMod > QueueSize /\ IdxMod % QueueSize = 0
BY VirtioAssumption

LEMMA IncIs == ASSUME NEW a \in Indices
               PROVE  Inc(a) \in Indices /\ Inc(a) = IF a = IdxMod - 1 THEN 0 ELSE a + 1
<1>1. CASE a = IdxMod - 1
  <2>1. a + 1 \in Int /\ a + 1 = IdxMod * 1 + 0 /\ 0 \in 0 .. IdxMod - 1
    BY <1>1, Sizes
  <2>2. (a + 1) % IdxMod = 0
    BY <2>1, Sizes, ModUnique
  <2> QED
    BY <1>1, <2>2, Sizes DEF Inc, Indices
<1>2. CASE a # IdxMod - 1
  <2>1. a + 1 \in Int /\ a + 1 = IdxMod * 0 + (a + 1) /\ a + 1 \in 0 .. IdxMod - 1
    BY <1>2, Sizes DEF Indices
  <2>2. (a + 1) % IdxMod = a + 1
    BY <2>1, Sizes, ModUnique
  <2> QED
    BY <1>2, <2>1, <2>2, Sizes DEF Inc, Indices
<1> QED
  BY <1>1, <1>2

LEMMA AheadIs == ASSUME NEW a \in Indices, NEW b \in Indices
                 PROVE  Ahead(a, b) = IF a <= b THEN b - a ELSE b - a + IdxMod
<1> DEFINE d == b - a
           r == IF a <= b THEN d ELSE d + IdxMod
           q == IF a <= b THEN 0 ELSE -1
<1>1. d \in Int /\ q \in Int /\ r \in 0 .. IdxMod - 1
  BY Sizes DEF Indices
<1>2. d = IdxMod * q + r
  BY Sizes DEF Indices
<1>3. Ahead(a, b) = d % IdxMod
  BY DEF Ahead
<1> HIDE DEF d, q, r
<1>4. d % IdxMod = r
  BY <1>1, <1>2, Sizes, ModUnique
<1> QED
  BY <1>3, <1>4 DEF d, r

\* The number of entries between two indices, as the code moves them.
LEMMA Distance ==
  ASSUME NEW a \in Indices, NEW b \in Indices
  PROVE  /\ Ahead(a, b) \in Nat /\ Ahead(a, b) <= IdxMod - 1
         /\ Ahead(a, b) = 0 <=> a = b
         /\ Inc(a) \in Indices /\ Inc(b) \in Indices
         /\ Ahead(a, b) < IdxMod - 1 => Ahead(a, Inc(b)) = Ahead(a, b) + 1
         /\ a # b => Ahead(Inc(a), b) = Ahead(a, b) - 1
<1>1. /\ Inc(a) \in Indices /\ Inc(a) = IF a = IdxMod - 1 THEN 0 ELSE a + 1
      /\ Inc(b) \in Indices /\ Inc(b) = IF b = IdxMod - 1 THEN 0 ELSE b + 1
  BY IncIs
<1>2. /\ Ahead(a, b) = IF a <= b THEN b - a ELSE b - a + IdxMod
      /\ Ahead(a, Inc(b)) = IF a <= Inc(b) THEN Inc(b) - a ELSE Inc(b) - a + IdxMod
      /\ Ahead(Inc(a), b) = IF Inc(a) <= b THEN b - Inc(a) ELSE b - Inc(a) + IdxMod
  BY <1>1, AheadIs
<1> QED
  BY <1>1, <1>2, Sizes DEF Indices

LEMMA SlotPeriod == ASSUME NEW x \in Nat PROVE Slot(x) \in Heads /\ Slot(x + IdxMod) = Slot(x)
<1> DEFINE q == x \div IdxMod
           r == x % IdxMod
<1>1. q \in Nat /\ x = IdxMod * q + r /\ r \in 0 .. IdxMod - 1
  BY Sizes, DivMod
<1> HIDE DEF q, r
<1>2. IdxMod * (q + 1) = IdxMod * q + IdxMod /\ IdxMod * q \in Nat
  BY <1>1, Sizes, SMT
<1>3. x + IdxMod \in Int /\ q + 1 \in Int /\ x + IdxMod = IdxMod * (q + 1) + r
  BY <1>1, <1>2, Sizes
<1>4. (x + IdxMod) % IdxMod = r
  BY <1>1, <1>3, Sizes, ModUnique
<1>5. x + IdxMod \in Nat
  BY Sizes
<1>6. /\ (x % IdxMod) % QueueSize = x % QueueSize
      /\ ((x + IdxMod) % IdxMod) % QueueSize = (x + IdxMod) % QueueSize
  BY <1>5, Sizes, ModOfMod
<1>7. x % QueueSize \in 0 .. QueueSize - 1
  BY Sizes, DivMod
<1> QED
  BY <1>4, <1>6, <1>7 DEF Slot, Heads, r

\* Entries are counted from an index: moving the index shifts the count, and
\* less than a round of the ring no two of them share a slot.
LEMMA Slots ==
  ASSUME NEW a \in Indices
  PROVE  /\ \A k \in Nat : Slot(a + k) \in Heads /\ Slot(Inc(a) + k) = Slot(a + (k + 1))
         /\ \A b \in Indices : Slot(b) = Slot(a + Ahead(a, b))
         /\ \A j, k \in 0 .. QueueSize - 1 : Slot(a + j) = Slot(a + k) => j = k
<1>0. a \in Nat
  BY Sizes DEF Indices
<1>1. ASSUME NEW k \in Nat PROVE Slot(a + k) \in Heads /\ Slot(Inc(a) + k) = Slot(a + (k + 1))
  <2>1. a + k \in Nat /\ k \in Nat
    BY <1>0
  <2>2. Slot(a + k) \in Heads /\ Slot(k + IdxMod) = Slot(k)
    BY <2>1, SlotPeriod
  <2>3. CASE a = IdxMod - 1
    <3>1. a + (k + 1) = k + IdxMod /\ Inc(a) + k = k
      BY <2>3, IncIs, Sizes
    <3> QED
      BY <2>2, <3>1
  <2>4. CASE a # IdxMod - 1
    <3>1. a + (k + 1) = Inc(a) + k
      BY <1>0, <2>4, IncIs, Sizes
    <3> QED
      BY <2>2, <3>1
  <2> QED
    BY <2>3, <2>4
<1>2. ASSUME NEW b \in Indices PROVE Slot(b) = Slot(a + Ahead(a, b))
  <2>1. b \in Nat /\ (a + Ahead(a, b) = b \/ a + Ahead(a, b) = b + IdxMod)
    BY <1>0, AheadIs, Sizes DEF Indices
  <2> QED
    BY <2>1, SlotPeriod
<1>3. ASSUME NEW j \in 0 .. QueueSize - 1, NEW k \in 0 .. QueueSize - 1,
             Slot(a + j) = Slot(a + k), j <= k
      PROVE  j = k
  <2>1. /\ a + j \in Nat /\ a + k \in Nat /\ a + j <= a + k
        /\ (a + k) - (a + j) < QueueSize /\ (a + k) % QueueSize = (a + j) % QueueSize
    BY <1>0, <1>3, Sizes DEF Slot
  <2>2. a + k = a + j
    BY <2>1, Sizes, WrappedEqual
  <2> QED
    BY <1>0, <2>2, Sizes
<1>4. ASSUME NEW j \in 0 .. QueueSize - 1, NEW k \in 0 .. QueueSize - 1,
             Slot(a + j) = Slot(a + k)
      PROVE  j = k
  BY <1>3, <1>4, Sizes
<1> QED
  BY <1>1, <1>2, <1>4


-----------------------------------------------------------------------------
(* Ownership, one move of a buffer at a time.                              *)

UsedType == [Heads -> [id : Heads, len : {0, 1}]]

LEMMA HeadsFinite == ASSUME NEW D \in SUBSET Heads
                     PROVE  /\ IsFiniteSet(D) /\ Cardinality(D) \in Nat
                            /\ Cardinality(D) = 0 <=> D = {}
                            /\ \A h \in D : /\ IsFiniteSet(D \ {h})
                                            /\ Cardinality(D \ {h}) = Cardinality(D) - 1
                            /\ \A h \in Heads \ D : Cardinality(D \cup {h}) = Cardinality(D) + 1
<1>1. IsFiniteSet(Heads)
  BY Sizes, FS_Interval DEF Heads
<1>2. IsFiniteSet(D)
  BY <1>1, FS_Subset
<1> QED
  BY <1>2, FS_CardinalityType, FS_EmptySet, FS_RemoveElement, FS_AddElement

LEMMA HeadIsNot == ASSUME NEW h \in Heads PROVE h # NoHead
BY Sizes DEF Heads, NoHead

\* The counts, and what the entries next to the moving indices are.
LEMMA OwnedFacts ==
  ASSUME NEW av \in [Heads -> Heads], NEW ai \in Indices, NEW nu \in Indices,
         NEW us \in UsedType, NEW lu \in Indices, NEW D \in SUBSET Heads,
         Owned(av, ai, nu, us, lu, D)
  PROVE  LET c == Ahead(nu, ai)
             u == Ahead(lu, nu)
         IN  /\ c \in Nat /\ u \in Nat /\ c + u <= QueueSize
             /\ D # {} => c + u < QueueSize
             /\ \A k \in Nat : DevAt(av, nu, k) \in Heads /\ UsedAt(us, lu, k) \in Heads
             /\ DevAt(av, nu, c) = av[Slot(ai)] /\ UsedAt(us, lu, u) = us[Slot(nu)].id
             /\ \A k \in Nat : /\ DevAt(av, Inc(nu), k) = DevAt(av, nu, k + 1)
                               /\ UsedAt(us, Inc(lu), k) = UsedAt(us, lu, k + 1)
<1> DEFINE c == Ahead(nu, ai)
           u == Ahead(lu, nu)
<1>1. c \in Nat /\ u \in Nat
  BY Distance
<1>2. c + u + Cardinality(D) = QueueSize
  BY DEF Owned
<1>3. Cardinality(D) \in Nat /\ (D # {} => Cardinality(D) # 0)
  BY HeadsFinite
<1> HIDE DEF c, u
<1>4. c + u <= QueueSize /\ (D # {} => c + u < QueueSize)
  BY <1>1, <1>2, <1>3, Sizes
<1>5. ASSUME NEW k \in Nat
      PROVE  /\ DevAt(av, nu, k) \in Heads /\ UsedAt(us, lu, k) \in Heads
             /\ DevAt(av, Inc(nu), k) = DevAt(av, nu, k + 1)
             /\ UsedAt(us, Inc(lu), k) = UsedAt(us, lu, k + 1)
  <2>1. /\ Slot(nu + k) \in Heads /\ Slot(Inc(nu) + k) = Slot(nu + (k + 1))
        /\ Slot(lu + k) \in Heads /\ Slot(Inc(lu) + k) = Slot(lu + (k + 1))
    BY Slots
  <2> QED
    BY <2>1 DEF DevAt, UsedAt, UsedType
<1>6. DevAt(av, nu, c) = av[Slot(ai)] /\ UsedAt(us, lu, u) = us[Slot(nu)].id
  <2>1. Slot(ai) = Slot(nu + c) /\ Slot(nu) = Slot(lu + u)
    BY Slots DEF c, u
  <2> QED
    BY <2>1 DEF DevAt, UsedAt
<1> QED
  BY <1>1, <1>4, <1>5, <1>6 DEF c, u

\* WriteUsedIdx: the device's first buffer becomes the last completed one.
LEMMA OwnedComplete ==
  ASSUME NEW av \in [Heads -> Heads], NEW ai \in Indices, NEW nu \in Indices,
         NEW us \in UsedType, NEW lu \in Indices, NEW D \in SUBSET Heads,
         Owned(av, ai, nu, us, lu, D), nu # ai, us[Slot(nu)].id = DevAt(av, nu, 0)
  PROVE  /\ Owned(av, ai, Inc(nu), us, lu, D)
         /\ Ahead(Inc(nu), ai) = Ahead(nu, ai) - 1 /\ Ahead(lu, Inc(nu)) = Ahead(lu, nu) + 1
<1> DEFINE c == Ahead(nu, ai)
           u == Ahead(lu, nu)
           d(k) == DevAt(av, nu, k)
           e(k) == DevAt(av, Inc(nu), k)
           v(k) == UsedAt(us, lu, k)
<1>1. /\ c \in Nat /\ u \in Nat /\ c + u <= QueueSize
      /\ \A k \in Nat : d(k) \in Heads /\ v(k) \in Heads /\ e(k) = d(k + 1)
      /\ v(u) = us[Slot(nu)].id
  BY OwnedFacts
<1>2. c >= 1
  BY <1>1, Distance
<1>3. Ahead(Inc(nu), ai) = c - 1 /\ Ahead(lu, Inc(nu)) = u + 1
  <2>1. Ahead(Inc(nu), ai) = c - 1
    BY Distance
  <2>2. u < IdxMod - 1 => Ahead(lu, Inc(nu)) = u + 1
    BY Distance
  <2> HIDE DEF c, u
  <2>3. u < IdxMod - 1
    BY <1>1, <1>2, Sizes
  <2> QED
    BY <2>1, <2>2, <2>3
<1>4. /\ c + u + Cardinality(D) = QueueSize
      /\ \A j, k \in 0 .. c - 1 : d(j) = d(k) => j = k
      /\ \A j, k \in 0 .. u - 1 : v(j) = v(k) => j = k
      /\ \A j \in 0 .. c - 1 : \A k \in 0 .. u - 1 : d(j) # v(k)
      /\ \A j \in 0 .. c - 1 : d(j) \notin D
      /\ \A k \in 0 .. u - 1 : v(k) \notin D
      /\ \A h \in Heads : \/ h \in D
                          \/ \E j \in 0 .. c - 1 : d(j) = h
                          \/ \E k \in 0 .. u - 1 : v(k) = h
  BY DEF Owned
<1>5. v(u) = d(0)
  BY <1>1
<1>5a. Cardinality(D) \in Nat
  BY HeadsFinite
<1> HIDE DEF c, u, d, e, v
<1>6. (c - 1) + (u + 1) + Cardinality(D) = QueueSize
  BY <1>1, <1>4, <1>5a
<1>7. \A k \in 0 .. (c - 1) - 1 : k \in Nat /\ k + 1 \in 0 .. c - 1 /\ k + 1 # 0 /\ e(k) = d(k + 1)
  BY <1>1, <1>2
<1>8. 0 \in 0 .. c - 1 /\ \A k \in 0 .. (u + 1) - 1 : k = u \/ k \in 0 .. u - 1
  BY <1>1, <1>2
<1>9. \A j, k \in 0 .. (c - 1) - 1 : e(j) = e(k) => j = k
  <2> SUFFICES ASSUME NEW j \in 0 .. (c - 1) - 1, NEW k \in 0 .. (c - 1) - 1, e(j) = e(k)
               PROVE  j = k
    OBVIOUS
  <2>1. j + 1 = k + 1
    BY <1>4, <1>7
  <2> QED
    BY <1>7, <2>1
<1>10. \A j, k \in 0 .. (u + 1) - 1 : v(j) = v(k) => j = k
  BY <1>4, <1>5, <1>8
<1>11. \A j \in 0 .. (c - 1) - 1 : \A k \in 0 .. (u + 1) - 1 : e(j) # v(k)
  BY <1>4, <1>5, <1>7, <1>8
<1>12. /\ \A j \in 0 .. (c - 1) - 1 : e(j) \notin D
       /\ \A k \in 0 .. (u + 1) - 1 : v(k) \notin D
  BY <1>4, <1>5, <1>7, <1>8
<1>13. ASSUME NEW h \in Heads
       PROVE  \/ h \in D
              \/ \E j \in 0 .. (c - 1) - 1 : e(j) = h
              \/ \E k \in 0 .. (u + 1) - 1 : v(k) = h
  <2>1. CASE h \in D
    BY <2>1
  <2>2. CASE \E k \in 0 .. u - 1 : v(k) = h
    BY <1>1, <2>2
  <2>3. ASSUME NEW j \in 0 .. c - 1, d(j) = h
        PROVE  (\E i \in 0 .. (c - 1) - 1 : e(i) = h) \/ (\E k \in 0 .. (u + 1) - 1 : v(k) = h)
    <3>1. CASE j = 0
      <4>1. u \in 0 .. (u + 1) - 1
        BY <1>1
      <4> QED
        BY <1>5, <2>3, <3>1, <4>1
    <3>2. CASE j # 0
      <4>1. j - 1 \in 0 .. (c - 1) - 1 /\ (j - 1) + 1 = j
        BY <1>1, <3>2
      <4> QED
        BY <1>7, <2>3, <4>1
    <3> QED
      BY <3>1, <3>2
  <2> QED
    BY <1>4, <2>1, <2>2, <2>3
<1>14. Owned(av, ai, Inc(nu), us, lu, D)
  BY <1>3, <1>6, <1>9, <1>10, <1>11, <1>12, <1>13 DEF Owned, e, v
<1> QED
  BY <1>3, <1>14 DEF c, u


\* TakeUsed: the first completed buffer comes into the driver's hands.
LEMMA OwnedTaken ==
  ASSUME NEW av \in [Heads -> Heads], NEW ai \in Indices, NEW nu \in Indices,
         NEW us \in UsedType, NEW lu \in Indices, NEW D \in SUBSET Heads,
         Owned(av, ai, nu, us, lu, D), lu # nu
  PROVE  /\ Owned(av, ai, nu, us, Inc(lu), D \cup {us[Slot(lu)].id})
         /\ us[Slot(lu)].id \in Heads \ D /\ us[Slot(lu)].id = UsedAt(us, lu, 0)
         /\ Ahead(Inc(lu), nu) = Ahead(lu, nu) - 1
<1> DEFINE c == Ahead(nu, ai)
           u == Ahead(lu, nu)
           x == us[Slot(lu)].id
           d(k) == DevAt(av, nu, k)
           v(k) == UsedAt(us, lu, k)
           w(k) == UsedAt(us, Inc(lu), k)
<1>1. /\ c \in Nat /\ u \in Nat /\ c + u <= QueueSize
      /\ \A k \in Nat : d(k) \in Heads /\ v(k) \in Heads /\ w(k) = v(k + 1)
  BY OwnedFacts
<1>2. u >= 1 /\ Ahead(Inc(lu), nu) = u - 1
  BY <1>1, Distance
<1>3. x = v(0)
  <2>1. lu + 0 = lu
    BY Sizes DEF Indices
  <2> QED
    BY <2>1 DEF UsedAt
<1>4. /\ c + u + Cardinality(D) = QueueSize
      /\ \A j, k \in 0 .. c - 1 : d(j) = d(k) => j = k
      /\ \A j, k \in 0 .. u - 1 : v(j) = v(k) => j = k
      /\ \A j \in 0 .. c - 1 : \A k \in 0 .. u - 1 : d(j) # v(k)
      /\ \A j \in 0 .. c - 1 : d(j) \notin D
      /\ \A k \in 0 .. u - 1 : v(k) \notin D
      /\ \A h \in Heads : \/ h \in D
                          \/ \E j \in 0 .. c - 1 : d(j) = h
                          \/ \E k \in 0 .. u - 1 : v(k) = h
  BY DEF Owned
<1> HIDE DEF c, u, x, d, v, w
<1>5. 0 \in 0 .. u - 1 /\ x \in Heads \ D
  BY <1>1, <1>2, <1>3, <1>4
<1>6. c + (u - 1) + Cardinality(D \cup {x}) = QueueSize
  <2>1. Cardinality(D \cup {x}) = Cardinality(D) + 1 /\ Cardinality(D) \in Nat
    BY <1>5, HeadsFinite
  <2> QED
    BY <1>1, <1>2, <1>4, <2>1
<1>7. \A k \in 0 .. (u - 1) - 1 : k \in Nat /\ k + 1 \in 0 .. u - 1 /\ k + 1 # 0 /\ w(k) = v(k + 1)
  BY <1>1, <1>2
<1>8. \A j, k \in 0 .. (u - 1) - 1 : w(j) = w(k) => j = k
  <2> SUFFICES ASSUME NEW j \in 0 .. (u - 1) - 1, NEW k \in 0 .. (u - 1) - 1, w(j) = w(k)
               PROVE  j = k
    OBVIOUS
  <2>1. j + 1 = k + 1
    BY <1>4, <1>7
  <2> QED
    BY <1>7, <2>1
<1>9. \A j \in 0 .. c - 1 : \A k \in 0 .. (u - 1) - 1 : d(j) # w(k)
  BY <1>4, <1>7
<1>10. \A j \in 0 .. c - 1 : d(j) \notin D \cup {x}
  BY <1>3, <1>4, <1>5
<1>11. \A k \in 0 .. (u - 1) - 1 : w(k) \notin D \cup {x}
  BY <1>3, <1>4, <1>5, <1>7
<1>12. ASSUME NEW h \in Heads
       PROVE  \/ h \in D \cup {x}
              \/ \E j \in 0 .. c - 1 : d(j) = h
              \/ \E k \in 0 .. (u - 1) - 1 : w(k) = h
  <2>1. ASSUME NEW k \in 0 .. u - 1, v(k) = h
        PROVE  h = x \/ \E i \in 0 .. (u - 1) - 1 : w(i) = h
    <3>1. CASE k = 0
      BY <1>3, <2>1, <3>1
    <3>2. CASE k # 0
      <4>1. k - 1 \in 0 .. (u - 1) - 1 /\ (k - 1) + 1 = k
        BY <1>1, <3>2
      <4> QED
        BY <1>7, <2>1, <4>1
    <3> QED
      BY <3>1, <3>2
  <2> QED
    BY <1>4, <2>1
<1>13. Owned(av, ai, nu, us, Inc(lu), D \cup {x})
  BY <1>2, <1>4, <1>6, <1>8, <1>9, <1>10, <1>11, <1>12 DEF Owned, c, d, w
<1> QED
  BY <1>2, <1>3, <1>5, <1>13 DEF u, x, v

\* Publish: a buffer of the driver becomes the device's last one.
LEMMA OwnedPublished ==
  ASSUME NEW av \in [Heads -> Heads], NEW ai \in Indices, NEW nu \in Indices,
         NEW us \in UsedType, NEW lu \in Indices, NEW D \in SUBSET Heads,
         Owned(av, ai, nu, us, lu, D), av[Slot(ai)] \in D
  PROVE  /\ Owned(av, Inc(ai), nu, us, lu, D \ {av[Slot(ai)]})
         /\ Ahead(nu, Inc(ai)) = Ahead(nu, ai) + 1
<1> DEFINE c == Ahead(nu, ai)
           u == Ahead(lu, nu)
           x == av[Slot(ai)]
           d(k) == DevAt(av, nu, k)
           v(k) == UsedAt(us, lu, k)
<1>1. /\ c \in Nat /\ u \in Nat /\ c + u < QueueSize /\ d(c) = x
  BY OwnedFacts
<1>2. Ahead(nu, Inc(ai)) = c + 1
  <2>1. c < IdxMod - 1 => Ahead(nu, Inc(ai)) = c + 1
    BY Distance
  <2> HIDE DEF c, u
  <2>2. c < IdxMod - 1
    BY <1>1, Sizes
  <2> QED
    BY <2>1, <2>2
<1>3. /\ c + u + Cardinality(D) = QueueSize
      /\ \A j, k \in 0 .. c - 1 : d(j) = d(k) => j = k
      /\ \A j, k \in 0 .. u - 1 : v(j) = v(k) => j = k
      /\ \A j \in 0 .. c - 1 : \A k \in 0 .. u - 1 : d(j) # v(k)
      /\ \A j \in 0 .. c - 1 : d(j) \notin D
      /\ \A k \in 0 .. u - 1 : v(k) \notin D
      /\ \A h \in Heads : \/ h \in D
                          \/ \E j \in 0 .. c - 1 : d(j) = h
                          \/ \E k \in 0 .. u - 1 : v(k) = h
  BY DEF Owned
<1>3a. x \in D
  OBVIOUS
<1> HIDE DEF c, u, x, d, v
<1>4. (c + 1) + u + Cardinality(D \ {x}) = QueueSize
  <2>1. Cardinality(D \ {x}) = Cardinality(D) - 1 /\ Cardinality(D) \in Nat
    BY <1>3a, HeadsFinite
  <2> QED
    BY <1>1, <1>3, <2>1
<1>5. c \in 0 .. (c + 1) - 1 /\ \A k \in 0 .. (c + 1) - 1 : k = c \/ k \in 0 .. c - 1
  BY <1>1
<1>6. \A j, k \in 0 .. (c + 1) - 1 : d(j) = d(k) => j = k
  BY <1>1, <1>3, <1>3a, <1>5
<1>7. \A j \in 0 .. (c + 1) - 1 : \A k \in 0 .. u - 1 : d(j) # v(k)
  BY <1>1, <1>3, <1>3a, <1>5
<1>8. \A j \in 0 .. (c + 1) - 1 : d(j) \notin D \ {x}
  BY <1>1, <1>3, <1>5
<1>9. \A k \in 0 .. u - 1 : v(k) \notin D \ {x}
  BY <1>3
<1>10. ASSUME NEW h \in Heads
       PROVE  \/ h \in D \ {x}
              \/ \E j \in 0 .. (c + 1) - 1 : d(j) = h
              \/ \E k \in 0 .. u - 1 : v(k) = h
  <2>1. CASE h = x
    BY <1>1, <1>5, <2>1
  <2>2. \A j \in 0 .. c - 1 : j \in 0 .. (c + 1) - 1
    BY <1>1
  <2> QED
    BY <1>3, <2>1, <2>2
<1>11. Owned(av, Inc(ai), nu, us, lu, D \ {x})
  BY <1>2, <1>3, <1>4, <1>6, <1>7, <1>8, <1>9, <1>10 DEF Owned, u, d, v
<1> QED
  BY <1>2, <1>11 DEF c, x

\* The completed entries of two used rings are the same.
SameUsed(us2, us, lu, nu) == \A k \in 0 .. Ahead(lu, nu) - 1 : us2[Slot(lu + k)] = us[Slot(lu + k)]

\* WriteUsedElem writes behind the completed entries.
LEMMA OwnedElem ==
  ASSUME NEW av \in [Heads -> Heads], NEW ai \in Indices, NEW nu \in Indices,
         NEW us \in UsedType, NEW lu \in Indices, NEW D \in SUBSET Heads,
         Owned(av, ai, nu, us, lu, D), nu # ai,
         NEW e \in [id : Heads, len : {0, 1}]
  PROVE  LET us2 == [us EXCEPT ![Slot(nu)] = e]
         IN  /\ Owned(av, ai, nu, us2, lu, D) /\ us2[Slot(nu)] = e
             /\ SameUsed(us2, us, lu, nu)
<1> DEFINE c == Ahead(nu, ai)
           u == Ahead(lu, nu)
           us2 == [us EXCEPT ![Slot(nu)] = e]
<1>1. c \in Nat /\ u \in Nat /\ c + u <= QueueSize
  BY OwnedFacts
<1>2. c # 0
  BY Distance
<1>3. Slot(nu) = Slot(lu + u) /\ Slot(nu) \in Heads
  BY Slots, <1>1
<1>4. ASSUME NEW k \in 0 .. u - 1 PROVE us2[Slot(lu + k)] = us[Slot(lu + k)]
  <2>1. k \in 0 .. QueueSize - 1 /\ u \in 0 .. QueueSize - 1 /\ k # u /\ k \in Nat
    <3> HIDE DEF c, u
    <3> QED
      BY <1>1, <1>2, Sizes
  <2>2. Slot(lu + k) # Slot(lu + u) /\ Slot(lu + k) \in Heads
    BY <2>1, Slots
  <2> QED
    BY <1>3, <2>2 DEF UsedType
<1>5. us2[Slot(nu)] = e
  BY <1>3 DEF UsedType
<1>6. \A k \in 0 .. u - 1 : UsedAt(us2, lu, k) = UsedAt(us, lu, k)
  BY <1>4 DEF UsedAt
<1> HIDE DEF us2
<1>7. Owned(av, ai, nu, us2, lu, D)
  BY <1>6 DEF Owned
<1>8. SameUsed(us2, us, lu, nu)
  BY <1>4 DEF SameUsed
<1> QED
  BY <1>5, <1>7, <1>8 DEF us2

\* PublishSlot writes behind the published entries.
LEMMA OwnedSlot ==
  ASSUME NEW av \in [Heads -> Heads], NEW ai \in Indices, NEW nu \in Indices,
         NEW us \in UsedType, NEW lu \in Indices, NEW D \in SUBSET Heads,
         Owned(av, ai, nu, us, lu, D), D # {}, NEW h \in Heads
  PROVE  LET av2 == [av EXCEPT ![Slot(ai)] = h]
         IN  /\ Owned(av2, ai, nu, us, lu, D) /\ av2[Slot(ai)] = h
             /\ \A k \in 0 .. Ahead(nu, ai) - 1 : DevAt(av2, nu, k) = DevAt(av, nu, k)
<1> DEFINE c == Ahead(nu, ai)
           u == Ahead(lu, nu)
           av2 == [av EXCEPT ![Slot(ai)] = h]
<1>1. c \in Nat /\ u \in Nat /\ c + u < QueueSize
  BY OwnedFacts
<1>2. Slot(ai) = Slot(nu + c) /\ Slot(ai) \in Heads
  BY Slots, <1>1
<1>3. ASSUME NEW k \in 0 .. c - 1 PROVE DevAt(av2, nu, k) = DevAt(av, nu, k)
  <2>1. k \in 0 .. QueueSize - 1 /\ c \in 0 .. QueueSize - 1 /\ k # c /\ k \in Nat
    <3> HIDE DEF c, u
    <3> QED
      BY <1>1, Sizes
  <2>2. Slot(nu + k) # Slot(nu + c) /\ Slot(nu + k) \in Heads
    BY <2>1, Slots
  <2> QED
    BY <1>2, <2>2 DEF DevAt
<1>4. av2[Slot(ai)] = h
  BY <1>2
<1> HIDE DEF av2
<1>5. Owned(av2, ai, nu, us, lu, D)
  BY <1>3 DEF Owned
<1> QED
  BY <1>3, <1>4, <1>5 DEF av2

\* SetupQueue: all buffers are the driver's.
LEMMA OwnedAtStart ==
  ASSUME NEW av \in [Heads -> Heads], NEW us \in UsedType
  PROVE  /\ Owned(av, 0, 0, us, 0, Heads) /\ DevRing(av, 0, 0, 0, << >>, NoHead)
<1>1. 0 \in Indices
  BY Sizes DEF Indices
<1>2. Ahead(0, 0) = 0
  BY <1>1, Distance
<1>3. Cardinality(Heads) = QueueSize
  BY Sizes, FS_Interval DEF Heads
<1> QED
  BY <1>2, <1>3, Sizes DEF Owned, DevRing, Taken


-----------------------------------------------------------------------------
(* What the device has taken, one step at a time.                          *)

\* PopChain: the next published buffer is cached.
LEMMA DevPop ==
  ASSUME NEW av \in [Heads -> Heads], NEW ai \in Indices, NEW nu \in Indices,
         NEW na \in Indices, NEW bufs \in Seq(Heads),
         DevRing(av, ai, nu, na, bufs, NoHead), na # ai
  PROVE  /\ DevRing(av, ai, nu, Inc(na), Append(bufs, av[Slot(na)]), NoHead)
         /\ Len(bufs) < Ahead(nu, ai)
<1> DEFINE c == Ahead(nu, ai)
           b == Len(bufs)
           x == av[Slot(na)]
           bufs2 == Append(bufs, x)
<1>1. /\ Ahead(nu, na) = b /\ b <= c /\ \A k \in 1 .. b : bufs[k] = DevAt(av, nu, k - 1)
  <2>1. 0 + b = b /\ \A k \in 1 .. b : 0 + k - 1 = k - 1
    OBVIOUS
  <2> QED
    BY <2>1 DEF DevRing, Taken
<1>2. c \in Nat /\ c <= IdxMod - 1 /\ b \in Nat
  <2>1. c \in Nat /\ c <= IdxMod - 1
    BY Distance
  <2>2. b \in Nat
    OBVIOUS
  <2> QED
    BY <2>1, <2>2
<1>3. Ahead(nu, na) # c
  <2>1. /\ Ahead(nu, na) = IF nu <= na THEN na - nu ELSE na - nu + IdxMod
        /\ Ahead(nu, ai) = IF nu <= ai THEN ai - nu ELSE ai - nu + IdxMod
    BY AheadIs
  <2>2. nu \in 0 .. IdxMod - 1 /\ na \in 0 .. IdxMod - 1 /\ ai \in 0 .. IdxMod - 1 /\ na # ai
    BY DEF Indices
  <2> QED
    BY <2>1, <2>2, Sizes
<1>4. b < IdxMod - 1 => Ahead(nu, Inc(na)) = b + 1
  <2>1. Ahead(nu, na) < IdxMod - 1 => Ahead(nu, Inc(na)) = Ahead(nu, na) + 1
    BY Distance
  <2> HIDE DEF b
  <2> QED
    BY <1>1, <2>1
<1>5. x = DevAt(av, nu, b)
  BY <1>1, Slots DEF DevAt
<1>6. /\ Len(bufs2) = b + 1 /\ bufs2[b + 1] = x /\ \A k \in 1 .. b : bufs2[k] = bufs[k]
  BY <1>2
<1> HIDE DEF c, b, x, bufs2
<1>7. b < c /\ Ahead(nu, Inc(na)) = b + 1 /\ b + 1 <= c
  BY <1>1, <1>2, <1>3, <1>4, Sizes
<1>8. \A k \in 1 .. b + 1 : bufs2[k] = DevAt(av, nu, k - 1)
  <2>1. \A k \in 1 .. b + 1 : k \in 1 .. b \/ (k = b + 1 /\ k - 1 = b)
    BY <1>2
  <2> QED
    BY <1>1, <1>5, <1>6, <2>1
<1>9. DevRing(av, ai, nu, Inc(na), bufs2, NoHead)
  <2>1. 0 + (b + 1) = b + 1 /\ \A k \in 1 .. b + 1 : 0 + k - 1 = k - 1
    BY <1>2
  <2> QED
    BY <1>6, <1>7, <1>8, <2>1 DEF DevRing, Taken, c
<1> QED
  BY <1>7, <1>9 DEF b, c, x, bufs2

\* FlushEvent: the first cached buffer is being completed.
LEMMA DevFlush ==
  ASSUME NEW av \in [Heads -> Heads], NEW ai \in Indices, NEW nu \in Indices,
         NEW na \in Indices, NEW bufs \in Seq(Heads),
         DevRing(av, ai, nu, na, bufs, NoHead), bufs # << >>
  PROVE  /\ DevRing(av, ai, nu, na, Tail(bufs), Head(bufs))
         /\ Tail(bufs) \in Seq(Heads) /\ Head(bufs) \in Heads /\ Head(bufs) # NoHead
         /\ Head(bufs) = DevAt(av, nu, 0) /\ Ahead(nu, ai) >= 1
<1> DEFINE b == Len(bufs)
           t == Tail(bufs)
           h == Head(bufs)
<1>1. /\ Ahead(nu, na) = b /\ b <= Ahead(nu, ai)
      /\ \A k \in 1 .. b : bufs[k] = DevAt(av, nu, k - 1)
  <2>1. 0 + b = b /\ \A k \in 1 .. b : 0 + k - 1 = k - 1
    OBVIOUS
  <2> QED
    BY <2>1 DEF DevRing, Taken
<1>2. /\ b \in Nat /\ b >= 1 /\ Len(t) = b - 1 /\ h = bufs[1] /\ h \in Heads
      /\ t \in Seq(Heads) /\ \A k \in 1 .. b - 1 : t[k] = bufs[k + 1]
  OBVIOUS
<1>3. h # NoHead /\ Ahead(nu, ai) \in Nat
  <2>1. Ahead(nu, ai) \in Nat
    BY Distance
  <2>2. h # NoHead
    BY <1>2, HeadIsNot
  <2> QED
    BY <2>1, <2>2
<1> HIDE DEF b, t, h
<1>4. h = DevAt(av, nu, 0)
  <2>1. 1 \in 1 .. b /\ 1 - 1 = 0
    BY <1>2
  <2> QED
    BY <1>1, <1>2, <2>1
<1>5. ASSUME NEW k \in 1 .. b - 1 PROVE t[k] = DevAt(av, nu, 1 + k - 1)
  <2>1. k + 1 \in 1 .. b /\ (k + 1) - 1 = 1 + k - 1
    BY <1>2
  <2> QED
    BY <1>1, <1>2, <2>1
<1>6. Ahead(nu, na) = 1 + (b - 1) /\ 1 + (b - 1) <= Ahead(nu, ai) /\ Ahead(nu, ai) >= 1
  BY <1>1, <1>2, <1>3
<1>7. DevRing(av, ai, nu, na, t, h)
  BY <1>2, <1>3, <1>4, <1>5, <1>6 DEF DevRing, Taken
<1> QED
  BY <1>2, <1>3, <1>4, <1>6, <1>7 DEF t, h

\* WriteUsedIdx: the buffer is no longer the device's.
LEMMA DevComplete ==
  ASSUME NEW av \in [Heads -> Heads], NEW ai \in Indices, NEW nu \in Indices,
         NEW na \in Indices, NEW bufs \in Seq(Heads), NEW hd \in Heads,
         DevRing(av, ai, nu, na, bufs, hd)
  PROVE  /\ DevRing(av, ai, Inc(nu), na, bufs, NoHead)
         /\ nu # ai /\ DevAt(av, nu, 0) = hd
<1> DEFINE b == Len(bufs)
<1>1. hd # NoHead /\ b \in Nat
  BY HeadIsNot
<1>2. /\ Ahead(nu, na) = 1 + b /\ 1 + b <= Ahead(nu, ai) /\ DevAt(av, nu, 0) = hd
      /\ \A k \in 1 .. b : bufs[k] = DevAt(av, nu, 1 + k - 1)
  BY <1>1 DEF DevRing, Taken
<1> HIDE DEF b
<1>3. Ahead(nu, na) # 0 /\ Ahead(nu, ai) # 0 /\ Ahead(nu, ai) \in Nat
  <2>1. Ahead(nu, ai) \in Nat
    BY Distance
  <2> QED
    BY <1>1, <1>2, <2>1
<1>4. nu # na /\ nu # ai
  BY <1>3, Distance
<1>5. Ahead(Inc(nu), na) = Ahead(nu, na) - 1 /\ Ahead(Inc(nu), ai) = Ahead(nu, ai) - 1
  BY <1>4, Distance
<1>6. Ahead(Inc(nu), na) = 0 + b /\ 0 + b <= Ahead(Inc(nu), ai)
  BY <1>1, <1>2, <1>3, <1>5
<1>7. ASSUME NEW k \in 1 .. b PROVE bufs[k] = DevAt(av, Inc(nu), 0 + k - 1)
  <2>1. k - 1 \in Nat /\ (k - 1) + 1 = 1 + k - 1 /\ 0 + k - 1 = k - 1
    BY <1>1
  <2>2. Slot(Inc(nu) + (k - 1)) = Slot(nu + ((k - 1) + 1))
    BY <2>1, Slots
  <2> QED
    BY <1>2, <2>1, <2>2 DEF DevAt
<1>8. DevRing(av, ai, Inc(nu), na, bufs, NoHead)
  BY <1>6, <1>7 DEF DevRing, Taken, b
<1> QED
  BY <1>2, <1>4, <1>8

\* PublishSlot and Publish change nothing the device has taken.
LEMMA DevPublished ==
  ASSUME NEW av, NEW av2, NEW ai \in Indices, NEW ai2 \in Indices, NEW nu \in Indices,
         NEW na \in Indices, NEW bufs \in Seq(Heads), NEW hd \in Heads \cup {NoHead},
         DevRing(av, ai, nu, na, bufs, hd), Ahead(nu, ai) <= Ahead(nu, ai2),
         \A k \in 0 .. Ahead(nu, ai) - 1 : DevAt(av2, nu, k) = DevAt(av, nu, k)
  PROVE  DevRing(av2, ai2, nu, na, bufs, hd)
<1> DEFINE c == Ahead(nu, ai)
           b == Len(bufs)
           t == Taken(hd)
<1>1. c \in Nat /\ Ahead(nu, ai2) \in Nat /\ b \in Nat /\ t \in {0, 1} /\ (hd # NoHead => t = 1)
  <2>1. c \in Nat /\ Ahead(nu, ai2) \in Nat
    BY Distance
  <2>2. b \in Nat /\ t \in {0, 1} /\ (hd # NoHead => t = 1)
    BY DEF Taken
  <2> QED
    BY <2>1, <2>2
<1>2. /\ Ahead(nu, na) = t + b /\ t + b <= c /\ c <= Ahead(nu, ai2)
      /\ hd # NoHead => DevAt(av, nu, 0) = hd
      /\ \A k \in 1 .. b : bufs[k] = DevAt(av, nu, t + k - 1)
  BY DEF DevRing
<1>3. \A k \in 0 .. c - 1 : DevAt(av2, nu, k) = DevAt(av, nu, k)
  OBVIOUS
<1> HIDE DEF c, b, t
<1>4. /\ t + b <= Ahead(nu, ai2) /\ (hd # NoHead => 0 \in 0 .. c - 1)
      /\ \A k \in 1 .. b : t + k - 1 \in 0 .. c - 1
  BY <1>1, <1>2
<1> QED
  BY <1>2, <1>3, <1>4 DEF DevRing, b, t

\* Restore: nothing is taken.
LEMMA DevRewound ==
  ASSUME NEW av, NEW ai \in Indices, NEW nu \in Indices
  PROVE  DevRing(av, ai, nu, nu, << >>, NoHead)
<1>1. Ahead(nu, nu) = 0 /\ Ahead(nu, ai) \in Nat
  BY Distance
<1> QED
  BY <1>1 DEF DevRing, Taken



-----------------------------------------------------------------------------
(* The order of the events, one step at a time.                            *)

LEMMA UsedHeads ==
  ASSUME NEW us \in UsedType, NEW lu \in Indices, NEW ui \in Indices
  PROVE  /\ Ahead(lu, ui) \in Nat
         /\ \A k \in Nat : /\ UsedAt(us, lu, k) \in Heads
                           /\ UsedAt(us, Inc(lu), k) = UsedAt(us, lu, k + 1)
                           /\ Slot(Inc(lu) + k) = Slot(lu + (k + 1))
<1>1. Ahead(lu, ui) \in Nat
  BY Distance
<1>2. ASSUME NEW k \in Nat
      PROVE  /\ UsedAt(us, lu, k) \in Heads /\ UsedAt(us, Inc(lu), k) = UsedAt(us, lu, k + 1)
             /\ Slot(Inc(lu) + k) = Slot(lu + (k + 1))
  <2>1. Slot(lu + k) \in Heads /\ Slot(Inc(lu) + k) = Slot(lu + (k + 1))
    BY Slots
  <2> QED
    BY <2>1 DEF UsedAt, UsedType
<1> QED
  BY <1>1, <1>2

\* The buffer of descriptor h is not a completed one.
NotUsed(us, lu, ui, h) == \A k \in 0 .. Ahead(lu, ui) - 1 : UsedAt(us, lu, k) # h

\* FlushEvent: the oldest pending event is written into a buffer.
LEMMA OrderFlush ==
  ASSUME NEW buf \in [Heads -> Nat], NEW us \in UsedType, NEW lu \in Indices,
         NEW ui \in Indices, NEW de \in Heads \cup {NoHead}, NEW h \in Heads,
         NEW pend \in Seq(Nat), NEW rc \in Seq(Nat), NEW inj \in Nat,
         Order(buf, us, lu, ui, NoHead, de, pend, rc, inj), pend # << >>, de # h,
         NotUsed(us, lu, ui, h)
  PROVE  /\ Order([buf EXCEPT ![h] = Head(pend)], us, lu, ui, h, de, Tail(pend), rc, inj)
         /\ Head(pend) \in 1 .. inj
<1> DEFINE u == Ahead(lu, ui)
           U(k) == UsedEvent(buf, us, lu, k)
           x == Head(pend)
           t == Tail(pend)
           n == Len(pend)
           buf2 == [buf EXCEPT ![h] = x]
           V(k) == UsedEvent(buf2, us, lu, k)
<1>1. u \in Nat /\ \A k \in Nat : UsedAt(us, lu, k) \in Heads
  BY UsedHeads
<1>2. /\ n \in Nat /\ n >= 1 /\ x = pend[1] /\ Len(t) = n - 1
      /\ \A k \in 1 .. n - 1 : t[k] = pend[k + 1]
  OBVIOUS
<1>3. buf2[h] = x /\ (de # NoHead => buf2[de] = buf[de])
  OBVIOUS
<1>4. \A k \in 0 .. u - 1 : V(k) = U(k)
  <2>1. \A k \in 0 .. u - 1 : UsedAt(us, lu, k) \in Heads /\ UsedAt(us, lu, k) # h
    BY <1>1 DEF NotUsed
  <2> QED
    BY <2>1 DEF UsedEvent
<1>5. /\ \A j, k \in 1 .. Len(rc) : j < k => rc[j] < rc[k]
      /\ \A k \in 1 .. Len(rc) : rc[k] \in 1 .. inj
      /\ \A k \in 0 .. u - 1 : us[Slot(lu + k)].len = 1 /\ OnItsWay(U(k), rc, inj)
      /\ \A j, k \in 0 .. u - 1 : j < k => U(j) < U(k)
      /\ de # NoHead => OnItsWay(buf[de], rc, inj) /\ \A k \in 0 .. u - 1 : buf[de] < U(k)
      /\ \A k \in 1 .. n : /\ OnItsWay(pend[k], rc, inj)
                           /\ \A j \in 0 .. u - 1 : U(j) < pend[k]
                           /\ de # NoHead => buf[de] < pend[k]
      /\ \A j, k \in 1 .. n : j < k => pend[j] < pend[k]
  BY DEF Order
<1> HIDE DEF u, U, x, t, n, buf2, V
<1>6. 1 \in 1 .. n /\ \A k \in 1 .. n - 1 : k + 1 \in 1 .. n /\ 1 < k + 1
  BY <1>2
<1>7. OnItsWay(x, rc, inj) /\ (\A k \in 0 .. u - 1 : U(k) < x) /\ (de # NoHead => buf[de] < x)
  BY <1>2, <1>5, <1>6
<1>8. \A k \in 1 .. n - 1 : /\ OnItsWay(t[k], rc, inj)
                            /\ \A j \in 0 .. u - 1 : U(j) < t[k]
                            /\ de # NoHead => buf[de] < t[k]
                            /\ x < t[k]
  BY <1>2, <1>5, <1>6
<1>9. \A j, k \in 1 .. n - 1 : j < k => t[j] < t[k]
  <2> SUFFICES ASSUME NEW j \in 1 .. n - 1, NEW k \in 1 .. n - 1, j < k
               PROVE  t[j] < t[k]
    OBVIOUS
  <2>1. j + 1 < k + 1
    BY <1>2
  <2> QED
    BY <1>2, <1>5, <1>6, <2>1
<1>10. Order(buf2, us, lu, ui, h, de, t, rc, inj)
  BY <1>2, <1>3, <1>4, <1>5, <1>7, <1>8, <1>9 DEF Order, u, V
<1>11. x \in 1 .. inj
  BY <1>7 DEF OnItsWay
<1> QED
  BY <1>10, <1>11 DEF buf2, x, t

\* WriteUsedElem: the completed events stay as they are.
LEMMA OrderElem ==
  ASSUME NEW buf, NEW us, NEW us2, NEW lu, NEW ui, NEW hd, NEW de,
         NEW pend, NEW rc, NEW inj,
         Order(buf, us, lu, ui, hd, de, pend, rc, inj),
         SameUsed(us2, us, lu, ui)
  PROVE  Order(buf, us2, lu, ui, hd, de, pend, rc, inj)
<1>1. \A k \in 0 .. Ahead(lu, ui) - 1 :
        us2[Slot(lu + k)].len = us[Slot(lu + k)].len
        /\ UsedEvent(buf, us2, lu, k) = UsedEvent(buf, us, lu, k)
  BY DEF UsedEvent, UsedAt, SameUsed
<1> QED
  BY <1>1 DEF Order

\* WriteUsedIdx: the event being written is completed.
LEMMA OrderComplete ==
  ASSUME NEW buf \in [Heads -> Nat], NEW us \in UsedType, NEW lu \in Indices,
         NEW ui \in Indices, NEW hd \in Heads, NEW de \in Heads \cup {NoHead},
         NEW pend \in Seq(Nat), NEW rc \in Seq(Nat), NEW inj \in Nat,
         Order(buf, us, lu, ui, hd, de, pend, rc, inj),
         us[Slot(ui)] = [id |-> hd, len |-> 1], Ahead(lu, Inc(ui)) = Ahead(lu, ui) + 1
  PROVE  Order(buf, us, lu, Inc(ui), NoHead, de, pend, rc, inj)
<1> DEFINE u == Ahead(lu, ui)
           U(k) == UsedEvent(buf, us, lu, k)
           n == Len(pend)
<1>1. u \in Nat /\ hd # NoHead /\ Ahead(lu, Inc(ui)) = u + 1
  BY UsedHeads, HeadIsNot
<1>2. us[Slot(lu + u)].len = 1 /\ U(u) = buf[hd]
  <2>1. Slot(ui) = Slot(lu + u)
    BY Slots
  <2> QED
    BY <2>1 DEF UsedEvent, UsedAt
<1>3. /\ \A j, k \in 1 .. Len(rc) : j < k => rc[j] < rc[k]
      /\ \A k \in 1 .. Len(rc) : rc[k] \in 1 .. inj
      /\ \A k \in 0 .. u - 1 : us[Slot(lu + k)].len = 1 /\ OnItsWay(U(k), rc, inj)
      /\ \A j, k \in 0 .. u - 1 : j < k => U(j) < U(k)
      /\ de # NoHead => OnItsWay(buf[de], rc, inj) /\ \A k \in 0 .. u - 1 : buf[de] < U(k)
      /\ OnItsWay(buf[hd], rc, inj) /\ \A k \in 0 .. u - 1 : U(k) < buf[hd]
      /\ de # NoHead => buf[de] < buf[hd]
      /\ \A k \in 1 .. n : /\ OnItsWay(pend[k], rc, inj)
                           /\ \A j \in 0 .. u - 1 : U(j) < pend[k]
                           /\ de # NoHead => buf[de] < pend[k]
                           /\ buf[hd] < pend[k]
      /\ \A j, k \in 1 .. n : j < k => pend[j] < pend[k]
  BY <1>1 DEF Order
<1> HIDE DEF u, U, n
<1>4. \A k \in 0 .. (u + 1) - 1 : k = u \/ k \in 0 .. u - 1
  BY <1>1
<1>5. \A k \in 0 .. (u + 1) - 1 : us[Slot(lu + k)].len = 1 /\ OnItsWay(U(k), rc, inj)
  BY <1>2, <1>3, <1>4
<1>6. \A j, k \in 0 .. (u + 1) - 1 : j < k => U(j) < U(k)
  BY <1>1, <1>2, <1>3, <1>4
<1>7. /\ de # NoHead => \A k \in 0 .. (u + 1) - 1 : buf[de] < U(k)
      /\ \A k \in 1 .. n : \A j \in 0 .. (u + 1) - 1 : U(j) < pend[k]
  BY <1>2, <1>3, <1>4
<1> QED
  BY <1>1, <1>3, <1>5, <1>6, <1>7 DEF Order, U, n


\* TakeUsed: the first completed event is the one the driver is at.
LEMMA OrderTaken ==
  ASSUME NEW buf \in [Heads -> Nat], NEW us \in UsedType, NEW lu \in Indices,
         NEW ui \in Indices, NEW hd \in Heads \cup {NoHead},
         NEW pend \in Seq(Nat), NEW rc \in Seq(Nat), NEW inj \in Nat,
         Order(buf, us, lu, ui, hd, NoHead, pend, rc, inj), lu # ui
  PROVE  /\ Order(buf, us, Inc(lu), ui, hd, us[Slot(lu)].id, pend, rc, inj)
         /\ us[Slot(lu)].len = 1
<1> DEFINE u == Ahead(lu, ui)
           U(k) == UsedEvent(buf, us, lu, k)
           W(k) == UsedEvent(buf, us, Inc(lu), k)
           de == us[Slot(lu)].id
           n == Len(pend)
<1>1. u \in Nat /\ Ahead(Inc(lu), ui) = u - 1 /\ u # 0
  BY Distance
<1>2. lu + 0 = lu /\ de = UsedAt(us, lu, 0) /\ U(0) = buf[de] /\ us[Slot(lu + 0)].len = us[Slot(lu)].len
  <2>1. lu + 0 = lu
    BY Sizes DEF Indices
  <2> QED
    BY <2>1 DEF UsedEvent, UsedAt
<1>3. de \in Heads
  BY <1>2, UsedHeads
<1>4. \A k \in Nat : W(k) = U(k + 1) /\ Slot(Inc(lu) + k) = Slot(lu + (k + 1))
  BY UsedHeads DEF UsedEvent
<1>5. /\ \A j, k \in 1 .. Len(rc) : j < k => rc[j] < rc[k]
      /\ \A k \in 1 .. Len(rc) : rc[k] \in 1 .. inj
      /\ \A k \in 0 .. u - 1 : us[Slot(lu + k)].len = 1 /\ OnItsWay(U(k), rc, inj)
      /\ \A j, k \in 0 .. u - 1 : j < k => U(j) < U(k)
      /\ hd # NoHead => OnItsWay(buf[hd], rc, inj) /\ \A k \in 0 .. u - 1 : U(k) < buf[hd]
      /\ \A k \in 1 .. n : /\ OnItsWay(pend[k], rc, inj)
                           /\ \A j \in 0 .. u - 1 : U(j) < pend[k]
                           /\ hd # NoHead => buf[hd] < pend[k]
      /\ \A j, k \in 1 .. n : j < k => pend[j] < pend[k]
  BY DEF Order
<1> HIDE DEF u, U, W, de, n
<1>6. /\ 0 \in 0 .. u - 1
      /\ \A k \in 0 .. (u - 1) - 1 : k \in Nat /\ k + 1 \in 0 .. u - 1 /\ 0 < k + 1
  BY <1>1
<1>7. /\ us[Slot(lu)].len = 1 /\ OnItsWay(buf[de], rc, inj)
      /\ \A k \in 0 .. (u - 1) - 1 : buf[de] < W(k)
      /\ \A k \in 1 .. n : buf[de] < pend[k]
      /\ hd # NoHead => buf[de] < buf[hd]
  BY <1>2, <1>4, <1>5, <1>6
<1>8. ASSUME NEW k \in 0 .. (u - 1) - 1
      PROVE  us[Slot(Inc(lu) + k)].len = 1 /\ OnItsWay(W(k), rc, inj)
  <2>1. k + 1 \in 0 .. u - 1 /\ W(k) = U(k + 1) /\ Slot(Inc(lu) + k) = Slot(lu + (k + 1))
    BY <1>4, <1>6
  <2>2. us[Slot(lu + (k + 1))].len = 1 /\ OnItsWay(U(k + 1), rc, inj)
    BY <1>5, <2>1
  <2> QED
    BY <2>1, <2>2
<1>9. \A j, k \in 0 .. (u - 1) - 1 : j < k => W(j) < W(k)
  <2> SUFFICES ASSUME NEW j \in 0 .. (u - 1) - 1, NEW k \in 0 .. (u - 1) - 1, j < k
               PROVE  W(j) < W(k)
    OBVIOUS
  <2>1. j + 1 < k + 1
    BY <1>1
  <2> QED
    BY <1>4, <1>5, <1>6, <2>1
<1>10. /\ hd # NoHead => \A k \in 0 .. (u - 1) - 1 : W(k) < buf[hd]
       /\ \A k \in 1 .. n : \A j \in 0 .. (u - 1) - 1 : W(j) < pend[k]
  BY <1>4, <1>5, <1>6
<1>11. Order(buf, us, Inc(lu), ui, hd, de, pend, rc, inj)
  BY <1>1, <1>5, <1>7, <1>8, <1>9, <1>10 DEF Order, W, n
<1> QED
  BY <1>7, <1>11 DEF de

\* ProcessEvent: the event the driver is at is received.
LEMMA OrderReceived ==
  ASSUME NEW buf \in [Heads -> Nat], NEW us \in UsedType, NEW lu \in Indices,
         NEW ui \in Indices, NEW hd \in Heads \cup {NoHead}, NEW de \in Heads,
         NEW pend \in Seq(Nat), NEW rc \in Seq(Nat), NEW inj \in Nat,
         Order(buf, us, lu, ui, hd, de, pend, rc, inj)
  PROVE  /\ Order(buf, us, lu, ui, hd, NoHead, pend, Append(rc, buf[de]), inj)
         /\ Order(buf, us, lu, ui, hd, NoHead, pend, rc, inj) /\ buf[de] \in 1 .. inj
<1> DEFINE u == Ahead(lu, ui)
           U(k) == UsedEvent(buf, us, lu, k)
           n == Len(pend)
           m == Len(rc)
           x == buf[de]
           rc2 == Append(rc, x)
<1>1. de # NoHead
  BY HeadIsNot
<1>2. /\ m \in Nat /\ Len(rc2) = m + 1 /\ rc2[m + 1] = x /\ \A k \in 1 .. m : rc2[k] = rc[k]
  OBVIOUS
<1>3. /\ \A j, k \in 1 .. m : j < k => rc[j] < rc[k]
      /\ \A k \in 1 .. m : rc[k] \in 1 .. inj
      /\ \A k \in 0 .. u - 1 : us[Slot(lu + k)].len = 1 /\ OnItsWay(U(k), rc, inj)
      /\ \A j, k \in 0 .. u - 1 : j < k => U(j) < U(k)
      /\ OnItsWay(x, rc, inj) /\ \A k \in 0 .. u - 1 : x < U(k)
      /\ hd # NoHead => OnItsWay(buf[hd], rc, inj) /\ (\A k \in 0 .. u - 1 : U(k) < buf[hd])
                        /\ x < buf[hd]
      /\ \A k \in 1 .. n : /\ OnItsWay(pend[k], rc, inj)
                           /\ \A j \in 0 .. u - 1 : U(j) < pend[k]
                           /\ x < pend[k]
                           /\ hd # NoHead => buf[hd] < pend[k]
      /\ \A j, k \in 1 .. n : j < k => pend[j] < pend[k]
  BY <1>1 DEF Order
<1>4. Order(buf, us, lu, ui, hd, NoHead, pend, rc, inj)
  BY <1>1 DEF Order
<1> HIDE DEF u, U, n, m, x, rc2
<1>5. x \in 1 .. inj /\ \A k \in 1 .. m : rc[k] < x
  BY <1>3 DEF OnItsWay, m
<1>6. \A k \in 1 .. m + 1 : k \in 1 .. m \/ k = m + 1
  BY <1>2
<1>7. \A y : OnItsWay(y, rc, inj) /\ x < y => OnItsWay(y, rc2, inj)
  BY <1>2, <1>6 DEF OnItsWay, m
<1>8. \A j, k \in 1 .. m + 1 : j < k => rc2[j] < rc2[k]
  <2> SUFFICES ASSUME NEW j \in 1 .. m + 1, NEW k \in 1 .. m + 1, j < k
               PROVE  rc2[j] < rc2[k]
    OBVIOUS
  <2>1. j \in 1 .. m
    BY <1>2
  <2> QED
    BY <1>2, <1>3, <1>5, <1>6, <2>1
<1>9. \A k \in 1 .. m + 1 : rc2[k] \in 1 .. inj
  BY <1>2, <1>3, <1>5, <1>6
<1>10. Order(buf, us, lu, ui, hd, NoHead, pend, rc2, inj)
  BY <1>2, <1>3, <1>7, <1>8, <1>9 DEF Order, u, U, n
<1> QED
  BY <1>4, <1>5, <1>10 DEF x, rc2

\* Restore, and a reset of the device: the pending events are gone.
LEMMA OrderDropped ==
  ASSUME NEW buf, NEW us, NEW lu, NEW ui, NEW hd, NEW de, NEW pend, NEW rc, NEW inj,
         Order(buf, us, lu, ui, hd, de, pend, rc, inj)
  PROVE  Order(buf, us, lu, ui, hd, de, << >>, rc, inj)
<1>1. \A k \in 1 .. Len(<< >>) : FALSE
  OBVIOUS
<1> QED
  BY <1>1, Zenon DEF Order

\* A reset of the ring: the completed events are gone.
LEMMA OrderRingReset ==
  ASSUME NEW buf, NEW us, NEW lu, NEW ui, NEW pend, NEW rc, NEW inj,
         Order(buf, us, lu, ui, NoHead, NoHead, pend, rc, inj)
  PROVE  Order(buf, us, 0, 0, NoHead, NoHead, pend, rc, inj)
<1>1. 0 \in Indices
  BY Sizes DEF Indices
<1>2. Ahead(0, 0) = 0
  BY <1>1, Distance
<1> QED
  BY <1>2 DEF Order


\* Inject: new events are the youngest.
LEMMA OrderInject ==
  ASSUME NEW buf, NEW us, NEW lu, NEW ui, NEW hd, NEW de, NEW rc,
         NEW pend \in Seq(Nat), NEW inj \in Nat,
         Order(buf, us, lu, ui, hd, de, pend, rc, inj),
         NEW new \in Seq(Nat), Len(new) = Burst, \A k \in 1 .. Burst : new[k] = inj + k
  PROVE  Order(buf, us, lu, ui, hd, de, pend \o new, rc, inj + Burst)
<1> DEFINE u == Ahead(lu, ui)
           U(k) == UsedEvent(buf, us, lu, k)
           n == Len(pend)
           all == pend \o new
           N == Len(all)
           inj2 == inj + Burst
<1>1. Burst \in Nat /\ Burst >= 1 /\ n \in Nat
  BY VirtioAssumption
<1>2. /\ all \in Seq(Nat) /\ N = n + Burst
      /\ \A k \in 1 .. n + Burst : all[k] = IF k <= n THEN pend[k] ELSE new[k - n]
  BY ConcatProperties
<1>3. N \in Nat
  BY <1>1, <1>2
<1>4. ASSUME NEW k \in 1 .. N
      PROVE  \/ k \in 1 .. n /\ all[k] = pend[k]
             \/ k > n /\ all[k] = inj + (k - n) /\ k - n \in 1 .. Burst
  <2>1. \A i \in 1 .. Burst : new[i] = inj + i
    OBVIOUS
  <2> HIDE DEF n, N
  <2>2. k \in 1 .. n + Burst /\ (k <= n => k \in 1 .. n) /\ (k > n => k - n \in 1 .. Burst) /\ (k <= n \/ k > n)
    BY <1>1, <1>2
  <2> QED
    BY <1>1, <1>2, <2>1, <2>2
<1>6. /\ \A j, k \in 1 .. Len(rc) : j < k => rc[j] < rc[k]
      /\ \A k \in 1 .. Len(rc) : rc[k] \in 1 .. inj
      /\ \A k \in 0 .. u - 1 : us[Slot(lu + k)].len = 1 /\ OnItsWay(U(k), rc, inj)
      /\ \A j, k \in 0 .. u - 1 : j < k => U(j) < U(k)
      /\ de # NoHead => OnItsWay(buf[de], rc, inj) /\ \A k \in 0 .. u - 1 : buf[de] < U(k)
      /\ hd # NoHead => OnItsWay(buf[hd], rc, inj) /\ (\A k \in 0 .. u - 1 : U(k) < buf[hd])
                        /\ (de # NoHead => buf[de] < buf[hd])
      /\ \A k \in 1 .. n : /\ OnItsWay(pend[k], rc, inj)
                           /\ \A j \in 0 .. u - 1 : U(j) < pend[k]
                           /\ de # NoHead => buf[de] < pend[k]
                           /\ hd # NoHead => buf[hd] < pend[k]
      /\ \A j, k \in 1 .. n : j < k => pend[j] < pend[k]
  BY DEF Order
<1> HIDE DEF u, U, n, N, inj2, all
<1>8. /\ inj2 \in Nat /\ inj2 = inj + Burst /\ \A y \in 1 .. inj : y \in 1 .. inj2
      /\ \A y \in 1 .. Burst : inj + y \in 1 .. inj2 /\ \A z \in 1 .. inj : z < inj + y
  BY <1>1 DEF inj2
<1>9. \A y : OnItsWay(y, rc, inj) => OnItsWay(y, rc, inj2) /\ y \in 1 .. inj
  BY <1>8 DEF OnItsWay
<1>10. \A y \in 1 .. Burst : OnItsWay(inj + y, rc, inj2)
  BY <1>6, <1>8 DEF OnItsWay
<1>11. \A k \in 1 .. N : /\ OnItsWay(all[k], rc, inj2)
                         /\ \A j \in 0 .. u - 1 : U(j) < all[k]
                         /\ de # NoHead => buf[de] < all[k]
                         /\ hd # NoHead => buf[hd] < all[k]
  <2> SUFFICES ASSUME NEW k \in 1 .. N
               PROVE  /\ OnItsWay(all[k], rc, inj2)
                      /\ \A j \in 0 .. u - 1 : U(j) < all[k]
                      /\ de # NoHead => buf[de] < all[k]
                      /\ hd # NoHead => buf[hd] < all[k]
    OBVIOUS
  <2>1. CASE k \in 1 .. n /\ all[k] = pend[k]
    BY <1>6, <1>9, <2>1
  <2>2. CASE k > n /\ all[k] = inj + (k - n) /\ k - n \in 1 .. Burst
    <3>1. OnItsWay(all[k], rc, inj2) /\ \A z \in 1 .. inj : z < all[k]
      BY <1>8, <1>10, <2>2
    <3> QED
      BY <1>6, <1>9, <3>1
  <2> QED
    BY <1>4, <2>1, <2>2
<1>12. \A j, k \in 1 .. N : j < k => all[j] < all[k]
  <2> SUFFICES ASSUME NEW j \in 1 .. N, NEW k \in 1 .. N, j < k
               PROVE  all[j] < all[k]
    OBVIOUS
  <2>1. CASE k \in 1 .. n /\ all[k] = pend[k]
    <3>1. ~(j > n)
      BY <1>1, <2>1
    <3>2. j \in 1 .. n /\ all[j] = pend[j]
      BY <1>4, <3>1
    <3> QED
      BY <1>6, <2>1, <3>2
  <2>2. CASE k > n /\ all[k] = inj + (k - n) /\ k - n \in 1 .. Burst
    <3>1. CASE j \in 1 .. n /\ all[j] = pend[j]
      <4>1. all[j] \in 1 .. inj
        BY <1>6, <1>9, <3>1
      <4> QED
        BY <1>8, <2>2, <4>1
    <3>2. CASE j > n /\ all[j] = inj + (j - n) /\ j - n \in 1 .. Burst
      <4>1. inj + (j - n) < inj + (k - n)
        BY <1>1, <1>3
      <4> QED
        BY <2>2, <3>2, <4>1
    <3> QED
      BY <1>4, <3>1, <3>2
  <2> QED
    BY <1>4, <2>1, <2>2
<1>13. Order(buf, us, lu, ui, hd, de, all, rc, inj2)
  <2>1. /\ \A k \in 1 .. Len(rc) : rc[k] \in 1 .. inj2
        /\ \A k \in 0 .. u - 1 : us[Slot(lu + k)].len = 1 /\ OnItsWay(U(k), rc, inj2)
        /\ de # NoHead => OnItsWay(buf[de], rc, inj2)
        /\ hd # NoHead => OnItsWay(buf[hd], rc, inj2)
    BY <1>6, <1>8, <1>9
  <2> QED
    BY <1>6, <1>11, <1>12, <2>1 DEF Order, u, U, N
<1> QED
  BY <1>13 DEF all, inj2

\* A full queue drops its oldest events.
LEMMA OrderCut ==
  ASSUME NEW buf, NEW us, NEW lu, NEW ui, NEW hd, NEW de, NEW rc, NEW inj,
         NEW all \in Seq(Nat), NEW over \in 0 .. Len(all),
         Order(buf, us, lu, ui, hd, de, all, rc, inj)
  PROVE  /\ Order(buf, us, lu, ui, hd, de, SubSeq(all, over + 1, Len(all)), rc, inj)
         /\ SubSeq(all, over + 1, Len(all)) \in Seq(Nat)
         /\ Len(SubSeq(all, over + 1, Len(all))) = Len(all) - over
         /\ \A k \in 1 .. over : all[k] \in 1 .. inj
<1> DEFINE u == Ahead(lu, ui)
           U(k) == UsedEvent(buf, us, lu, k)
           N == Len(all)
           p == SubSeq(all, over + 1, N)
<1>1. N \in Nat /\ over \in 0 .. N
  OBVIOUS
<1>2. p \in Seq(Nat) /\ Len(p) = N - over /\ \A k \in 1 .. N - over : p[k] = all[over + k]
  BY <1>1, SplitProperties
<1>3. /\ \A k \in 1 .. N : /\ OnItsWay(all[k], rc, inj)
                           /\ \A j \in 0 .. u - 1 : U(j) < all[k]
                           /\ de # NoHead => buf[de] < all[k]
                           /\ hd # NoHead => buf[hd] < all[k]
      /\ \A j, k \in 1 .. N : j < k => all[j] < all[k]
  BY DEF Order
<1> HIDE DEF u, U, p, N
<1>4. \A k \in 1 .. N - over : over + k \in 1 .. N
  BY <1>1
<1>5. \A k \in 1 .. N - over : /\ OnItsWay(p[k], rc, inj)
                               /\ \A j \in 0 .. u - 1 : U(j) < p[k]
                               /\ de # NoHead => buf[de] < p[k]
                               /\ hd # NoHead => buf[hd] < p[k]
  BY <1>2, <1>3, <1>4
<1>6. \A j, k \in 1 .. N - over : j < k => p[j] < p[k]
  <2> SUFFICES ASSUME NEW j \in 1 .. N - over, NEW k \in 1 .. N - over, j < k
               PROVE  p[j] < p[k]
    OBVIOUS
  <2>1. over + j < over + k
    BY <1>1
  <2> QED
    BY <1>2, <1>3, <1>4, <2>1
<1>7. Order(buf, us, lu, ui, hd, de, p, rc, inj)
  BY <1>2, <1>5, <1>6 DEF Order, u, U
<1>8. \A k \in 1 .. over : k \in 1 .. N
  BY <1>1
<1>9. \A k \in 1 .. over : all[k] \in 1 .. inj
  BY <1>3, <1>8 DEF OnItsWay
<1> QED
  BY <1>2, <1>7, <1>9 DEF N, p

-----------------------------------------------------------------------------
(* What the calls into the device do.                                      *)

LEMMA InRange == ASSUME NEW i \in Indices PROVE Slot(i) \in Heads /\ Inc(i) \in Indices
<1>1. i \in Nat
  BY Sizes DEF Indices
<1> QED
  BY <1>1, SlotPeriod, IncIs

LEMMA Constants == /\ 0 \in Indices /\ Burst \in Nat /\ MaxPending \in Nat \ {0}
                   /\ NoHead \notin Heads /\ QueueSize \in Nat
BY Sizes, VirtioAssumption DEF Indices, Heads, NoHead

\* The lowest free descriptor.
LEMMA LowestFree ==
  ASSUME NEW S \in SUBSET Heads, S # {}
  PROVE  (CHOOSE h \in S : \A g \in S : h <= g) \in S
<1> DEFINE R == OpToRel(<, Nat)
<1>1. IsWellFoundedOn(R, Nat)
  BY NatLessThanWellFounded
<1>2. S \subseteq Nat
  BY Sizes DEF Heads
<1>3. \A x, y \in Nat : <<y, x>> \notin R => x <= y
  BY DEF OpToRel
<1> HIDE DEF R
<1>4. \E x \in S : \A y \in S : ~(<<y, x>> \in R)
  BY <1>1, <1>2, WFMin
<1>5. \E x \in S : \A y \in S : x <= y
  BY <1>2, <1>3, <1>4
<1> QED
  BY <1>5

\* Two device states with the same queue and the same events.
SameQueue(e, d) ==
  /\ e.on = d.on /\ e.next_avail = d.next_avail /\ e.next_used = d.next_used
  /\ e.pending = d.pending /\ e.buffers = d.buffers
  /\ e.irq = d.irq /\ e.isr_status = d.isr_status

\* The I/O worker between two calls, or at the start of one.
AtStart(i) == i.head = NoHead /\ i.len = 0 /\ i.need_irq = FALSE /\ i.pc \in {"idle", "avail"}

LEMMA PollEffect ==
  ASSUME NEW d \in DevType, PollWith(d)
  PROVE  /\ dev' \in DevType /\ io' \in IoType /\ SameQueue(dev', d)
         /\ AtStart(io') /\ (io'.pc # "idle" => d.on)
<1>1. dev' \in DevType /\ SameQueue(dev', d)
  BY DEF PollWith, DevType, SameQueue
<1>2. io' \in IoType /\ AtStart(io') /\ (io'.pc # "idle" => d.on)
  BY Constants DEF PollWith, Activity, IdleIo, IoType, AtStart
<1> QED
  BY <1>1, <1>2

LEMMA MmioEffect ==
  ASSUME Types, IoControl, NEW d \in DevType, MmioWrite(d)
  PROVE  /\ dev' \in DevType /\ io' \in IoType /\ SameQueue(dev', d)
         /\ AtStart(io') /\ (io'.pc # "idle" => d.on) /\ io.pc = "idle" /\ io.head = NoHead
<1>1. io.pc = "idle" /\ io.head = NoHead /\ AtStart(io)
  BY DEF MmioWrite, AtStart, IoControl
<1>2. CASE Notified(d)
  BY <1>1, <1>2, PollEffect DEF MmioWrite
<1>3. CASE ~Notified(d)
  BY <1>1, <1>3 DEF MmioWrite, Types, SameQueue
<1> QED
  BY <1>1, <1>2, <1>3


\* The queue part of the device, without the events.
SameChains(e, d) ==
  /\ e.on = d.on /\ e.next_avail = d.next_avail /\ e.next_used = d.next_used
  /\ e.buffers = d.buffers /\ e.irq = d.irq /\ e.isr_status = d.isr_status

LEMMA InjectEffect ==
  ASSUME IInv, Inject
  PROVE  /\ dev' \in DevType /\ io' \in IoType /\ SameChains(dev', dev)
         /\ AtStart(io') /\ (io'.pc # "idle" => dev.on) /\ io.pc = "idle" /\ io.head = NoHead
         /\ Order(mem.buf, mem.used, drv.last_used, mem.used_idx, NoHead, EventHead,
                  dev'.pending, received, injected')
         /\ Len(dev'.pending) <= MaxPending /\ lost' \subseteq 1 .. injected'
         /\ injected' \in Nat /\ injected <= injected' /\ injected' <= MaxInjects * Burst
<1> DEFINE new == [k \in 1 .. Burst |-> injected + k]
           pend == dev.pending
           all == pend \o new
           over == IF Len(all) > MaxPending THEN Len(all) - MaxPending ELSE 0
           p == SubSeq(all, over + 1, Len(all))
           d == [dev EXCEPT !.pending = p]
<1>1. io.pc = "idle" /\ io.head = NoHead
  BY DEF IInv, IoControl, Inject
<1>2. /\ injected \in Nat /\ pend \in Seq(Nat) /\ received \in Seq(Nat)
      /\ mem.buf \in [Heads -> Nat] /\ mem.used \in UsedType /\ drv.last_used \in Indices
      /\ mem.used_idx \in Indices /\ EventHead \in Heads \cup {NoHead}
      /\ lost \subseteq 1 .. injected
  BY DEF IInv, Types, MemType, DevType, DrvType, DrainType, EventHead, UsedType, Bounds
<1>3. new \in Seq(Nat) /\ Len(new) = Burst /\ \A k \in 1 .. Burst : new[k] = injected + k
  BY <1>2, Constants
<1>4. /\ injected' = injected + Burst /\ lost' = lost \cup {all[k] : k \in 1 .. over}
      /\ PollWith(d) /\ injected + Burst \in Events
  BY DEF Inject
<1>5. Order(mem.buf, mem.used, drv.last_used, mem.used_idx, NoHead, EventHead,
            pend, received, injected)
  BY <1>1 DEF IInv, Ordered
<1>6. NoHead \in Heads \cup {NoHead}
  OBVIOUS
<1>7. all \in Seq(Nat) /\ Len(all) \in Nat
  <2> HIDE DEF new
  <2> QED
    BY <1>2, <1>3, ConcatProperties
<1>8. over \in 0 .. Len(all) /\ Len(all) - over <= MaxPending
  <2> HIDE DEF all
  <2> QED
    BY <1>7, Constants
<1>8a. all = pend \o new
  OBVIOUS
<1> HIDE DEF new, pend, over, all
<1>9. /\ Order(mem.buf, mem.used, drv.last_used, mem.used_idx, NoHead, EventHead,
               p, received, injected + Burst)
      /\ p \in Seq(Nat) /\ Len(p) = Len(all) - over
      /\ \A k \in 1 .. over : all[k] \in 1 .. injected + Burst
  <2>1. Order(mem.buf, mem.used, drv.last_used, mem.used_idx, NoHead, EventHead,
              all, received, injected + Burst)
    BY <1>2, <1>3, <1>5, <1>8a, OrderInject
  <2> QED
    BY <1>7, <1>8, <2>1, OrderCut
<1> HIDE DEF p
<1>10. d \in DevType /\ d.pending = p /\ SameChains(d, dev)
  BY <1>9 DEF IInv, Types, DevType, SameChains
<1> HIDE DEF d
<1>11. /\ dev' \in DevType /\ io' \in IoType /\ SameQueue(dev', d)
       /\ AtStart(io') /\ (io'.pc # "idle" => d.on)
  BY <1>4, <1>10, PollEffect
<1>12. dev'.pending = p /\ SameChains(dev', dev) /\ (io'.pc # "idle" => dev.on)
  BY <1>10, <1>11 DEF SameQueue, SameChains
<1>13. Len(p) <= MaxPending
  BY <1>8, <1>9
<1>14. /\ injected' \in Nat /\ injected <= injected' /\ injected' <= MaxInjects * Burst
  BY <1>2, <1>4, Constants, VirtioAssumption DEF Events
<1>15. lost' \subseteq 1 .. injected'
  <2>1. 1 .. injected \subseteq 1 .. injected + Burst
    BY <1>2, Constants
  <2> QED
    BY <1>2, <1>4, <1>9, <2>1
<1> QED
  BY <1>1, <1>4, <1>9, <1>11, <1>12, <1>13, <1>14, <1>15

\* A request of the HID class driver leaves the queue alone.
LEMMA HidEffect ==
  ASSUME Hid
  PROVE  UNCHANGED <<mem, dev, io, drv, lock, drain, isr, dpc, power, injected, received, lost>>
BY DEF Hid, HidActivateDevice, HidDeactivateDevice, HidClear, HidRelease, HidStep, histVars

LEMMA RepostEffect ==
  ASSUME Types, drain.head \in Heads, Repost
  PROVE  /\ drv' \in DrvType /\ drv'.cookies = drv.cookies \cup {drain.head}
         /\ drv'.last_used = drv.last_used /\ drv'.started = drv.started
         /\ drv'.reset_in_progress = drv.reset_in_progress
         /\ drain' \in DrainType /\ drain'.pc = "slot" /\ drain'.head = drain.head
BY DEF Repost, Types, DrvType, DrainType

\* The driver goes on to process the event, or drops it.
LEMMA CheckEffect ==
  ASSUME IInv, CheckEvent
  PROVE  /\ drain.pc = "event" /\ drain.head \in Heads
         /\ \/ /\ drain' \in DrainType /\ drain'.pc = "process" /\ drain'.head = drain.head
               /\ drain'.len = drain.len /\ HidActivated /\ UNCHANGED <<drv, lost>>
            \/ Repost /\ lost' = lost \cup {mem.buf[drain.head]}
         /\ UNCHANGED <<mem, dev, io, lock, isr, dpc, power, hid, injected, received>>
<1>1. drain.pc = "event" /\ drain \in DrainType /\ drain.head \in Heads
  BY DEF IInv, CheckEvent, LockControl, Types, DrainType
<1>2. CASE drain.len = 1 /\ drv.started /\ HidActivated
  <2>1. drain' = [drain EXCEPT !.pc = "process"] /\ UNCHANGED <<drv, lost>>
    BY <1>2 DEF CheckEvent
  <2>2. /\ drain' \in DrainType /\ drain'.pc = "process" /\ drain'.head = drain.head
        /\ drain'.len = drain.len
    BY <1>1, <2>1 DEF DrainType
  <2> QED
    BY <1>1, <1>2, <2>1, <2>2 DEF CheckEvent, threadVars
<1>3. CASE ~(drain.len = 1 /\ drv.started /\ HidActivated)
  BY <1>1, <1>3 DEF CheckEvent, threadVars
<1> QED
  BY <1>2, <1>3

-----------------------------------------------------------------------------
(* Types.                                                                  *)

LEMMA TypesStep == ASSUME IInv, [Next]_vars PROVE Types'
<1> USE DEF IInv
<1>0. /\ mem \in MemType /\ dev \in DevType /\ io \in IoType /\ drv \in DrvType
      /\ drain \in DrainType /\ lock \in {"none", "dpc", "power"}
      /\ isr \in {"idle", "latch"} /\ dpc \in {"idle", "claim", "lock", "drain"}
      /\ power \in DownPower \cup UpPower /\ injected \in Nat /\ received \in Seq(Nat)
      /\ lost \subseteq Nat
  BY DEF Types
<1>0a. IdleIo \in IoType /\ IdleDrain \in DrainType /\ ResetDevice \in DevType
  BY Constants DEF IdleIo, IdleDrain, ResetDevice, IoType, DrainType, DevType
<1>1. CASE Inject
  <2>1. \A k \in 1 .. injected' : k \in Nat
    BY <1>1, InjectEffect
  <2> QED
    BY <1>0, <1>1, <2>1, InjectEffect DEF Inject, Types, threadVars
<1>2. CASE Tick
  BY <1>0, <1>2, PollEffect DEF Tick, Types, threadVars, histVars
<1>3. CASE Restore
  <2>1. \A k \in 1 .. Len(dev.pending) : dev.pending[k] \in Nat
    BY <1>0 DEF DevType
  <2>2. lost' \subseteq Nat
    BY <1>0, <1>3, <2>1 DEF Restore
  <2>3. dev' \in DevType
    <3> DEFINE d == [dev EXCEPT !.pending = << >>, !.buffers = << >>]
    <3>1. d \in DevType
      <4>1. << >> \in Seq(Nat) /\ << >> \in Seq(Heads)
        OBVIOUS
      <4> QED
        BY <1>0, <4>1 DEF DevType
    <3>2. dev' = Rewound(d)
      BY <1>3 DEF Restore
    <3> HIDE DEF d
    <3> QED
      BY <3>1, <3>2 DEF Rewound, DevType
  <2> QED
    BY <1>0, <1>3, <2>2, <2>3 DEF Restore, Types, threadVars
<1>4. CASE ReadAvailIdx
  <2>1. io' \in IoType
    <3>1. CASE io' = [io EXCEPT !.pc = "flush", !.after = "signal"]
      BY <1>0, <3>1 DEF IoType
    <3>2. CASE io' = [io EXCEPT !.pc = "pop", !.budget = @ - 1] /\ io.budget # 0
      <4>1. io.budget - 1 \in Nat
        BY <1>0, <3>2 DEF IoType
      <4> QED
        BY <1>0, <3>2, <4>1 DEF IoType
    <3> QED
      BY <1>4, <3>1, <3>2 DEF ReadAvailIdx
  <2> QED
    BY <1>0, <1>4, <2>1 DEF ReadAvailIdx, Types, threadVars, histVars
<1>5. CASE PopChain
  <2>1. Inc(dev.next_avail) \in Indices /\ mem.avail[Slot(dev.next_avail)] \in Heads
    BY <1>0, InRange DEF DevType, MemType
  <2>2. dev' \in DevType
    <3> DEFINE x == mem.avail[Slot(dev.next_avail)]
               b == IF Len(dev.buffers) >= QueueSize THEN dev.buffers ELSE Append(dev.buffers, x)
    <3>1. dev' = [dev EXCEPT !.next_avail = Inc(dev.next_avail), !.buffers = b]
      BY <1>5 DEF PopChain
    <3>2. dev.buffers \in Seq(Heads)
      BY <1>0 DEF DevType
    <3>3. b \in Seq(Heads)
      BY <2>1, <3>2
    <3> HIDE DEF b
    <3> QED
      BY <1>0, <2>1, <3>1, <3>3 DEF DevType
  <2>3. io' \in IoType
    BY <1>0, <1>5, <2>1 DEF PopChain, IoType
  <2> QED
    BY <1>0, <1>5, <2>2, <2>3 DEF PopChain, Types, threadVars, histVars
<1>6. CASE FlushEvent
  <2>1. /\ Head(dev.buffers) \in Heads /\ Tail(dev.buffers) \in Seq(Heads)
        /\ Head(dev.pending) \in Nat /\ Tail(dev.pending) \in Seq(Nat)
    BY <1>0, <1>6 DEF FlushEvent, DevType
  <2>2. dev' \in DevType
    BY <1>0, <1>6, <2>1 DEF FlushEvent, DevType
  <2>3. io' \in IoType
    BY <1>0, <1>6, <2>1 DEF FlushEvent, IoType
  <2>4. mem' \in MemType
    BY <1>0, <1>6, <2>1 DEF FlushEvent, MemType
  <2> QED
    BY <1>0, <1>6, <2>2, <2>3, <2>4 DEF FlushEvent, Types, threadVars, histVars
<1>7. CASE FlushDone
  <2>1. io' \in IoType
    BY <1>0, <1>7 DEF FlushDone, IoType
  <2> QED
    BY <1>0, <1>7, <2>1 DEF FlushDone, Types, threadVars, histVars
<1>8. CASE WriteUsedElem
  <2>1. Slot(dev.next_used) \in Heads
    BY <1>0, InRange DEF DevType
  <2>2. io.head \in Heads /\ io.len \in {0, 1}
    BY <1>0, <1>8 DEF WriteUsedElem, IoControl, IoType
  <2>3. mem' \in MemType
    BY <1>0, <1>8, <2>1, <2>2 DEF WriteUsedElem, MemType
  <2>4. io' \in IoType
    BY <1>0, <1>8 DEF WriteUsedElem, IoType
  <2> QED
    BY <1>0, <1>8, <2>3, <2>4 DEF WriteUsedElem, Types, threadVars, histVars
<1>9. CASE WriteUsedIdx
  <2>1. Inc(dev.next_used) \in Indices
    BY <1>0, InRange DEF DevType
  <2>2. dev' \in DevType
    BY <1>0, <1>9, <2>1 DEF WriteUsedIdx, DevType
  <2>3. mem' \in MemType
    BY <1>0, <1>9, <2>1 DEF WriteUsedIdx, MemType
  <2>4. io' \in IoType
    BY <1>0, <1>9 DEF WriteUsedIdx, IoType
  <2> QED
    BY <1>0, <1>9, <2>2, <2>3, <2>4 DEF WriteUsedIdx, Types, threadVars, histVars
<1>10. CASE Signal
  <2>1. dev' \in DevType
    BY <1>0, <1>10 DEF Signal, DevType
  <2> QED
    BY <1>0, <1>0a, <1>10, <2>1 DEF Signal, Types, threadVars, histVars
<1>11. CASE ReadUsedIdx
  <2>1. drv' \in DrvType
    BY <1>0, <1>11 DEF ReadUsedIdx, DrvType, MemType
  <2>2. drain' \in DrainType
    BY <1>0, <1>11 DEF ReadUsedIdx, DrainType
  <2> QED
    BY <1>0, <1>11, <2>1, <2>2 DEF ReadUsedIdx, Types, threadVars, histVars
<1>12. CASE TakeUsed
  <2>1. Inc(drv.last_used) \in Indices /\ mem.used[Slot(drv.last_used)] \in [id : Heads, len : {0, 1}]
    BY <1>0, InRange DEF DrvType, MemType
  <2>2. drv' \in DrvType
    BY <1>0, <1>12, <2>1 DEF TakeUsed, DrvType
  <2>3. drain' \in DrainType
    BY <1>0, <1>12, <2>1 DEF TakeUsed, DrainType
  <2> QED
    BY <1>0, <1>12, <2>2, <2>3 DEF TakeUsed, Types, threadVars, histVars
<1>13. CASE ProcessEvent
  <2>1. drain.head \in Heads
    BY <1>0, <1>13 DEF ProcessEvent, LockControl, DrainType
  <2>2. mem.buf[drain.head] \in Nat
    BY <1>0, <2>1 DEF MemType
  <2>3. received' \in Seq(Nat) /\ lost' \subseteq Nat
    <3>1. Append(received, mem.buf[drain.head]) \in Seq(Nat)
      BY <1>0, <2>2
    <3> QED
      BY <1>0, <1>13, <2>2, <3>1 DEF ProcessEvent
  <2>4. drv' \in DrvType /\ drain' \in DrainType
    BY <1>13, <2>1, RepostEffect DEF ProcessEvent
  <2> QED
    BY <1>0, <1>13, <2>3, <2>4 DEF ProcessEvent, Types, threadVars, histVars
<1>13a. CASE CheckEvent
  <2>1. mem.buf[drain.head] \in Nat
    BY <1>0, <1>13a, CheckEffect DEF MemType
  <2>2. drv' \in DrvType /\ drain' \in DrainType /\ lost' \subseteq Nat
    BY <1>0, <1>13a, <2>1, CheckEffect, RepostEffect
  <2> QED
    BY <1>0, <1>13a, <2>2, CheckEffect DEF Types
<1>13b. CASE Hid
  BY <1>0, <1>13b, HidEffect DEF Types
<1>14. CASE PublishSlot
  <2>1. drain.head \in Heads /\ Slot(mem.avail_idx) \in Heads
    BY <1>0, <1>14, InRange DEF PublishSlot, LockControl, DrainType, MemType
  <2>2. mem' \in MemType
    BY <1>0, <1>14, <2>1 DEF PublishSlot, MemType
  <2>3. drain' \in DrainType
    BY <1>0, <1>14 DEF PublishSlot, DrainType
  <2> QED
    BY <1>0, <1>14, <2>2, <2>3 DEF PublishSlot, Types, threadVars, histVars
<1>15. CASE Publish
  <2>1. Inc(mem.avail_idx) \in Indices
    BY <1>0, InRange DEF MemType
  <2>2. mem' \in MemType
    BY <1>0, <1>15, <2>1 DEF Publish, MemType
  <2>3. drain' \in DrainType
    BY <1>0, <1>0a, <1>15 DEF Publish, DrainType
  <2> QED
    BY <1>0, <1>15, <2>2, <2>3 DEF Publish, Types, threadVars, histVars
<1>16. CASE Kick
  <2>1. [dev EXCEPT !.pending_notify = TRUE] \in DevType
    BY <1>0 DEF DevType
  <2>2. dev' \in DevType /\ io' \in IoType
    BY <1>0, <1>16, <2>1, MmioEffect DEF Kick
  <2>3. drain' \in DrainType
    BY <1>0, <1>16 DEF Kick, DrainType
  <2> QED
    BY <1>0, <1>16, <2>2, <2>3 DEF Kick, Types, threadVars, histVars
<1>17. CASE Unlock
  BY <1>0, <1>0a, <1>17 DEF Unlock, Types, threadVars, histVars, UpPower
<1>18. CASE Interrupt
  <2>1. drv' \in DrvType /\ dev' \in DevType
    BY <1>0, <1>18 DEF Interrupt, IsrRead, IsrLatch, DpcStart, DpcClaim, DpcLock, DrvType, DevType
  <2>2. drain' \in DrainType
    BY <1>0, <1>0a, <1>18 DEF Interrupt, IsrRead, IsrLatch, DpcStart, DpcClaim, DpcLock, DrainType
  <2> QED
    BY <1>0, <1>18, <2>1, <2>2
    DEF Interrupt, IsrRead, IsrLatch, DpcStart, DpcClaim, DpcLock, Types, threadVars, histVars
<1>19. CASE NegotiateFeatures \/ ExitResetDevice
  <2>1. lost' \subseteq Nat
    <3>1. lost' \subseteq lost \cup 1 .. injected
      BY <1>19 DEF NegotiateFeatures, ExitResetDevice, ResetStep
    <3> QED
      BY <1>0, <3>1
  <2> QED
    BY <1>0, <1>0a, <1>19, <2>1
    DEF NegotiateFeatures, ExitResetDevice, ResetStep, At, Goto, Types, DownPower
<1>20. CASE EntryReset \/ ExitReset
  <2>1. mem' \in MemType /\ drv' \in DrvType
    BY <1>0, <1>20, Constants DEF EntryReset, ExitReset, ResetRing, MemType, DrvType
  <2> QED
    BY <1>0, <1>20, <2>1 DEF EntryReset, ExitReset, ResetRing, At, Goto, Types, DownPower, histVars
<1>21. CASE SetupQueue
  <2>1. [dev EXCEPT !.on = TRUE, !.next_avail = 0, !.next_used = 0] \in DevType
    BY <1>0, Constants DEF DevType
  <2>2. dev' \in DevType /\ io' \in IoType
    BY <1>0, <1>21, <2>1, MmioEffect DEF SetupQueue
  <2> QED
    BY <1>0, <1>21, <2>2 DEF SetupQueue, At, Goto, Types, UpPower, histVars
<1>22. CASE LockForPost \/ FinalDrain
  <2>1. drain' \in DrainType
    BY <1>0a, <1>22 DEF LockForPost, FinalDrain, DrainType
  <2> QED
    BY <1>0, <1>22, <2>1 DEF LockForPost, FinalDrain, Types, threadVars, histVars
<1>23. CASE AddBuffer
  <2> DEFINE free == Heads \ drv.cookies
             h == CHOOSE h \in free : \A g \in free : h <= g
  <2>1. free # {} => h \in free
    <3>1. free \in SUBSET Heads
      OBVIOUS
    <3> HIDE DEF free
    <3> QED
      BY <3>1, LowestFree
  <2>2. drv' \in DrvType /\ drain' \in DrainType
    <3>1. CASE free = {}
      BY <1>0, <1>23, <3>1 DEF AddBuffer, DrvType, DrainType
    <3>2. CASE free # {}
      <4>1. /\ drain' = [drain EXCEPT !.pc = "slot", !.head = h]
            /\ drv' = [drv EXCEPT !.cookies = @ \cup {h}]
        BY <1>23, <3>2 DEF AddBuffer
      <4>2. h \in Heads
        BY <2>1, <3>2
      <4> HIDE DEF h
      <4> QED
        BY <1>0, <4>1, <4>2 DEF DrvType, DrainType
    <3> QED
      BY <3>1, <3>2
  <2> QED
    BY <1>0, <1>23, <2>2 DEF AddBuffer, Types, threadVars, histVars
<1>24. CASE Start \/ EnableInterrupt \/ Resume \/ Quiesce \/ DisableInterrupt
  <2>1. drv' \in DrvType
    BY <1>0, <1>24 DEF Start, EnableInterrupt, Resume, Quiesce, DisableInterrupt, DrvType
  <2> QED
    BY <1>0, <1>24, <2>1
    DEF Start, EnableInterrupt, Resume, Quiesce, DisableInterrupt, At, Goto, Types, UpPower, histVars
<1>25. CASE DriverOk
  <2>1. dev' \in DevType /\ io' \in IoType
    BY <1>0, <1>25, MmioEffect DEF DriverOk
  <2> QED
    BY <1>0, <1>25, <2>1 DEF DriverOk, At, Goto, Types, UpPower, histVars
<1>26. CASE Stop
  <2>1. drv' \in DrvType
    BY <1>0, <1>26 DEF Stop, DrvType
  <2> QED
    BY <1>0, <1>26, <2>1 DEF Stop, At, Goto, Types, UpPower
<1>27. CASE WaitForDrain \/ WaitForLock
  BY <1>0, <1>27 DEF WaitForDrain, WaitForLock, At, Goto, Types, UpPower, histVars
<1>28. CASE UNCHANGED vars
  BY <1>0, <1>28 DEF vars, Types
<1> QED
  BY <1>1, <1>2, <1>3, <1>4, <1>5, <1>6, <1>7, <1>8, <1>9, <1>10, <1>11, <1>12, <1>13, <1>14,
     <1>15, <1>16, <1>17, <1>18, <1>19, <1>20, <1>21, <1>22, <1>23, <1>24, <1>25, <1>26, <1>27,
     <1>13a, <1>13b, <1>28 DEF Next, Device, Drain, D0Entry, D0Exit


-----------------------------------------------------------------------------
(* What ownership says about the next step of the device and the driver.   *)

\* The values that the lemmas about the ring are about.
LEMMA RingTypes ==
  ASSUME IInv
  PROVE  /\ mem.avail \in [Heads -> Heads] /\ mem.used \in UsedType
         /\ mem.buf \in [Heads -> Nat] /\ mem.avail_idx \in Indices
         /\ mem.used_idx \in Indices /\ dev.next_avail \in Indices
         /\ dev.next_used \in Indices /\ drv.last_used \in Indices
         /\ dev.buffers \in Seq(Heads) /\ dev.pending \in Seq(Nat)
         /\ io.head \in Heads \cup {NoHead} /\ drain.head \in Heads \cup {NoHead}
         /\ EventHead \in Heads \cup {NoHead} /\ InDriver \in SUBSET Heads
         /\ received \in Seq(Nat) /\ injected \in Nat /\ drv.cookies \in SUBSET Heads
BY DEF IInv, Types, MemType, DevType, IoType, DrvType, DrainType, UsedType, EventHead,
       InDriver, Held

\* PopChain never finds the queue full: nothing is completed empty.
LEMMA PopFits ==
  ASSUME IInv, io.pc = "pop"
  PROVE  /\ dev.on /\ io.head = NoHead /\ ~(Len(dev.buffers) >= QueueSize)
         /\ dev.next_avail # mem.avail_idx
<1>1. dev.on /\ io.head = NoHead /\ dev.next_avail # mem.avail_idx
  BY DEF IInv, IoControl, HalfDone
<1>2. /\ DevRing(mem.avail, mem.avail_idx, dev.next_used, dev.next_avail, dev.buffers, NoHead)
      /\ Owned(mem.avail, mem.avail_idx, dev.next_used, mem.used, drv.last_used, InDriver)
  BY <1>1 DEF IInv, Ring
<1>3. Len(dev.buffers) < Ahead(dev.next_used, mem.avail_idx)
  BY <1>1, <1>2, RingTypes, DevPop
<1>4. /\ Ahead(dev.next_used, mem.avail_idx) \in Nat /\ Ahead(drv.last_used, dev.next_used) \in Nat
      /\ Ahead(dev.next_used, mem.avail_idx) + Ahead(drv.last_used, dev.next_used) <= QueueSize
  BY <1>2, RingTypes, OwnedFacts
<1>5. Len(dev.buffers) \in Nat
  BY RingTypes
<1> QED
  BY <1>1, <1>3, <1>4, <1>5, Constants

\* ReadUsedIdx never finds more entries than the queue holds.
LEMMA ReadFits ==
  ASSUME IInv, drain.pc \in {"used", "take"}
  PROVE  /\ dev.on /\ mem.used_idx = dev.next_used
         /\ Ahead(drv.last_used, mem.used_idx) \in 0 .. QueueSize
<1>1. dev.on /\ mem.used_idx = dev.next_used
  BY DEF IInv, IoControl, LockControl, Types, UpPower
<1>2. Owned(mem.avail, mem.avail_idx, dev.next_used, mem.used, drv.last_used, InDriver)
  BY <1>1 DEF IInv, Ring
<1>3. /\ Ahead(dev.next_used, mem.avail_idx) \in Nat /\ Ahead(drv.last_used, dev.next_used) \in Nat
      /\ Ahead(dev.next_used, mem.avail_idx) + Ahead(drv.last_used, dev.next_used) <= QueueSize
  BY <1>2, RingTypes, OwnedFacts
<1> QED
  BY <1>1, <1>3, Constants

\* TakeUsed finds a completed event, and the cookie of its buffer.
LEMMA TakeFits ==
  ASSUME IInv, drain.pc = "take"
  PROVE  LET e == mem.used[Slot(drv.last_used)]
         IN  /\ e.id \in Heads /\ e.id \in drv.cookies /\ e.len = 1
             /\ drain.head = NoHead /\ drv.last_used # mem.used_idx
             /\ dev.on /\ mem.used_idx = dev.next_used
             /\ Owned(mem.avail, mem.avail_idx, dev.next_used, mem.used, Inc(drv.last_used),
                      InDriver \cup {e.id})
             /\ Order(mem.buf, mem.used, Inc(drv.last_used), mem.used_idx, io.head, e.id,
                      dev.pending, received, injected)
<1> DEFINE e == mem.used[Slot(drv.last_used)]
<1>1. dev.on /\ mem.used_idx = dev.next_used
  BY ReadFits
<1>2. drain.head = NoHead /\ drv.last_used # mem.used_idx
  BY DEF IInv, LockControl, HalfDone
<1>3. Owned(mem.avail, mem.avail_idx, dev.next_used, mem.used, drv.last_used, InDriver)
  BY <1>1 DEF IInv, Ring
<1>4. /\ e.id \in Heads \ InDriver
      /\ Owned(mem.avail, mem.avail_idx, dev.next_used, mem.used, Inc(drv.last_used),
               InDriver \cup {e.id})
  <2>1. drv.last_used # dev.next_used
    BY <1>1, <1>2
  <2>2. /\ mem.avail \in [Heads -> Heads] /\ mem.avail_idx \in Indices
        /\ dev.next_used \in Indices /\ mem.used \in UsedType
        /\ drv.last_used \in Indices /\ InDriver \in SUBSET Heads
    BY RingTypes
  <2> QED
    BY <1>3, <2>1, <2>2, OwnedTaken
<1>5. e.id \in drv.cookies
  BY <1>4 DEF InDriver, Held
<1>6. EventHead = NoHead
  BY DEF EventHead
<1>7. Order(mem.buf, mem.used, drv.last_used, mem.used_idx, io.head, NoHead,
            dev.pending, received, injected)
  BY <1>6 DEF IInv, Ordered
<1>8. /\ Order(mem.buf, mem.used, Inc(drv.last_used), mem.used_idx, io.head, e.id,
               dev.pending, received, injected)
      /\ e.len = 1
  BY <1>2, <1>7, RingTypes, OrderTaken
<1> QED
  BY <1>1, <1>2, <1>4, <1>5, <1>8

-----------------------------------------------------------------------------
(* Control.                                                                *)

LEMMA IoControlStep == ASSUME IInv, [Next]_vars PROVE IoControl'
<1>0. Types /\ IoControl /\ LockControl
  BY DEF IInv
<1>1. CASE Inject
  BY <1>0, <1>1, InjectEffect DEF Inject, IoControl, SameChains, AtStart, threadVars
<1>2. CASE Tick
  <2>1. AtStart(io') /\ SameQueue(dev', dev) /\ (io'.pc # "idle" => dev.on)
    BY <1>0, <1>2, PollEffect DEF Tick, Types
  <2> QED
    BY <1>0, <1>2, <2>1 DEF Tick, IoControl, SameQueue, AtStart, threadVars, histVars
<1>3. CASE Restore
  <2>1. dev'.on = dev.on /\ dev'.next_used = dev.next_used /\ dev'.buffers = << >>
    BY <1>0, <1>3 DEF Restore, Rewound, Types, DevType
  <2> QED
    BY <1>0, <1>3, <2>1 DEF Restore, IoControl, threadVars
<1>4. CASE ReadAvailIdx
  BY <1>0, <1>4 DEF ReadAvailIdx, IoControl, threadVars, histVars, Types, IoType
<1>5. CASE PopChain
  <2>1. /\ io' = [io EXCEPT !.pc = "flush", !.after = "avail"]
        /\ dev' = [dev EXCEPT !.next_avail = Inc(dev.next_avail),
                              !.buffers = Append(dev.buffers, mem.avail[Slot(dev.next_avail)])]
    BY <1>5, PopFits DEF PopChain
  <2>2. /\ io'.pc = "flush" /\ io'.head = io.head /\ io'.len = io.len /\ io'.need_irq = io.need_irq
        /\ dev'.on = dev.on /\ dev'.next_used = dev.next_used
    BY <1>0, <2>1 DEF Types, DevType, IoType
  <2> QED
    BY <1>0, <1>5, <2>2, PopFits DEF PopChain, IoControl, threadVars, histVars
<1>6. CASE FlushEvent
  <2>1. Head(dev.buffers) \in Heads /\ Head(dev.buffers) # NoHead
    BY <1>0, <1>6, HeadIsNot DEF FlushEvent, Types, DevType
  <2>2. /\ io'.pc = "elem" /\ io'.head = Head(dev.buffers) /\ io'.len = 1
        /\ dev'.on = dev.on /\ dev'.next_used = dev.next_used /\ mem'.used_idx = mem.used_idx
        /\ mem'.avail_idx = mem.avail_idx
    BY <1>0, <1>6 DEF FlushEvent, Types, DevType, IoType, MemType
  <2> QED
    BY <1>0, <1>6, <2>1, <2>2 DEF FlushEvent, IoControl, threadVars, histVars
<1>7. CASE FlushDone
  BY <1>0, <1>7 DEF FlushDone, IoControl, threadVars, histVars, Types, IoType
<1>8. CASE WriteUsedElem
  <2>1. /\ io'.pc = "index" /\ io'.head = io.head /\ io'.len = io.len
        /\ mem'.used_idx = mem.used_idx /\ mem'.avail_idx = mem.avail_idx
    BY <1>0, <1>8 DEF WriteUsedElem, Types, IoType, MemType
  <2> QED
    BY <1>0, <1>8, <2>1 DEF WriteUsedElem, IoControl, threadVars, histVars
<1>9. CASE WriteUsedIdx
  <2>1. io.len = 1
    BY <1>0, <1>9 DEF WriteUsedIdx, IoControl
  <2>2. /\ io'.pc = "flush" /\ io'.head = NoHead /\ io'.len = 0 /\ dev'.on = dev.on
        /\ dev'.next_used = mem'.used_idx
    BY <1>0, <1>9, <2>1 DEF WriteUsedIdx, Types, IoType, DevType, MemType
  <2> QED
    BY <1>0, <1>9, <2>2 DEF WriteUsedIdx, IoControl, threadVars, histVars, UpPower
<1>10. CASE Signal
  <2>1. /\ dev'.on = dev.on /\ dev'.next_used = dev.next_used /\ dev'.buffers = dev.buffers
        /\ io'.pc = "idle" /\ io'.head = NoHead /\ io'.len = 0 /\ io'.need_irq = FALSE
    BY <1>0, <1>10 DEF Signal, Types, DevType, IdleIo
  <2> QED
    BY <1>0, <1>10, <2>1 DEF Signal, IoControl, threadVars, histVars
<1>11. CASE \/ ReadUsedIdx \/ TakeUsed \/ CheckEvent \/ ProcessEvent
            \/ PublishSlot \/ Publish \/ AddBuffer
  <2>1. /\ mem'.used_idx = mem.used_idx /\ dev' = dev /\ io' = io /\ power' = power
    BY <1>0, <1>11 DEF ReadUsedIdx, TakeUsed, CheckEvent, ProcessEvent, PublishSlot, Publish,
       AddBuffer, Types, MemType, threadVars
  <2>2. power # "setup"
    BY <1>0, <1>11 DEF ReadUsedIdx, TakeUsed, CheckEvent, ProcessEvent, PublishSlot, Publish,
       AddBuffer, LockControl, Types
  <2> QED
    BY <1>0, <2>1, <2>2 DEF IoControl
<1>12. CASE Kick
  <2>1. [dev EXCEPT !.pending_notify = TRUE] \in DevType
        /\ SameQueue([dev EXCEPT !.pending_notify = TRUE], dev)
    BY <1>0 DEF Types, DevType, SameQueue
  <2>2. CASE drain.reposted
    <3>1. /\ SameQueue(dev', [dev EXCEPT !.pending_notify = TRUE])
          /\ AtStart(io') /\ (io'.pc # "idle" => dev.on)
      BY <1>0, <1>12, <2>1, <2>2, MmioEffect DEF Kick, SameQueue
    <3> QED
      BY <1>0, <1>12, <2>1, <3>1 DEF Kick, IoControl, SameQueue, AtStart, threadVars, histVars
  <2>3. CASE ~drain.reposted
    BY <1>0, <1>12, <2>3 DEF Kick, IoControl, threadVars, histVars
  <2> QED
    BY <2>2, <2>3
<1>13. CASE Unlock
  <2>1. power \in UpPower /\ power' \in UpPower
    BY <1>0, <1>13 DEF Unlock, LockControl, Types, UpPower
  <2> QED
    BY <1>0, <1>13, <2>1 DEF Unlock, IoControl, UpPower
<1>14. CASE Interrupt
  <2>1. /\ dev'.on = dev.on /\ dev'.next_used = dev.next_used /\ dev'.buffers = dev.buffers
        /\ drv'.last_used = drv.last_used /\ drv'.cookies = drv.cookies
        /\ mem' = mem /\ io' = io /\ power' = power
    BY <1>0, <1>14 DEF Interrupt, IsrRead, IsrLatch, DpcStart, DpcClaim, DpcLock, Types,
       DevType, DrvType
  <2> QED
    BY <1>0, <2>1 DEF IoControl
<1>15. CASE NegotiateFeatures \/ ExitResetDevice
  <2>1. /\ dev' = ResetDevice /\ power' \in {"ring", "ring_off"} /\ io.pc = "idle" /\ io' = io
    BY <1>15 DEF NegotiateFeatures, ExitResetDevice, ResetStep, Goto
  <2>2. dev'.on = FALSE /\ dev'.buffers = << >>
    BY <2>1 DEF ResetDevice
  <2>3. ~(power' \in UpPower) /\ power' # "setup"
    BY <2>1 DEF UpPower
  <2>4. (dev'.on <=> power' \in UpPower)
    BY <2>2, <2>3
  <2> QED
    BY <1>0, <2>1, <2>2, <2>4, <2>3 DEF IoControl
<1>16. CASE EntryReset \/ ExitReset
  <2>1. /\ power \in {"ring", "ring_off"} /\ power' \in {"setup", "off"} /\ dev' = dev /\ io' = io
    BY <1>16 DEF EntryReset, ExitReset, ResetRing, At, Goto
  <2>2. mem'.avail_idx = 0 /\ mem'.used_idx = 0 /\ drv'.last_used = 0 /\ drv'.cookies = {}
    BY <1>0, <1>16 DEF EntryReset, ExitReset, ResetRing, Types, MemType, DrvType
  <2>3. ~(power \in UpPower) /\ ~(power' \in UpPower)
    BY <2>1 DEF UpPower
  <2>4. ~dev.on /\ (dev'.on <=> power' \in UpPower)
    BY <1>0, <2>1, <2>3 DEF IoControl
  <2> QED
    BY <1>0, <2>1, <2>2, <2>4 DEF IoControl
<1>17. CASE SetupQueue
  <2> DEFINE d == [dev EXCEPT !.on = TRUE, !.next_avail = 0, !.next_used = 0]
  <2>1. d \in DevType /\ d.on = TRUE /\ d.next_used = 0
    BY <1>0, Constants DEF Types, DevType
  <2>2. MmioWrite(d) /\ power = "setup" /\ power' = "post" /\ mem' = mem
    BY <1>17 DEF SetupQueue, At, Goto
  <2> HIDE DEF d
  <2>3. SameQueue(dev', d) /\ AtStart(io')
    BY <1>0, <2>1, <2>2, MmioEffect
  <2>4. dev'.on = TRUE /\ dev'.next_used = 0 /\ mem'.used_idx = 0
    BY <1>0, <2>1, <2>2, <2>3 DEF SameQueue, IoControl
  <2> QED
    BY <2>2, <2>3, <2>4 DEF IoControl, AtStart, UpPower
<1>18. CASE LockForPost \/ FinalDrain
  BY <1>0, <1>18 DEF LockForPost, FinalDrain, IoControl, threadVars
<1>19. CASE \/ Start \/ EnableInterrupt \/ Resume \/ Stop \/ WaitForDrain \/ Quiesce
            \/ DisableInterrupt \/ WaitForLock
  <2>1. /\ power \in UpPower /\ power' \in UpPower /\ power' # "setup"
        /\ mem' = mem /\ dev' = dev /\ io' = io
    BY <1>19 DEF Start, EnableInterrupt, Resume, Stop, WaitForDrain, Quiesce,
       DisableInterrupt, WaitForLock, At, Goto, UpPower
  <2> QED
    BY <1>0, <2>1 DEF IoControl
<1>20. CASE DriverOk
  <2>1. /\ SameQueue(dev', dev) /\ AtStart(io') /\ (io'.pc # "idle" => dev.on)
        /\ power = "driver_ok" /\ power' = "drain" /\ mem' = mem
    BY <1>0, <1>20, MmioEffect DEF DriverOk, Types, At, Goto
  <2> QED
    BY <1>0, <2>1 DEF IoControl, SameQueue, AtStart, UpPower
<1>21. CASE UNCHANGED vars
  BY <1>0, <1>21 DEF vars, IoControl
<1>22. CASE Hid
  BY <1>0, <1>22, HidEffect DEF IoControl
<1> QED
  BY <1>1, <1>2, <1>3, <1>4, <1>5, <1>6, <1>7, <1>8, <1>9, <1>10, <1>11, <1>12, <1>13, <1>14,
     <1>15, <1>16, <1>17, <1>18, <1>19, <1>20, <1>21, <1>22
  DEF Next, Device, Drain, D0Entry, D0Exit


LEMMA LockControlStep == ASSUME IInv, [Next]_vars PROVE LockControl'
<1>0. Types /\ LockControl
  BY DEF IInv
<1>1. CASE Inject \/ Tick \/ Restore \/ Device
  <2>1. UNCHANGED <<lock, drain, dpc, power, drv>>
    BY <1>1 DEF Inject, Tick, Restore, Device, ReadAvailIdx, PopChain, FlushEvent, FlushDone,
       WriteUsedElem, WriteUsedIdx, Signal, threadVars
  <2> QED
    BY <1>0, <2>1 DEF LockControl
<1>2. CASE ReadUsedIdx
  <2>1. /\ drain.pc = "used" /\ drain'.pc \in {"take", "kick"} /\ drain'.head = drain.head
        /\ drv'.cookies = drv.cookies /\ drv'.started = drv.started
        /\ drv'.reset_in_progress = drv.reset_in_progress
        /\ UNCHANGED <<lock, dpc, power>>
    BY <1>0, <1>2 DEF ReadUsedIdx, Types, DrainType, DrvType, threadVars
  <2> QED
    BY <1>0, <2>1 DEF LockControl
<1>3. CASE TakeUsed
  <2> DEFINE e == mem.used[Slot(drv.last_used)]
  <2>1. e.id \in Heads /\ e.id \in drv.cookies /\ e.len = 1
    BY <1>3, TakeFits DEF TakeUsed
  <2>2. e.id # NoHead
    BY <2>1, HeadIsNot
  <2>3. /\ drain' = [drain EXCEPT !.pc = "event", !.head = e.id, !.len = e.len]
        /\ drv' = [drv EXCEPT !.cookies = @ \ {e.id}, !.last_used = Inc(@)]
    BY <1>3, <2>1 DEF TakeUsed
  <2> HIDE DEF e
  <2>4. /\ drain.pc = "take" /\ drain'.pc = "event" /\ drain'.head = e.id /\ drain'.len = 1
        /\ drv'.cookies = drv.cookies \ {e.id} /\ drv'.started = drv.started
        /\ drv'.reset_in_progress = drv.reset_in_progress
        /\ UNCHANGED <<lock, dpc, power>>
    BY <1>0, <1>3, <2>1, <2>3 DEF TakeUsed, Types, DrainType, DrvType, threadVars
  <2> QED
    BY <1>0, <2>2, <2>4 DEF LockControl
<1>4. CASE ProcessEvent
  <2>1. drain.pc = "process" /\ drain.head \in Heads /\ Repost /\ UNCHANGED <<lock, dpc, power>>
    BY <1>0, <1>4 DEF ProcessEvent, LockControl, Types, DrainType, threadVars
  <2> QED
    BY <1>0, <2>1, RepostEffect DEF LockControl
<1>4a. CASE CheckEvent
  <2>1. CASE drain'.pc = "process" /\ drv' = drv
    BY <1>0, <1>4a, <2>1, CheckEffect, RepostEffect DEF LockControl
  <2>2. CASE Repost
    BY <1>0, <1>4a, <2>2, CheckEffect, RepostEffect DEF LockControl
  <2> QED
    BY <1>4a, <2>1, <2>2, CheckEffect
<1>4b. CASE Hid
  BY <1>0, <1>4b, HidEffect DEF LockControl
<1>5. CASE PublishSlot
  <2>1. /\ drain.pc = "slot" /\ drain'.pc = "publish" /\ drain'.head = drain.head
        /\ UNCHANGED <<lock, dpc, power, drv>>
    BY <1>0, <1>5 DEF PublishSlot, Types, DrainType, threadVars
  <2> QED
    BY <1>0, <2>1 DEF LockControl
<1>6. CASE Publish
  <2>1. /\ drain.pc = "publish" /\ drain'.pc = (IF power = "post" THEN "add" ELSE "used")
        /\ drain'.head = NoHead /\ UNCHANGED <<lock, dpc, power, drv>>
    BY <1>0, <1>6 DEF Publish, Types, DrainType, IdleDrain, threadVars
  <2> QED
    BY <1>0, <2>1 DEF LockControl
<1>7. CASE Kick
  <2>1. /\ drain.pc = "kick" /\ drain'.pc = "done" /\ drain'.head = drain.head
        /\ UNCHANGED <<lock, dpc, power, drv>>
    BY <1>0, <1>7 DEF Kick, Types, DrainType, threadVars
  <2> QED
    BY <1>0, <2>1 DEF LockControl
<1>8. CASE Unlock
  <2>1. /\ drain.pc = "done" /\ drain'.pc = "idle" /\ drain'.head = NoHead /\ lock' = "none"
        /\ dpc' = (IF lock = "dpc" THEN "idle" ELSE dpc)
        /\ power' = (IF lock = "dpc" THEN power ELSE IF power = "post" THEN "start" ELSE "on")
        /\ drv' = drv
    BY <1>0, <1>8 DEF Unlock, IdleDrain, LockControl, Types
  <2> QED
    BY <1>0, <2>1 DEF LockControl, Types
<1>9. CASE IsrRead \/ IsrLatch \/ DpcStart \/ DpcClaim
  <2>1. /\ drv'.cookies = drv.cookies /\ drv'.started = drv.started
        /\ drv'.reset_in_progress = drv.reset_in_progress
        /\ UNCHANGED <<lock, drain, power>> /\ (dpc' = "drain" <=> dpc = "drain")
    BY <1>0, <1>9 DEF IsrRead, IsrLatch, DpcStart, DpcClaim, Types, DrvType
  <2> QED
    BY <1>0, <2>1 DEF LockControl
<1>10. CASE DpcLock
  <2>1. CASE drv.started /\ ~drv.reset_in_progress
    <3>1. /\ dpc = "lock" /\ lock = "none" /\ lock' = "dpc" /\ drain'.pc = "used"
          /\ drain'.head = NoHead /\ dpc' = "drain" /\ UNCHANGED <<power, drv>>
      BY <1>10, <2>1 DEF DpcLock, IdleDrain
    <3> QED
      BY <1>0, <2>1, <3>1 DEF LockControl
  <2>2. CASE ~(drv.started /\ ~drv.reset_in_progress)
    BY <1>0, <1>10, <2>2 DEF DpcLock, LockControl
  <2> QED
    BY <2>1, <2>2
<1>11. CASE NegotiateFeatures \/ ExitResetDevice \/ SetupQueue \/ WaitForLock
  <2>1. /\ power \in {"off", "reset", "setup", "sync"}
        /\ power' \in {"ring", "ring_off", "post", "reset"}
        /\ UNCHANGED <<lock, drain, dpc, drv>>
    BY <1>11 DEF NegotiateFeatures, ExitResetDevice, ResetStep, SetupQueue, WaitForLock, At, Goto
  <2> QED
    BY <1>0, <2>1 DEF LockControl, Types
<1>12. CASE EntryReset \/ ExitReset
  <2>1. /\ power \in {"ring", "ring_off"} /\ power' \in {"setup", "off"} /\ lock = "none"
        /\ drv'.started = drv.started /\ UNCHANGED <<lock, drain, dpc>>
    BY <1>0, <1>12 DEF EntryReset, ExitReset, ResetRing, At, Goto, Types, DrvType
  <2> QED
    BY <1>0, <2>1 DEF LockControl
<1>13. CASE LockForPost
  <2>1. /\ power = "post" /\ lock = "none" /\ lock' = "power" /\ drain'.pc = "add"
        /\ drain'.head = NoHead /\ UNCHANGED <<dpc, power, drv>>
    BY <1>13 DEF LockForPost, IdleDrain, At, threadVars
  <2> QED
    BY <1>0, <2>1 DEF LockControl
<1>14. CASE FinalDrain
  <2>1. /\ power = "drain" /\ lock = "none" /\ lock' = "power" /\ drain'.pc = "used"
        /\ drain'.head = NoHead /\ UNCHANGED <<dpc, power, drv>>
    BY <1>14 DEF FinalDrain, IdleDrain, At, threadVars
  <2> QED
    BY <1>0, <2>1 DEF LockControl
<1>15. CASE AddBuffer
  <2> DEFINE free == Heads \ drv.cookies
             h == CHOOSE h \in free : \A g \in free : h <= g
  <2>0. drain.pc = "add" /\ UNCHANGED <<lock, dpc, power>>
    BY <1>15 DEF AddBuffer, threadVars
  <2>1. CASE free = {}
    <3>1. /\ drain'.pc = "kick" /\ drain'.head = drain.head /\ drv' = drv
      BY <1>0, <1>15, <2>1 DEF AddBuffer, Types, DrainType
    <3> QED
      BY <1>0, <2>0, <3>1 DEF LockControl
  <2>2. CASE free # {}
    <3>1. h \in free
      <4>1. free \in SUBSET Heads
        OBVIOUS
      <4> HIDE DEF free
      <4> QED
        BY <2>2, <4>1, LowestFree
    <3>2. h \in Heads /\ h # NoHead
      BY <3>1, HeadIsNot
    <3>3. /\ drain' = [drain EXCEPT !.pc = "slot", !.head = h]
          /\ drv' = [drv EXCEPT !.cookies = @ \cup {h}]
      BY <1>15, <2>2 DEF AddBuffer
    <3> HIDE DEF h
    <3>4. /\ drain'.pc = "slot" /\ drain'.head = h /\ drv'.cookies = drv.cookies \cup {h} /\ drv'.started = drv.started
          /\ drv'.reset_in_progress = drv.reset_in_progress
      BY <1>0, <3>3 DEF Types, DrainType, DrvType
    <3> QED
      BY <1>0, <2>0, <3>2, <3>4 DEF LockControl
  <2> QED
    BY <2>1, <2>2
<1>16. CASE Start \/ EnableInterrupt \/ Resume
  <2>1. /\ \/ power = "start" /\ power' = "enable" /\ drv'.started = TRUE
           \/ power = "enable" /\ power' = "resume" /\ drv'.started = drv.started
           \/ power = "resume" /\ power' = "driver_ok" /\ drv'.started = drv.started
              /\ drv'.reset_in_progress = FALSE
        /\ drv'.cookies = drv.cookies /\ UNCHANGED <<lock, drain, dpc>>
    BY <1>0, <1>16 DEF Start, EnableInterrupt, Resume, At, Goto, Types, DrvType
  <2> QED
    BY <1>0, <2>1 DEF LockControl
<1>17. CASE DriverOk
  <2>1. power = "driver_ok" /\ power' = "drain" /\ UNCHANGED <<lock, drain, dpc, drv>>
    BY <1>17 DEF DriverOk, At, Goto
  <2> QED
    BY <1>0, <2>1 DEF LockControl
<1>18. CASE Stop
  <2>1. /\ power = "on" /\ power' = "stop" /\ drv'.started = FALSE /\ drv'.cookies = drv.cookies
        /\ UNCHANGED <<lock, drain, dpc>>
    BY <1>0, <1>18 DEF Stop, At, Goto, Types, DrvType
  <2> QED
    BY <1>0, <2>1 DEF LockControl
<1>19. CASE WaitForDrain
  <2>1. power = "stop" /\ power' = "quiesce" /\ lock = "none" /\ UNCHANGED <<lock, drain, dpc, drv>>
    BY <1>19 DEF WaitForDrain, At, Goto
  <2> QED
    BY <1>0, <2>1 DEF LockControl
<1>20. CASE Quiesce \/ DisableInterrupt
  <2>1. /\ power \in {"quiesce", "disable"} /\ power' \in {"disable", "sync"}
        /\ drv'.started = drv.started /\ drv'.cookies = drv.cookies /\ UNCHANGED <<lock, drain, dpc>>
    BY <1>0, <1>20 DEF Quiesce, DisableInterrupt, At, Goto, Types, DrvType
  <2> QED
    BY <1>0, <2>1 DEF LockControl
<1>21. CASE UNCHANGED vars
  BY <1>0, <1>21 DEF vars, LockControl
<1> QED
  BY <1>1, <1>2, <1>3, <1>4, <1>4a, <1>4b, <1>5, <1>6, <1>7, <1>8, <1>9, <1>10, <1>11, <1>12, <1>13, <1>14,
     <1>15, <1>16, <1>17, <1>18, <1>19, <1>20, <1>21
  DEF Next, Drain, Interrupt, D0Entry, D0Exit


\* Only a driver that finds HID active begins to process an event, and the
\* release report waits for the lock.
LEMMA HidControlStep == ASSUME IInv, [Next]_vars PROVE HidControl'
<1>0. Types /\ LockControl /\ HidControl
  BY DEF IInv
<1>1. CASE Hid
  <2>1. drain' = drain /\ (hid' = "released" => lock = "none")
    BY <1>1 DEF Hid, HidActivateDevice, HidDeactivateDevice, HidClear, HidRelease, HidStep
  <2>2. hid' \in {"inactive", "active", "emit", "quiet", "sync", "released"}
    BY <1>1 DEF Hid, HidActivateDevice, HidDeactivateDevice, HidClear, HidRelease, HidStep
  <2> QED
    BY <1>0, <2>1, <2>2 DEF HidControl, LockControl
<1>2. CASE CheckEvent
  BY <1>0, <1>2, CheckEffect, RepostEffect DEF HidControl, HidActivated
<1>3. CASE Inject \/ Tick \/ Restore \/ Device \/ D0Exit \/ UNCHANGED vars
  <2>1. UNCHANGED <<drain, hid>>
    BY <1>3 DEF Inject, Tick, Restore, Device, ReadAvailIdx, PopChain, FlushEvent, FlushDone,
       WriteUsedElem, WriteUsedIdx, Signal, D0Exit, Stop, WaitForDrain, Quiesce,
       DisableInterrupt, WaitForLock, ExitResetDevice, ExitReset, ResetStep, ResetRing,
       threadVars, vars
  <2> QED
    BY <1>0, <2>1 DEF HidControl
<1>4. CASE ReadUsedIdx \/ TakeUsed \/ PublishSlot \/ Publish \/ Kick \/ Unlock
  <2>1. hid' = hid /\ drain'.pc # "process"
    <3>1. CASE ReadUsedIdx \/ TakeUsed
      BY <1>0, <3>1 DEF ReadUsedIdx, TakeUsed, Types, DrainType, threadVars
    <3>2. CASE PublishSlot \/ Publish
      BY <1>0, <3>2 DEF PublishSlot, Publish, Types, DrainType, IdleDrain, threadVars
    <3>3. CASE Kick \/ Unlock
      BY <1>0, <3>3 DEF Kick, Unlock, Types, DrainType, IdleDrain, threadVars
    <3> QED
      BY <1>4, <3>1, <3>2, <3>3
  <2> QED
    BY <1>0, <2>1 DEF HidControl
<1>5. CASE ProcessEvent
  <2>1. hid' = hid /\ drain'.pc = "slot"
    BY <1>0, <1>5 DEF ProcessEvent, Repost, Types, DrainType, threadVars
  <2> QED
    BY <1>0, <2>1 DEF HidControl
<1>6. CASE Interrupt \/ D0Entry
  <2>1. hid' = hid /\ (drain' = drain \/ drain'.pc # "process")
    <3>1. CASE Interrupt
      BY <3>1 DEF Interrupt, IsrRead, IsrLatch, DpcStart, DpcClaim, DpcLock, IdleDrain
    <3>2. CASE LockForPost \/ FinalDrain \/ AddBuffer
      BY <1>0, <3>2 DEF LockForPost, FinalDrain, AddBuffer, Types, DrainType, IdleDrain, threadVars
    <3>3. CASE \/ NegotiateFeatures \/ EntryReset \/ SetupQueue \/ Start \/ EnableInterrupt
               \/ Resume \/ DriverOk
      BY <3>3 DEF NegotiateFeatures, EntryReset, SetupQueue, Start, EnableInterrupt, Resume,
         DriverOk, ResetStep, ResetRing
    <3> QED
      BY <1>6, <3>1, <3>2, <3>3 DEF D0Entry
  <2> QED
    BY <1>0, <2>1 DEF HidControl
<1> QED
  BY <1>1, <1>2, <1>3, <1>4, <1>5, <1>6 DEF Next, Drain

-----------------------------------------------------------------------------
(* Ownership.                                                              *)

LEMMA RingFrame ==
  ASSUME Ring, dev'.on => dev.on,
         dev'.on => /\ mem'.avail = mem.avail /\ mem'.avail_idx = mem.avail_idx
                    /\ mem'.used = mem.used /\ dev'.next_used = dev.next_used
                    /\ dev'.next_avail = dev.next_avail /\ dev'.buffers = dev.buffers
                    /\ io'.head = io.head /\ drv'.last_used = drv.last_used
                    /\ Held(drv'.cookies, drain'.head) = Held(drv.cookies, drain.head)
  PROVE  Ring'
BY DEF Ring, InDriver

LEMMA RingStep == ASSUME IInv, [Next]_vars PROVE Ring'
<1>0. Types /\ IoControl /\ LockControl /\ Ring
  BY DEF IInv
<1> DEFINE c == Ahead(dev.next_used, mem.avail_idx)
           OwnedNow == Owned(mem.avail, mem.avail_idx, dev.next_used, mem.used, drv.last_used, InDriver)
           DevNow == DevRing(mem.avail, mem.avail_idx, dev.next_used, dev.next_avail,
                             dev.buffers, io.head)
<1>0a. dev.on => OwnedNow /\ DevNow
  BY <1>0 DEF Ring
<1> HIDE DEF c, OwnedNow, DevNow
<1>1. CASE Inject
  BY <1>0, <1>1, InjectEffect, RingFrame DEF Inject, SameChains, AtStart
<1>2. CASE Tick
  <2>1. AtStart(io') /\ SameQueue(dev', dev) /\ io.head = NoHead
    BY <1>0, <1>2, PollEffect DEF Tick, Types, IoControl
  <2> QED
    BY <1>0, <1>2, <2>1, RingFrame DEF Tick, SameQueue, AtStart
<1>3. CASE Restore
  <2>1. /\ dev'.on = dev.on /\ dev'.next_used = dev.next_used /\ dev'.buffers = << >>
        /\ (dev.on => dev'.next_avail = dev.next_used) /\ io.head = NoHead
        /\ UNCHANGED <<mem, io, drv, drain>>
    BY <1>0, <1>3 DEF Restore, Rewound, Types, DevType, IoControl
  <2>2. DevRing(mem.avail, mem.avail_idx, dev.next_used, dev.next_used, << >>, NoHead)
    BY RingTypes, DevRewound
  <2> QED
    BY <1>0a, <2>1, <2>2 DEF Ring, OwnedNow, InDriver
<1>4. CASE ReadAvailIdx \/ FlushDone
  <2>1. io'.head = io.head /\ UNCHANGED <<mem, dev, drv, drain>>
    BY <1>0, <1>4 DEF ReadAvailIdx, FlushDone, Types, IoType
  <2> QED
    BY <1>0, <2>1, RingFrame
<1>5. CASE PopChain
  <2>1. /\ dev.on /\ io.head = NoHead /\ ~(Len(dev.buffers) >= QueueSize)
        /\ dev.next_avail # mem.avail_idx
    BY <1>5, PopFits DEF PopChain
  <2>2. /\ io'.head = NoHead /\ dev'.on = dev.on /\ dev'.next_used = dev.next_used
        /\ dev'.next_avail = Inc(dev.next_avail)
        /\ dev'.buffers = Append(dev.buffers, mem.avail[Slot(dev.next_avail)])
        /\ UNCHANGED <<mem, drv, drain>>
    BY <1>0, <1>5, <2>1 DEF PopChain, Types, DevType, IoType
  <2>3. DevRing(mem.avail, mem.avail_idx, dev.next_used, dev.next_avail, dev.buffers, NoHead)
    BY <1>0a, <2>1 DEF DevNow
  <2>4. DevRing(mem.avail, mem.avail_idx, dev.next_used, Inc(dev.next_avail),
                Append(dev.buffers, mem.avail[Slot(dev.next_avail)]), NoHead)
    BY <2>1, <2>3, RingTypes, DevPop
  <2> QED
    BY <1>0a, <2>1, <2>2, <2>4 DEF Ring, OwnedNow, InDriver
<1>6. CASE FlushEvent
  <2>1. dev.on /\ io.head = NoHead /\ dev.buffers # << >>
    BY <1>0, <1>6 DEF FlushEvent, IoControl
  <2>2. /\ io'.head = Head(dev.buffers) /\ dev'.on = dev.on /\ dev'.next_used = dev.next_used
        /\ dev'.next_avail = dev.next_avail /\ dev'.buffers = Tail(dev.buffers)
        /\ mem'.avail = mem.avail /\ mem'.avail_idx = mem.avail_idx /\ mem'.used = mem.used
        /\ UNCHANGED <<drv, drain>>
    BY <1>0, <1>6 DEF FlushEvent, Types, DevType, IoType, MemType
  <2>3. DevRing(mem.avail, mem.avail_idx, dev.next_used, dev.next_avail, dev.buffers, NoHead)
    BY <1>0a, <2>1 DEF DevNow
  <2>4. DevRing(mem.avail, mem.avail_idx, dev.next_used, dev.next_avail,
                Tail(dev.buffers), Head(dev.buffers))
    BY <2>1, <2>3, RingTypes, DevFlush
  <2> QED
    BY <1>0a, <2>1, <2>2, <2>4 DEF Ring, OwnedNow, InDriver
<1>7. CASE WriteUsedElem \/ WriteUsedIdx
  <2>1. dev.on /\ io.head \in Heads /\ io.len = 1 /\ io.head # NoHead
    BY <1>0, <1>7 DEF WriteUsedElem, WriteUsedIdx, IoControl, Types, IoType
  <2>2. /\ DevRing(mem.avail, mem.avail_idx, dev.next_used, dev.next_avail, dev.buffers, io.head)
        /\ Owned(mem.avail, mem.avail_idx, dev.next_used, mem.used, drv.last_used, InDriver)
    BY <1>0a, <2>1 DEF DevNow, OwnedNow
  <2>3. /\ DevRing(mem.avail, mem.avail_idx, Inc(dev.next_used), dev.next_avail, dev.buffers, NoHead)
        /\ dev.next_used # mem.avail_idx /\ DevAt(mem.avail, dev.next_used, 0) = io.head
    <3>1. /\ mem.avail \in [Heads -> Heads] /\ mem.avail_idx \in Indices
          /\ dev.next_used \in Indices /\ dev.next_avail \in Indices
          /\ dev.buffers \in Seq(Heads)
      BY RingTypes
    <3> QED
      BY <2>1, <2>2, <3>1, DevComplete
  <2>4. CASE WriteUsedElem
    <3> DEFINE e == [id |-> io.head, len |-> io.len]
               us2 == [mem.used EXCEPT ![Slot(dev.next_used)] = e]
    <3>1. e \in [id : Heads, len : {0, 1}]
      BY <2>1
    <3>2. /\ mem'.used = us2 /\ mem'.avail = mem.avail /\ mem'.avail_idx = mem.avail_idx
          /\ io'.head = io.head /\ UNCHANGED <<dev, drv, drain>>
      BY <1>0, <2>4 DEF WriteUsedElem, Types, MemType, IoType
    <3> HIDE DEF e
    <3>3. Owned(mem.avail, mem.avail_idx, dev.next_used, us2, drv.last_used, InDriver)
      BY <2>2, <2>3, <3>1, RingTypes, OwnedElem
    <3> HIDE DEF us2
    <3> QED
      BY <2>2, <3>2, <3>3 DEF Ring, InDriver
  <2>5. CASE WriteUsedIdx
    <3>1. mem.used[Slot(dev.next_used)].id = DevAt(mem.avail, dev.next_used, 0)
      BY <2>3, <2>5 DEF WriteUsedIdx, IInv, HalfDone
    <3>2. Owned(mem.avail, mem.avail_idx, Inc(dev.next_used), mem.used, drv.last_used, InDriver)
      BY <2>2, <2>3, <3>1, RingTypes, OwnedComplete
    <3>3. /\ mem'.used = mem.used /\ mem'.avail = mem.avail /\ mem'.avail_idx = mem.avail_idx
          /\ io'.head = NoHead /\ dev'.on = dev.on /\ dev'.next_used = Inc(dev.next_used)
          /\ dev'.next_avail = dev.next_avail /\ dev'.buffers = dev.buffers
          /\ UNCHANGED <<drv, drain>>
      BY <1>0, <2>5 DEF WriteUsedIdx, Types, MemType, IoType, DevType
    <3> QED
      BY <2>3, <3>2, <3>3 DEF Ring, InDriver
  <2> QED
    BY <1>7, <2>4, <2>5
<1>8. CASE Signal
  <2>1. /\ dev'.on = dev.on /\ dev'.next_used = dev.next_used /\ dev'.buffers = dev.buffers
        /\ dev'.next_avail = dev.next_avail /\ io'.head = NoHead /\ io.head = NoHead
        /\ UNCHANGED <<mem, drv, drain>>
    BY <1>0, <1>8 DEF Signal, Types, DevType, IdleIo, IoControl
  <2> QED
    BY <1>0, <2>1, RingFrame
<1>9. CASE ReadUsedIdx
  <2>1. ~(Ahead(drv.last_used, mem.used_idx) > QueueSize)
    BY <1>9, ReadFits, Constants DEF ReadUsedIdx
  <2>2. drv' = drv /\ drain'.head = drain.head /\ UNCHANGED <<mem, dev, io>>
    BY <1>0, <1>9, <2>1 DEF ReadUsedIdx, Types, DrainType
  <2> QED
    BY <1>0, <2>2, RingFrame
<1>10. CASE TakeUsed
  <2> DEFINE e == mem.used[Slot(drv.last_used)]
  <2>1. /\ e.id \in Heads /\ e.id \in drv.cookies /\ drain.head = NoHead
        /\ Owned(mem.avail, mem.avail_idx, dev.next_used, mem.used, Inc(drv.last_used),
                 InDriver \cup {e.id})
        /\ dev.on
    BY <1>10, TakeFits DEF TakeUsed
  <2>2. /\ drain' = [drain EXCEPT !.pc = "event", !.head = e.id, !.len = e.len]
        /\ drv' = [drv EXCEPT !.cookies = @ \ {e.id}, !.last_used = Inc(@)]
        /\ UNCHANGED <<mem, dev, io>>
    BY <1>10, <2>1 DEF TakeUsed
  <2> HIDE DEF e
  <2>3. /\ drain'.head = e.id /\ drv'.cookies = drv.cookies \ {e.id}
        /\ drv'.last_used = Inc(drv.last_used)
    BY <1>0, <2>2 DEF Types, DrainType, DrvType
  <2>4. Held(drv'.cookies, drain'.head) = InDriver \cup {e.id}
    BY <2>1, <2>3, HeadIsNot DEF Held, InDriver
  <2> QED
    BY <1>0a, <2>1, <2>2, <2>3, <2>4 DEF Ring, InDriver, DevNow
<1>11. CASE (CheckEvent /\ Repost) \/ ProcessEvent
  <2>0. drain.head \in Heads /\ Repost /\ UNCHANGED <<mem, dev, io>>
    BY <1>0, <1>11, CheckEffect DEF ProcessEvent, LockControl, Types, DrainType
  <2>1. /\ drv'.cookies = drv.cookies \cup {drain.head} /\ drv'.last_used = drv.last_used
        /\ drain'.head = drain.head /\ UNCHANGED <<mem, dev, io>>
    BY <1>0, <2>0, RepostEffect
  <2>2. Held(drv'.cookies, drain'.head) = Held(drv.cookies, drain.head)
    BY <2>1 DEF Held
  <2> QED
    BY <1>0, <2>1, <2>2, RingFrame
<1>11a. CASE CheckEvent /\ ~Repost
  <2>1. drain'.head = drain.head /\ UNCHANGED <<mem, dev, io, drv>>
    BY <1>11a, CheckEffect
  <2> QED
    BY <1>0, <2>1, RingFrame
<1>11b. CASE Hid
  BY <1>0, <1>11b, HidEffect, RingFrame
<1>12. CASE PublishSlot \/ Publish
  <2>1. dev.on /\ drain.head \in Heads /\ drain.head \in InDriver
    BY <1>0, <1>12 DEF PublishSlot, Publish, LockControl, IoControl, Types, DrainType, UpPower,
       InDriver, Held
  <2>2. /\ DevRing(mem.avail, mem.avail_idx, dev.next_used, dev.next_avail, dev.buffers, io.head)
        /\ Owned(mem.avail, mem.avail_idx, dev.next_used, mem.used, drv.last_used, InDriver)
    BY <1>0a, <2>1 DEF DevNow, OwnedNow
  <2>3. c \in Nat
    BY RingTypes, Distance DEF c
  <2>4. CASE PublishSlot
    <3> DEFINE av2 == [mem.avail EXCEPT ![Slot(mem.avail_idx)] = drain.head]
    <3>1. InDriver # {}
      BY <2>1
    <3>2. /\ Owned(av2, mem.avail_idx, dev.next_used, mem.used, drv.last_used, InDriver)
          /\ \A k \in 0 .. Ahead(dev.next_used, mem.avail_idx) - 1 :
               DevAt(av2, dev.next_used, k) = DevAt(mem.avail, dev.next_used, k)
      <4>1. /\ mem.avail \in [Heads -> Heads] /\ mem.avail_idx \in Indices
            /\ dev.next_used \in Indices /\ mem.used \in UsedType
            /\ drv.last_used \in Indices /\ InDriver \in SUBSET Heads
        BY RingTypes
      <4> QED
        BY <2>1, <2>2, <3>1, <4>1, OwnedSlot
    <3>3. /\ mem'.avail = av2 /\ mem'.avail_idx = mem.avail_idx /\ mem'.used = mem.used
          /\ drain'.head = drain.head /\ UNCHANGED <<dev, io, drv>>
      BY <1>0, <2>4 DEF PublishSlot, Types, MemType, DrainType
    <3> HIDE DEF av2
    <3>4. Ahead(dev.next_used, mem.avail_idx) <= Ahead(dev.next_used, mem.avail_idx)
      BY <2>3 DEF c
    <3>5. DevRing(av2, mem.avail_idx, dev.next_used, dev.next_avail, dev.buffers, io.head)
      BY <2>2, <3>2, <3>4, RingTypes, DevPublished
    <3> QED
      BY <3>2, <3>3, <3>5 DEF Ring, InDriver
  <2>5. CASE Publish
    <3>1. mem.avail[Slot(mem.avail_idx)] = drain.head /\ drain.head \in drv.cookies
      BY <1>0, <2>5 DEF Publish, IInv, HalfDone, LockControl
    <3>2. /\ Owned(mem.avail, Inc(mem.avail_idx), dev.next_used, mem.used, drv.last_used,
                   InDriver \ {drain.head})
          /\ Ahead(dev.next_used, Inc(mem.avail_idx)) = Ahead(dev.next_used, mem.avail_idx) + 1
      <4>1. /\ mem.avail \in [Heads -> Heads] /\ mem.avail_idx \in Indices
            /\ dev.next_used \in Indices /\ mem.used \in UsedType
            /\ drv.last_used \in Indices /\ InDriver \in SUBSET Heads
        BY RingTypes
      <4> QED
        BY <2>1, <2>2, <3>1, <4>1, OwnedPublished
    <3>3. /\ mem'.avail = mem.avail /\ mem'.avail_idx = Inc(mem.avail_idx) /\ mem'.used = mem.used
          /\ drain'.head = NoHead /\ UNCHANGED <<dev, io, drv>>
      BY <1>0, <2>5 DEF Publish, Types, MemType, DrainType, IdleDrain
    <3>4. /\ Ahead(dev.next_used, mem.avail_idx) <= Ahead(dev.next_used, Inc(mem.avail_idx))
          /\ Inc(mem.avail_idx) \in Indices
      BY <2>3, <3>2, RingTypes, InRange DEF c
    <3>5. DevRing(mem.avail, Inc(mem.avail_idx), dev.next_used, dev.next_avail, dev.buffers, io.head)
      BY <2>2, <3>4, RingTypes, DevPublished
    <3>6. Held(drv'.cookies, drain'.head) = InDriver \ {drain.head}
      BY <3>1, <3>3, HeadIsNot DEF Held, InDriver
    <3> QED
      BY <3>2, <3>3, <3>5, <3>6 DEF Ring, InDriver
  <2> QED
    BY <1>12, <2>4, <2>5
<1>13. CASE Kick
  <2>1. [dev EXCEPT !.pending_notify = TRUE] \in DevType
        /\ SameQueue([dev EXCEPT !.pending_notify = TRUE], dev)
    BY <1>0 DEF Types, DevType, SameQueue
  <2>2. SameQueue(dev', dev) /\ io'.head = io.head
    <3>1. CASE drain.reposted
      BY <1>0, <1>13, <2>1, <3>1, MmioEffect DEF Kick, SameQueue, AtStart
    <3>2. CASE ~drain.reposted
      BY <1>0, <1>13, <3>2 DEF Kick, SameQueue
    <3> QED
      BY <3>1, <3>2
  <2>3. drain'.head = drain.head /\ UNCHANGED <<mem, drv>>
    BY <1>0, <1>13 DEF Kick, Types, DrainType
  <2> QED
    BY <1>0, <2>2, <2>3, RingFrame DEF SameQueue
<1>14. CASE Unlock
  <2>1. drain.head = NoHead /\ drain'.head = NoHead /\ UNCHANGED <<mem, dev, io, drv>>
    BY <1>0, <1>14 DEF Unlock, LockControl, IdleDrain
  <2> QED
    BY <1>0, <2>1, RingFrame
<1>15. CASE Interrupt
  <2>1. /\ dev'.on = dev.on /\ dev'.next_used = dev.next_used /\ dev'.buffers = dev.buffers
        /\ dev'.next_avail = dev.next_avail
        /\ drv'.last_used = drv.last_used /\ drv'.cookies = drv.cookies
        /\ mem' = mem /\ io' = io
    BY <1>0, <1>15 DEF Interrupt, IsrRead, IsrLatch, DpcStart, DpcClaim, DpcLock, Types,
       DevType, DrvType
  <2>2. drain'.head = drain.head
    BY <1>0, <1>15 DEF Interrupt, IsrRead, IsrLatch, DpcStart, DpcClaim, DpcLock, LockControl, IdleDrain
  <2> QED
    BY <1>0, <2>1, <2>2, RingFrame
<1>16. CASE NegotiateFeatures \/ ExitResetDevice
  BY <1>16 DEF NegotiateFeatures, ExitResetDevice, ResetStep, ResetDevice, Ring
<1>17. CASE EntryReset \/ ExitReset
  <2>1. ~dev'.on
    BY <1>0, <1>17 DEF EntryReset, ExitReset, ResetRing, At, IoControl, UpPower
  <2> QED
    BY <2>1 DEF Ring
<1>18. CASE SetupQueue
  <2> DEFINE d == [dev EXCEPT !.on = TRUE, !.next_avail = 0, !.next_used = 0]
  <2>1. /\ d \in DevType /\ d.on = TRUE /\ d.next_used = 0 /\ d.next_avail = 0
        /\ d.buffers = dev.buffers
    BY <1>0, Constants DEF Types, DevType
  <2>2. MmioWrite(d) /\ power = "setup" /\ UNCHANGED <<mem, drv, drain>>
    BY <1>18 DEF SetupQueue, At, Goto
  <2> HIDE DEF d
  <2>3. SameQueue(dev', d) /\ AtStart(io')
    BY <1>0, <2>1, <2>2, MmioEffect
  <2>4. dev.buffers = << >> /\ mem.avail_idx = 0 /\ drv.last_used = 0 /\ drv.cookies = {}
    BY <1>0, <2>2 DEF IoControl, UpPower
  <2>5. Held(drv'.cookies, drain'.head) = Heads
    BY <2>2, <2>4 DEF Held
  <2>6. /\ Owned(mem.avail, 0, 0, mem.used, 0, Heads) /\ DevRing(mem.avail, 0, 0, 0, << >>, NoHead)
    BY RingTypes, OwnedAtStart
  <2> QED
    BY <2>1, <2>2, <2>3, <2>4, <2>5, <2>6 DEF Ring, InDriver, SameQueue, AtStart
<1>19. CASE LockForPost \/ FinalDrain
  <2>1. drain.head = NoHead /\ drain'.head = NoHead /\ UNCHANGED <<mem, dev, io, drv>>
    BY <1>0, <1>19 DEF LockForPost, FinalDrain, LockControl, IdleDrain
  <2> QED
    BY <1>0, <2>1, RingFrame
<1>20. CASE AddBuffer
  <2> DEFINE free == Heads \ drv.cookies
             h == CHOOSE h \in free : \A g \in free : h <= g
  <2>0. drain.head = NoHead /\ UNCHANGED <<mem, dev, io>>
    BY <1>0, <1>20 DEF AddBuffer, LockControl
  <2>1. CASE free = {}
    <3>1. drain'.head = drain.head /\ drv' = drv
      BY <1>0, <1>20, <2>1 DEF AddBuffer, Types, DrainType
    <3> QED
      BY <1>0, <2>0, <3>1, RingFrame
  <2>2. CASE free # {}
    <3>1. h \in free
      <4>1. free \in SUBSET Heads
        OBVIOUS
      <4> HIDE DEF free
      <4> QED
        BY <2>2, <4>1, LowestFree
    <3>2. h \in Heads /\ h \notin drv.cookies
      BY <3>1
    <3>3. /\ drain' = [drain EXCEPT !.pc = "slot", !.head = h]
          /\ drv' = [drv EXCEPT !.cookies = @ \cup {h}]
      BY <1>20, <2>2 DEF AddBuffer
    <3> HIDE DEF h
    <3>4. /\ drain'.head = h /\ drv'.cookies = drv.cookies \cup {h} /\ drv'.last_used = drv.last_used
      BY <1>0, <3>3 DEF Types, DrainType, DrvType
    <3>5. Held(drv'.cookies, drain'.head) = Held(drv.cookies, drain.head)
      BY <2>0, <3>2, <3>4, HeadIsNot DEF Held
    <3> QED
      BY <1>0, <2>0, <3>4, <3>5, RingFrame
  <2> QED
    BY <2>1, <2>2
<1>21. CASE \/ Start \/ EnableInterrupt \/ Resume \/ Stop \/ WaitForDrain \/ Quiesce
            \/ DisableInterrupt \/ WaitForLock
  <2>1. /\ drv'.cookies = drv.cookies /\ drv'.last_used = drv.last_used
        /\ UNCHANGED <<mem, dev, io, drain>>
    BY <1>0, <1>21 DEF Start, EnableInterrupt, Resume, Stop, WaitForDrain, Quiesce,
       DisableInterrupt, WaitForLock, Types, DrvType
  <2> QED
    BY <1>0, <2>1, RingFrame
<1>22. CASE DriverOk
  <2>1. SameQueue(dev', dev) /\ io'.head = io.head /\ UNCHANGED <<mem, drv, drain>>
    BY <1>0, <1>22, MmioEffect DEF DriverOk, Types, AtStart
  <2> QED
    BY <1>0, <2>1, RingFrame DEF SameQueue
<1>23. CASE UNCHANGED vars
  BY <1>0, <1>23, RingFrame DEF vars
<1> QED
  BY <1>1, <1>2, <1>3, <1>4, <1>5, <1>6, <1>7, <1>8, <1>9, <1>10, <1>11, <1>11a, <1>11b,
     <1>12, <1>13, <1>14, <1>15, <1>16, <1>17, <1>18, <1>19, <1>20, <1>21, <1>22, <1>23
  DEF Next, Device, Drain, D0Entry, D0Exit


-----------------------------------------------------------------------------
(* Half-done steps.                                                        *)

\* What the two publications add to, as long as the queue is live.
LEMMA PublishedGrows ==
  ASSUME IInv, dev.on, mem.avail[Slot(mem.avail_idx)] \in InDriver
  PROVE  Inc(mem.avail_idx) # dev.next_avail
<1> DEFINE nu == dev.next_used
           ai == mem.avail_idx
           na == dev.next_avail
           t == Taken(io.head)
<1>1. /\ DevRing(mem.avail, ai, nu, na, dev.buffers, io.head)
      /\ Owned(mem.avail, ai, nu, mem.used, drv.last_used, InDriver)
  BY DEF IInv, Ring
<1>2. Ahead(nu, Inc(ai)) = Ahead(nu, ai) + 1
  <2>1. /\ mem.avail \in [Heads -> Heads] /\ ai \in Indices /\ nu \in Indices
        /\ mem.used \in UsedType /\ drv.last_used \in Indices /\ InDriver \in SUBSET Heads
    BY RingTypes
  <2> QED
    BY <1>1, <2>1, OwnedPublished
<1>3. Ahead(nu, na) = t + Len(dev.buffers) /\ t + Len(dev.buffers) <= Ahead(nu, ai)
  BY <1>1 DEF DevRing
<1>4. Ahead(nu, ai) \in Nat /\ Ahead(nu, na) \in Nat
  BY RingTypes, Distance
<1> HIDE DEF nu, ai, na, t
<1>5. Ahead(nu, na) # Ahead(nu, Inc(ai))
  BY <1>2, <1>3, <1>4
<1> QED
  BY <1>5 DEF ai, na

LEMMA CompletedGrows ==
  ASSUME IInv, io.pc = "index"
  PROVE  /\ Inc(dev.next_used) # drv.last_used /\ dev.on /\ mem.used_idx = dev.next_used
         /\ Ahead(drv.last_used, Inc(dev.next_used)) = Ahead(drv.last_used, dev.next_used) + 1
         /\ io.head \in Heads /\ io.len = 1
         /\ mem.used[Slot(dev.next_used)] = [id |-> io.head, len |-> 1]
<1>1. /\ dev.on /\ io.head \in Heads /\ io.head # NoHead /\ mem.used_idx = dev.next_used
      /\ mem.used[Slot(dev.next_used)] = [id |-> io.head, len |-> 1] /\ io.len = 1
  BY DEF IInv, IoControl, Types, IoType, HalfDone
<1>2. /\ DevRing(mem.avail, mem.avail_idx, dev.next_used, dev.next_avail, dev.buffers, io.head)
      /\ Owned(mem.avail, mem.avail_idx, dev.next_used, mem.used, drv.last_used, InDriver)
  BY <1>1 DEF IInv, Ring
<1>3. /\ mem.avail \in [Heads -> Heads] /\ mem.avail_idx \in Indices
      /\ dev.next_used \in Indices /\ dev.next_avail \in Indices /\ dev.buffers \in Seq(Heads)
      /\ mem.used \in UsedType /\ drv.last_used \in Indices /\ InDriver \in SUBSET Heads
  BY RingTypes
<1>4. dev.next_used # mem.avail_idx /\ DevAt(mem.avail, dev.next_used, 0) = io.head
  BY <1>1, <1>2, <1>3, DevComplete
<1>5. mem.used[Slot(dev.next_used)].id = DevAt(mem.avail, dev.next_used, 0)
  BY <1>1, <1>4
<1>6. Ahead(drv.last_used, Inc(dev.next_used)) = Ahead(drv.last_used, dev.next_used) + 1
  BY <1>2, <1>3, <1>4, <1>5, OwnedComplete
<1>7. Ahead(drv.last_used, dev.next_used) \in Nat
  BY <1>3, Distance
<1>8. Ahead(drv.last_used, Inc(dev.next_used)) # 0 /\ Inc(dev.next_used) \in Indices
  BY <1>3, <1>6, <1>7, InRange
<1>9. Inc(dev.next_used) # drv.last_used
  BY <1>3, <1>8, Distance
<1> QED
  BY <1>1, <1>6, <1>9

LEMMA HalfDoneStep == ASSUME IInv, [Next]_vars PROVE HalfDone'
<1>0. Types /\ IoControl /\ LockControl /\ HalfDone
  BY DEF IInv
<1>1. CASE Inject \/ Tick \/ Restore \/ DriverOk \/ SetupQueue
  <2>1. io'.pc \in {"idle", "avail"} /\ UNCHANGED <<mem, drain, drv>>
    <3>1. CASE Inject
      BY <3>1, InjectEffect DEF Inject, AtStart
    <3>2. CASE Tick
      BY <1>0, <3>2, PollEffect DEF Tick, AtStart, Types
    <3>3. CASE Restore
      BY <3>3 DEF Restore
    <3>4. CASE DriverOk
      BY <1>0, <3>4, MmioEffect DEF DriverOk, AtStart, Types
    <3>5. CASE SetupQueue
      <4>1. [dev EXCEPT !.on = TRUE, !.next_avail = 0, !.next_used = 0] \in DevType
        BY <1>0, Constants DEF Types, DevType
      <4> QED
        BY <1>0, <3>5, <4>1, MmioEffect DEF SetupQueue, AtStart
    <3> QED
      BY <1>1, <3>1, <3>2, <3>3, <3>4, <3>5
  <2> QED
    BY <1>0, <2>1 DEF HalfDone
<1>2. CASE ReadAvailIdx
  <2>1. /\ io'.pc \in {"flush", "pop"} /\ (io'.pc = "pop" => mem.avail_idx # dev.next_avail)
        /\ UNCHANGED <<mem, dev, drain, drv>>
    BY <1>0, <1>2 DEF ReadAvailIdx, Types, IoType
  <2> QED
    BY <1>0, <2>1 DEF HalfDone
<1>3. CASE PopChain \/ FlushDone \/ Signal
  <2>1. io'.pc \in {"elem", "flush", "avail", "signal", "idle"} /\ UNCHANGED <<mem, drain, drv>>
    <3>1. CASE PopChain
      BY <1>0, <3>1, PopFits DEF PopChain, Types, IoType
    <3>2. CASE FlushDone
      BY <1>0, <3>2 DEF FlushDone, Types, IoType
    <3>3. CASE Signal
      BY <3>3 DEF Signal, IdleIo
    <3> QED
      BY <1>3, <3>1, <3>2, <3>3
  <2> QED
    BY <1>0, <2>1 DEF HalfDone
<1>4. CASE FlushEvent
  <2>1. /\ io'.pc = "elem" /\ UNCHANGED <<drain, drv>>
        /\ mem'.used_idx = mem.used_idx /\ mem'.avail = mem.avail /\ mem'.avail_idx = mem.avail_idx
    BY <1>0, <1>4 DEF FlushEvent, Types, IoType, MemType
  <2> QED
    BY <1>0, <2>1 DEF HalfDone
<1>5. CASE WriteUsedElem
  <2>1. Slot(dev.next_used) \in Heads /\ io.len = 1
    BY <1>0, <1>5, InRange, RingTypes DEF WriteUsedElem, IoControl
  <2>2. /\ io'.pc = "index" /\ io'.head = io.head /\ dev' = dev /\ UNCHANGED <<drain, drv>>
        /\ mem'.used[Slot(dev.next_used)] = [id |-> io.head, len |-> 1]
        /\ mem'.used_idx = mem.used_idx /\ mem'.avail = mem.avail /\ mem'.avail_idx = mem.avail_idx
    BY <1>0, <1>5, <2>1 DEF WriteUsedElem, Types, IoType, MemType
  <2> QED
    BY <1>0, <2>2 DEF HalfDone
<1>6. CASE WriteUsedIdx
  <2>1. Inc(dev.next_used) # drv.last_used
    BY <1>6, CompletedGrows DEF WriteUsedIdx
  <2>2. /\ io'.pc \in {"avail", "flush"} /\ UNCHANGED <<drain, drv>>
        /\ mem'.used_idx = Inc(dev.next_used) /\ mem'.avail = mem.avail
        /\ mem'.avail_idx = mem.avail_idx
    BY <1>0, <1>6 DEF WriteUsedIdx, Types, IoType, MemType
  <2> QED
    BY <1>0, <2>1, <2>2 DEF HalfDone
<1>7. CASE ReadUsedIdx
  <2>1. Ahead(drv.last_used, mem.used_idx) \in 0 .. QueueSize
    BY <1>7, ReadFits DEF ReadUsedIdx
  <2>2. /\ drv' = drv /\ UNCHANGED <<mem, dev, io>> /\ drain'.pc \in {"take", "kick"}
        /\ (drain'.pc = "take" => Ahead(drv.last_used, mem.used_idx) \in 1 .. QueueSize)
    BY <1>0, <1>7, <2>1, Constants DEF ReadUsedIdx, Types, DrainType
  <2>3. drv.last_used = mem.used_idx => Ahead(drv.last_used, mem.used_idx) = 0
    BY RingTypes, Distance
  <2>4. drain'.pc = "take" => mem.used_idx # drv.last_used
    BY <2>2, <2>3, Constants
  <2> QED
    BY <1>0, <2>2, <2>4 DEF HalfDone
<1>8. CASE \/ TakeUsed \/ CheckEvent \/ ProcessEvent \/ Kick \/ Unlock \/ LockForPost
           \/ FinalDrain \/ AddBuffer
  <2>1. drain'.pc \notin {"take", "publish"} /\ mem' = mem
    <3>1. CASE TakeUsed
      BY <1>0, <3>1 DEF TakeUsed, Types, DrainType
    <3>2. CASE ProcessEvent \/ Kick
      BY <1>0, <3>2 DEF ProcessEvent, Repost, Kick, Types, DrainType
    <3>3. CASE Unlock \/ LockForPost \/ FinalDrain
      BY <3>3 DEF Unlock, LockForPost, FinalDrain, IdleDrain
    <3>4. CASE AddBuffer
      BY <1>0, <3>4 DEF AddBuffer, Types, DrainType
    <3>5. CASE CheckEvent
      BY <1>0, <3>5, CheckEffect, RepostEffect
    <3> QED
      BY <1>8, <3>1, <3>2, <3>3, <3>4, <3>5
  <2>2. \/ io' = io /\ dev' = dev
        \/ io'.pc \in {"idle", "avail"}
    <3>1. CASE Kick
      <4>1. [dev EXCEPT !.pending_notify = TRUE] \in DevType
        BY <1>0 DEF Types, DevType
      <4> QED
        BY <1>0, <3>1, <4>1, MmioEffect DEF Kick, AtStart
    <3>2. CASE ~Kick
      BY <1>8, <3>2 DEF TakeUsed, CheckEvent, ProcessEvent, Unlock, LockForPost, FinalDrain, AddBuffer
    <3> QED
      BY <3>1, <3>2
  <2> QED
    BY <1>0, <2>1, <2>2 DEF HalfDone
<1>9. CASE PublishSlot
  <2>1. Slot(mem.avail_idx) \in Heads
    BY InRange, RingTypes
  <2>2. /\ drain'.pc = "publish" /\ drain'.head = drain.head /\ UNCHANGED <<dev, io, drv>>
        /\ mem'.avail[Slot(mem.avail_idx)] = drain.head /\ mem'.avail_idx = mem.avail_idx
        /\ mem'.used = mem.used
    BY <1>0, <1>9, <2>1 DEF PublishSlot, Types, DrainType, MemType
  <2> QED
    BY <1>0, <2>2 DEF HalfDone
<1>10. CASE Publish
  <2>1. dev.on /\ mem.avail[Slot(mem.avail_idx)] \in InDriver
    BY <1>0, <1>10 DEF Publish, LockControl, IoControl, HalfDone, Types, DrainType, UpPower,
       InDriver, Held
  <2>2. Inc(mem.avail_idx) # dev.next_avail
    BY <2>1, PublishedGrows
  <2>3. /\ drain'.pc \in {"add", "used"} /\ UNCHANGED <<dev, io, drv>>
        /\ mem'.avail_idx = Inc(mem.avail_idx) /\ mem'.used = mem.used
    BY <1>0, <1>10 DEF Publish, Types, DrainType, MemType, IdleDrain
  <2> QED
    BY <1>0, <2>2, <2>3 DEF HalfDone
<1>11. CASE Interrupt
  <2>1. /\ mem' = mem /\ io' = io /\ dev'.next_avail = dev.next_avail
        /\ dev'.next_used = dev.next_used /\ drv'.last_used = drv.last_used
        /\ (drain' = drain \/ drain'.pc = "used")
    BY <1>0, <1>11 DEF Interrupt, IsrRead, IsrLatch, DpcStart, DpcClaim, DpcLock, Types,
       DevType, DrvType, IdleDrain
  <2> QED
    BY <1>0, <2>1 DEF HalfDone
<1>12. CASE NegotiateFeatures \/ ExitResetDevice \/ EntryReset \/ ExitReset
  <2>1. io.pc = "idle" /\ drain.pc = "idle" /\ io' = io /\ drain' = drain
    BY <1>0, <1>12 DEF NegotiateFeatures, ExitResetDevice, ResetStep, EntryReset, ExitReset,
       ResetRing, At, LockControl, IoControl, UpPower, Types
  <2> QED
    BY <2>1 DEF HalfDone
<1>13. CASE \/ Start \/ EnableInterrupt \/ Resume \/ Stop \/ WaitForDrain \/ Quiesce
            \/ DisableInterrupt \/ WaitForLock
  <2>1. drv'.last_used = drv.last_used /\ UNCHANGED <<mem, dev, io, drain>>
    BY <1>0, <1>13 DEF Start, EnableInterrupt, Resume, Stop, WaitForDrain, Quiesce,
       DisableInterrupt, WaitForLock, Types, DrvType
  <2> QED
    BY <1>0, <2>1 DEF HalfDone
<1>14. CASE UNCHANGED vars
  BY <1>0, <1>14 DEF vars, HalfDone
<1>15. CASE Hid
  BY <1>0, <1>15, HidEffect DEF HalfDone
<1> QED
  BY <1>1, <1>2, <1>3, <1>4, <1>5, <1>6, <1>7, <1>8, <1>9, <1>10, <1>11, <1>12, <1>13, <1>14, <1>15
  DEF Next, Device, Drain, D0Entry, D0Exit


-----------------------------------------------------------------------------
(* The order of the events.                                                *)

LEMMA OrderedFrame ==
  ASSUME Ordered, mem'.buf = mem.buf, mem'.used = mem.used, mem'.used_idx = mem.used_idx,
         drv'.last_used = drv.last_used, io'.head = io.head, EventHead' = EventHead,
         dev'.pending = dev.pending, received' = received, injected' = injected
  PROVE  Ordered'
BY DEF Ordered

\* The buffer the device fills next holds no event that is still on its way.
LEMMA FlushIsSafe ==
  ASSUME IInv, FlushEvent
  PROVE  /\ Order([mem.buf EXCEPT ![Head(dev.buffers)] = Head(dev.pending)], mem.used,
                  drv.last_used, mem.used_idx, Head(dev.buffers), EventHead,
                  Tail(dev.pending), received, injected)
         /\ Head(dev.pending) \in 1 .. injected /\ Head(dev.buffers) \in Heads
         /\ Len(Tail(dev.pending)) <= Len(dev.pending)
<1> DEFINE h == Head(dev.buffers)
           c == Ahead(dev.next_used, mem.avail_idx)
           u == Ahead(drv.last_used, mem.used_idx)
<1>1. dev.on /\ io.head = NoHead /\ dev.buffers # << >> /\ dev.pending # << >>
      /\ mem.used_idx = dev.next_used
  BY DEF IInv, IoControl, FlushEvent
<1>2. /\ DevRing(mem.avail, mem.avail_idx, dev.next_used, dev.next_avail, dev.buffers, NoHead)
      /\ Owned(mem.avail, mem.avail_idx, dev.next_used, mem.used, drv.last_used, InDriver)
  BY <1>1 DEF IInv, Ring
<1>3. h \in Heads /\ h = DevAt(mem.avail, dev.next_used, 0) /\ c >= 1
  <2>1. /\ mem.avail \in [Heads -> Heads] /\ mem.avail_idx \in Indices
        /\ dev.next_used \in Indices /\ dev.next_avail \in Indices /\ dev.buffers \in Seq(Heads)
    BY RingTypes
  <2> QED
    BY <1>1, <1>2, <2>1, DevFlush
<1>4. c \in Nat
  BY RingTypes, Distance
<1>5. /\ \A j \in 0 .. c - 1 : \A k \in 0 .. u - 1 :
           DevAt(mem.avail, dev.next_used, j) # UsedAt(mem.used, drv.last_used, k)
      /\ \A j \in 0 .. c - 1 : DevAt(mem.avail, dev.next_used, j) \notin InDriver
  BY <1>1, <1>2 DEF Owned
<1> HIDE DEF h, c, u
<1>6. 0 \in 0 .. c - 1
  BY <1>3, <1>4
<1>7. h \notin InDriver /\ \A k \in 0 .. u - 1 : UsedAt(mem.used, drv.last_used, k) # h
  BY <1>3, <1>5, <1>6
<1>8. EventHead # h
  BY <1>3, <1>7, HeadIsNot DEF EventHead, InDriver, Held
<1>9. Order(mem.buf, mem.used, drv.last_used, mem.used_idx, NoHead, EventHead,
            dev.pending, received, injected)
  BY <1>1 DEF IInv, Ordered
<1>10. /\ mem.buf \in [Heads -> Nat] /\ mem.used \in UsedType /\ drv.last_used \in Indices
       /\ mem.used_idx \in Indices /\ EventHead \in Heads \cup {NoHead}
       /\ dev.pending \in Seq(Nat) /\ received \in Seq(Nat) /\ injected \in Nat
  BY RingTypes
<1>11. NotUsed(mem.used, drv.last_used, mem.used_idx, h)
  BY <1>7 DEF u, NotUsed
<1>12. /\ Order([mem.buf EXCEPT ![h] = Head(dev.pending)], mem.used, drv.last_used, mem.used_idx,
                h, EventHead, Tail(dev.pending), received, injected)
       /\ Head(dev.pending) \in 1 .. injected
  BY <1>1, <1>3, <1>8, <1>9, <1>10, <1>11, OrderFlush
<1>13. Len(Tail(dev.pending)) <= Len(dev.pending)
  BY <1>1, <1>10
<1> QED
  BY <1>3, <1>12, <1>13 DEF h

\* The event the driver is at was injected, and may be received next or dropped.
LEMMA EventIsSafe ==
  ASSUME IInv, drain.pc \in {"event", "process"}
  PROVE  /\ Order(mem.buf, mem.used, drv.last_used, mem.used_idx, io.head, NoHead,
                  dev.pending, Append(received, mem.buf[drain.head]), injected)
         /\ Order(mem.buf, mem.used, drv.last_used, mem.used_idx, io.head, NoHead,
                  dev.pending, received, injected)
         /\ mem.buf[drain.head] \in 1 .. injected /\ drain.head \in Heads
<1>1. drain.head \in Heads /\ EventHead = drain.head
  BY DEF IInv, LockControl, Types, DrainType, EventHead
<1>2. Order(mem.buf, mem.used, drv.last_used, mem.used_idx, io.head, drain.head,
            dev.pending, received, injected)
  BY <1>1 DEF IInv, Ordered
<1>3. /\ mem.buf \in [Heads -> Nat] /\ mem.used \in UsedType /\ drv.last_used \in Indices
      /\ mem.used_idx \in Indices /\ io.head \in Heads \cup {NoHead}
      /\ dev.pending \in Seq(Nat) /\ received \in Seq(Nat) /\ injected \in Nat
  BY RingTypes
<1> QED
  BY <1>1, <1>2, <1>3, OrderReceived

LEMMA OrderedStep == ASSUME IInv, [Next]_vars PROVE Ordered'
<1>0. Types /\ IoControl /\ LockControl /\ Ordered
  BY DEF IInv
<1>0a. drain' = drain => EventHead' = EventHead
  BY DEF EventHead
<1>0b. drain.pc \notin {"event", "process"} /\ drain'.pc \notin {"event", "process"}
       => EventHead' = EventHead
  BY DEF EventHead
<1>1. CASE Inject
  <2>1. /\ io'.head = NoHead /\ UNCHANGED <<mem, drv, drain, received>>
        /\ Order(mem.buf, mem.used, drv.last_used, mem.used_idx, NoHead, EventHead,
                 dev'.pending, received, injected')
    BY <1>1, InjectEffect DEF Inject, AtStart
  <2> QED
    BY <1>0a, <2>1 DEF Ordered
<1>2. CASE Tick
  <2>1. AtStart(io') /\ SameQueue(dev', dev) /\ io.head = NoHead
    BY <1>0, <1>2, PollEffect DEF Tick, Types, IoControl
  <2> QED
    BY <1>0, <1>0a, <1>2, <2>1, OrderedFrame DEF Tick, SameQueue, AtStart, histVars
<1>3. CASE Restore \/ NegotiateFeatures \/ ExitResetDevice
  <2>1. dev'.pending = << >> /\ UNCHANGED <<mem, io, drv, drain, received, injected>>
    <3>1. CASE Restore
      BY <1>0, <3>1 DEF Restore, Rewound, Types, DevType
    <3>2. CASE NegotiateFeatures \/ ExitResetDevice
      BY <3>2 DEF NegotiateFeatures, ExitResetDevice, ResetStep, ResetDevice
    <3> QED
      BY <1>3, <3>1, <3>2
  <2>2. Order(mem.buf, mem.used, drv.last_used, mem.used_idx, io.head, EventHead,
              << >>, received, injected)
    BY <1>0, OrderDropped DEF Ordered
  <2> QED
    BY <1>0a, <2>1, <2>2 DEF Ordered
<1>4. CASE ReadAvailIdx \/ FlushDone
  <2>1. io'.head = io.head /\ UNCHANGED <<mem, dev, drv, drain, received, injected>>
    BY <1>0, <1>4 DEF ReadAvailIdx, FlushDone, Types, IoType, histVars
  <2> QED
    BY <1>0, <1>0a, <2>1, OrderedFrame
<1>5. CASE PopChain
  <2>1. /\ io'.head = io.head /\ dev'.pending = dev.pending
        /\ UNCHANGED <<mem, drv, drain, received, injected>>
    BY <1>0, <1>5, PopFits DEF PopChain, Types, IoType, DevType, histVars
  <2> QED
    BY <1>0, <1>0a, <2>1, OrderedFrame
<1>6. CASE FlushEvent
  <2>1. /\ io'.head = Head(dev.buffers) /\ dev'.pending = Tail(dev.pending)
        /\ mem'.buf = [mem.buf EXCEPT ![Head(dev.buffers)] = Head(dev.pending)]
        /\ mem'.used = mem.used /\ mem'.used_idx = mem.used_idx
        /\ UNCHANGED <<drv, drain, received, injected>>
    BY <1>0, <1>6 DEF FlushEvent, Types, IoType, DevType, MemType, histVars
  <2> QED
    BY <1>0a, <1>6, <2>1, FlushIsSafe DEF Ordered
<1>7. CASE WriteUsedElem
  <2> DEFINE e == [id |-> io.head, len |-> io.len]
             us2 == [mem.used EXCEPT ![Slot(dev.next_used)] = e]
  <2>1. dev.on /\ io.head \in Heads /\ io.len = 1 /\ io.head # NoHead /\ mem.used_idx = dev.next_used
    BY <1>0, <1>7 DEF WriteUsedElem, IoControl, Types, IoType
  <2>2. /\ DevRing(mem.avail, mem.avail_idx, dev.next_used, dev.next_avail, dev.buffers, io.head)
        /\ Owned(mem.avail, mem.avail_idx, dev.next_used, mem.used, drv.last_used, InDriver)
    BY <2>1 DEF IInv, Ring
  <2>3. /\ mem.avail \in [Heads -> Heads] /\ mem.avail_idx \in Indices
        /\ dev.next_used \in Indices /\ dev.next_avail \in Indices /\ dev.buffers \in Seq(Heads)
        /\ mem.used \in UsedType /\ drv.last_used \in Indices /\ InDriver \in SUBSET Heads
    BY RingTypes
  <2>4. dev.next_used # mem.avail_idx
    BY <2>1, <2>2, <2>3, DevComplete
  <2>5. e \in [id : Heads, len : {0, 1}]
    BY <2>1
  <2>6. /\ mem'.used = us2 /\ mem'.buf = mem.buf /\ mem'.used_idx = mem.used_idx
        /\ io'.head = io.head /\ UNCHANGED <<dev, drv, drain, received, injected>>
    BY <1>0, <1>7 DEF WriteUsedElem, Types, MemType, IoType, histVars
  <2> HIDE DEF e
  <2>7. /\ Owned(mem.avail, mem.avail_idx, dev.next_used, us2, drv.last_used, InDriver)
        /\ SameUsed(us2, mem.used, drv.last_used, dev.next_used)
    BY <2>2, <2>3, <2>4, <2>5, OwnedElem
  <2> HIDE DEF us2
  <2>8. Order(mem.buf, us2, drv.last_used, mem.used_idx, io.head, EventHead,
              dev.pending, received, injected)
    BY <1>0, <2>1, <2>7, OrderElem DEF Ordered
  <2> QED
    BY <1>0a, <2>6, <2>8 DEF Ordered
<1>8. CASE WriteUsedIdx
  <2>1. /\ mem.used_idx = dev.next_used /\ io.head \in Heads
        /\ Ahead(drv.last_used, Inc(mem.used_idx)) = Ahead(drv.last_used, mem.used_idx) + 1
        /\ mem.used[Slot(mem.used_idx)] = [id |-> io.head, len |-> 1]
    BY <1>8, CompletedGrows DEF WriteUsedIdx
  <2>2. /\ io'.head = NoHead /\ mem'.used_idx = Inc(mem.used_idx) /\ mem'.used = mem.used
        /\ mem'.buf = mem.buf /\ dev'.pending = dev.pending
        /\ UNCHANGED <<drv, drain, received, injected>>
    BY <1>0, <1>8, <2>1 DEF WriteUsedIdx, Types, MemType, IoType, DevType, histVars
  <2>3. /\ mem.buf \in [Heads -> Nat] /\ mem.used \in UsedType /\ drv.last_used \in Indices
        /\ mem.used_idx \in Indices /\ EventHead \in Heads \cup {NoHead}
        /\ dev.pending \in Seq(Nat) /\ received \in Seq(Nat) /\ injected \in Nat
    BY RingTypes
  <2>4. Order(mem.buf, mem.used, drv.last_used, Inc(mem.used_idx), NoHead, EventHead,
              dev.pending, received, injected)
    BY <1>0, <2>1, <2>3, OrderComplete DEF Ordered
  <2> QED
    BY <1>0a, <2>2, <2>4 DEF Ordered
<1>9. CASE Signal
  <2>1. /\ io'.head = io.head /\ dev'.pending = dev.pending
        /\ UNCHANGED <<mem, drv, drain, received, injected>>
    BY <1>0, <1>9 DEF Signal, Types, DevType, IdleIo, IoControl, histVars
  <2> QED
    BY <1>0, <1>0a, <2>1, OrderedFrame
<1>10. CASE ReadUsedIdx
  <2>1. ~(Ahead(drv.last_used, mem.used_idx) > QueueSize)
    BY <1>10, ReadFits, Constants DEF ReadUsedIdx
  <2>2. /\ drain.pc \notin {"event", "process"} /\ drain'.pc \notin {"event", "process"}
        /\ UNCHANGED <<mem, dev, io, drv, received, injected>>
    BY <1>0, <1>10, <2>1 DEF ReadUsedIdx, Types, DrainType, histVars
  <2> QED
    BY <1>0, <1>0b, <2>2, OrderedFrame
<1>11. CASE TakeUsed
  <2> DEFINE e == mem.used[Slot(drv.last_used)]
  <2>1. /\ e.id \in drv.cookies
        /\ Order(mem.buf, mem.used, Inc(drv.last_used), mem.used_idx, io.head, e.id,
                 dev.pending, received, injected)
    BY <1>11, TakeFits DEF TakeUsed
  <2>2. /\ drain' = [drain EXCEPT !.pc = "event", !.head = e.id, !.len = e.len]
        /\ drv' = [drv EXCEPT !.cookies = @ \ {e.id}, !.last_used = Inc(@)]
        /\ UNCHANGED <<mem, dev, io, received, injected>>
    BY <1>11, <2>1 DEF TakeUsed, histVars
  <2> HIDE DEF e
  <2>3. drv'.last_used = Inc(drv.last_used) /\ EventHead' = e.id
    BY <1>0, <2>2 DEF Types, DrvType, DrainType, EventHead
  <2> QED
    BY <2>1, <2>2, <2>3 DEF Ordered
<1>12. CASE ProcessEvent
  <2>1. /\ drain.pc = "process" /\ drain.head \in Heads /\ Repost
        /\ received' = Append(received, mem.buf[drain.head]) /\ UNCHANGED <<mem, dev, io, injected>>
    BY <1>12, EventIsSafe DEF ProcessEvent
  <2>2. EventHead' = NoHead /\ drv'.last_used = drv.last_used
    BY <1>0, <2>1, RepostEffect DEF EventHead
  <2> QED
    BY <2>1, <2>2, EventIsSafe DEF Ordered
<1>12a. CASE CheckEvent
  <2>1. /\ drain.pc = "event" /\ drain.head \in Heads
        /\ UNCHANGED <<mem, dev, io, received, injected>>
    BY <1>12a, CheckEffect
  <2>2. CASE Repost
    <3>1. EventHead' = NoHead /\ drv'.last_used = drv.last_used
      BY <1>0, <2>1, <2>2, RepostEffect DEF EventHead
    <3> QED
      BY <2>1, <3>1, EventIsSafe DEF Ordered
  <2>3. CASE ~Repost
    <3>1. EventHead' = EventHead /\ drv' = drv
      BY <1>12a, <2>1, <2>3, CheckEffect DEF EventHead
    <3> QED
      BY <1>0, <2>1, <3>1, OrderedFrame
  <2> QED
    BY <2>2, <2>3
<1>12b. CASE Hid
  BY <1>0, <1>0a, <1>12b, HidEffect, OrderedFrame
<1>13. CASE PublishSlot \/ Publish
  <2>1. /\ drain.pc \notin {"event", "process"} /\ drain'.pc \notin {"event", "process"}
        /\ mem'.buf = mem.buf /\ mem'.used = mem.used
        /\ mem'.used_idx = mem.used_idx /\ UNCHANGED <<dev, io, drv, received, injected>>
    BY <1>0, <1>13 DEF PublishSlot, Publish, Types, DrainType, MemType, IdleDrain, histVars
  <2> QED
    BY <1>0, <1>0b, <2>1, OrderedFrame
<1>14. CASE Kick
  <2>1. [dev EXCEPT !.pending_notify = TRUE] \in DevType
        /\ SameQueue([dev EXCEPT !.pending_notify = TRUE], dev)
    BY <1>0 DEF Types, DevType, SameQueue
  <2>2. SameQueue(dev', dev) /\ io'.head = io.head
    <3>1. CASE drain.reposted
      BY <1>0, <1>14, <2>1, <3>1, MmioEffect DEF Kick, SameQueue, AtStart
    <3>2. CASE ~drain.reposted
      BY <1>0, <1>14, <3>2 DEF Kick, SameQueue
    <3> QED
      BY <3>1, <3>2
  <2>3. /\ drain.pc \notin {"event", "process"} /\ drain'.pc \notin {"event", "process"}
        /\ UNCHANGED <<mem, drv, received, injected>>
    BY <1>0, <1>14 DEF Kick, Types, DrainType, histVars
  <2> QED
    BY <1>0, <1>0b, <2>2, <2>3, OrderedFrame DEF SameQueue
<1>15. CASE Unlock \/ LockForPost \/ FinalDrain
  <2>1. /\ drain.pc \notin {"event", "process"} /\ drain'.pc \notin {"event", "process"}
        /\ UNCHANGED <<mem, dev, io, drv, received, injected>>
    BY <1>0, <1>15 DEF Unlock, LockForPost, FinalDrain, LockControl, IdleDrain, histVars
  <2> QED
    BY <1>0, <1>0b, <2>1, OrderedFrame
<1>16. CASE Interrupt
  <2>1. /\ dev'.pending = dev.pending /\ drv'.last_used = drv.last_used
        /\ UNCHANGED <<mem, io, received, injected>>
    BY <1>0, <1>16 DEF Interrupt, IsrRead, IsrLatch, DpcStart, DpcClaim, DpcLock, Types,
       DevType, DrvType, histVars
  <2>2. EventHead' = EventHead
    BY <1>0, <1>0a, <1>0b, <1>16
    DEF Interrupt, IsrRead, IsrLatch, DpcStart, DpcClaim, DpcLock, LockControl, IdleDrain
  <2> QED
    BY <1>0, <2>1, <2>2, OrderedFrame
<1>17. CASE EntryReset \/ ExitReset
  <2>1. /\ io.head = NoHead /\ EventHead = NoHead /\ UNCHANGED <<dev, io, drain, received, injected>>
    BY <1>0, <1>17 DEF EntryReset, ExitReset, ResetRing, At, IoControl, LockControl, UpPower,
       EventHead, histVars, Types
  <2>2. mem'.used_idx = 0 /\ drv'.last_used = 0 /\ mem'.used = mem.used /\ mem'.buf = mem.buf
    BY <1>0, <1>17 DEF EntryReset, ExitReset, ResetRing, Types, MemType, DrvType
  <2>3. Order(mem.buf, mem.used, 0, 0, NoHead, NoHead, dev.pending, received, injected)
    BY <1>0, <2>1, OrderRingReset DEF Ordered
  <2> QED
    BY <1>0a, <2>1, <2>2, <2>3 DEF Ordered
<1>18. CASE SetupQueue
  <2> DEFINE d == [dev EXCEPT !.on = TRUE, !.next_avail = 0, !.next_used = 0]
  <2>1. d \in DevType /\ d.pending = dev.pending
    BY <1>0, Constants DEF Types, DevType
  <2>2. MmioWrite(d) /\ UNCHANGED <<mem, drv, drain, received, injected>>
    BY <1>18 DEF SetupQueue, histVars
  <2> HIDE DEF d
  <2>3. dev'.pending = dev.pending /\ io'.head = io.head
    BY <1>0, <2>1, <2>2, MmioEffect DEF SameQueue, AtStart
  <2> QED
    BY <1>0, <1>0a, <2>2, <2>3, OrderedFrame
<1>19. CASE AddBuffer
  <2>1. /\ drain.pc \notin {"event", "process"} /\ drain'.pc \notin {"event", "process"}
        /\ drv'.last_used = drv.last_used
        /\ UNCHANGED <<mem, dev, io, received, injected>>
    BY <1>0, <1>19 DEF AddBuffer, Types, DrainType, DrvType, histVars
  <2> QED
    BY <1>0, <1>0b, <2>1, OrderedFrame
<1>20. CASE \/ Start \/ EnableInterrupt \/ Resume \/ Stop \/ WaitForDrain \/ Quiesce
            \/ DisableInterrupt \/ WaitForLock
  <2>1. drv'.last_used = drv.last_used /\ UNCHANGED <<mem, dev, io, drain, received, injected>>
    BY <1>0, <1>20 DEF Start, EnableInterrupt, Resume, Stop, WaitForDrain, Quiesce,
       DisableInterrupt, WaitForLock, Types, DrvType, histVars
  <2> QED
    BY <1>0, <1>0a, <2>1, OrderedFrame
<1>21. CASE DriverOk
  <2>1. SameQueue(dev', dev) /\ io'.head = io.head /\ UNCHANGED <<mem, drv, drain, received, injected>>
    BY <1>0, <1>21, MmioEffect DEF DriverOk, Types, AtStart, histVars
  <2> QED
    BY <1>0, <1>0a, <2>1, OrderedFrame DEF SameQueue
<1>22. CASE UNCHANGED vars
  BY <1>0, <1>0a, <1>22, OrderedFrame DEF vars
<1> QED
  BY <1>12a, <1>12b, <1>1, <1>2, <1>3, <1>4, <1>5, <1>6, <1>7, <1>8, <1>9, <1>10, <1>11, <1>12, <1>13, <1>14,
     <1>15, <1>16, <1>17, <1>18, <1>19, <1>20, <1>21, <1>22
  DEF Next, Device, Drain, D0Entry, D0Exit


-----------------------------------------------------------------------------
(* Bounds, and the interrupts.                                             *)

LEMMA BoundsStep == ASSUME IInv, [Next]_vars PROVE Bounds'
<1>0. Types /\ IoControl /\ Bounds
  BY DEF IInv
<1>1. CASE Inject
  <2>1. /\ SameChains(dev', dev) /\ Len(dev'.pending) <= MaxPending /\ lost' \subseteq 1 .. injected'
        /\ injected' \in Nat /\ injected <= injected' /\ injected' <= MaxInjects * Burst
    BY <1>1, InjectEffect
  <2>2. \A h \in Heads : mem'.buf[h] <= injected'
    BY <1>0, <1>1, <2>1, RingTypes DEF Inject, Bounds
  <2> QED
    BY <1>0, <2>1, <2>2 DEF Bounds, SameChains
<1>2. CASE Tick \/ DriverOk \/ SetupQueue \/ Kick
  <2>1. /\ dev'.irq = dev.irq /\ dev'.isr_status = dev.isr_status /\ dev'.pending = dev.pending
    <3>1. CASE Tick
      BY <1>0, <3>1, PollEffect DEF Tick, SameQueue, Types
    <3>2. CASE DriverOk
      BY <1>0, <3>2, MmioEffect DEF DriverOk, SameQueue, Types
    <3>3. CASE SetupQueue
      <4> DEFINE d == [dev EXCEPT !.on = TRUE, !.next_avail = 0, !.next_used = 0]
      <4>1. /\ d \in DevType /\ d.pending = dev.pending /\ d.irq = dev.irq
            /\ d.isr_status = dev.isr_status
        BY <1>0, Constants DEF Types, DevType
      <4>2. MmioWrite(d)
        BY <3>3 DEF SetupQueue
      <4> HIDE DEF d
      <4> QED
        BY <1>0, <4>1, <4>2, MmioEffect DEF SameQueue
    <3>4. CASE Kick
      <4> DEFINE d == [dev EXCEPT !.pending_notify = TRUE]
      <4>1. d \in DevType /\ SameQueue(d, dev)
        BY <1>0 DEF Types, DevType, SameQueue
      <4>2. MmioWrite(d) \/ dev' = dev
        BY <3>4 DEF Kick
      <4> HIDE DEF d
      <4> QED
        BY <1>0, <4>1, <4>2, MmioEffect DEF SameQueue
    <3> QED
      BY <1>2, <3>1, <3>2, <3>3, <3>4
  <2>2. UNCHANGED <<mem, injected, lost>>
    BY <1>2 DEF Tick, DriverOk, SetupQueue, Kick, histVars
  <2> QED
    BY <1>0, <2>1, <2>2 DEF Bounds
<1>3. CASE Restore
  <2>1. dev'.irq = dev.irq /\ dev'.isr_status = dev.isr_status /\ dev'.pending = << >>
    BY <1>0, <1>3 DEF Restore, Rewound, Types, DevType
  <2>2. \A k \in 1 .. Len(dev.pending) : dev.pending[k] \in 1 .. injected
    BY DEF IInv, Ordered, Order, OnItsWay
  <2>3. lost' \subseteq 1 .. injected /\ UNCHANGED <<mem, injected>>
    BY <1>0, <1>3, <2>2 DEF Restore, Bounds
  <2>4. Len(dev'.pending) <= MaxPending
    BY <2>1, Constants
  <2> QED
    BY <1>0, <2>1, <2>3, <2>4 DEF Bounds
<1>4. CASE FlushEvent
  <2>1. /\ Head(dev.pending) \in 1 .. injected /\ Head(dev.buffers) \in Heads
        /\ Len(Tail(dev.pending)) <= Len(dev.pending)
    BY <1>4, FlushIsSafe
  <2>2. /\ dev'.irq = dev.irq /\ dev'.isr_status = dev.isr_status /\ dev'.pending = Tail(dev.pending)
        /\ mem'.buf = [mem.buf EXCEPT ![Head(dev.buffers)] = Head(dev.pending)]
        /\ UNCHANGED <<injected, lost>>
    BY <1>0, <1>4 DEF FlushEvent, Types, DevType, MemType, histVars
  <2>3. \A h \in Heads : mem'.buf[h] <= injected
    BY <1>0, <2>1, <2>2, RingTypes DEF Bounds
  <2>4. Len(dev'.pending) <= MaxPending
    <3>1. Len(dev.pending) \in Nat /\ Len(Tail(dev.pending)) \in Nat
      BY <1>4, RingTypes DEF FlushEvent
    <3> QED
      BY <1>0, <2>1, <2>2, <3>1, Constants DEF Bounds
  <2> QED
    BY <1>0, <2>2, <2>3, <2>4 DEF Bounds
<1>5. CASE ReadAvailIdx \/ PopChain \/ FlushDone \/ Signal
  <2>1. /\ dev'.irq = dev'.isr_status /\ dev'.pending = dev.pending
        /\ UNCHANGED <<mem, injected, lost>>
    <3>1. CASE ReadAvailIdx \/ FlushDone
      BY <1>0, <3>1 DEF ReadAvailIdx, FlushDone, Bounds, histVars
    <3>2. CASE PopChain
      BY <1>0, <3>2 DEF PopChain, Bounds, Types, DevType, histVars
    <3>3. CASE Signal
      BY <1>0, <3>3 DEF Signal, Bounds, Types, DevType, histVars
    <3> QED
      BY <1>5, <3>1, <3>2, <3>3
  <2> QED
    BY <1>0, <2>1 DEF Bounds
<1>6. CASE WriteUsedElem \/ WriteUsedIdx \/ PublishSlot \/ Publish
  <2>1. /\ mem'.buf = mem.buf /\ dev'.irq = dev.irq /\ dev'.isr_status = dev.isr_status
        /\ dev'.pending = dev.pending /\ UNCHANGED <<injected, lost>>
    BY <1>0, <1>6 DEF WriteUsedElem, WriteUsedIdx, PublishSlot, Publish, Types, MemType,
       DevType, histVars
  <2> QED
    BY <1>0, <2>1 DEF Bounds
<1>7. CASE ProcessEvent
  BY <1>0, <1>7 DEF ProcessEvent, Bounds
<1>7a. CASE CheckEvent
  <2>1. drain.pc = "event" /\ UNCHANGED <<mem, dev, injected>>
    BY <1>7a, CheckEffect
  <2>2. lost' \subseteq 1 .. injected
    BY <1>0, <1>7a, <2>1, CheckEffect, EventIsSafe DEF Bounds
  <2> QED
    BY <1>0, <2>1, <2>2 DEF Bounds
<1>7b. CASE Hid
  BY <1>0, <1>7b, HidEffect DEF Bounds
<1>8. CASE Interrupt
  <2>1. /\ dev'.irq = dev'.isr_status /\ dev'.pending = dev.pending
        /\ UNCHANGED <<mem, injected, lost>>
    BY <1>0, <1>8 DEF Interrupt, IsrRead, IsrLatch, DpcStart, DpcClaim, DpcLock, Types,
       DevType, Bounds, histVars
  <2> QED
    BY <1>0, <2>1 DEF Bounds
<1>9. CASE NegotiateFeatures \/ ExitResetDevice
  <2>1. /\ dev'.irq = dev'.isr_status /\ Len(dev'.pending) <= MaxPending
        /\ lost' \subseteq lost \cup 1 .. injected /\ UNCHANGED <<mem, injected>>
    <3>1. Len(<< >>) <= MaxPending
      BY Constants
    <3>2. dev' = ResetDevice /\ lost' \subseteq lost \cup 1 .. injected /\ UNCHANGED <<mem, injected>>
      BY <1>9 DEF NegotiateFeatures, ExitResetDevice, ResetStep
    <3> QED
      BY <3>1, <3>2 DEF ResetDevice
  <2> QED
    BY <1>0, <2>1 DEF Bounds
<1>10. CASE EntryReset \/ ExitReset
  <2>1. mem'.buf = mem.buf /\ UNCHANGED <<dev, injected, lost>>
    BY <1>0, <1>10 DEF EntryReset, ExitReset, ResetRing, Types, MemType, histVars
  <2> QED
    BY <1>0, <2>1 DEF Bounds
<1>11. CASE \/ ReadUsedIdx \/ TakeUsed \/ Unlock \/ LockForPost \/ FinalDrain \/ AddBuffer
            \/ Start \/ EnableInterrupt \/ Resume \/ Stop \/ WaitForDrain \/ Quiesce
            \/ DisableInterrupt \/ WaitForLock
  <2>1. UNCHANGED <<mem, dev, injected, lost>>
    BY <1>11 DEF ReadUsedIdx, TakeUsed, Unlock, LockForPost, FinalDrain, AddBuffer,
       Start, EnableInterrupt, Resume, Stop, WaitForDrain, Quiesce, DisableInterrupt,
       WaitForLock, histVars
  <2> QED
    BY <1>0, <2>1 DEF Bounds
<1>12. CASE UNCHANGED vars
  BY <1>0, <1>12 DEF vars, Bounds
<1> QED
  BY <1>1, <1>2, <1>3, <1>4, <1>5, <1>6, <1>7, <1>7a, <1>7b, <1>8, <1>9, <1>10, <1>11, <1>12
  DEF Next, Device, Drain, D0Entry, D0Exit

LEMMA NotForgottenStep == ASSUME IInv, NotForgotten, [Next]_vars PROVE NotForgotten'
<1>0. Types /\ IoControl /\ LockControl
  BY DEF IInv
<1>0a. Looked => /\ drv.started /\ ~drv.reset_in_progress /\ power \in {"on", "drain"}
  BY <1>0 DEF Looked, LockControl
<1>1. CASE Inject \/ Tick \/ DriverOk \/ Kick
  <2>1. dev'.irq = dev.irq /\ io'.need_irq = io.need_irq
    <3>1. CASE Inject
      BY <1>0, <3>1, InjectEffect DEF SameChains, AtStart, IoControl
    <3>2. CASE Tick
      BY <1>0, <3>2, PollEffect DEF Tick, SameQueue, AtStart, IoControl, Types
    <3>3. CASE DriverOk
      BY <1>0, <3>3, MmioEffect DEF DriverOk, SameQueue, AtStart, IoControl, Types
    <3>4. CASE Kick
      <4> DEFINE d == [dev EXCEPT !.pending_notify = TRUE]
      <4>1. d \in DevType /\ SameQueue(d, dev)
        BY <1>0 DEF Types, DevType, SameQueue
      <4>2. MmioWrite(d) \/ (dev' = dev /\ io' = io)
        BY <3>4 DEF Kick
      <4> HIDE DEF d
      <4> QED
        BY <1>0, <4>1, <4>2, MmioEffect DEF SameQueue, AtStart, IoControl
    <3> QED
      BY <1>1, <3>1, <3>2, <3>3, <3>4
  <2>2. /\ UNCHANGED <<mem, drv, lock, isr, dpc>> /\ (Looked' => Looked)
        /\ (drain' = drain \/ drain.pc = "kick")
    BY <1>0, <1>1 DEF Inject, Tick, DriverOk, Kick, threadVars, Looked, LockControl, At, Goto
  <2> QED
    BY <2>1, <2>2 DEF NotForgotten, Draining
<1>2. CASE Restore \/ ReadAvailIdx \/ PopChain \/ FlushEvent \/ FlushDone \/ WriteUsedElem
  <2>1. dev'.irq = dev.irq /\ io'.need_irq = io.need_irq /\ mem'.used_idx = mem.used_idx
    <3>1. CASE Restore
      BY <1>0, <3>1 DEF Restore, Rewound, Types, DevType
    <3>2. CASE ReadAvailIdx \/ FlushDone \/ WriteUsedElem
      BY <1>0, <3>2 DEF ReadAvailIdx, FlushDone, WriteUsedElem, Types, IoType, MemType
    <3>3. CASE PopChain
      BY <1>0, <3>3 DEF PopChain, Types, IoType, DevType
    <3>4. CASE FlushEvent
      BY <1>0, <3>4 DEF FlushEvent, Types, IoType, DevType, MemType
    <3> QED
      BY <1>2, <3>1, <3>2, <3>3, <3>4
  <2>2. UNCHANGED <<drv, lock, drain, isr, dpc, power>>
    BY <1>2 DEF Restore, ReadAvailIdx, PopChain, FlushEvent, FlushDone, WriteUsedElem, threadVars
  <2> QED
    BY <2>1, <2>2 DEF NotForgotten, Draining, Looked
<1>3. CASE WriteUsedIdx
  <2>1. io'.need_irq = TRUE
    BY <1>0, <1>3 DEF WriteUsedIdx, Types, IoType
  <2> QED
    BY <2>1 DEF NotForgotten
<1>4. CASE Signal
  <2>1. /\ (io.need_irq => dev'.irq) /\ (dev.irq => dev'.irq)
        /\ UNCHANGED <<mem, drv, lock, drain, isr, dpc, power>>
    BY <1>0, <1>4 DEF Signal, Types, DevType, threadVars
  <2> QED
    BY <2>1 DEF NotForgotten, Draining, Looked
<1>5. CASE ReadUsedIdx
  <2> DEFINE n == Ahead(drv.last_used, mem.used_idx)
  <2>1. n \in 0 .. QueueSize
    BY <1>5, ReadFits DEF ReadUsedIdx
  <2>2. n = 0 => drv.last_used = mem.used_idx
    BY RingTypes, Distance
  <2>3. /\ drain'.pc = (IF n \in 1 .. QueueSize THEN "take" ELSE "kick")
        /\ (~(n > QueueSize) => drv' = drv) /\ UNCHANGED <<mem, lock>> /\ lock # "none"
    BY <1>0, <1>5 DEF ReadUsedIdx, Types, DrainType, LockControl
  <2> HIDE DEF n
  <2>4. drv' = drv /\ (n = 0 \/ drain'.pc = "take")
    BY <2>1, <2>3, Constants
  <2> QED
    BY <2>2, <2>3, <2>4 DEF NotForgotten, Draining
<1>6. CASE TakeUsed \/ CheckEvent \/ ProcessEvent \/ PublishSlot \/ Publish
  <2>1. drain'.pc \notin {"kick", "done"} /\ lock' = lock /\ lock # "none"
    BY <1>0, <1>6 DEF TakeUsed, CheckEvent, ProcessEvent, Repost, PublishSlot, Publish, Types, DrainType,
       LockControl, IdleDrain
  <2> QED
    BY <2>1 DEF NotForgotten, Draining
<1>7. CASE Unlock
  <2>1. /\ drain.pc = "done" /\ (dpc' = dpc \/ dpc = "drain") /\ (Looked' => Looked)
        /\ UNCHANGED <<mem, dev, io, drv, isr>>
    BY <1>0, <1>7 DEF Unlock, LockControl, Looked, Types
  <2> QED
    BY <2>1 DEF NotForgotten, Draining
<1>8. CASE IsrRead
  BY <1>8 DEF IsrRead, NotForgotten
<1>9. CASE IsrLatch
  <2>1. /\ ~drv.reset_in_progress => drv'.pending_isr /\ drv'.dpc_queued
        /\ UNCHANGED <<power, lock>>
    BY <1>0, <1>9 DEF IsrLatch, Types, DrvType
  <2> QED
    BY <1>0a, <2>1 DEF NotForgotten, Looked
<1>10. CASE DpcStart
  <2>1. /\ ~drv.reset_in_progress => drv'.pending_isr = drv.pending_isr /\ dpc' = "claim"
        /\ dpc = "idle" /\ drv'.last_used = drv.last_used
        /\ UNCHANGED <<mem, dev, io, lock, drain, isr, power>>
    BY <1>0, <1>10 DEF DpcStart, Types, DrvType
  <2> QED
    BY <1>0a, <2>1 DEF NotForgotten, Looked, Draining
<1>11. CASE DpcClaim
  <2>1. /\ dpc = "claim" /\ (drv.pending_isr => dpc' = "lock") /\ drv'.last_used = drv.last_used
        /\ UNCHANGED <<mem, dev, io, lock, drain, isr, power>>
    BY <1>0, <1>11 DEF DpcClaim, Types, DrvType
  <2> QED
    BY <2>1 DEF NotForgotten, Looked, Draining
<1>12. CASE DpcLock
  <2>1. /\ power' = power /\ lock = "none"
        /\ drv.started /\ ~drv.reset_in_progress => lock' = "dpc" /\ drain'.pc = "used"
        /\ ~(drv.started /\ ~drv.reset_in_progress) => lock' = lock
    BY <1>12 DEF DpcLock, IdleDrain
  <2> QED
    BY <1>0a, <2>1 DEF NotForgotten, Looked, Draining
<1>13. CASE FinalDrain
  <2>1. lock' = "power" /\ drain'.pc = "used"
    BY <1>13 DEF FinalDrain, IdleDrain
  <2> QED
    BY <2>1 DEF NotForgotten, Draining
<1>14. CASE \/ NegotiateFeatures \/ EntryReset \/ SetupQueue \/ LockForPost \/ AddBuffer \/ Start
            \/ EnableInterrupt \/ Resume \/ D0Exit
  <2>1. power' \notin {"on", "drain"}
    BY <1>0, <1>14 DEF NegotiateFeatures, EntryReset, SetupQueue, LockForPost, AddBuffer, Start,
       EnableInterrupt, Resume, D0Exit, Stop, WaitForDrain, Quiesce, DisableInterrupt,
       WaitForLock, ExitResetDevice, ExitReset, ResetStep, ResetRing, At, Goto, threadVars,
       LockControl
  <2> QED
    BY <2>1 DEF NotForgotten, Looked
<1>15. CASE UNCHANGED vars
  BY <1>15 DEF vars, NotForgotten, Looked, Draining
<1>16. CASE Hid
  BY <1>16, HidEffect DEF NotForgotten, Looked, Draining
<1> QED
  BY <1>1, <1>2, <1>3, <1>4, <1>5, <1>6, <1>7, <1>8, <1>9, <1>10, <1>11, <1>12, <1>13, <1>14,
     <1>15, <1>16
  DEF Next, Device, Drain, Interrupt, D0Entry


-----------------------------------------------------------------------------
(* The inductive invariant.                                                *)

LEMMA InitIInv == ASSUME Init PROVE IInv /\ NotForgotten
<1>1. Types
  <2>1. mem \in MemType
    BY Sizes, Constants DEF Init, MemType, Heads, NoEvent
  <2>2. dev \in DevType /\ io \in IoType
    BY Constants DEF Init, DevType, IoType, ResetDevice, IdleIo
  <2>3. drv \in DrvType /\ drain \in DrainType
    BY Constants DEF Init, DrvType, DrainType, IdleDrain
  <2> QED
    BY <2>1, <2>2, <2>3 DEF Init, Types, DownPower
<1>2. IoControl
  BY DEF Init, IoControl, ResetDevice, IdleIo, UpPower
<1>3. LockControl /\ HidControl
  BY DEF Init, LockControl, HidControl, IdleDrain
<1>4. Ring /\ HalfDone
  BY DEF Init, Ring, HalfDone, ResetDevice, IdleIo, IdleDrain
<1>5. Ordered
  <2>1. Ahead(0, 0) = 0
    BY Constants, Distance
  <2>2. /\ drv.last_used = 0 /\ mem.used_idx = 0 /\ io.head = NoHead /\ EventHead = NoHead
        /\ dev.pending = << >> /\ received = << >>
    BY DEF Init, ResetDevice, IdleIo, IdleDrain, EventHead
  <2> QED
    BY <2>1, <2>2 DEF Ordered, Order
<1>6. Bounds
  <2>1. /\ dev.irq = dev.isr_status /\ dev.pending = << >> /\ injected = 0 /\ lost = {}
        /\ \A h \in Heads : mem.buf[h] = 0
    BY DEF Init, ResetDevice, NoEvent
  <2>2. Len(<< >>) <= MaxPending /\ 0 <= MaxInjects * Burst
    <3>1. MaxInjects \in Nat /\ Burst \in Nat
      BY VirtioAssumption
    <3>2. MaxInjects * Burst \in Nat
      BY <3>1, SMT
    <3> QED
      BY <3>2, Constants
  <2> QED
    BY <2>1, <2>2 DEF Bounds
<1>7. NotForgotten
  BY DEF Init, NotForgotten, Looked
<1> QED
  BY <1>1, <1>2, <1>3, <1>4, <1>5, <1>6, <1>7 DEF IInv

LEMMA IInvStep == IInv /\ NotForgotten /\ [Next]_vars => (IInv /\ NotForgotten)'
<1> SUFFICES ASSUME IInv, NotForgotten, [Next]_vars PROVE (IInv /\ NotForgotten)'
  OBVIOUS
<1>1. /\ Types' /\ IoControl' /\ LockControl' /\ HidControl'
      /\ Ring' /\ HalfDone' /\ Ordered' /\ Bounds'
  BY TypesStep, IoControlStep, LockControlStep, HidControlStep, RingStep, HalfDoneStep,
     OrderedStep, BoundsStep
<1>2. NotForgotten'
  BY NotForgottenStep
<1> QED
  BY <1>1, <1>2 DEF IInv

LEMMA Inductive == Spec => [](IInv /\ NotForgotten)
<1>1. Init => IInv /\ NotForgotten
  BY InitIInv
<1> QED
  BY <1>1, IInvStep, PTL DEF Spec

-----------------------------------------------------------------------------
(* What follows.                                                           *)

LEMMA SeqOver ==
  ASSUME NEW S, NEW T, NEW s \in Seq(S), \A k \in 1 .. Len(s) : s[k] \in T
  PROVE  s \in Seq(T)
<1>1. s \in [1 .. Len(s) -> S] /\ Len(s) \in Nat
  BY LenProperties
<1>2. s \in [1 .. Len(s) -> T]
  BY <1>1
<1> QED
  BY <1>1, <1>2, SeqDef

LEMMA IsTyped == ASSUME IInv PROVE TypeOK
<1>1. Types /\ IoControl /\ LockControl /\ HidControl /\ Bounds /\ injected \in Nat
  BY DEF IInv, Types
<1>2. \A e \in 1 .. injected : e \in Events
  <2>1. MaxInjects \in Nat /\ Burst \in Nat /\ injected <= MaxInjects * Burst
    BY <1>1, VirtioAssumption DEF Bounds
  <2>2. MaxInjects * Burst \in Nat
    BY <2>1, SMT
  <2> QED
    BY <1>1, <2>1, <2>2 DEF Events
<1>3. mem.buf \in [Heads -> Events \cup {NoEvent}]
  <2>1. mem.buf \in [Heads -> Nat] /\ \A h \in Heads : mem.buf[h] <= injected
    BY <1>1, RingTypes DEF Bounds
  <2>2. \A h \in Heads : mem.buf[h] \in Events \cup {NoEvent}
    BY <1>1, <1>2, <2>1 DEF NoEvent
  <2> QED
    BY <2>1, <2>2
<1>4. dev.pending \in Seq(Events) /\ received \in Seq(Events)
  <2>1. /\ \A k \in 1 .. Len(dev.pending) : dev.pending[k] \in 1 .. injected
        /\ \A k \in 1 .. Len(received) : received[k] \in 1 .. injected
    BY DEF IInv, Ordered, Order, OnItsWay
  <2>2. dev.pending \in Seq(Nat) /\ received \in Seq(Nat)
    BY RingTypes
  <2>3. /\ \A k \in 1 .. Len(dev.pending) : dev.pending[k] \in Events
        /\ \A k \in 1 .. Len(received) : received[k] \in Events
    BY <1>2, <2>1
  <2> QED
    BY <2>2, <2>3, SeqOver
<1>5. Len(dev.buffers) <= QueueSize
  <2>0. Len(dev.buffers) \in Nat
    BY RingTypes
  <2>1. CASE dev.on
    <3>1. /\ DevRing(mem.avail, mem.avail_idx, dev.next_used, dev.next_avail, dev.buffers, io.head)
          /\ Owned(mem.avail, mem.avail_idx, dev.next_used, mem.used, drv.last_used, InDriver)
      BY <2>1 DEF IInv, Ring
    <3>2. /\ Ahead(dev.next_used, mem.avail_idx) \in Nat /\ Ahead(drv.last_used, dev.next_used) \in Nat
          /\ Ahead(dev.next_used, mem.avail_idx) + Ahead(drv.last_used, dev.next_used) <= QueueSize
      BY <3>1, RingTypes, OwnedFacts
    <3>3. /\ Taken(io.head) \in {0, 1}
          /\ Taken(io.head) + Len(dev.buffers) <= Ahead(dev.next_used, mem.avail_idx)
      BY <3>1 DEF DevRing, Taken
    <3> QED
      BY <2>0, <3>2, <3>3, Constants
  <2>2. CASE ~dev.on
    BY <1>1, <2>2, Constants DEF IoControl
  <2> QED
    BY <2>1, <2>2
<1>6. lost \subseteq Events
  BY <1>1, <1>2 DEF Bounds
<1> QED
  BY <1>1, <1>3, <1>4, <1>5, <1>6
  DEF TypeOK, Types, MemType, DevType, IoType, DrvType, DrainType, LockControl, HidControl, Bounds

\* The memory, the device and the driver stay within their types: a ring index
\* never leaves its range, at most MAX_PENDING_EVENTS events wait, and the
\* device never caches more chains than the queue has entries, so that the
\* branch of process_queue for a driver that posts more is never taken.
THEOREM VirtioTypeOK == Spec => []TypeOK
<1>1. IInv => TypeOK
  BY IsTyped
<1> QED
  BY <1>1, Inductive, PTL

\* The driver processes the events in the order they were injected, and none
\* twice, whatever is dropped, restored from a snapshot, or reset on the way.
THEOREM EventsInOrder == Spec => []ReceivedInOrder
<1>1. ASSUME IInv PROVE ReceivedInOrder
  <2>1. \A j, k \in 1 .. Len(received) : j < k => received[j] < received[k]
    BY <1>1 DEF IInv, Ordered, Order
  <2>2. Len(received) \in Nat
    BY <1>1, RingTypes
  <2>3. \A k \in 1 .. Len(received) - 1 : k \in 1 .. Len(received) /\ k + 1 \in 1 .. Len(received) /\ k < k + 1
    BY <2>2
  <2> QED
    BY <2>1, <2>3 DEF ReceivedInOrder
<1>2. IInv => ReceivedInOrder
  BY <1>1
<1> QED
  BY <1>2, Inductive, PTL

\* Once the release report is out, by VirtioInputHidDeactivateDevice or by
\* D0Exit, no event is processed until HID is activated or the driver started
\* again: a DPC that passed the test before has been waited for.
THEOREM ReleaseStaysLast == Spec => []ReleaseIsLast
<1>1. ASSUME IInv PROVE ReleaseIsLast
  BY <1>1 DEF IInv, Types, LockControl, HidControl, ReleaseIsLast
<1>2. IInv => ReleaseIsLast
  BY <1>1
<1> QED
  BY <1>2, Inductive, PTL

\* No completed buffer is overlooked while the driver is up: an interrupt is
\* on its way, or a DPC, or somebody is draining the queue.
THEOREM UsedNeverForgotten == Spec => []UsedNotForgotten
<1>1. NotForgotten => UsedNotForgotten
  BY DEF NotForgotten, UsedNotForgotten, Looked
<1> QED
  BY <1>1, Inductive, PTL


-----------------------------------------------------------------------------
(* Every buffer is in exactly one place.                                   *)

\* Entries counted from next_used are, past those taken, the published ones.
LEMMA AheadSum ==
  ASSUME NEW nu \in Indices, NEW na \in Indices, NEW ai \in Indices,
         Ahead(nu, na) <= Ahead(nu, ai)
  PROVE  /\ Ahead(na, ai) = Ahead(nu, ai) - Ahead(nu, na)
         /\ \A k \in Nat : Slot(na + k) = Slot(nu + (Ahead(nu, na) + k))
<1>1. /\ Ahead(nu, na) = IF nu <= na THEN na - nu ELSE na - nu + IdxMod
      /\ Ahead(nu, ai) = IF nu <= ai THEN ai - nu ELSE ai - nu + IdxMod
      /\ Ahead(na, ai) = IF na <= ai THEN ai - na ELSE ai - na + IdxMod
  BY AheadIs
<1>2. nu \in 0 .. IdxMod - 1 /\ na \in 0 .. IdxMod - 1 /\ ai \in 0 .. IdxMod - 1
  BY DEF Indices
<1>3. Ahead(na, ai) = Ahead(nu, ai) - Ahead(nu, na)
  BY <1>1, <1>2, Sizes
<1>4. ASSUME NEW k \in Nat PROVE Slot(na + k) = Slot(nu + (Ahead(nu, na) + k))
  <2>1. na + k \in Nat /\ ( \/ nu + (Ahead(nu, na) + k) = na + k
                            \/ nu + (Ahead(nu, na) + k) = na + k + IdxMod )
    BY <1>1, <1>2, Sizes
  <2> QED
    BY <2>1, SlotPeriod
<1> QED
  BY <1>3, <1>4

LEMMA WindowIs ==
  ASSUME NEW a \in Indices, NEW b \in Indices
  PROVE  /\ \A i : i \in Window(a, b) <=> \E k \in 0 .. Ahead(a, b) - 1 : i = (a + k) % IdxMod
         /\ \A k \in Nat : Slot((a + k) % IdxMod) = Slot(a + k)
<1>1. \A i : i \in Window(a, b) <=> \E k \in 0 .. Ahead(a, b) - 1 : i = (a + k) % IdxMod
  BY DEF Window
<1>2. ASSUME NEW k \in Nat PROVE Slot((a + k) % IdxMod) = Slot(a + k)
  <2>1. a + k \in Nat
    BY Sizes DEF Indices
  <2>2. ((a + k) % IdxMod) % QueueSize = (a + k) % QueueSize
    BY <2>1, Sizes, ModOfMod
  <2> QED
    BY <2>2 DEF Slot
<1> QED
  BY <1>1, <1>2

\* The place of the device's p-th buffer, and of the k-th completed one.
DevPlace(p) ==
  LET t == Taken(io.head)
      b == Len(dev.buffers)
  IN  IF p < t THEN <<"filled", 0>>
      ELSE IF p < t + b THEN <<"cached", p - t + 1>>
      ELSE <<"avail", (dev.next_avail + (p - (t + b))) % IdxMod>>
UsedPlace(k) == <<"used", (drv.last_used + k) % IdxMod>>

LEMMA PlacesAre ==
  ASSUME NEW h, NEW x
  PROVE  x \in Places(h) <=>
           \/ \E i \in Window(dev.next_avail, mem.avail_idx) :
                mem.avail[Slot(i)] = h /\ x = <<"avail", i>>
           \/ \E k \in 1 .. Len(dev.buffers) : dev.buffers[k] = h /\ x = <<"cached", k>>
           \/ io.head = h /\ x = <<"filled", 0>>
           \/ \E i \in Window(drv.last_used, mem.used_idx) :
                mem.used[Slot(i)].id = h /\ x = <<"used", i>>
           \/ (drain.head = h \/ h \notin drv.cookies) /\ x = <<"driver", 0>>
BY DEF Places

LEMMA PlacesByPosition ==
  ASSUME IInv, dev.on, NEW h \in Heads, NEW x, x \in Places(h)
  PROVE  \/ \E p \in 0 .. Ahead(dev.next_used, mem.avail_idx) - 1 :
              DevAt(mem.avail, dev.next_used, p) = h /\ x = DevPlace(p)
         \/ \E k \in 0 .. Ahead(drv.last_used, dev.next_used) - 1 :
              UsedAt(mem.used, drv.last_used, k) = h /\ x = UsedPlace(k)
         \/ h \in InDriver /\ x = <<"driver", 0>>
<1> DEFINE nu == dev.next_used
           ai == mem.avail_idx
           na == dev.next_avail
           c == Ahead(nu, ai)
           t == Taken(io.head)
           b == Len(dev.buffers)
           d(p) == DevAt(mem.avail, nu, p)
<1>1. /\ Ahead(nu, na) = t + b /\ t + b <= c /\ (io.head # NoHead => d(0) = io.head)
      /\ \A k \in 1 .. b : dev.buffers[k] = d(t + k - 1)
  BY DEF IInv, Ring, DevRing
<1>2. c \in Nat /\ b \in Nat /\ t \in {0, 1} /\ (io.head # NoHead => t = 1)
  <2>1. c \in Nat
    BY RingTypes, Distance
  <2>2. b \in Nat
    BY RingTypes
  <2> QED
    BY <2>1, <2>2 DEF Taken
<1>3. /\ Ahead(na, ai) = c - (t + b) /\ \A k \in Nat : Slot(na + k) = Slot(nu + ((t + b) + k))
  <2>1. nu \in Indices /\ na \in Indices /\ ai \in Indices /\ Ahead(nu, na) <= Ahead(nu, ai)
    BY <1>1, RingTypes
  <2>2. /\ Ahead(na, ai) = Ahead(nu, ai) - Ahead(nu, na)
        /\ \A k \in Nat : Slot(na + k) = Slot(nu + (Ahead(nu, na) + k))
    BY <2>1, AheadSum
  <2> QED
    BY <1>1, <2>2
<1>4. mem.used_idx = dev.next_used
  BY DEF IInv, IoControl
<1>5. ASSUME NEW i \in Window(dev.next_avail, mem.avail_idx), mem.avail[Slot(i)] = h,
             x = <<"avail", i>>
      PROVE  \E p \in 0 .. c - 1 : d(p) = h /\ x = DevPlace(p)
  <2>1. PICK k \in 0 .. Ahead(na, ai) - 1 : i = (na + k) % IdxMod
    BY <1>5, RingTypes, WindowIs
  <2> HIDE DEF c, t, b, na, nu, ai, d
  <2>2. /\ k \in Nat /\ (t + b) + k \in 0 .. c - 1 /\ ((t + b) + k) - (t + b) = k
        /\ ~((t + b) + k < t) /\ ~((t + b) + k < t + b)
    BY <1>2, <1>3, <2>1
  <2>3. Slot(i) = Slot(na + k)
    BY <2>1, <2>2, RingTypes, WindowIs DEF na
  <2>4. d((t + b) + k) = h
    BY <1>3, <1>5, <2>2, <2>3 DEF d, DevAt
  <2>5. DevPlace((t + b) + k) = x
    BY <1>5, <2>1, <2>2 DEF DevPlace, t, b, na
  <2> QED
    BY <2>2, <2>4, <2>5
<1>6. ASSUME NEW k \in 1 .. Len(dev.buffers), dev.buffers[k] = h, x = <<"cached", k>>
      PROVE  \E p \in 0 .. c - 1 : d(p) = h /\ x = DevPlace(p)
  <2>0. k \in 1 .. b
    OBVIOUS
  <2> HIDE DEF c, t, b, na, nu, ai, d
  <2>1. /\ t + k - 1 \in 0 .. c - 1 /\ ~(t + k - 1 < t) /\ t + k - 1 < t + b
        /\ (t + k - 1) - t + 1 = k
    BY <1>1, <1>2, <2>0
  <2>2. d(t + k - 1) = h
    BY <1>1, <1>6, <2>0
  <2>3. DevPlace(t + k - 1) = x
    BY <1>6, <2>1 DEF DevPlace, t, b
  <2> QED
    BY <2>1, <2>2, <2>3
<1>7. ASSUME io.head = h, x = <<"filled", 0>>
      PROVE  \E p \in 0 .. c - 1 : d(p) = h /\ x = DevPlace(p)
  <2>1. io.head # NoHead
    BY <1>7, HeadIsNot
  <2> HIDE DEF c, t, b, na, nu, ai, d
  <2>2. 0 \in 0 .. c - 1 /\ 0 < t
    BY <1>1, <1>2, <2>1
  <2>3. d(0) = h /\ DevPlace(0) = x
    BY <1>1, <1>7, <2>1, <2>2 DEF DevPlace, t
  <2> QED
    BY <2>2, <2>3
<1>8. ASSUME NEW i \in Window(drv.last_used, mem.used_idx), mem.used[Slot(i)].id = h,
             x = <<"used", i>>
      PROVE  \E k \in 0 .. Ahead(drv.last_used, dev.next_used) - 1 :
               UsedAt(mem.used, drv.last_used, k) = h /\ x = UsedPlace(k)
  <2>1. PICK k \in 0 .. Ahead(drv.last_used, dev.next_used) - 1 : i = (drv.last_used + k) % IdxMod
    BY <1>4, <1>8, RingTypes, WindowIs
  <2>2. k \in Nat
    BY RingTypes, Distance
  <2>3. Slot(i) = Slot(drv.last_used + k)
    BY <2>1, <2>2, RingTypes, WindowIs
  <2> QED
    BY <1>8, <2>1, <2>3 DEF UsedAt, UsedPlace
<1>9. ASSUME drain.head = h \/ h \notin drv.cookies PROVE h \in InDriver
  BY <1>9 DEF InDriver, Held
<1> QED
  BY <1>5, <1>6, <1>7, <1>8, <1>9, PlacesAre

LEMMA SomePlace ==
  ASSUME IInv, dev.on, NEW h \in Heads
  PROVE  \E x : x \in Places(h)
<1> DEFINE nu == dev.next_used
           ai == mem.avail_idx
           na == dev.next_avail
           c == Ahead(nu, ai)
           t == Taken(io.head)
           b == Len(dev.buffers)
           d(p) == DevAt(mem.avail, nu, p)
<1>1. /\ Ahead(nu, na) = t + b /\ t + b <= c /\ (io.head # NoHead => d(0) = io.head)
      /\ \A k \in 1 .. b : dev.buffers[k] = d(t + k - 1)
  BY DEF IInv, Ring, DevRing
<1>2. c \in Nat /\ b \in Nat /\ t \in {0, 1} /\ (t = 1 => io.head # NoHead)
  <2>1. c \in Nat
    BY RingTypes, Distance
  <2>2. b \in Nat
    BY RingTypes
  <2> QED
    BY <2>1, <2>2 DEF Taken
<1>3. /\ Ahead(na, ai) = c - (t + b) /\ \A k \in Nat : Slot(na + k) = Slot(nu + ((t + b) + k))
  <2>1. nu \in Indices /\ na \in Indices /\ ai \in Indices /\ Ahead(nu, na) <= Ahead(nu, ai)
    BY <1>1, RingTypes
  <2>2. /\ Ahead(na, ai) = Ahead(nu, ai) - Ahead(nu, na)
        /\ \A k \in Nat : Slot(na + k) = Slot(nu + (Ahead(nu, na) + k))
    BY <2>1, AheadSum
  <2> QED
    BY <1>1, <2>2
<1>4. mem.used_idx = dev.next_used
  BY DEF IInv, IoControl
<1>5. \/ h \in InDriver
      \/ \E p \in 0 .. c - 1 : d(p) = h
      \/ \E k \in 0 .. Ahead(drv.last_used, dev.next_used) - 1 : UsedAt(mem.used, drv.last_used, k) = h
  BY DEF IInv, Ring, Owned
<1>6. CASE h \in InDriver
  <2>1. drain.head = h \/ h \notin drv.cookies
    BY <1>6 DEF InDriver, Held
  <2>2. <<"driver", 0>> \in Places(h)
    BY <2>1, PlacesAre
  <2> QED
    BY <2>2
<1>7. ASSUME NEW p \in 0 .. c - 1, d(p) = h PROVE \E x : x \in Places(h)
  <2> HIDE DEF c, t, b, na, nu, ai, d
  <2>0. p \in Int
    BY <1>2
  <2>1. CASE p < t
    <3>1. p = 0 /\ io.head # NoHead
      BY <1>2, <1>7, <2>1
    <3>2. io.head = h
      BY <1>1, <1>7, <3>1
    <3>3. <<"filled", 0>> \in Places(h)
      BY <3>2, PlacesAre
    <3> QED
      BY <3>3
  <2>2. CASE ~(p < t) /\ p < t + b
    <3>1. p - t + 1 \in 1 .. b /\ t + (p - t + 1) - 1 = p
      BY <1>2, <2>0, <2>2
    <3>2. dev.buffers[p - t + 1] = h
      BY <1>1, <1>7, <3>1
    <3>3. <<"cached", p - t + 1>> \in Places(h)
      BY <3>1, <3>2, PlacesAre DEF b
    <3> QED
      BY <3>3
  <2>3. CASE ~(p < t + b)
    <3> DEFINE k == p - (t + b)
               i == (na + k) % IdxMod
    <3>1. k \in 0 .. Ahead(na, ai) - 1 /\ k \in Nat /\ (t + b) + k = p
      BY <1>2, <1>3, <1>7, <2>0, <2>3
    <3> HIDE DEF k
    <3>2. i \in Window(na, ai) /\ Slot(i) = Slot(na + k)
      BY <3>1, RingTypes, WindowIs DEF na, ai
    <3>3. mem.avail[Slot(i)] = h
      BY <1>3, <1>7, <3>1, <3>2 DEF d, DevAt
    <3>4. <<"avail", i>> \in Places(h)
      BY <3>2, <3>3, PlacesAre DEF na, ai
    <3> QED
      BY <3>4
  <2> QED
    BY <2>1, <2>2, <2>3
<1>8. ASSUME NEW k \in 0 .. Ahead(drv.last_used, dev.next_used) - 1,
             UsedAt(mem.used, drv.last_used, k) = h
      PROVE  \E x : x \in Places(h)
  <2> DEFINE i == (drv.last_used + k) % IdxMod
  <2>1. k \in Nat
    BY RingTypes, Distance
  <2>2. i \in Window(drv.last_used, mem.used_idx) /\ Slot(i) = Slot(drv.last_used + k)
    BY <1>4, <2>1, RingTypes, WindowIs
  <2>3. mem.used[Slot(i)].id = h
    BY <1>8, <2>2 DEF UsedAt
  <2>4. <<"used", i>> \in Places(h)
    BY <2>2, <2>3, PlacesAre
  <2> QED
    BY <2>4
<1> QED
  BY <1>5, <1>6, <1>7, <1>8

LEMMA OnlyPlace ==
  ASSUME IInv, dev.on, NEW h \in Heads, NEW x, NEW y, x \in Places(h), y \in Places(h)
  PROVE  x = y
<1> DEFINE c == Ahead(dev.next_used, mem.avail_idx)
           u == Ahead(drv.last_used, dev.next_used)
           d(p) == DevAt(mem.avail, dev.next_used, p)
           e(k) == UsedAt(mem.used, drv.last_used, k)
           AtDev(z) == \E p \in 0 .. c - 1 : d(p) = h /\ z = DevPlace(p)
           AtUsed(z) == \E k \in 0 .. u - 1 : e(k) = h /\ z = UsedPlace(k)
           AtDriver(z) == h \in InDriver /\ z = <<"driver", 0>>
<1>1. /\ AtDev(x) \/ AtUsed(x) \/ AtDriver(x)
      /\ AtDev(y) \/ AtUsed(y) \/ AtDriver(y)
  BY PlacesByPosition
<1>2. /\ \A j, k \in 0 .. c - 1 : d(j) = d(k) => j = k
      /\ \A j, k \in 0 .. u - 1 : e(j) = e(k) => j = k
      /\ \A j \in 0 .. c - 1 : \A k \in 0 .. u - 1 : d(j) # e(k)
      /\ \A j \in 0 .. c - 1 : d(j) \notin InDriver
      /\ \A k \in 0 .. u - 1 : e(k) \notin InDriver
  BY DEF IInv, Ring, Owned
<1> HIDE DEF c, u, d, e
<1>3. AtDev(x) /\ AtDev(y) => x = y
  BY <1>2
<1>4. AtUsed(x) /\ AtUsed(y) => x = y
  BY <1>2
<1>5. \A z, w : ~(AtDev(z) /\ AtUsed(w)) /\ ~(AtDev(z) /\ AtDriver(w)) /\ ~(AtUsed(z) /\ AtDriver(w))
  BY <1>2
<1> QED
  BY <1>1, <1>3, <1>4, <1>5

\* While the queue is live every buffer is in exactly one place, counting the
\* available ring, the device's cache, the chain being completed, the used
\* ring and the driver: pop_descriptor_chain and add_used on one side and the
\* driver's VirtqSplitGetUsed and repost on the other never complete a buffer
\* twice, forget one or both touch it, across snapshots and moves in and out
\* of D0.
THEOREM BuffersOwnedOnce == Spec => []OwnedOnce
<1>1. ASSUME IInv PROVE OwnedOnce
  <2> SUFFICES ASSUME dev.on, NEW h \in Heads PROVE Cardinality(Places(h)) = 1
    BY DEF OwnedOnce
  <2>1. PICK x : x \in Places(h)
    BY <1>1, SomePlace
  <2>2. \A y \in Places(h) : y = x
    BY <1>1, <2>1, OnlyPlace
  <2>3. Places(h) = {x}
    BY <2>1, <2>2
  <2> QED
    BY <2>3, FS_Singleton
<1>2. IInv => OwnedOnce
  BY <1>1
<1> QED
  BY <1>2, Inductive, PTL


=============================================================================
