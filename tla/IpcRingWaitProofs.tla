------------------------- MODULE IpcRingWaitProofs -------------------------
(***************************************************************************)
(* No wake-up on the ring's control words is lost, for every number of     *)
(* producers, capacity and number of pushes.                               *)
(*                                                                         *)
(* A notify wakes one sleeper, so both results need that the one it wakes  *)
(* is the one that waits for it.  That is so when at most two producers    *)
(* share a ring whose consumer polls, and at most one a ring whose         *)
(* consumer sleeps (FewPushers); the ring is not safe beyond that.         *)
(***************************************************************************)
EXTENDS IpcRingWait, BasicLemmas, TLAPS

\* The producers that push in a use of the ring.
PushersOf(u) == u.blocking \cup u.dropping

\* At most two producers, and at most one beside a consumer that sleeps.
FewPushers ==
  \A u \in Uses :
    /\ \A p, q, r \in PushersOf(u) : p = q \/ q = r \/ p = r
    /\ u.waits => \A p, q \in PushersOf(u) : p = q

-----------------------------------------------------------------------------
(* The inductive invariant.                                                *)

PcType ==
  pc \in [Producers -> {"idle", "load_head", "claim", "full", "full_wait", "full_asleep",
                        "commit_load", "commit_wait", "commit_asleep", "commit",
                        "commit_notify"}]

Types ==
  /\ use \in Uses
  /\ head \in Nat /\ tail_commit \in Nat /\ tail_reserve \in Nat
  /\ waiters \in [Words -> Seq(Producers \cup {Consumer})]
  /\ PcType
  /\ n \in [Producers -> Nat]
  /\ seenHead \in [Producers -> Nat] /\ seenTail \in [Producers -> Nat]
  /\ seenCommit \in [Producers -> Nat]
  /\ cpc \in {"pop", "advance", "advance_notify", "wait_load", "wait", "asleep"}
  /\ popTail \in Nat

\* The cursors are ordered, no producer has seen a head that is still to
\* come, and only the consumer's own pop can make the ring empty.
Cursors ==
  /\ head <= tail_commit /\ tail_commit <= tail_reserve /\ tail_reserve <= head + Cap
  /\ \A p \in Producers : seenHead[p] <= head
  /\ cpc = "advance" => head < tail_commit

\* p owns a claim it has not committed.
Pending(p) == pc[p] \in {"commit_load", "commit_wait", "commit_asleep", "commit"}

\* The uncommitted claims are the numbers from tail_commit to tail_reserve,
\* each owned by one producer, and a producer that commits owns the first.
Claims ==
  /\ \A p \in Producers :
       /\ Pending(p) => tail_commit <= seenTail[p] /\ seenTail[p] < tail_reserve
       /\ pc[p] = "commit" => seenTail[p] = tail_commit
       /\ pc[p] = "commit_wait" => seenCommit[p] # seenTail[p]
  /\ \A p, q \in Producers :
       Pending(p) /\ Pending(q) /\ seenTail[p] = seenTail[q] => p = q
  /\ \A k \in tail_commit .. (tail_reserve - 1) :
       \E p \in Producers : Pending(p) /\ seenTail[p] = k

\* Only producers of this use push, and only a consumer that may sleep does.
Roles ==
  /\ \A p \in Producers : pc[p] # "idle" => p \in PushersOf(use)
  /\ cpc \in {"wait_load", "wait", "asleep"} => use.waits
  /\ cpc = "wait" => popTail = head

\* Who is on a list of sleepers is where it went to sleep, and is there once.
Sleepers ==
  /\ \A a \in Producers \cup {Consumer} :
       /\ Asleep(a, "HEAD") => a \in Producers /\ pc[a] = "full_asleep"
       /\ Asleep(a, "TAIL_COMMIT") => \/ a = Consumer /\ cpc = "asleep"
                                      \/ a \in Producers /\ pc[a] = "commit_asleep"
  /\ \A w \in Words : IsInjective(waiters[w])

BaseInv == Types /\ Cursors /\ Claims /\ Roles /\ Sleepers

\* Beside a consumer that sleeps, the one producer never awaits its turn.
NoTurns == use.waits => \A p \in Producers : pc[p] \notin {"commit_wait", "commit_asleep"}

TurnInv == NoTurns /\ ConsumerNotForgotten /\ TurnNotForgotten

-----------------------------------------------------------------------------
(* What Atomics.wait, Atomics.notify and a timeout do to a list.           *)

LEMMA AppendSleeper ==
  ASSUME NEW S, NEW s \in Seq(S), NEW a \in S, IsInjective(s), ~Contains(s, a)
  PROVE  /\ Append(s, a) \in Seq(S) /\ IsInjective(Append(s, a))
         /\ \A x : Contains(Append(s, a), x) <=> (Contains(s, x) \/ x = a)
<1>1. /\ Append(s, a) \in Seq(S) /\ Len(Append(s, a)) = Len(s) + 1
      /\ Append(s, a)[Len(s) + 1] = a /\ Len(s) \in Nat
      /\ \A i \in 1 .. Len(s) : Append(s, a)[i] = s[i]
      /\ DOMAIN Append(s, a) = 1 .. (Len(s) + 1) /\ DOMAIN s = 1 .. Len(s)
  OBVIOUS
<1>2. IsInjective(Append(s, a))
  BY <1>1 DEF IsInjective, Contains
<1>3. ASSUME NEW x PROVE Contains(Append(s, a), x) <=> (Contains(s, x) \/ x = a)
  BY <1>1 DEF Contains
<1> QED
  BY <1>1, <1>2, <1>3

LEMMA WakeFirst ==
  ASSUME NEW S, NEW s \in Seq(S), s # <<>>, IsInjective(s)
  PROVE  /\ Tail(s) \in Seq(S) /\ IsInjective(Tail(s))
         /\ \A x : Contains(Tail(s), x) => Contains(s, x)
         /\ Len(s) <= 1 => \A x : ~Contains(Tail(s), x)
<1>1. /\ Tail(s) \in Seq(S) /\ Len(s) \in Nat /\ Len(s) > 0 /\ Len(Tail(s)) = Len(s) - 1
      /\ \A i \in 1 .. (Len(s) - 1) : Tail(s)[i] = s[i + 1]
      /\ DOMAIN Tail(s) = 1 .. (Len(s) - 1) /\ DOMAIN s = 1 .. Len(s)
  OBVIOUS
<1>2. IsInjective(Tail(s))
  BY <1>1 DEF IsInjective
<1>3. \A x : Contains(Tail(s), x) => Contains(s, x)
  BY <1>1 DEF Contains
<1>4. Len(s) <= 1 => \A x : ~Contains(Tail(s), x)
  BY <1>1 DEF Contains
<1> QED
  BY <1>1, <1>2, <1>3, <1>4

LEMMA DropSleeper ==
  ASSUME NEW S, NEW s \in Seq(S), IsInjective(s), NEW k \in 1 .. Len(s)
  PROVE  /\ RemoveAt(s, k) \in Seq(S) /\ IsInjective(RemoveAt(s, k))
         /\ \A x : Contains(RemoveAt(s, k), x) => Contains(s, x) /\ x # s[k]
<1> DEFINE N == Len(s)
           d == RemoveAt(s, k)
           m(i) == IF i < k THEN i ELSE i + 1
<1>1. N \in Nat /\ DOMAIN s = 1 .. N /\ k \in Nat /\ 1 <= k /\ k <= N
  OBVIOUS
<1>2. /\ d \in Seq(S) /\ Len(d) = N - 1
      /\ \A i \in 1 .. k - 1 : d[i] = s[i]
      /\ \A i \in k .. N - 1 : d[i] = s[i + 1]
  BY RemoveAtProperties
<1>3. DOMAIN d = 1 .. N - 1
  BY <1>2
<1> HIDE DEF d, N
<1>4. ASSUME NEW i \in 1 .. N - 1
      PROVE  d[i] = s[m(i)] /\ m(i) \in 1 .. N /\ m(i) # k
  <2>1. CASE i < k
    <3>1. i \in 1 .. k - 1 /\ i \in 1 .. N
      BY <1>1, <2>1
    <3> QED
      BY <1>2, <2>1, <3>1
  <2>2. CASE ~(i < k)
    <3>1. i \in k .. N - 1 /\ i + 1 \in 1 .. N /\ i + 1 # k
      BY <1>1, <2>2
    <3> QED
      BY <1>2, <2>2, <3>1
  <2> QED
    BY <2>1, <2>2
<1>5. ASSUME NEW i \in 1 .. N - 1, NEW j \in 1 .. N - 1, d[i] = d[j] PROVE i = j
  <2>1. m(i) = m(j)
    BY <1>1, <1>4, <1>5 DEF IsInjective
  <2> QED
    BY <1>1, <2>1
<1>6. ASSUME NEW x, Contains(d, x) PROVE Contains(s, x) /\ x # s[k]
  <2>1. PICK i \in 1 .. N - 1 : d[i] = x
    BY <1>2, <1>6 DEF Contains
  <2>2. PICK j \in 1 .. N : s[j] = x /\ j # k
    BY <1>4, <2>1
  <2> QED
    BY <1>1, <2>2 DEF IsInjective, Contains, N
<1>7. IsInjective(d)
  BY <1>3, <1>5 DEF IsInjective
<1> QED
  BY <1>2, <1>6, <1>7 DEF d


-----------------------------------------------------------------------------
(* Every step keeps the invariant.                                         *)

LEMMA CallPushStep == ASSUME BaseInv, NEW p \in Producers, CallPush(p) PROVE BaseInv'
<1> USE DEF BaseInv
<1>1. Types'
  BY WaitAssumption DEF Types, PcType, Words, CallPush, Goto, Pushes, consumerVars
<1>2. Cursors'
  BY WaitAssumption DEF Types, PcType, Cursors, CallPush, Goto, Pushes, consumerVars
<1>3. Claims'
  BY WaitAssumption DEF Types, PcType, Cursors, Claims, Pending, CallPush, Goto, Pushes, consumerVars
<1>4. Roles'
  BY WaitAssumption DEF Types, PcType, Roles, PushersOf, CallPush, Goto, Pushes, consumerVars
<1>5. Sleepers'
  BY WaitAssumption DEF Types, PcType, Words, Sleepers, Asleep, CallPush, Goto, Pushes, consumerVars
<1> QED
  BY <1>1, <1>2, <1>3, <1>4, <1>5

LEMMA LoadHeadStep == ASSUME BaseInv, NEW p \in Producers, LoadHead(p) PROVE BaseInv'
<1> USE DEF BaseInv
<1>1. Types'
  BY WaitAssumption DEF Types, PcType, Words, LoadHead, Goto, consumerVars
<1>2. Cursors'
  BY WaitAssumption DEF Types, PcType, Cursors, LoadHead, Goto, consumerVars
<1>3. Claims'
  BY WaitAssumption DEF Types, PcType, Cursors, Claims, Pending, LoadHead, Goto, consumerVars
<1>4. Roles'
  BY WaitAssumption DEF Types, PcType, Roles, PushersOf, LoadHead, Goto, consumerVars
<1>5. Sleepers'
  BY WaitAssumption DEF Types, PcType, Words, Sleepers, Asleep, LoadHead, Goto, consumerVars
<1> QED
  BY <1>1, <1>2, <1>3, <1>4, <1>5

LEMMA ClaimStep == ASSUME BaseInv, NEW p \in Producers, Claim(p) PROVE BaseInv'
<1> USE DEF BaseInv
<1> DEFINE used == tail_reserve - seenHead[p]
<1>0. /\ seenHead[p] \in Nat /\ seenHead[p] <= head /\ used \in Nat /\ Cap \in Nat
      /\ pc[p] = "claim"
  BY WaitAssumption DEF Types, PcType, Cursors, Claim
<1>1. CASE used < Cap
  <2>0. /\ seenTail' = [seenTail EXCEPT ![p] = tail_reserve]
        /\ tail_reserve' = tail_reserve + 1
        /\ pc' = [pc EXCEPT ![p] = "commit_load"]
        /\ UNCHANGED <<head, tail_commit, waiters, n, seenHead, seenCommit, consumerVars>>
    BY <1>1 DEF Claim, Goto
  <2>1. Types'
    BY <2>0 DEF Types, PcType, consumerVars
  <2>2. Cursors'
    BY <1>0, <1>1, <2>0 DEF Types, Cursors, consumerVars
  <2>a. /\ ~Pending(p) /\ Pending(p)' /\ seenTail'[p] = tail_reserve
        /\ pc'[p] = "commit_load"
        /\ \A q \in Producers \ {p} : /\ pc'[q] = pc[q] /\ seenTail'[q] = seenTail[q]
                                      /\ Pending(q)' = Pending(q)
    BY <1>0, <2>0 DEF Types, PcType, Pending
  <2>b. tail_reserve \in Nat /\ tail_commit \in Nat /\ tail_commit <= tail_reserve
        /\ tail_commit' = tail_commit /\ seenCommit' = seenCommit
        /\ \A q \in Producers : seenTail[q] \in Nat
    BY <2>0 DEF Types, Cursors
  <2>c. ASSUME NEW k \in tail_commit .. tail_reserve
        PROVE  \E q \in Producers : Pending(q)' /\ seenTail'[q] = k
    <3>1. CASE k = tail_reserve
      BY <2>a, <3>1
    <3>2. CASE k # tail_reserve
      <4>1. PICK q \in Producers : Pending(q) /\ seenTail[q] = k
        BY <2>b, <3>2 DEF Claims
      <4> QED
        BY <2>a, <4>1
    <3> QED
      BY <3>1, <3>2
  <2>3. Claims'
    <3>1. \A q \in Producers :
            /\ Pending(q)' => tail_commit <= seenTail'[q] /\ seenTail'[q] < tail_reserve + 1
            /\ pc'[q] = "commit" => seenTail'[q] = tail_commit
            /\ pc'[q] = "commit_wait" => seenCommit[q] # seenTail'[q]
      BY <2>a, <2>b DEF Claims
    <3>2. \A q, r \in Producers :
            Pending(q)' /\ Pending(r)' /\ seenTail'[q] = seenTail'[r] => q = r
      BY <2>a, <2>b DEF Claims
    <3>3. (tail_reserve + 1) - 1 = tail_reserve
      BY <2>b
    <3> QED
      BY <2>0, <2>b, <2>c, <3>1, <3>2, <3>3 DEF Claims
  <2>4. Roles'
    BY <1>0, <2>0 DEF Types, PcType, Roles, consumerVars
  <2>5. Sleepers'
    BY <1>0, <2>0, WaitAssumption DEF Types, PcType, Sleepers, Asleep, consumerVars
  <2> QED
    BY <2>1, <2>2, <2>3, <2>4, <2>5
<1>2. CASE ~(used < Cap)
  <2>0. /\ \E t \in {"load_head", "full", "idle"} : pc' = [pc EXCEPT ![p] = t]
        /\ UNCHANGED <<head, tail_reserve, tail_commit, waiters, n, seenHead, seenTail, seenCommit,
                       consumerVars>>
    BY <1>2 DEF Claim, Goto
  <2>1. Types'
    BY <2>0 DEF Types, PcType, consumerVars
  <2>2. Cursors'
    BY <2>0 DEF Types, Cursors, consumerVars
  <2>a. /\ \A q \in Producers :
             /\ Pending(q)' = Pending(q)
             /\ pc'[q] \in {"commit", "commit_wait"} => pc'[q] = pc[q]
    BY <1>0, <2>0 DEF Types, PcType, Pending
  <2>3. Claims'
    BY <2>0, <2>a DEF Claims
  <2>4. Roles'
    BY <1>0, <2>0 DEF Types, PcType, Roles, consumerVars
  <2>5. Sleepers'
    BY <1>0, <2>0, WaitAssumption DEF Types, PcType, Sleepers, Asleep, consumerVars
  <2> QED
    BY <2>1, <2>2, <2>3, <2>4, <2>5
<1> QED
  BY <1>1, <1>2

LEMMA FullLoadHeadStep == ASSUME BaseInv, NEW p \in Producers, FullLoadHead(p) PROVE BaseInv'
<1> USE DEF BaseInv
<1>1. Types'
  BY WaitAssumption DEF Types, PcType, Words, FullLoadHead, Goto, consumerVars
<1>2. Cursors'
  BY WaitAssumption DEF Types, PcType, Cursors, FullLoadHead, Goto, consumerVars
<1>3. Claims'
  BY WaitAssumption DEF Types, PcType, Cursors, Claims, Pending, FullLoadHead, Goto, consumerVars
<1>4. Roles'
  BY WaitAssumption DEF Types, PcType, Roles, PushersOf, FullLoadHead, Goto, consumerVars
<1>5. Sleepers'
  BY WaitAssumption DEF Types, PcType, Words, Sleepers, Asleep, FullLoadHead, Goto, consumerVars
<1> QED
  BY <1>1, <1>2, <1>3, <1>4, <1>5

LEMMA FullWaitStep == ASSUME BaseInv, NEW p \in Producers, FullWait(p) PROVE BaseInv'
<1> USE DEF BaseInv
<1>1. Types'
  BY WaitAssumption DEF Types, PcType, Words, FullWait, Goto, AtomicsWait, consumerVars
<1>2. Cursors'
  BY WaitAssumption DEF Types, PcType, Cursors, FullWait, Goto, AtomicsWait, consumerVars
<1>3. Claims'
  BY WaitAssumption DEF Types, PcType, Cursors, Claims, Pending, FullWait, Goto, AtomicsWait, consumerVars
<1>4. Roles'
  BY WaitAssumption DEF Types, PcType, Roles, PushersOf, FullWait, Goto, AtomicsWait, consumerVars
<1>5. Sleepers'
  <2> DEFINE l == waiters["HEAD"]
  <2>1. l \in Seq(Producers \cup {Consumer}) /\ IsInjective(l) /\ ~Contains(l, p)
    BY WaitAssumption DEF Types, Words, Sleepers, Asleep, FullWait
  <2>2. /\ IsInjective(Append(l, p))
        /\ \A x : Contains(Append(l, p), x) <=> (Contains(l, x) \/ x = p)
    BY <2>1, AppendSleeper
  <2>3. CASE waiters' = waiters
    BY <2>3, WaitAssumption DEF Types, PcType, Words, Sleepers, Asleep, FullWait, Goto, consumerVars
  <2>4. CASE waiters' = [waiters EXCEPT !["HEAD"] = Append(l, p)]
    <3>1. waiters'["HEAD"] = Append(l, p) /\ \A v \in Words \ {"HEAD"} : waiters'[v] = waiters[v]
      BY <2>4 DEF Types, Words
    <3> HIDE DEF l
    <3> QED
      BY <2>2, <3>1, WaitAssumption DEF l, Types, PcType, Words, Sleepers, Asleep, FullWait, Goto, consumerVars
  <2> QED
    BY <2>3, <2>4 DEF FullWait, AtomicsWait
<1> QED
  BY <1>1, <1>2, <1>3, <1>4, <1>5

LEMMA FullWokenStep == ASSUME BaseInv, NEW p \in Producers, FullWoken(p) PROVE BaseInv'
<1> USE DEF BaseInv
<1>1. Types'
  BY WaitAssumption DEF Types, PcType, Words, FullWoken, Goto, consumerVars
<1>2. Cursors'
  BY WaitAssumption DEF Types, PcType, Cursors, FullWoken, Goto, consumerVars
<1>3. Claims'
  BY WaitAssumption DEF Types, PcType, Cursors, Claims, Pending, FullWoken, Goto, consumerVars
<1>4. Roles'
  BY WaitAssumption DEF Types, PcType, Roles, PushersOf, FullWoken, Goto, consumerVars
<1>5. Sleepers'
  BY WaitAssumption DEF Types, PcType, Words, Sleepers, Asleep, FullWoken, Goto, consumerVars
<1> QED
  BY <1>1, <1>2, <1>3, <1>4, <1>5

LEMMA FullTimeoutStep == ASSUME BaseInv, NEW p \in Producers, FullTimeout(p) PROVE BaseInv'
<1> USE DEF BaseInv
<1> DEFINE l == waiters["HEAD"]
<1>a. PICK k \in 1 .. Len(l) : l[k] = p /\ waiters' = [waiters EXCEPT !["HEAD"] = RemoveAt(l, k)]
  BY DEF FullTimeout
<1>b. l \in Seq(Producers \cup {Consumer}) /\ IsInjective(l)
  BY DEF Types, Words, Sleepers
<1>c. /\ RemoveAt(l, k) \in Seq(Producers \cup {Consumer}) /\ IsInjective(RemoveAt(l, k))
      /\ \A x : Contains(RemoveAt(l, k), x) => Contains(l, x) /\ x # p
  BY <1>a, <1>b, DropSleeper
<1>d. waiters'["HEAD"] = RemoveAt(l, k) /\ waiters'["TAIL_COMMIT"] = waiters["TAIL_COMMIT"]
      /\ waiters' \in [Words -> Seq(Producers \cup {Consumer})]
  BY <1>a, <1>c DEF Types, Words
<1> HIDE DEF l
<1>1. Types'
  BY <1>d, WaitAssumption DEF Types, PcType, Words, FullTimeout, Goto, consumerVars
<1>2. Cursors'
  BY WaitAssumption DEF Types, PcType, Cursors, FullTimeout, Goto, consumerVars
<1>3. Claims'
  BY WaitAssumption DEF Types, PcType, Cursors, Claims, Pending, FullTimeout, Goto, consumerVars
<1>4. Roles'
  BY WaitAssumption DEF Types, PcType, Roles, PushersOf, FullTimeout, Goto, consumerVars
<1>5. Sleepers'
  BY <1>c, <1>d, WaitAssumption DEF Types, PcType, Words, Sleepers, Asleep, l, FullTimeout, Goto, consumerVars
<1> QED
  BY <1>1, <1>2, <1>3, <1>4, <1>5

LEMMA CommitLoadStep == ASSUME BaseInv, NEW p \in Producers, CommitLoad(p) PROVE BaseInv'
<1> USE DEF BaseInv
<1>1. Types'
  BY WaitAssumption DEF Types, PcType, Words, CommitLoad, Goto, consumerVars
<1>2. Cursors'
  BY WaitAssumption DEF Types, PcType, Cursors, CommitLoad, Goto, consumerVars
<1>3. Claims'
  BY WaitAssumption DEF Types, PcType, Cursors, Claims, Pending, CommitLoad, Goto, consumerVars
<1>4. Roles'
  BY WaitAssumption DEF Types, PcType, Roles, PushersOf, CommitLoad, Goto, consumerVars
<1>5. Sleepers'
  BY WaitAssumption DEF Types, PcType, Words, Sleepers, Asleep, CommitLoad, Goto, consumerVars
<1> QED
  BY <1>1, <1>2, <1>3, <1>4, <1>5

LEMMA CommitWaitStep == ASSUME BaseInv, NEW p \in Producers, CommitWait(p) PROVE BaseInv'
<1> USE DEF BaseInv
<1>1. Types'
  BY WaitAssumption DEF Types, PcType, Words, CommitWait, Goto, AtomicsWait, consumerVars
<1>2. Cursors'
  BY WaitAssumption DEF Types, PcType, Cursors, CommitWait, Goto, AtomicsWait, consumerVars
<1>3. Claims'
  BY WaitAssumption DEF Types, PcType, Cursors, Claims, Pending, CommitWait, Goto, AtomicsWait, consumerVars
<1>4. Roles'
  BY WaitAssumption DEF Types, PcType, Roles, PushersOf, CommitWait, Goto, AtomicsWait, consumerVars
<1>5. Sleepers'
  <2> DEFINE l == waiters["TAIL_COMMIT"]
  <2>1. l \in Seq(Producers \cup {Consumer}) /\ IsInjective(l) /\ ~Contains(l, p)
    BY WaitAssumption DEF Types, Words, Sleepers, Asleep, CommitWait
  <2>2. /\ IsInjective(Append(l, p))
        /\ \A x : Contains(Append(l, p), x) <=> (Contains(l, x) \/ x = p)
    BY <2>1, AppendSleeper
  <2>3. CASE waiters' = waiters
    BY <2>3, WaitAssumption DEF Types, PcType, Words, Sleepers, Asleep, CommitWait, Goto, consumerVars
  <2>4. CASE waiters' = [waiters EXCEPT !["TAIL_COMMIT"] = Append(l, p)]
    <3>1. waiters'["TAIL_COMMIT"] = Append(l, p) /\ \A v \in Words \ {"TAIL_COMMIT"} : waiters'[v] = waiters[v]
      BY <2>4 DEF Types, Words
    <3> HIDE DEF l
    <3> QED
      BY <2>2, <3>1, WaitAssumption DEF l, Types, PcType, Words, Sleepers, Asleep, CommitWait, Goto, consumerVars
  <2> QED
    BY <2>3, <2>4 DEF CommitWait, AtomicsWait
<1> QED
  BY <1>1, <1>2, <1>3, <1>4, <1>5

LEMMA CommitWokenStep == ASSUME BaseInv, NEW p \in Producers, CommitWoken(p) PROVE BaseInv'
<1> USE DEF BaseInv
<1>1. Types'
  BY WaitAssumption DEF Types, PcType, Words, CommitWoken, Goto, consumerVars
<1>2. Cursors'
  BY WaitAssumption DEF Types, PcType, Cursors, CommitWoken, Goto, consumerVars
<1>3. Claims'
  BY WaitAssumption DEF Types, PcType, Cursors, Claims, Pending, CommitWoken, Goto, consumerVars
<1>4. Roles'
  BY WaitAssumption DEF Types, PcType, Roles, PushersOf, CommitWoken, Goto, consumerVars
<1>5. Sleepers'
  BY WaitAssumption DEF Types, PcType, Words, Sleepers, Asleep, CommitWoken, Goto, consumerVars
<1> QED
  BY <1>1, <1>2, <1>3, <1>4, <1>5

LEMMA CommitStoreStep == ASSUME BaseInv, NEW p \in Producers, CommitStore(p) PROVE BaseInv'
<1> USE DEF BaseInv
<1>1. Types'
  BY WaitAssumption DEF Types, PcType, Words, CommitStore, Goto, consumerVars
<1>2. Cursors'
  BY WaitAssumption DEF Types, PcType, Cursors, Claims, Pending, CommitStore, Goto, consumerVars
<1>3. Claims'
  BY WaitAssumption DEF Types, PcType, Cursors, Claims, Pending, CommitStore, Goto, consumerVars
<1>4. Roles'
  BY WaitAssumption DEF Types, PcType, Roles, PushersOf, CommitStore, Goto, consumerVars
<1>5. Sleepers'
  BY WaitAssumption DEF Types, PcType, Words, Sleepers, Asleep, CommitStore, Goto, consumerVars
<1> QED
  BY <1>1, <1>2, <1>3, <1>4, <1>5

LEMMA CommitNotifyStep == ASSUME BaseInv, NEW p \in Producers, CommitNotify(p) PROVE BaseInv'
<1> USE DEF BaseInv
<1>1. Types'
  BY WaitAssumption DEF Types, PcType, Words, CommitNotify, Goto, AtomicsNotify, consumerVars
<1>2. Cursors'
  BY WaitAssumption DEF Types, PcType, Cursors, CommitNotify, Goto, AtomicsNotify, consumerVars
<1>3. Claims'
  BY WaitAssumption DEF Types, PcType, Cursors, Claims, Pending, CommitNotify, Goto, AtomicsNotify, consumerVars
<1>4. Roles'
  BY WaitAssumption DEF Types, PcType, Roles, PushersOf, CommitNotify, Goto, AtomicsNotify, consumerVars
<1>5. Sleepers'
  <2> DEFINE l == waiters["TAIL_COMMIT"]
  <2>1. l \in Seq(Producers \cup {Consumer}) /\ IsInjective(l)
    BY DEF Types, Words, Sleepers
  <2>2. CASE waiters' = waiters
    BY <2>2, WaitAssumption DEF Types, PcType, Words, Sleepers, Asleep, CommitNotify, Goto, consumerVars
  <2>3. CASE l # <<>> /\ waiters' = [waiters EXCEPT !["TAIL_COMMIT"] = Tail(l)]
    <3>1. waiters'["TAIL_COMMIT"] = Tail(l) /\ \A v \in Words \ {"TAIL_COMMIT"} : waiters'[v] = waiters[v]
      BY <2>3 DEF Types, Words
    <3>2. IsInjective(Tail(l)) /\ \A x : Contains(Tail(l), x) => Contains(l, x)
      BY <2>1, <2>3, WakeFirst
    <3> HIDE DEF l
    <3> QED
      BY <3>1, <3>2, WaitAssumption DEF l, Types, PcType, Words, Sleepers, Asleep, CommitNotify, Goto, consumerVars
  <2> QED
    BY <2>2, <2>3 DEF CommitNotify, AtomicsNotify
<1> QED
  BY <1>1, <1>2, <1>3, <1>4, <1>5

LEMMA PopLoadStep == ASSUME BaseInv, PopLoad PROVE BaseInv'
<1> USE DEF BaseInv
<1>1. Types'
  BY WaitAssumption DEF Types, PcType, Words, PopLoad, producerVars
<1>2. Cursors'
  BY WaitAssumption DEF Types, PcType, Cursors, Claims, PopLoad, producerVars
<1>3. Claims'
  BY WaitAssumption DEF Types, PcType, Cursors, Claims, Pending, PopLoad, producerVars
<1>4. Roles'
  BY WaitAssumption DEF Types, PcType, Roles, PushersOf, PopLoad, producerVars
<1>5. Sleepers'
  BY WaitAssumption DEF Types, PcType, Words, Sleepers, Asleep, PopLoad, producerVars
<1> QED
  BY <1>1, <1>2, <1>3, <1>4, <1>5

LEMMA PopAdvanceStep == ASSUME BaseInv, PopAdvance PROVE BaseInv'
<1> USE DEF BaseInv
<1>1. Types'
  BY WaitAssumption DEF Types, PcType, Words, PopAdvance, producerVars
<1>2. Cursors'
  BY WaitAssumption DEF Types, PcType, Cursors, Claims, PopAdvance, producerVars
<1>3. Claims'
  BY WaitAssumption DEF Types, PcType, Cursors, Claims, Pending, PopAdvance, producerVars
<1>4. Roles'
  BY WaitAssumption DEF Types, PcType, Roles, PushersOf, PopAdvance, producerVars
<1>5. Sleepers'
  BY WaitAssumption DEF Types, PcType, Words, Sleepers, Asleep, PopAdvance, producerVars
<1> QED
  BY <1>1, <1>2, <1>3, <1>4, <1>5

LEMMA PopNotifyStep == ASSUME BaseInv, PopNotify PROVE BaseInv'
<1> USE DEF BaseInv
<1>1. Types'
  BY WaitAssumption DEF Types, PcType, Words, PopNotify, AtomicsNotify, producerVars
<1>2. Cursors'
  BY WaitAssumption DEF Types, PcType, Cursors, Claims, PopNotify, AtomicsNotify, producerVars
<1>3. Claims'
  BY WaitAssumption DEF Types, PcType, Cursors, Claims, Pending, PopNotify, AtomicsNotify, producerVars
<1>4. Roles'
  BY WaitAssumption DEF Types, PcType, Roles, PushersOf, PopNotify, AtomicsNotify, producerVars
<1>5. Sleepers'
  <2> DEFINE l == waiters["HEAD"]
  <2>1. l \in Seq(Producers \cup {Consumer}) /\ IsInjective(l)
    BY DEF Types, Words, Sleepers
  <2>2. CASE waiters' = waiters
    BY <2>2, WaitAssumption DEF Types, PcType, Words, Sleepers, Asleep, PopNotify, producerVars
  <2>3. CASE l # <<>> /\ waiters' = [waiters EXCEPT !["HEAD"] = Tail(l)]
    <3>1. waiters'["HEAD"] = Tail(l) /\ \A v \in Words \ {"HEAD"} : waiters'[v] = waiters[v]
      BY <2>3 DEF Types, Words
    <3>2. IsInjective(Tail(l)) /\ \A x : Contains(Tail(l), x) => Contains(l, x)
      BY <2>1, <2>3, WakeFirst
    <3> HIDE DEF l
    <3> QED
      BY <3>1, <3>2, WaitAssumption DEF l, Types, PcType, Words, Sleepers, Asleep, PopNotify, producerVars
  <2> QED
    BY <2>2, <2>3 DEF PopNotify, AtomicsNotify
<1> QED
  BY <1>1, <1>2, <1>3, <1>4, <1>5

LEMMA WaitLoadStep == ASSUME BaseInv, WaitLoad PROVE BaseInv'
<1> USE DEF BaseInv
<1>1. Types'
  BY WaitAssumption DEF Types, PcType, Words, WaitLoad, producerVars
<1>2. Cursors'
  BY WaitAssumption DEF Types, PcType, Cursors, Claims, WaitLoad, producerVars
<1>3. Claims'
  BY WaitAssumption DEF Types, PcType, Cursors, Claims, Pending, WaitLoad, producerVars
<1>4. Roles'
  BY WaitAssumption DEF Types, PcType, Roles, PushersOf, WaitLoad, producerVars
<1>5. Sleepers'
  BY WaitAssumption DEF Types, PcType, Words, Sleepers, Asleep, WaitLoad, producerVars
<1> QED
  BY <1>1, <1>2, <1>3, <1>4, <1>5

LEMMA WaitStep == ASSUME BaseInv, Wait PROVE BaseInv'
<1> USE DEF BaseInv
<1>1. Types'
  BY WaitAssumption DEF Types, PcType, Words, Wait, AtomicsWait, producerVars
<1>2. Cursors'
  BY WaitAssumption DEF Types, PcType, Cursors, Claims, Wait, AtomicsWait, producerVars
<1>3. Claims'
  BY WaitAssumption DEF Types, PcType, Cursors, Claims, Pending, Wait, AtomicsWait, producerVars
<1>4. Roles'
  BY WaitAssumption DEF Types, PcType, Roles, PushersOf, Wait, AtomicsWait, producerVars
<1>5. Sleepers'
  <2> DEFINE l == waiters["TAIL_COMMIT"]
  <2>1. l \in Seq(Producers \cup {Consumer}) /\ IsInjective(l) /\ ~Contains(l, Consumer)
    BY WaitAssumption DEF Types, Words, Sleepers, Asleep, Wait
  <2>2. /\ IsInjective(Append(l, Consumer))
        /\ \A x : Contains(Append(l, Consumer), x) <=> (Contains(l, x) \/ x = Consumer)
    BY <2>1, AppendSleeper
  <2>3. CASE waiters' = waiters
    BY <2>3, WaitAssumption DEF Types, PcType, Words, Sleepers, Asleep, Wait, producerVars
  <2>4. CASE waiters' = [waiters EXCEPT !["TAIL_COMMIT"] = Append(l, Consumer)]
    <3>1. waiters'["TAIL_COMMIT"] = Append(l, Consumer) /\ \A v \in Words \ {"TAIL_COMMIT"} : waiters'[v] = waiters[v]
      BY <2>4 DEF Types, Words
    <3> HIDE DEF l
    <3> QED
      BY <2>2, <3>1, WaitAssumption DEF l, Types, PcType, Words, Sleepers, Asleep, Wait, producerVars
  <2> QED
    BY <2>3, <2>4 DEF Wait, AtomicsWait
<1> QED
  BY <1>1, <1>2, <1>3, <1>4, <1>5

LEMMA WokenStep == ASSUME BaseInv, Woken PROVE BaseInv'
<1> USE DEF BaseInv
<1>1. Types'
  BY WaitAssumption DEF Types, PcType, Words, Woken, producerVars
<1>2. Cursors'
  BY WaitAssumption DEF Types, PcType, Cursors, Claims, Woken, producerVars
<1>3. Claims'
  BY WaitAssumption DEF Types, PcType, Cursors, Claims, Pending, Woken, producerVars
<1>4. Roles'
  BY WaitAssumption DEF Types, PcType, Roles, PushersOf, Woken, producerVars
<1>5. Sleepers'
  BY WaitAssumption DEF Types, PcType, Words, Sleepers, Asleep, Woken, producerVars
<1> QED
  BY <1>1, <1>2, <1>3, <1>4, <1>5


LEMMA InitBase == Init => BaseInv /\ TurnInv
<1> SUFFICES ASSUME Init PROVE BaseInv /\ TurnInv
  OBVIOUS
<1>1. Types
  BY WaitAssumption DEF Init, Types, PcType, Words
<1>2. Cursors /\ Claims /\ Roles
  BY WaitAssumption DEF Init, Cursors, Claims, Pending, Roles
<1>3. \A w \in Words : waiters[w] = <<>>
  BY DEF Init
<1>4. \A a : ~Asleep(a, "HEAD") /\ ~Asleep(a, "TAIL_COMMIT")
  BY <1>3 DEF Asleep, Contains, Words
<1>5. Sleepers
  BY <1>3, <1>4 DEF Sleepers, IsInjective
<1>6. TurnInv
  BY <1>4 DEF Init, TurnInv, NoTurns, ConsumerNotForgotten, TurnNotForgotten
<1> QED
  BY <1>1, <1>2, <1>5, <1>6 DEF BaseInv

LEMMA BaseStep == BaseInv /\ [Next]_vars => BaseInv'
<1> SUFFICES ASSUME BaseInv, [Next]_vars PROVE BaseInv'
  OBVIOUS
<1>1. CASE ConsumerStep
  BY <1>1, PopLoadStep, PopAdvanceStep, PopNotifyStep, WaitLoadStep, WaitStep, WokenStep
     DEF ConsumerStep
<1>2. CASE \E p \in Producers : Producer(p)
  BY <1>2, CallPushStep, LoadHeadStep, ClaimStep, FullLoadHeadStep, FullWaitStep,
     FullWokenStep, FullTimeoutStep, CommitLoadStep, CommitWaitStep, CommitWokenStep,
     CommitStoreStep, CommitNotifyStep DEF Producer
<1>3. CASE UNCHANGED vars
  BY <1>3 DEF vars, BaseInv, Types, PcType, Cursors, Claims, Pending, Roles, Sleepers, Asleep
<1> QED
  BY <1>1, <1>2, <1>3 DEF Next, Terminated

LEMMA AlwaysBase == Spec => []BaseInv
BY InitBase, BaseStep, PTL DEF Spec

\* The invariant orders the cursors, and the two lists have no sleeper in
\* common: one holds producers at a full ring, the other those in a commit.
LEMMA BaseImpliesTypeOK == BaseInv => TypeOK
<1> SUFFICES ASSUME BaseInv PROVE TypeOK
  OBVIOUS
<1> DEFINE h == waiters["HEAD"]
           t == waiters["TAIL_COMMIT"]
<1>1. /\ h \in Seq(Producers \cup {Consumer}) /\ t \in Seq(Producers \cup {Consumer})
      /\ IsInjective(h) /\ IsInjective(t)
  BY DEF BaseInv, Types, Words, Sleepers
<1>2. /\ Len(h) \in Nat /\ Len(t) \in Nat
      /\ DOMAIN h = 1 .. Len(h) /\ DOMAIN t = 1 .. Len(t)
      /\ \A i \in 1 .. Len(h) : h[i] \in Producers \cup {Consumer}
      /\ \A i \in 1 .. Len(t) : t[i] \in Producers \cup {Consumer}
  BY <1>1
<1>3. ASSUME NEW i \in 1 .. Len(h), NEW j \in 1 .. Len(t) PROVE h[i] # t[j]
  <2>1. Asleep(h[i], "HEAD") /\ Asleep(t[j], "TAIL_COMMIT")
    BY DEF Asleep, Contains
  <2> QED
    BY <1>2, <2>1, WaitAssumption DEF BaseInv, Sleepers
<1> HIDE DEF h, t
<1>4. /\ Len(h \o t) = Len(h) + Len(t) /\ DOMAIN (h \o t) = 1 .. Len(h) + Len(t)
      /\ \A i \in 1 .. Len(h) + Len(t) :
           (h \o t)[i] = IF i <= Len(h) THEN h[i] ELSE t[i - Len(h)]
  BY <1>1, <1>2, ConcatProperties
<1>5. ASSUME NEW i \in 1 .. Len(h) + Len(t), NEW j \in 1 .. Len(h) + Len(t),
             (h \o t)[i] = (h \o t)[j]
      PROVE  i = j
  <2>1. \A k \in 1 .. Len(h) + Len(t) :
          \/ k \in 1 .. Len(h) /\ (h \o t)[k] = h[k]
          \/ k > Len(h) /\ k - Len(h) \in 1 .. Len(t) /\ (h \o t)[k] = t[k - Len(h)]
    BY <1>2, <1>4
  <2>2. CASE i <= Len(h) /\ j <= Len(h)
    BY <1>1, <1>2, <1>5, <2>1, <2>2 DEF IsInjective
  <2>3. CASE i > Len(h) /\ j > Len(h)
    <3>1. /\ i - Len(h) \in DOMAIN t /\ j - Len(h) \in DOMAIN t
          /\ t[i - Len(h)] = t[j - Len(h)]
      BY <1>2, <1>5, <2>1, <2>3
    <3>2. i - Len(h) = j - Len(h)
      BY <1>1, <3>1 DEF IsInjective
    <3> QED
      BY <1>2, <3>2
  <2>4. CASE (i <= Len(h) /\ j > Len(h)) \/ (i > Len(h) /\ j <= Len(h))
    BY <1>2, <1>3, <1>5, <2>1, <2>4
  <2> QED
    BY <1>2, <2>2, <2>3, <2>4
<1>6. IsInjective(h \o t)
  BY <1>4, <1>5 DEF IsInjective
<1>7. tail_commit \in head .. tail_reserve /\ tail_reserve \in head .. head + Cap
  BY WaitAssumption DEF BaseInv, Types, Cursors
<1> QED
  BY <1>6, <1>7 DEF TypeOK, BaseInv, Types, PcType, h, t

\* SharedRingBuffer's cursors stay ordered and within the capacity, and an
\* agent sleeps on one word at a time, once, for every use of a ring.
THEOREM WaitTypeOK == Spec => []TypeOK
BY AlwaysBase, BaseImpliesTypeOK, PTL

-----------------------------------------------------------------------------
(* Who is woken, where few producers push.                                 *)

\* While a producer is about to notify, at most one agent sleeps on
\* tail_commit, so that is the agent it wakes.
LEMMA LoneSleeper ==
  ASSUME FewPushers, BaseInv, NoTurns, NEW q \in Producers, pc[q] = "commit_notify"
  PROVE  Len(waiters["TAIL_COMMIT"]) <= 1
<1> DEFINE t == waiters["TAIL_COMMIT"]
<1>1. /\ t \in Seq(Producers \cup {Consumer}) /\ IsInjective(t) /\ use \in Uses
  BY DEF BaseInv, Types, Words, Sleepers
<1>2. Len(t) \in Nat /\ DOMAIN t = 1 .. Len(t)
      /\ \A i \in 1 .. Len(t) : t[i] \in Producers \cup {Consumer}
  BY <1>1
<1> SUFFICES ASSUME Len(t) >= 2 PROVE FALSE
  BY <1>2
<1>3. 1 \in 1 .. Len(t) /\ 2 \in 1 .. Len(t)
  BY <1>2
<1> DEFINE a == t[1]
           b == t[2]
<1>4. a # b /\ a \in Producers \cup {Consumer} /\ b \in Producers \cup {Consumer}
  BY <1>1, <1>2, <1>3 DEF IsInjective
<1>5. Asleep(a, "TAIL_COMMIT") /\ Asleep(b, "TAIL_COMMIT")
  BY <1>3 DEF Asleep, Contains
<1> HIDE DEF a, b, t
<1>6. /\ (a = Consumer /\ cpc = "asleep") \/ (a \in Producers /\ pc[a] = "commit_asleep")
      /\ (b = Consumer /\ cpc = "asleep") \/ (b \in Producers /\ pc[b] = "commit_asleep")
  BY <1>4, <1>5 DEF BaseInv, Sleepers
<1>7. CASE use.waits
  BY <1>4, <1>6, <1>7 DEF NoTurns
<1>8. CASE ~use.waits
  <2>1. a \in Producers /\ b \in Producers /\ pc[a] = "commit_asleep" /\ pc[b] = "commit_asleep"
    BY <1>6, <1>8 DEF BaseInv, Roles
  <2>2. {a, b, q} \subseteq PushersOf(use) /\ a # q /\ b # q
    BY <2>1 DEF BaseInv, Roles
  <2> QED
    BY <1>1, <1>4, <2>2 DEF FewPushers
<1> QED
  BY <1>7, <1>8

\* A step that leaves the sleepers on tail_commit and what they wait for alone.
LEMMA QuietStep ==
  ASSUME TurnInv, use' = use, head' = head, tail_commit' = tail_commit,
         waiters'["TAIL_COMMIT"] = waiters["TAIL_COMMIT"],
         \A p \in Producers : pc'[p] \in {"commit_wait", "commit_asleep"}
                              => pc[p] \in {"commit_wait", "commit_asleep"},
         \A p \in Producers : pc[p] = "commit_notify" => pc'[p] = "commit_notify",
         \A p \in Producers : Asleep(p, "TAIL_COMMIT") => seenTail'[p] = seenTail[p]
  PROVE  TurnInv'
<1>1. \A a : Asleep(a, "TAIL_COMMIT")' <=> Asleep(a, "TAIL_COMMIT")
  BY DEF Asleep
<1>2. NotifyPending => NotifyPending'
  BY DEF NotifyPending
<1>3. NoTurns'
  BY DEF TurnInv, NoTurns
<1>4. ConsumerNotForgotten'
  BY <1>1, <1>2 DEF TurnInv, ConsumerNotForgotten
<1>5. TurnNotForgotten'
  BY <1>1, <1>2 DEF TurnInv, TurnNotForgotten
<1> QED
  BY <1>3, <1>4, <1>5 DEF TurnInv


\* The steps that leave alone whom tail_commit wakes.
LEMMA QuietProducer ==
  ASSUME BaseInv, TurnInv, NEW p \in Producers,
         \/ CallPush(p) \/ LoadHead(p) \/ Claim(p) \/ FullLoadHead(p) \/ FullWait(p)
         \/ FullWoken(p) \/ FullTimeout(p) \/ CommitWoken(p)
  PROVE  TurnInv'
<1>1. use' = use /\ head' = head /\ tail_commit' = tail_commit
  BY DEF CallPush, LoadHead, Claim, FullLoadHead, FullWait, FullWoken, FullTimeout,
         CommitWoken, consumerVars
<1>2. waiters'["TAIL_COMMIT"] = waiters["TAIL_COMMIT"]
  BY DEF BaseInv, Types, Words, CallPush, LoadHead, Claim, FullLoadHead, FullWait, FullWoken,
         FullTimeout, CommitWoken, AtomicsWait
<1>3. /\ pc[p] # "commit_notify" /\ pc'[p] \notin {"commit_wait", "commit_asleep"}
      /\ \A q \in Producers \ {p} : pc'[q] = pc[q]
  BY DEF BaseInv, Types, PcType, CallPush, LoadHead, Claim, FullLoadHead, FullWait, FullWoken,
         FullTimeout, CommitWoken, Goto
<1>4. ASSUME NEW q \in Producers, Asleep(q, "TAIL_COMMIT") PROVE seenTail'[q] = seenTail[q]
  <2>1. pc[q] = "commit_asleep"
    BY <1>4, WaitAssumption DEF BaseInv, Sleepers
  <2> QED
    BY <2>1 DEF BaseInv, Types, CallPush, LoadHead, Claim, FullLoadHead, FullWait, FullWoken,
                FullTimeout, CommitWoken
<1> QED
  BY <1>1, <1>2, <1>3, <1>4, QuietStep

LEMMA QuietConsumer ==
  ASSUME BaseInv, TurnInv, PopLoad \/ PopNotify \/ WaitLoad \/ Woken
  PROVE  TurnInv'
<1>1. /\ use' = use /\ head' = head /\ tail_commit' = tail_commit
      /\ pc' = pc /\ seenTail' = seenTail
  BY DEF PopLoad, PopNotify, WaitLoad, Woken, producerVars
<1>2. waiters'["TAIL_COMMIT"] = waiters["TAIL_COMMIT"]
  BY DEF BaseInv, Types, Words, PopLoad, PopNotify, WaitLoad, Woken, AtomicsNotify
<1> QED
  BY <1>1, <1>2, QuietStep

\* Beside a consumer that sleeps, the one producer owns the one claim there
\* is, and its turn has come when it looks.
LEMMA CommitLoadTurn ==
  ASSUME FewPushers, BaseInv, TurnInv, NEW p \in Producers, CommitLoad(p)
  PROVE  TurnInv'
<1>1. /\ use' = use /\ head' = head /\ tail_commit' = tail_commit /\ waiters' = waiters
      /\ seenTail' = seenTail /\ pc[p] = "commit_load" /\ pc'[p] # "commit_notify"
      /\ tail_commit # seenTail[p] => pc'[p] = "commit_wait"
      /\ tail_commit = seenTail[p] => pc'[p] = "commit"
      /\ \A q \in Producers \ {p} : pc'[q] = pc[q]
  BY DEF BaseInv, Types, PcType, CommitLoad, Goto, consumerVars
<1>2. ASSUME use.waits PROVE tail_commit = seenTail[p]
  <2>1. /\ use \in Uses /\ p \in PushersOf(use)
        /\ tail_commit \in Nat /\ tail_reserve \in Nat /\ seenTail[p] \in Nat
        /\ tail_commit <= seenTail[p] /\ seenTail[p] < tail_reserve
    BY <1>1 DEF BaseInv, Types, Roles, Claims, Pending
  <2>2. tail_commit \in tail_commit .. (tail_reserve - 1)
    BY <2>1
  <2>3. PICK q \in Producers : Pending(q) /\ seenTail[q] = tail_commit
    BY <2>2 DEF BaseInv, Claims
  <2>4. q \in PushersOf(use)
    BY <2>3 DEF BaseInv, Roles, Pending
  <2> QED
    BY <1>2, <2>1, <2>3, <2>4 DEF FewPushers
<1>3. NoTurns'
  BY <1>1, <1>2 DEF TurnInv, NoTurns
<1>4. NotifyPending => NotifyPending'
  BY <1>1 DEF NotifyPending
<1> QED
  BY <1>1, <1>3, <1>4 DEF TurnInv, ConsumerNotForgotten, TurnNotForgotten, Asleep

\* A producer goes to sleep only on a tail_commit that is not its turn.
LEMMA CommitWaitTurn ==
  ASSUME BaseInv, TurnInv, NEW p \in Producers, CommitWait(p)
  PROVE  TurnInv'
<1> DEFINE l == waiters["TAIL_COMMIT"]
<1>1. /\ use' = use /\ head' = head /\ tail_commit' = tail_commit /\ seenTail' = seenTail
      /\ pc[p] = "commit_wait" /\ pc'[p] = "commit_asleep"
      /\ \A q \in Producers \ {p} : pc'[q] = pc[q]
  BY DEF BaseInv, Types, PcType, CommitWait, Goto, consumerVars
<1>2. /\ l \in Seq(Producers \cup {Consumer}) /\ IsInjective(l) /\ ~Contains(l, p)
  BY <1>1, WaitAssumption DEF BaseInv, Types, Words, Sleepers, Asleep
<1>3. \A x : Contains(Append(l, p), x) <=> (Contains(l, x) \/ x = p)
  BY <1>2, AppendSleeper
<1>4. \A x : Asleep(x, "TAIL_COMMIT")' =>
               Asleep(x, "TAIL_COMMIT") \/ (x = p /\ tail_commit = seenCommit[p])
  <2>1. CASE tail_commit = seenCommit[p]
    <3>1. waiters'["TAIL_COMMIT"] = Append(l, p)
      BY <2>1 DEF BaseInv, Types, Words, CommitWait, AtomicsWait
    <3> QED
      BY <1>3, <2>1, <3>1 DEF Asleep
  <2>2. CASE tail_commit # seenCommit[p]
    BY <2>2 DEF CommitWait, AtomicsWait, Asleep
  <2> QED
    BY <2>1, <2>2
<1>5. seenCommit[p] # seenTail[p]
  BY <1>1 DEF BaseInv, Claims
<1>6. NotifyPending => NotifyPending'
  BY <1>1 DEF NotifyPending
<1>7. NoTurns'
  BY <1>1 DEF TurnInv, NoTurns
<1>8. ConsumerNotForgotten'
  BY <1>1, <1>4, <1>6, WaitAssumption DEF TurnInv, ConsumerNotForgotten
<1>9. TurnNotForgotten'
  BY <1>1, <1>4, <1>5, <1>6 DEF TurnInv, TurnNotForgotten
<1> QED
  BY <1>7, <1>8, <1>9 DEF TurnInv

LEMMA CommitStoreTurn ==
  ASSUME BaseInv, TurnInv, NEW p \in Producers, CommitStore(p)
  PROVE  TurnInv'
<1>1. /\ use' = use /\ pc'[p] = "commit_notify" /\ \A q \in Producers \ {p} : pc'[q] = pc[q]
  BY DEF BaseInv, Types, PcType, CommitStore, Goto, consumerVars
<1>2. NotifyPending'
  BY <1>1 DEF NotifyPending
<1> QED
  BY <1>1, <1>2 DEF TurnInv, NoTurns, ConsumerNotForgotten, TurnNotForgotten

\* The notify wakes the only sleeper.
LEMMA CommitNotifyTurn ==
  ASSUME FewPushers, BaseInv, TurnInv, NEW p \in Producers, CommitNotify(p)
  PROVE  TurnInv'
<1> DEFINE l == waiters["TAIL_COMMIT"]
<1>1. /\ use' = use /\ pc[p] = "commit_notify" /\ pc'[p] = "idle"
      /\ \A q \in Producers \ {p} : pc'[q] = pc[q]
  BY DEF BaseInv, Types, PcType, CommitNotify, Goto, consumerVars
<1>2. /\ l \in Seq(Producers \cup {Consumer}) /\ IsInjective(l) /\ Len(l) <= 1
  BY <1>1, LoneSleeper DEF BaseInv, TurnInv, Types, Words, Sleepers
<1>3. \A x : ~Asleep(x, "TAIL_COMMIT")'
  <2>1. CASE l = <<>>
    BY <2>1 DEF CommitNotify, AtomicsNotify, Asleep, Contains
  <2>2. CASE l # <<>>
    <3>1. waiters'["TAIL_COMMIT"] = Tail(l)
      BY <2>2 DEF BaseInv, Types, Words, CommitNotify, AtomicsNotify
    <3>2. \A x : ~Contains(Tail(l), x)
      BY <1>2, <2>2, WakeFirst
    <3> QED
      BY <3>1, <3>2 DEF Asleep
  <2> QED
    BY <2>1, <2>2
<1> QED
  BY <1>1, <1>3 DEF TurnInv, NoTurns, ConsumerNotForgotten, TurnNotForgotten

\* A consumer that pops is awake.
LEMMA PopAdvanceTurn == ASSUME BaseInv, TurnInv, PopAdvance PROVE TurnInv'
<1>1. /\ use' = use /\ tail_commit' = tail_commit /\ waiters' = waiters
      /\ pc' = pc /\ seenTail' = seenTail /\ cpc = "advance"
  BY DEF PopAdvance, producerVars
<1>2. ~Asleep(Consumer, "TAIL_COMMIT")
  BY <1>1, WaitAssumption DEF BaseInv, Sleepers
<1> QED
  BY <1>1, <1>2 DEF TurnInv, NoTurns, ConsumerNotForgotten, TurnNotForgotten, Asleep, NotifyPending

\* The consumer goes to sleep only on the tail_commit its emptiness test saw.
LEMMA WaitTurn == ASSUME BaseInv, TurnInv, Wait PROVE TurnInv'
<1> DEFINE l == waiters["TAIL_COMMIT"]
<1>1. /\ use' = use /\ head' = head /\ tail_commit' = tail_commit
      /\ pc' = pc /\ seenTail' = seenTail /\ cpc = "wait" /\ popTail = head
  BY DEF BaseInv, Roles, Wait, producerVars
<1>2. /\ l \in Seq(Producers \cup {Consumer}) /\ IsInjective(l) /\ ~Contains(l, Consumer)
  BY <1>1, WaitAssumption DEF BaseInv, Types, Words, Sleepers, Asleep
<1>3. \A x : Contains(Append(l, Consumer), x) <=> (Contains(l, x) \/ x = Consumer)
  BY <1>2, AppendSleeper
<1>4. \A x : Asleep(x, "TAIL_COMMIT")' =>
               Asleep(x, "TAIL_COMMIT") \/ (x = Consumer /\ tail_commit = head)
  <2>1. CASE tail_commit = popTail
    <3>1. waiters'["TAIL_COMMIT"] = Append(l, Consumer)
      BY <2>1 DEF BaseInv, Types, Words, Wait, AtomicsWait
    <3> QED
      BY <1>1, <1>3, <2>1, <3>1 DEF Asleep
  <2>2. CASE tail_commit # popTail
    BY <2>2 DEF Wait, AtomicsWait, Asleep
  <2> QED
    BY <2>1, <2>2
<1>5. ConsumerNotForgotten'
  BY <1>1, <1>4 DEF TurnInv, ConsumerNotForgotten, NotifyPending
<1>6. TurnNotForgotten'
  BY <1>1, <1>4, WaitAssumption DEF TurnInv, TurnNotForgotten, NotifyPending
<1> QED
  BY <1>1, <1>5, <1>6 DEF TurnInv, NoTurns

LEMMA TurnStep == ASSUME FewPushers PROVE BaseInv /\ TurnInv /\ [Next]_vars => TurnInv'
<1> SUFFICES ASSUME BaseInv, TurnInv, [Next]_vars PROVE TurnInv'
  OBVIOUS
<1>1. CASE ConsumerStep
  BY <1>1, QuietConsumer, PopAdvanceTurn, WaitTurn DEF ConsumerStep
<1>2. CASE \E p \in Producers : Producer(p)
  BY <1>2, QuietProducer, CommitLoadTurn, CommitWaitTurn, CommitStoreTurn, CommitNotifyTurn
     DEF Producer
<1>3. CASE UNCHANGED vars
  BY <1>3 DEF vars, TurnInv, NoTurns, ConsumerNotForgotten, TurnNotForgotten, Asleep, NotifyPending
<1> QED
  BY <1>1, <1>2, <1>3 DEF Next, Terminated

LEMMA AlwaysTurn == ASSUME FewPushers PROVE Spec => []TurnInv
<1>1. BaseInv /\ TurnInv /\ [Next]_vars => TurnInv'
  BY TurnStep
<1> QED
  BY <1>1, InitBase, AlwaysBase, PTL DEF Spec

\* wait_for_data never sleeps through data: a consumer asleep on tail_commit
\* sees an empty ring, or a producer that has stored and not yet notified.
THEOREM ConsumerNeverForgotten == ASSUME FewPushers PROVE Spec => []ConsumerNotForgotten
<1>1. TurnInv => ConsumerNotForgotten
  BY DEF TurnInv
<1> QED
  BY <1>1, AlwaysTurn, PTL

\* try_push never sleeps through its turn to commit: when tail_commit has
\* reached the claim of a sleeping producer, a notify is on its way.
THEOREM TurnNeverForgotten == ASSUME FewPushers PROVE Spec => []TurnNotForgotten
<1>1. TurnInv => TurnNotForgotten
  BY DEF TurnInv
<1> QED
  BY <1>1, AlwaysTurn, PTL


=============================================================================
