---------------------------- MODULE IpcRingWait ----------------------------
(***************************************************************************)
(* Sleeping and waking on the ring's control words: SharedRingBuffer of    *)
(* crates/aero-ipc/src/wasm.rs and its TypeScript mirror RingBuffer of     *)
(* apps/web/src/ipc/ring_buffer.ts.                                        *)
(*                                                                         *)
(* The layout of records and the reservation race are the subject of       *)
(* IpcRing.  Here a record is one unit, the capacity is counted in         *)
(* records, cursors do not wrap, and a claim is one step after the load of *)
(* `head`; what is left is who sleeps on which word, and who wakes whom.   *)
(* Atomics.wait sleeps only if the word still holds the expected value and *)
(* Atomics.notify(word, 1) wakes the longest sleeper of that word.         *)
(***************************************************************************)
EXTENDS Naturals, Sequences, FiniteSets, SequencesExt, FiniteSetsExt

CONSTANTS
  Producers,
  Consumer,            \* the one consumer
  Timeouts,            \* TRUE: push_blocking is given a timeout (TypeScript)
  Cap,                 \* capacity, in records
  Uses                 \* the ways a ring may be used, see UseType

\* How the two ends of a ring use it: the producers that call push_blocking,
\* those that call try_push and drop, whether the consumer sleeps in
\* pop_blocking or polls try_pop, and the bound on pushes per producer.
UseType == [blocking : SUBSET Producers, dropping : SUBSET Producers,
            waits : BOOLEAN, pushes : Nat]

ASSUME WaitAssumption ==
  /\ Consumer \notin Producers
  /\ Timeouts \in BOOLEAN /\ Cap \in Nat \ {0}
  /\ Uses \subseteq UseType

VARIABLES
  use,                               \* how this ring is used, fixed at its creation
  head, tail_reserve, tail_commit,   \* control words
  waiters,                           \* per word, the agents asleep on it, oldest first
  pc, n, seenHead, seenTail, seenCommit,  \* per producer
  cpc, popTail                       \* consumer

vars == <<use, head, tail_reserve, tail_commit, waiters,
          pc, n, seenHead, seenTail, seenCommit, cpc, popTail>>
producerVars == <<pc, n, seenHead, seenTail, seenCommit>>
consumerVars == <<use, cpc, popTail>>

Words == {"HEAD", "TAIL_COMMIT"}

\* The number of pushes of p in this use of the ring.
Pushes(p) == IF p \in use.blocking \cup use.dropping THEN use.pushes ELSE 0

Asleep(a, w) == Contains(waiters[w], a)

\* Atomics.wait(w, expected) when the word holds value: sleep, or return at once.
AtomicsWait(a, w, value, expected) ==
  waiters' = IF value = expected THEN [waiters EXCEPT ![w] = Append(@, a)] ELSE waiters

\* Atomics.notify(w, 1).
AtomicsNotify(w) ==
  waiters' = IF waiters[w] = <<>> THEN waiters ELSE [waiters EXCEPT ![w] = Tail(@)]

Init ==
  /\ use \in Uses
  /\ head = 0 /\ tail_reserve = 0 /\ tail_commit = 0
  /\ waiters = [w \in Words |-> <<>>]
  /\ pc = [p \in Producers |-> "idle"]
  /\ n = [p \in Producers |-> 0]
  /\ seenHead = [p \in Producers |-> 0]
  /\ seenTail = [p \in Producers |-> 0]
  /\ seenCommit = [p \in Producers |-> 0]
  /\ cpc = "pop" /\ popTail = 0

-----------------------------------------------------------------------------
Goto(p, l) == pc' = [pc EXCEPT ![p] = l]

CallPush(p) ==
  /\ pc[p] = "idle" /\ n[p] < Pushes(p)
  /\ n' = [n EXCEPT ![p] = n[p] + 1]
  /\ Goto(p, "load_head")
  /\ UNCHANGED <<head, tail_reserve, tail_commit, waiters,
                 seenHead, seenTail, seenCommit, consumerVars>>

LoadHead(p) ==
  /\ pc[p] = "load_head"
  /\ seenHead' = [seenHead EXCEPT ![p] = head]
  /\ Goto(p, "claim")
  /\ UNCHANGED <<head, tail_reserve, tail_commit, waiters, n, seenTail, seenCommit, consumerVars>>

\* Slip: one record more than the ring holds.
ClaimOneTooMany(p) ==
  /\ pc[p] = "claim"
  /\ tail_reserve - seenHead[p] <= Cap
  /\ seenTail' = [seenTail EXCEPT ![p] = tail_reserve]
  /\ tail_reserve' = tail_reserve + 1
  /\ Goto(p, "commit_load")
  /\ UNCHANGED <<head, tail_commit, waiters, n, seenHead, seenCommit, consumerVars>>

\* The loop that loads tail_reserve and compare-exchanges it: start over, find
\* the ring full, or own the next record.
Claim(p) ==
  /\ pc[p] = "claim"
  /\ LET used == tail_reserve - seenHead[p]
     IN IF used < Cap
          THEN /\ seenTail' = [seenTail EXCEPT ![p] = tail_reserve]
               /\ tail_reserve' = tail_reserve + 1
               /\ Goto(p, "commit_load")
          ELSE /\ Goto(p, IF used > Cap THEN "load_head"
                          ELSE IF p \in use.blocking THEN "full" ELSE "idle")
               /\ UNCHANGED <<seenTail, tail_reserve>>
  /\ UNCHANGED <<head, tail_commit, waiters, n, seenHead, seenCommit, consumerVars>>

\* push_blocking after a failed try_push: load head, then wait for it to change.
FullLoadHead(p) ==
  /\ pc[p] = "full"
  /\ seenHead' = [seenHead EXCEPT ![p] = head]
  /\ Goto(p, "full_wait")
  /\ UNCHANGED <<head, tail_reserve, tail_commit, waiters, n, seenTail, seenCommit, consumerVars>>

FullWait(p) ==
  /\ pc[p] = "full_wait"
  /\ AtomicsWait(p, "HEAD", head, seenHead[p])
  /\ Goto(p, "full_asleep")
  /\ UNCHANGED <<head, tail_reserve, tail_commit, n, seenHead, seenTail, seenCommit, consumerVars>>

FullWoken(p) ==
  /\ pc[p] = "full_asleep" /\ ~Asleep(p, "HEAD")
  /\ Goto(p, "load_head")
  /\ UNCHANGED <<head, tail_reserve, tail_commit, waiters, n, seenHead, seenTail,
                 seenCommit, consumerVars>>

\* Slip: a timed-out waiter goes back to sleep.
FullTimeoutIgnored(p) ==
  /\ pc[p] = "full_asleep" /\ Asleep(p, "HEAD") /\ Timeouts
  /\ UNCHANGED vars

\* "timed-out": pushBlocking throws, the record is dropped.
FullTimeout(p) ==
  /\ pc[p] = "full_asleep" /\ Timeouts
  /\ \E k \in 1 .. Len(waiters["HEAD"]) :
       /\ waiters["HEAD"][k] = p
       /\ waiters' = [waiters EXCEPT !["HEAD"] = RemoveAt(@, k)]
  /\ Goto(p, "idle")
  /\ UNCHANGED <<head, tail_reserve, tail_commit, n, seenHead, seenTail, seenCommit, consumerVars>>

\* In-order commit: until tail_commit reaches the own claim, sleep on it.
CommitLoad(p) ==
  /\ pc[p] = "commit_load"
  /\ seenCommit' = [seenCommit EXCEPT ![p] = tail_commit]
  /\ Goto(p, IF tail_commit = seenTail[p] THEN "commit" ELSE "commit_wait")
  /\ UNCHANGED <<head, tail_reserve, tail_commit, waiters, n, seenHead, seenTail, consumerVars>>

\* Slip: the wait is entered whatever the word holds by then.
CommitWaitUnconditionally(p) ==
  /\ pc[p] = "commit_wait"
  /\ AtomicsWait(p, "TAIL_COMMIT", seenCommit[p], seenCommit[p])
  /\ Goto(p, "commit_asleep")
  /\ UNCHANGED <<head, tail_reserve, tail_commit, n, seenHead, seenTail, seenCommit, consumerVars>>

CommitWait(p) ==
  /\ pc[p] = "commit_wait"
  /\ AtomicsWait(p, "TAIL_COMMIT", tail_commit, seenCommit[p])
  /\ Goto(p, "commit_asleep")
  /\ UNCHANGED <<head, tail_reserve, tail_commit, n, seenHead, seenTail, seenCommit, consumerVars>>

\* Slip: a woken producer waits again with the value it loaded before.
CommitWokenNoReload(p) ==
  /\ pc[p] = "commit_asleep" /\ ~Asleep(p, "TAIL_COMMIT")
  /\ Goto(p, "commit_wait")
  /\ UNCHANGED <<head, tail_reserve, tail_commit, waiters, n, seenHead, seenTail,
                 seenCommit, consumerVars>>

CommitWoken(p) ==
  /\ pc[p] = "commit_asleep" /\ ~Asleep(p, "TAIL_COMMIT")
  /\ Goto(p, "commit_load")
  /\ UNCHANGED <<head, tail_reserve, tail_commit, waiters, n, seenHead, seenTail,
                 seenCommit, consumerVars>>

CommitStore(p) ==
  /\ pc[p] = "commit"
  /\ tail_commit' = seenTail[p] + 1
  /\ Goto(p, "commit_notify")
  /\ UNCHANGED <<head, tail_reserve, waiters, n, seenHead, seenTail, seenCommit, consumerVars>>

CommitNotify(p) ==
  /\ pc[p] = "commit_notify"
  /\ AtomicsNotify("TAIL_COMMIT")
  /\ Goto(p, "idle")
  /\ UNCHANGED <<head, tail_reserve, tail_commit, n, seenHead, seenTail, seenCommit, consumerVars>>

-----------------------------------------------------------------------------
(* The consumer: try_pop in a loop, with wait_for_data when it is empty.   *)

PopLoad ==
  /\ cpc = "pop"
  /\ IF head # tail_commit THEN cpc' = "advance"
     ELSE use.waits /\ cpc' = "wait_load"
  /\ UNCHANGED <<use, head, tail_reserve, tail_commit, waiters, producerVars, popTail>>

PopAdvance ==
  /\ cpc = "advance"
  /\ head' = head + 1
  /\ cpc' = "advance_notify"
  /\ UNCHANGED <<use, tail_reserve, tail_commit, waiters, producerVars, popTail>>

PopNotify ==
  /\ cpc = "advance_notify"
  /\ AtomicsNotify("HEAD")
  /\ cpc' = "pop"
  /\ UNCHANGED <<use, head, tail_reserve, tail_commit, producerVars, popTail>>

\* wait_for_data: the word the wait is armed with is the one the emptiness
\* test used.
WaitLoad ==
  /\ cpc = "wait_load"
  /\ popTail' = tail_commit
  /\ cpc' = IF head # tail_commit THEN "pop" ELSE "wait"
  /\ UNCHANGED <<use, head, tail_reserve, tail_commit, waiters, producerVars>>

\* Slip: the word is loaded again for the wait, after the emptiness test.
WaitReload ==
  /\ cpc = "wait"
  /\ AtomicsWait(Consumer, "TAIL_COMMIT", tail_commit, tail_commit)
  /\ cpc' = "asleep"
  /\ UNCHANGED <<use, head, tail_reserve, tail_commit, producerVars, popTail>>

Wait ==
  /\ cpc = "wait"
  /\ AtomicsWait(Consumer, "TAIL_COMMIT", tail_commit, popTail)
  /\ cpc' = "asleep"
  /\ UNCHANGED <<use, head, tail_reserve, tail_commit, producerVars, popTail>>

\* Slip: the woken consumer does not load the word again.
WokenNoReload ==
  /\ cpc = "asleep" /\ ~Asleep(Consumer, "TAIL_COMMIT")
  /\ cpc' = "wait"
  /\ UNCHANGED <<use, head, tail_reserve, tail_commit, waiters, producerVars, popTail>>

Woken ==
  /\ cpc = "asleep" /\ ~Asleep(Consumer, "TAIL_COMMIT")
  /\ cpc' = "wait_load"
  /\ UNCHANGED <<use, head, tail_reserve, tail_commit, waiters, producerVars, popTail>>

-----------------------------------------------------------------------------
Producer(p) ==
  \/ CallPush(p) \/ LoadHead(p) \/ Claim(p)
  \/ FullLoadHead(p) \/ FullWait(p) \/ FullWoken(p) \/ FullTimeout(p)
  \/ CommitLoad(p) \/ CommitWait(p) \/ CommitWoken(p) \/ CommitStore(p) \/ CommitNotify(p)

ConsumerStep == PopLoad \/ PopAdvance \/ PopNotify \/ WaitLoad \/ Wait \/ Woken

\* The bounded instance is over: nothing is left to push or to pop.
Terminated ==
  /\ \A p \in Producers : pc[p] = "idle" /\ n[p] = Pushes(p)
  /\ head = tail_commit /\ cpc \in {"pop", "asleep"}
  /\ UNCHANGED vars

Next == ConsumerStep \/ (\E p \in Producers : Producer(p)) \/ Terminated

\* Workers inside a call keep running unless they sleep; timers fire.
PushStep(p) == Producer(p) /\ pc[p] # "idle"
Spec == Init /\ [][Next]_vars
FairSpec ==
  /\ Spec
  /\ WF_vars(ConsumerStep) /\ \A p \in Producers : WF_vars(PushStep(p))

-----------------------------------------------------------------------------
(* Properties.                                                             *)

\* Every variable keeps its type: the cursors are ordered and at most Cap
\* records apart, and an agent is on at most one list of sleepers, once.
TypeOK ==
  /\ use \in Uses
  /\ head \in Nat /\ tail_commit \in head .. tail_reserve
  /\ tail_reserve \in head .. head + Cap
  /\ waiters \in [Words -> Seq(Producers \cup {Consumer})]
  /\ IsInjective(waiters["HEAD"] \o waiters["TAIL_COMMIT"])
  /\ pc \in [Producers -> {"idle", "load_head", "claim", "full", "full_wait", "full_asleep",
                           "commit_load", "commit_wait", "commit_asleep", "commit",
                           "commit_notify"}]
  /\ n \in [Producers -> Nat]
  /\ seenHead \in [Producers -> Nat] /\ seenTail \in [Producers -> Nat]
  /\ seenCommit \in [Producers -> Nat]
  /\ cpc \in {"pop", "advance", "advance_notify", "wait_load", "wait", "asleep"}
  /\ popTail \in Nat

NotifyPending == \E p \in Producers : pc[p] = "commit_notify"

\* wait_for_data never sleeps through data: while the consumer is asleep the
\* ring is empty, or a producer is about to wake it.
ConsumerNotForgotten ==
  Asleep(Consumer, "TAIL_COMMIT") => head = tail_commit \/ NotifyPending

\* A producer asleep in its in-order commit, whose turn has come, is about to
\* be woken.
TurnNotForgotten ==
  \A p \in Producers :
    Asleep(p, "TAIL_COMMIT") /\ tail_commit = seenTail[p] => NotifyPending

\* A committed record is popped, whoever has to sleep in between.
CommittedIsPopped ==
  \A k \in 1 .. Max({v.pushes : v \in Uses}) * Cardinality(Producers) :
    (tail_commit >= k) ~> (head >= k)

\* try_push, "non-blocking MPSC-safe push", returns once it owns a claim.
Committing == {"commit_load", "commit_wait", "commit_asleep", "commit", "commit_notify"}
TryPushReturns ==
  \A p \in Producers : (pc[p] \in Committing) ~> (pc[p] \notin Committing)

\* push_blocking blocks "until `payload` can be pushed", and then returns.
PushBlockingReturns ==
  \A p \in Producers : (p \in use.blocking /\ pc[p] # "idle") ~> (pc[p] = "idle")
=============================================================================
