------------------------------ MODULE IpcQueue ------------------------------
(***************************************************************************)
(* What an IPC ring promises to its users: a FIFO queue of records with    *)
(* many producers and one consumer.  A record enters whole, leaves whole,  *)
(* at most once and in the order in which the records entered; records     *)
(* of one producer enter in the order of that producer's pushes.  A push   *)
(* may also be refused, which is no step at all here.                      *)
(***************************************************************************)
EXTENDS Naturals, Sequences

CONSTANTS Producers,     \* the threads that push
          Numbers,       \* numbers of a producer's records
          Lens,          \* payload lengths, in bytes
          Result(_)      \* what the consumer is handed for a record

VARIABLES queue,         \* the records pushed and not yet popped
          last,          \* per producer, the number of its latest record
          received       \* everything the consumer was handed, in order

queueVars == <<queue, last, received>>

Records == [from : Producers, n : Numbers, len : Lens]

QInit ==
  /\ queue = <<>>
  /\ last = [p \in Producers |-> 0]
  /\ received = <<>>

Enqueue(m) ==
  /\ m.n > last[m.from]
  /\ queue' = Append(queue, m)
  /\ last' = [last EXCEPT ![m.from] = m.n]
  /\ UNCHANGED received

Dequeue ==
  /\ queue # <<>>
  /\ received' = Append(received, Result(Head(queue)))
  /\ queue' = Tail(queue)
  /\ UNCHANGED last

QNext == Dequeue \/ \E m \in Records : Enqueue(m)

QSafe == QInit /\ [][QNext]_queueVars

\* The consumer polls for ever: a record that is in the queue is handed over.
QSpec == QSafe /\ WF_queueVars(Dequeue)
=============================================================================
