--------------------------- MODULE MCIpcRingWait ---------------------------
(* Small instances of the sleeping ring for TLC. *)
EXTENDS IpcRingWait

CONSTANTS p1, p2

\* One producer in push_blocking, a consumer in pop_blocking.
Spsc(k) == [blocking |-> {p1}, dropping |-> {}, waits |-> TRUE, pushes |-> k]
\* Two producers in try_push, a consumer that polls.
Mpsc(k) == [blocking |-> {}, dropping |-> {p1, p2}, waits |-> FALSE, pushes |-> k]

SafeUses     == {Spsc(6), Mpsc(3)}
BlockingUses == {Spsc(2)}
=============================================================================
