----------------------------- MODULE VirtioInput -----------------------------
(***************************************************************************)
(* The event queue of the virtio-input device, end to end: the device of   *)
(* crates/aero-virtio (queue.rs, pci.rs, devices/input.rs) behind the      *)
(* browser's bridge of crates/aero-wasm, and the Windows 7 driver of       *)
(* drivers/windows7/virtio-input with the split virtqueue and the INTx     *)
(* code it shares with the other drivers.                                  *)
(*                                                                         *)
(* The device runs in the I/O worker, the driver in the guest: they share  *)
(* the guest's memory, where every access is a step of its own, and the    *)
(* device's registers.  A register access is a call that the I/O worker    *)
(* answers between two of its other calls, so it waits for io to be idle.  *)
(* In the driver an interrupt service routine, its DPC, the thread that    *)
(* moves the device in and out of D0 and the one that serves the HID class *)
(* driver's activate and deactivate requests interleave; the queue's spin  *)
(* lock is `lock`.  HardwareReady is TRUE, and InD0 is set and cleared     *)
(* next to VirtioStarted, so `started` stands for both.                    *)
(*                                                                         *)
(* An event is its number.  A buffer holds one event and is posted with    *)
(* the descriptor of its own index: VirtqSplitAddBuffer takes the one that *)
(* VirtqSplitGetUsed has just put in front of the free list.  Bus          *)
(* mastering is on.  The status queue, MSI-X, and EVENT_IDX, which this    *)
(* device does not offer, are left out.                                    *)
(***************************************************************************)
EXTENDS Integers, Sequences, FiniteSets

CONSTANTS
  QueueSize,    \* entries of the queue
  IdxMod,       \* number of values of a ring index (2^16)
  MaxPending,   \* MAX_PENDING_EVENTS
  Burst,        \* events pushed by one injection (a key and its SYN_REPORT)
  MaxInjects,   \* bound: injections
  MaxExits,     \* bound: moves out of D0
  MaxRestores   \* bound: snapshots restored

ASSUME VirtioAssumption ==
  /\ QueueSize \in Nat \ {0}
  /\ IdxMod \in Nat /\ IdxMod % QueueSize = 0 /\ IdxMod > QueueSize
  /\ MaxPending \in Nat \ {0} /\ Burst \in Nat \ {0}
  /\ MaxInjects \in Nat /\ MaxExits \in Nat /\ MaxRestores \in Nat

VARIABLES
  mem,     \* guest memory: avail and used ring, and the event buffers
  dev,     \* the device: queue progress, interrupt state, events, cached chains
  io,      \* the I/O worker's call in progress: locals of process_queue_activity
  drv,     \* the driver's queue and interrupt state
  lock,    \* who holds the queue lock: "none", "dpc" or "power"
  drain,   \* locals of VioInputEventQProcessUsedBuffersLocked
  isr, dpc, power,   \* where the driver's interrupt, DPC and power threads are
  hid,               \* the HID requests: HidActivated, and a deactivation in progress
  injected,          \* history: events injected so far, 1 .. injected
  received,          \* history: the events the driver processed, in order
  lost,              \* history: events the code may drop
  exits, restores

vars == <<mem, dev, io, drv, lock, drain, isr, dpc, power, hid,
          injected, received, lost, exits, restores>>
threadVars == <<isr, dpc, power, hid>>
histVars == <<injected, received, lost, exits, restores>>

Heads == 0 .. QueueSize - 1
Events == 1 .. MaxInjects * Burst
NoHead == -1
NoEvent == 0

Inc(i) == (i + 1) % IdxMod
Slot(i) == i % QueueSize
\* The number of entries, and the entries, from index a up to index b.
Ahead(a, b) == (b - a) % IdxMod
Window(a, b) == {(a + k) % IdxMod : k \in 0 .. Ahead(a, b) - 1}

-----------------------------------------------------------------------------
(* The device.                                                             *)

IdleIo == [pc |-> "idle", after |-> "signal", budget |-> 0, need_irq |-> FALSE,
           head |-> NoHead, len |-> 0]

\* reset_transport, with VirtioInput::reset.
ResetDevice ==
  [on |-> FALSE, next_avail |-> 0, next_used |-> 0, pending_notify |-> FALSE,
   isr_status |-> FALSE, irq |-> FALSE, pending |-> << >>, buffers |-> << >>]

\* process_queue_activity starts, if the queue is enabled.
Activity(d) ==
  IF d.on THEN [IdleIo EXCEPT !.pc = "avail", !.budget = QueueSize] ELSE IdleIo

\* VirtioPciDevice::poll.
PollWith(d) ==
  /\ dev' = [d EXCEPT !.pending_notify = @ /\ ~d.on]
  /\ io' = Activity(d)

\* process_notified_queues: a notification, or entries nobody was notified of.
Notified(d) == d.on /\ (d.pending_notify \/ mem.avail_idx # d.next_avail)

\* The bridge's mmio_write, whose register write has led to device state d.
MmioWrite(d) ==
  /\ io.pc = "idle"
  /\ IF Notified(d) THEN PollWith(d) ELSE dev' = d /\ UNCHANGED io

\* push_event, Burst times: a full queue drops its oldest event.  Then poll.
Inject ==
  /\ io.pc = "idle" /\ injected + Burst \in Events
  /\ LET all  == dev.pending \o [k \in 1 .. Burst |-> injected + k]
         over == IF Len(all) > MaxPending THEN Len(all) - MaxPending ELSE 0
     IN  /\ PollWith([dev EXCEPT !.pending = SubSeq(all, over + 1, Len(all))])
         /\ lost' = lost \cup {all[k] : k \in 1 .. over}
  /\ injected' = injected + Burst
  /\ UNCHANGED <<mem, drv, lock, drain, threadVars, received, exits, restores>>

\* The I/O worker's tick.
Tick ==
  /\ io.pc = "idle" /\ dev.on
  /\ PollWith(dev)
  /\ UNCHANGED <<mem, drv, lock, drain, threadVars, histVars>>

\* pop_descriptor_chain, first access: is there an entry?  At most QueueSize
\* chains are taken in one call; poll_queue follows.
ReadAvailIdx ==
  /\ io.pc = "avail"
  /\ io' = IF io.budget = 0 \/ mem.avail_idx = dev.next_avail
           THEN [io EXCEPT !.pc = "flush", !.after = "signal"]
           ELSE [io EXCEPT !.pc = "pop", !.budget = @ - 1]
  /\ UNCHANGED <<mem, dev, drv, lock, drain, threadVars, histVars>>

\* The entry is read; process_queue caches the chain, or completes it at once
\* when there are more than a correct driver can post.
PopChain ==
  /\ io.pc = "pop"
  /\ LET head == mem.avail[Slot(dev.next_avail)]
         full == Len(dev.buffers) >= QueueSize
     IN  /\ dev' = [dev EXCEPT !.next_avail = Inc(@),
                               !.buffers = IF full THEN @ ELSE Append(@, head)]
         /\ io' = IF full
                  THEN [io EXCEPT !.pc = "elem", !.after = "avail", !.head = head, !.len = 0]
                  ELSE [io EXCEPT !.pc = "flush", !.after = "avail"]
  /\ UNCHANGED <<mem, drv, lock, drain, threadVars, histVars>>

\* Slip: the newest event is sent first.
FlushNewest ==
  /\ io.pc = "flush" /\ dev.buffers # << >> /\ dev.pending # << >>
  /\ mem' = [mem EXCEPT !.buf[Head(dev.buffers)] = dev.pending[Len(dev.pending)]]
  /\ dev' = [dev EXCEPT !.buffers = Tail(@), !.pending = SubSeq(@, 1, Len(@) - 1)]
  /\ io' = [io EXCEPT !.pc = "elem", !.head = Head(dev.buffers), !.len = 1]
  /\ UNCHANGED <<drv, lock, drain, threadVars, histVars>>

\* flush_events: the oldest event goes into the oldest buffer.
FlushEvent ==
  /\ io.pc = "flush" /\ dev.buffers # << >> /\ dev.pending # << >>
  /\ mem' = [mem EXCEPT !.buf[Head(dev.buffers)] = Head(dev.pending)]
  /\ dev' = [dev EXCEPT !.buffers = Tail(@), !.pending = Tail(@)]
  /\ io' = [io EXCEPT !.pc = "elem", !.head = Head(dev.buffers), !.len = 1]
  /\ UNCHANGED <<drv, lock, drain, threadVars, histVars>>

FlushDone ==
  /\ io.pc = "flush" /\ (dev.buffers = << >> \/ dev.pending = << >>)
  /\ io' = [io EXCEPT !.pc = io.after]
  /\ UNCHANGED <<mem, dev, drv, lock, drain, threadVars, histVars>>

\* add_used: the element, then the index.  The driver never sets NO_INTERRUPT.
WriteUsedElem ==
  /\ io.pc = "elem"
  /\ mem' = [mem EXCEPT !.used[Slot(dev.next_used)] = [id |-> io.head, len |-> io.len]]
  /\ io' = [io EXCEPT !.pc = "index"]
  /\ UNCHANGED <<dev, drv, lock, drain, threadVars, histVars>>

WriteUsedIdx ==
  /\ io.pc = "index"
  /\ dev' = [dev EXCEPT !.next_used = Inc(@)]
  /\ mem' = [mem EXCEPT !.used_idx = Inc(dev.next_used)]
  /\ io' = [io EXCEPT !.pc = IF io.len = 0 THEN "avail" ELSE "flush",
                      !.need_irq = TRUE, !.head = NoHead, !.len = 0]
  /\ UNCHANGED <<drv, lock, drain, threadVars, histVars>>

\* signal_queue_interrupt, and the call returns.
Signal ==
  /\ io.pc = "signal"
  /\ dev' = IF io.need_irq THEN [dev EXCEPT !.isr_status = TRUE, !.irq = TRUE] ELSE dev
  /\ io' = IdleIo
  /\ UNCHANGED <<mem, drv, lock, drain, threadVars, histVars>>

\* Slip: the queue's progress is restored as it was saved.
RewoundAsSaved(d) == [d EXCEPT !.pending_notify = d.on]

\* rewind_queue_next_avail_to_next_used.
Rewound(d) ==
  IF d.on THEN [d EXCEPT !.next_avail = d.next_used, !.pending_notify = TRUE] ELSE d

\* save_state, and load_state at any later time.  The guest and the transport
\* come back as they were saved; cached chains and events are not saved.
Restore ==
  /\ io.pc = "idle" /\ restores < MaxRestores /\ restores' = restores + 1
  /\ dev' = Rewound([dev EXCEPT !.pending = << >>, !.buffers = << >>])
  /\ lost' = lost \cup {dev.pending[k] : k \in 1 .. Len(dev.pending)}
  /\ UNCHANGED <<mem, io, drv, lock, drain, threadVars, injected, received, exits>>

-----------------------------------------------------------------------------
(* The driver: draining the used ring, under the queue's lock.             *)

IdleDrain == [pc |-> "idle", head |-> NoHead, len |-> 0, reposted |-> FALSE]

\* VirtqSplitGetUsed: the index.  More entries than the queue holds are an
\* error, after which the driver skips to the device's index.
ReadUsedIdx ==
  /\ drain.pc = "used"
  /\ LET n == Ahead(drv.last_used, mem.used_idx)
     IN  /\ drain' = [drain EXCEPT !.pc = IF n \in 1 .. QueueSize THEN "take" ELSE "kick"]
         /\ drv' = IF n > QueueSize THEN [drv EXCEPT !.last_used = mem.used_idx] ELSE drv
  /\ UNCHANGED <<mem, dev, io, lock, threadVars, histVars>>

\* The element; a descriptor without a cookie is skipped.
TakeUsed ==
  /\ drain.pc = "take"
  /\ LET elem == mem.used[Slot(drv.last_used)]
     IN  /\ drain' = IF elem.id \in drv.cookies
                     THEN [drain EXCEPT !.pc = "event", !.head = elem.id, !.len = elem.len]
                     ELSE [drain EXCEPT !.pc = "used"]
         /\ drv' = [drv EXCEPT !.cookies = @ \ {elem.id}, !.last_used = Inc(@)]
  /\ UNCHANGED <<mem, dev, io, lock, threadVars, histVars>>

\* VirtqSplitAddBuffer: the buffer's descriptor is written again.
Repost ==
  /\ drv' = [drv EXCEPT !.cookies = @ \cup {drain.head}]
  /\ drain' = [drain EXCEPT !.pc = "slot"]

\* VirtioInputIsHidActive, of a driver that is started.
HidActivated == hid \in {"active", "emit", "quiet"}

\* The event will be processed, or it is discarded while the driver is not
\* started or HID is not active.
CheckEvent ==
  /\ drain.pc = "event"
  /\ IF drain.len = 1 /\ drv.started /\ HidActivated
     THEN drain' = [drain EXCEPT !.pc = "process"] /\ UNCHANGED <<drv, lost>>
     ELSE lost' = lost \cup {mem.buf[drain.head]} /\ Repost
  /\ UNCHANGED <<mem, dev, io, lock, threadVars, injected, received, exits, restores>>

\* virtio_input_process_event_le.
ProcessEvent ==
  /\ drain.pc = "process"
  /\ received' = Append(received, mem.buf[drain.head]) /\ Repost
  /\ UNCHANGED <<mem, dev, io, lock, threadVars, injected, lost, exits, restores>>

\* VirtqSplitPublish: the slot, then the index.
PublishSlot ==
  /\ drain.pc = "slot"
  /\ mem' = [mem EXCEPT !.avail[Slot(mem.avail_idx)] = drain.head]
  /\ drain' = [drain EXCEPT !.pc = "publish"]
  /\ UNCHANGED <<dev, io, drv, lock, threadVars, histVars>>

\* Slip: the index does not wrap.
PublishUnwrapped ==
  /\ drain.pc = "publish"
  /\ mem' = [mem EXCEPT !.avail_idx = @ + 1]
  /\ drain' = IF power = "post" THEN [IdleDrain EXCEPT !.pc = "add"]
              ELSE [drain EXCEPT !.pc = "used", !.head = NoHead, !.len = 0, !.reposted = TRUE]
  /\ UNCHANGED <<dev, io, drv, lock, threadVars, histVars>>

\* Between two buffers the driver looks for the next used one, or, at the
\* first posting, takes the next descriptor.
Publish ==
  /\ drain.pc = "publish"
  /\ mem' = [mem EXCEPT !.avail_idx = Inc(@)]
  /\ drain' = IF power = "post" THEN [IdleDrain EXCEPT !.pc = "add"]
              ELSE [drain EXCEPT !.pc = "used", !.head = NoHead, !.len = 0, !.reposted = TRUE]
  /\ UNCHANGED <<dev, io, drv, lock, threadVars, histVars>>

\* Slip: the device is not told of the buffers posted again.
KickNever ==
  /\ drain.pc = "kick"
  /\ drain' = [drain EXCEPT !.pc = "done"]
  /\ UNCHANGED <<mem, dev, io, drv, lock, threadVars, histVars>>

\* VirtioPciNotifyQueue: the device serves the queue within this call.
Kick ==
  /\ drain.pc = "kick"
  /\ drain' = [drain EXCEPT !.pc = "done"]
  /\ IF drain.reposted THEN MmioWrite([dev EXCEPT !.pending_notify = TRUE])
                       ELSE UNCHANGED <<dev, io>>
  /\ UNCHANGED <<mem, drv, lock, threadVars, histVars>>

\* The call that notified has returned, and the lock is released.
Unlock ==
  /\ drain.pc = "done" /\ (drain.reposted => io.pc = "idle")
  /\ drain' = IdleDrain /\ lock' = "none"
  /\ dpc' = IF lock = "dpc" THEN "idle" ELSE dpc
  /\ power' = CASE lock = "dpc" -> power
                [] power = "post" -> "start"
                [] OTHER -> "on"
  /\ UNCHANGED <<mem, dev, io, drv, isr, hid, histVars>>

Drain == ReadUsedIdx \/ TakeUsed \/ CheckEvent \/ ProcessEvent
         \/ PublishSlot \/ Publish \/ Kick \/ Unlock

-----------------------------------------------------------------------------
(* The driver's interrupt: VirtioPciIntxIsr and VirtioPciInterruptDpc.     *)

\* The line is asserted: reading the status register acknowledges it.
IsrRead ==
  /\ isr = "idle" /\ drv.enabled /\ dev.irq /\ io.pc = "idle"
  /\ dev' = [dev EXCEPT !.isr_status = FALSE, !.irq = FALSE]
  /\ isr' = "latch"
  /\ UNCHANGED <<mem, io, drv, lock, drain, dpc, power, hid, histVars>>

IsrLatch ==
  /\ isr = "latch"
  /\ drv' = IF drv.reset_in_progress THEN drv
            ELSE [drv EXCEPT !.pending_isr = TRUE, !.dpc_queued = TRUE]
  /\ isr' = "idle"
  /\ UNCHANGED <<mem, dev, io, lock, drain, dpc, power, hid, histVars>>

DpcStart ==
  /\ dpc = "idle" /\ drv.dpc_queued
  /\ drv' = [drv EXCEPT !.dpc_queued = FALSE,
                        !.pending_isr = @ /\ ~drv.reset_in_progress]
  /\ dpc' = IF drv.reset_in_progress THEN "idle" ELSE "claim"
  /\ UNCHANGED <<mem, dev, io, lock, drain, isr, power, hid, histVars>>

DpcClaim ==
  /\ dpc = "claim"
  /\ drv' = [drv EXCEPT !.pending_isr = FALSE]
  /\ dpc' = IF drv.pending_isr THEN "lock" ELSE "idle"
  /\ UNCHANGED <<mem, dev, io, lock, drain, isr, power, hid, histVars>>

\* The lock is taken, and with it VioInputEvtDrainQueue starts to drain,
\* unless the driver is being stopped.
DpcLock ==
  /\ dpc = "lock" /\ lock = "none"
  /\ IF drv.started /\ ~drv.reset_in_progress
     THEN /\ lock' = "dpc" /\ drain' = [IdleDrain EXCEPT !.pc = "used"]
          /\ dpc' = "drain"
     ELSE dpc' = "idle" /\ UNCHANGED <<lock, drain>>
  /\ UNCHANGED <<mem, dev, io, drv, isr, power, hid, histVars>>

-----------------------------------------------------------------------------
(* The driver's power thread: D0Entry and D0Exit.                          *)

At(l) == power = l
Goto(l) == power' = l

\* A reset of the device: no event that is still on its way will arrive.
ResetStep(from, to) ==
  /\ At(from) /\ io.pc = "idle"
  /\ dev' = ResetDevice
  /\ lost' = (lost \cup 1 .. injected) \ {received[k] : k \in 1 .. Len(received)}
  /\ Goto(to)
  /\ UNCHANGED <<mem, io, drv, lock, drain, isr, dpc, hid, injected, received, exits, restores>>

\* VirtqSplitReset, under the lock.
ResetRing(from, to) ==
  /\ At(from) /\ lock = "none"
  /\ mem' = [mem EXCEPT !.avail_idx = 0, !.used_idx = 0]
  /\ drv' = [drv EXCEPT !.last_used = 0, !.cookies = {}]
  /\ Goto(to)
  /\ UNCHANGED <<dev, io, lock, drain, isr, dpc, hid, histVars>>

\* VirtioPciNegotiateFeatures starts with a reset.
NegotiateFeatures == ResetStep("off", "ring")
EntryReset == ResetRing("ring", "setup")

\* VirtioPciSetupQueue: enable_selected_queue.
SetupQueue ==
  /\ At("setup")
  /\ MmioWrite([dev EXCEPT !.on = TRUE, !.next_avail = 0, !.next_used = 0])
  /\ Goto("post")
  /\ UNCHANGED <<mem, drv, lock, drain, isr, dpc, hid, histVars>>

\* VioInputEventQPostRxBuffersLocked: all buffers, then one notification.
LockForPost ==
  /\ At("post") /\ lock = "none"
  /\ lock' = "power" /\ drain' = [IdleDrain EXCEPT !.pc = "add"]
  /\ UNCHANGED <<mem, dev, io, drv, threadVars, histVars>>

AddBuffer ==
  /\ drain.pc = "add"
  /\ LET free == Heads \ drv.cookies
         head == CHOOSE h \in free : \A g \in free : h <= g
     IN  IF free = {} THEN drain' = [drain EXCEPT !.pc = "kick", !.reposted = TRUE]
                           /\ UNCHANGED drv
         ELSE /\ drain' = [drain EXCEPT !.pc = "slot", !.head = head]
              /\ drv' = [drv EXCEPT !.cookies = @ \cup {head}]
  /\ UNCHANGED <<mem, dev, io, lock, threadVars, histVars>>

\* VirtioStarted is set; then VirtioPciInterruptsResume: WdfInterruptEnable
\* comes before the end of ResetInProgress.
Start ==
  /\ At("start") /\ drv' = [drv EXCEPT !.started = TRUE] /\ Goto("enable")
  /\ UNCHANGED <<mem, dev, io, lock, drain, isr, dpc, hid, histVars>>
EnableInterrupt ==
  /\ At("enable") /\ drv' = [drv EXCEPT !.enabled = TRUE] /\ Goto("resume")
  /\ UNCHANGED <<mem, dev, io, lock, drain, isr, dpc, hid, histVars>>
Resume ==
  /\ At("resume") /\ drv' = [drv EXCEPT !.reset_in_progress = FALSE] /\ Goto("driver_ok")
  /\ UNCHANGED <<mem, dev, io, lock, drain, isr, dpc, hid, histVars>>
DriverOk ==
  /\ At("driver_ok") /\ MmioWrite(dev) /\ Goto("drain")
  /\ UNCHANGED <<mem, drv, lock, drain, isr, dpc, hid, histVars>>

\* Slip: D0Entry does not look at the used ring.
FinalDrainSkipped ==
  /\ At("drain") /\ lock = "none" /\ Goto("on")
  /\ UNCHANGED <<mem, dev, io, drv, lock, drain, isr, dpc, hid, histVars>>

\* D0Entry drains the queue once itself.
FinalDrain ==
  /\ At("drain") /\ lock = "none"
  /\ lock' = "power" /\ drain' = [IdleDrain EXCEPT !.pc = "used"]
  /\ UNCHANGED <<mem, dev, io, drv, threadVars, histVars>>

\* D0Exit: stop, wait for a drain in progress, VirtioPciInterruptsQuiesce,
\* reset the device, reset the ring.
Stop ==
  /\ At("on") /\ lock # "power" /\ exits < MaxExits /\ exits' = exits + 1
  /\ drv' = [drv EXCEPT !.started = FALSE] /\ Goto("stop")
  /\ UNCHANGED <<mem, dev, io, lock, drain, isr, dpc, hid, injected, received, lost, restores>>
WaitForDrain ==
  /\ At("stop") /\ lock = "none" /\ Goto("quiesce")
  /\ UNCHANGED <<mem, dev, io, drv, lock, drain, isr, dpc, hid, histVars>>
Quiesce ==
  /\ At("quiesce") /\ drv' = [drv EXCEPT !.reset_in_progress = TRUE] /\ Goto("disable")
  /\ UNCHANGED <<mem, dev, io, lock, drain, isr, dpc, hid, histVars>>
\* WdfInterruptDisable waits for a service routine in progress.
DisableInterrupt ==
  /\ At("disable") /\ isr = "idle"
  /\ drv' = [drv EXCEPT !.enabled = FALSE] /\ Goto("sync")
  /\ UNCHANGED <<mem, dev, io, lock, drain, isr, dpc, hid, histVars>>
WaitForLock ==
  /\ At("sync") /\ lock = "none" /\ Goto("reset")
  /\ UNCHANGED <<mem, dev, io, drv, lock, drain, isr, dpc, hid, histVars>>
ExitResetDevice == ResetStep("reset", "ring_off")
ExitReset == ResetRing("ring_off", "off")

D0Entry == NegotiateFeatures \/ EntryReset \/ SetupQueue \/ LockForPost \/ AddBuffer
           \/ Start \/ EnableInterrupt \/ Resume \/ DriverOk \/ FinalDrain
D0Exit == Stop \/ WaitForDrain \/ Quiesce \/ DisableInterrupt \/ WaitForLock
          \/ ExitResetDevice \/ ExitReset

-----------------------------------------------------------------------------
(* The requests of the HID class driver, one at a time, in D0 or not.      *)

HidStep(from, to) ==
  /\ hid = from /\ hid' = to
  /\ UNCHANGED <<mem, dev, io, drv, lock, drain, isr, dpc, power, histVars>>

HidActivateDevice == HidStep("inactive", "active") \/ HidStep("released", "active")

\* VirtioInputHidDeactivateDevice: whether there is a release report to emit ...
HidDeactivateDevice == HidStep("active", IF drv.started THEN "emit" ELSE "quiet")

\* ... HidActivated is cleared ...
HidClear == HidStep("emit", "sync") \/ HidStep("quiet", "inactive")

\* Slip: the release report does not wait for a drain in progress.
HidReleaseAtOnce == HidStep("sync", "released")

\* ... and the report is emitted once no drain is in progress.
HidRelease == lock = "none" /\ HidStep("sync", "released")

Hid == HidActivateDevice \/ HidDeactivateDevice \/ HidClear \/ HidRelease

-----------------------------------------------------------------------------
Init ==
  /\ mem = [avail_idx |-> 0, avail |-> [s \in Heads |-> 0], used_idx |-> 0,
            used |-> [s \in Heads |-> [id |-> 0, len |-> 0]],
            buf |-> [h \in Heads |-> NoEvent]]
  /\ dev = ResetDevice /\ io = IdleIo
  /\ drv = [last_used |-> 0, cookies |-> {}, started |-> FALSE, enabled |-> FALSE,
            reset_in_progress |-> FALSE, pending_isr |-> FALSE, dpc_queued |-> FALSE]
  /\ lock = "none" /\ drain = IdleDrain
  /\ isr = "idle" /\ dpc = "idle" /\ power = "off" /\ hid = "inactive"
  /\ injected = 0 /\ received = << >> /\ lost = {} /\ exits = 0 /\ restores = 0

Device == ReadAvailIdx \/ PopChain \/ FlushEvent \/ FlushDone
          \/ WriteUsedElem \/ WriteUsedIdx \/ Signal
Interrupt == IsrRead \/ IsrLatch \/ DpcStart \/ DpcClaim \/ DpcLock

Next == Inject \/ Tick \/ Restore \/ Device \/ Drain \/ Interrupt \/ D0Entry \/ D0Exit
        \/ Hid

Spec == Init /\ [][Next]_vars

\* The I/O worker finishes its calls, interrupts and DPCs are served, a drain
\* goes on, and a move in or out of D0, once begun, is completed.  Nobody has
\* to inject, to tick, to begin such a move, or to activate HID.
PowerStep == (D0Entry \/ D0Exit) /\ power \notin {"off", "on"}
Fairness ==
  /\ WF_vars(Device) /\ SF_vars(Drain) /\ SF_vars(PowerStep)
  /\ SF_vars(IsrRead) /\ WF_vars(IsrLatch)
  /\ WF_vars(DpcStart \/ DpcClaim) /\ SF_vars(DpcLock)

FairSpec == Spec /\ Fairness

-----------------------------------------------------------------------------
(* Properties.                                                             *)

Indices == 0 .. IdxMod - 1

TypeOK ==
  /\ mem.avail_idx \in Indices /\ mem.used_idx \in Indices
  /\ mem.avail \in [Heads -> Heads] /\ mem.used \in [Heads -> [id : Heads, len : {0, 1}]]
  /\ mem.buf \in [Heads -> Events \cup {NoEvent}]
  /\ dev.next_avail \in Indices /\ dev.next_used \in Indices
  /\ dev.on \in BOOLEAN /\ dev.pending_notify \in BOOLEAN
  /\ dev.isr_status \in BOOLEAN /\ dev.irq = dev.isr_status
  /\ dev.pending \in Seq(Events) /\ Len(dev.pending) <= MaxPending
  /\ dev.buffers \in Seq(Heads) /\ Len(dev.buffers) <= QueueSize
  /\ io.pc \in {"idle", "avail", "pop", "flush", "elem", "index", "signal"}
  /\ drv.last_used \in Indices /\ drv.cookies \subseteq Heads
  /\ lock \in {"none", "dpc", "power"} /\ (lock = "none" <=> drain.pc = "idle")
  /\ isr \in {"idle", "latch"} /\ dpc \in {"idle", "claim", "lock", "drain"}
  /\ hid \in {"inactive", "active", "emit", "quiet", "sync", "released"}
  /\ received \in Seq(Events) /\ lost \subseteq Events

\* Where the buffer of descriptor h is: published and not taken, cached by the
\* device, being filled, completed and not seen, or in the driver's hands.
Places(h) ==
  {<<"avail", i>> : i \in {j \in Window(dev.next_avail, mem.avail_idx) : mem.avail[Slot(j)] = h}}
  \cup {<<"cached", k>> : k \in {j \in 1 .. Len(dev.buffers) : dev.buffers[j] = h}}
  \cup {<<"filled", 0>> : x \in {y \in {1} : io.head = h}}
  \cup {<<"used", i>> : i \in {j \in Window(drv.last_used, mem.used_idx) : mem.used[Slot(j)].id = h}}
  \cup {<<"driver", 0>> : x \in {y \in {1} : drain.head = h \/ h \notin drv.cookies}}

\* While the queue is live every buffer is in exactly one place: none is
\* completed twice or forgotten, whatever is restored from a snapshot, and
\* device and driver never touch the same one.
OwnedOnce == dev.on => \A h \in Heads : Cardinality(Places(h)) = 1

\* The driver processes events in the order they were injected, none twice,
\* across overflows, restored snapshots and moves in and out of D0.
ReceivedInOrder ==
  \A k \in 1 .. Len(received) - 1 : received[k] < received[k + 1]

\* Once the report that releases the keys has been emitted, by a deactivation
\* of HID or by D0Exit, no event is processed that could press one again, until
\* HID is activated or the driver started, although a DPC may be draining.
ReleaseIsLast ==
  /\ hid = "released" => drain.pc # "process"
  /\ power \notin {"enable", "resume", "driver_ok", "drain", "on", "stop"} => drain.pc # "process"

\* A completed buffer is not overlooked: while the driver is up, somebody is
\* on the way to it.
Draining == lock # "none" /\ drain.pc \notin {"kick", "done"}
UsedNotForgotten ==
  power = "on" /\ mem.used_idx # drv.last_used =>
    \/ io.need_irq \/ dev.irq \/ isr = "latch"
    \/ drv.pending_isr /\ (drv.dpc_queued \/ dpc = "claim")
    \/ dpc = "lock" \/ Draining

\* An event is processed by the driver, unless the code may drop it (a full
\* queue, a snapshot, a stop, HID not active when it is taken): again and again
\* none is outstanding, or the driver is down.
Outstanding == (1 .. injected) \ (lost \cup {received[k] : k \in 1 .. Len(received)})
EventsArrive == []<>(Outstanding = {} \/ power = "off")
=============================================================================
