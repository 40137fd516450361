# rswlan in TLA+

A model-checked and partly proved description of the Renesas RRQ61000 WLAN
driver in `src/`: a Linux full-MAC driver for a chip on SDIO or SPI.  The driver
is a set of kernel threads that share queues, one-word events and a few locks,
below a network layer that keeps records of what the chip is doing; both kinds
of sharing are modelled here.

## The system

| component | state it keeps | operations | modules |
|---|---|---|---|
| queue arithmetic `core/rs_c_q.c` and the rings built on it | indices, count, slots | init, push, pop, pick, empty, full | `RsQ`, `RsRing`, `BoundedFifo` |
| transmit path `core/rs_c_tx.c`, `net/linux/rs_net_tx_data.c` | two rings, spin lock, event, per-interface "stopped" flag and the stack's own state | post (push, check, post), thread pass (pop, send, restart), init, deinit | `RsTx` |
| status words `core/rs_c_status.c` | the chip's last report: full bits, room left, nothing to read | copied in by every received message | in `RsTx`, `RsRx` |
| control path `core/rs_c_ctrl.c`, `net/linux/rs_net_ctrl.c` | mutex, one event, one response buffer | set, set and wait, event post; one function per command | `RsCtrl`; the commands in `RsNet` |
| recovery `core/rs_c_recovery.c`, bus gate `core/rs_c_if.c` | `in_recovery` | event post (reset the chip, shut the bus), reload thread | `RsCtrl`, `RsBus`; what it means to the interfaces in `RsNet` |
| receive path `core/rs_c_rx.c`, `net/linux/rs_net_rx_data.c` | RX event, data ring and event, buffers | interrupt, read loop, dispatch, data thread | `RsRx`, `LossyDelivery` |
| indications `core/rs_c_indi.c`, `net/linux/rs_net_rx_indi.c` | indication ring and event | push, thread, one handler per indication | ring and thread in `RsRx`, handlers in `RsNet` and `RsTx` |
| core start and stop `core/rs_core.c` | the parts that are up | init, deinit, with failures at each part | `RsBus`; the stop of each thread in `RsTx`, `RsRx` |
| cfg80211 operations, interfaces `net/linux/rs_net_cfg80211.c`, `rs_net_dev.c`, `rs_net_priv.c` | interface table, index map, station table, scan request, remain-on-channel record, channel contexts, channel switch record | one handler per operation, open and close | `RsNet` |
| radar detection `net/linux/rs_net_dfs.c` | pulse ring, detectors, CAC interface and timer | pulse work, CAC work, detectors, regulatory domain | detectors in `RsDetector`, CAC and works in `RsNet` |
| bus drivers `kal/linux/rs_k_sdio.c`, `rs_k_spi.c` | bus handle, pins, interrupts, handshake with the chip | register, probe, download, interrupt, transfer, reload, remove | `RsBus` |
| kernel abstraction `kal/linux/rs_k_event.c`, `_thread.c`, `_mutex.c`, `_spin_lock.c`, `_workqueue.c` | event word, stop flag, locks | post, wait, timed wait, reset, stop, lock | in the modules that use them |
| parameters, statistics, debugfs, test mode, buffer and memory wrappers | tables and counters | parsing, printing, allocation | not modelled: no protocol state |

How they interact: the stack's threads call down (`ndo_start_xmit`, cfg80211
operations), push a frame or write a command, and post or wait for an event.
The chip's interrupt posts the RX event; the RX thread reads messages and
dispatches them, a response to the control path, a frame to the data ring, an
indication to the indication ring, and copies the status words every message
carries.  An event (`rs_k_event`) is one atomic word: *post overwrites it, reset
clears it, wait returns it without clearing it.*  Every thread is a loop of
wait, work and reset, and many hazards come from that triple.  The network layer
has four more threads besides the stack's: the indication thread and the works
for radar pulses, for the end of a CAC and for the end of a channel switch.
None of them locks its records against the others, and each sleeps in its
requests to the chip.

What is hard, and at which line, is the list `hazards` of `PROJECT.json`, with
the properties that watch it: events that overwrite each other or are cleared
with work unseen, checks made outside the lock, timeouts racing late responses,
one response buffer for all commands, records of the network layer that a thread
frees while another is in the middle of a request about them, lists whose items
are told to the chip one by one, the order of releasing what a failed probe has
acquired, and arithmetic on indices and pulse times.

## Modules

`BoundedFifo` is the abstract specification of a buffer queue: a FIFO that
refuses when full and says after each push whether it is full.

`RsQ` has `rs_c_q.c` as operators that return the new queue and the result;
`RsRing` adds the slots and the two functions that use both, `c_tx_push` and
`c_tx_pop`, each atomic because it runs under the spin lock.  `RefinesFifo`
maps the occupied slots, oldest first, to the abstract FIFO.  The other modules
use that result: their queues are sequences.

`RsTx` is the transmit path; a frame is the index of its interface.  One action
is the code between two accesses to something another thread can change, so a
sender takes up to six steps (`Push`, `PushStopFlag`, `PushStopNetif`,
`SenderCheckAc`, `SenderCheckPower`, `SenderPost`) and a turn of `c_tx_thread` is
the walk `wait -> ac -> test .. -> power -> test .. -> reset -> chk_ac ->
chk_power -> post -> again`.  The spin lock is a variable only where it is held
across steps (stopping an interface from inside `c_tx_push`).  `net_tx_stopped`
is the driver's flag, `xoff` the stack's state; `rs_net_if_tx_stop` changes them
in two steps.  `xoff` outlives a close and an open, as the queue state bit of
the kernel does; `StartAp` clears it without the driver's flag.  AP_VLAN
interfaces, which `ndo_open` stops, are left out.

`RsCtrl` is the control path and the start of the recovery.  A command number is
used by the code as a bit mask, so a constant gives each number its set of bits
and "some bit matches" (the wake-up) differs from "is the number" (the success).
The mutex is a Boolean: the kernel's unlock frees it whoever holds it, which
matters because a failed call unlocks twice.  The chip is external: it accepts
commands up to a bound, answers those of callers in order at any later time or
never, does not answer a notifier's, and forgets everything at a reset.  The bus
may fail any write.  `reset_sent` is a history variable.

`LossyDelivery` is what the receive side promises: messages of a kind are
handled in order, each at most once, and given up only by a full ring or the
unloading.

`RsRx` is the receive side: the interrupt, `c_rx_push` step by step (allocate,
read, dispatch, push, look, post), the threads of the data ring and of the
indication ring, which share their actions (`Pop`, `Handle`, parameter `k`)
because the two files do the same with different names, and the shutdown of
the three threads.  A buffer has an identity and a content (`mem`), since what
can go wrong is who owns it.  What the chip holds is a number; which message it
was is chosen when it is read.

`RsNet` is the cfg80211 side.  A handler is a list of steps (`todo`) because each
thread sleeps in its requests, and the others run between; a step is the code
from one request to the next.  A request either has its effect on the chip and
is answered, or the chip is reset and the recovery begins, in which every
further request fails; that is what `RsCtrl` gives.  The stack makes one call at
a time (the kernel holds its lock).  `chip` holds what the chip knows
(interfaces, stations, a scan, a stay on a channel, connections and channel
switches being made), `indq` the indications on their way, and `stack` what
cfg80211 believes.  A pointer that is followed when it is NULL, or a lock taken
twice, ends its thread ("oops").  Keys and settings are calls by the requests
they make; their contents are left out.

`RsDetector` has the detectors for short and for long pulses as functions on a
record, one operator per function of `rs_net_dfs.c` or per outcome of one (a long
pulse starts the first burst or goes through `LongPulse`; `Inside` is the window's
bursts that stay), and a machine that feeds them pulses at chosen distances,
pauses and changes of the regulatory domain.

`RsBus` is the two bus drivers: loading and unloading of the module, probe and
remove as a walk over steps (`step` and, for the parts of the core, `nth`) with a
failure possible at each, the parts of the core
in the order they come up and go down, interrupts whenever they are enabled, and
the transfer: on SPI a command and a payload, each acknowledged by an edge on a
line of its own that may come after the wait has given up.

The `MC*` modules give the constants their values; the `*_proofs` modules hold
the proofs.

## Runs

| run | shows | bounds |
|---|---|---|
| `ring` | the ring keeps indices and slots in step, and refines `BoundedFifo` | 3 slots, 4 buffers: the wrap, full and empty all occur |
| `tx_safety` | types and lock discipline, no lost wake-up, the room is read often enough | one data and one management sender, one interface, queues 2 and 1 deep, two status words, threshold 2 in place of 32, so that a pass crosses it |
| `tx_live` | queued frames of both kinds keep leaving | queues 1 deep, connected interface |
| `tx_flow` | finding: an interface left stopped | two interfaces, one data sender, queue 2 deep |
| `tx_stop` | finding: the unloading that hangs | one sender, one interface |
| `ctrl` | responses stay with their calls, a recovery resets the chip, every call and recovery ends | two callers, one thread that notifies and reports, two commands with overlapping bits, one command in the chip |
| `ctrl_response` | finding: a successful call without its response | one caller |
| `rx` | every buffer has one owner; in order, at most once (`LossyDelivery`); a thread that slept through a message works again with the next | two buffers, data ring 2 deep, indication ring 1 deep, two frames that can be told apart, one message in the chip |
| `detector` | a reported radar was heard, and none that comes after a silence is missed | intervals 4 to 5 units, tolerance 1, threshold 3, series up to 42 units; long pulses: window 28, up to 7 pulses over 90 units, threshold 2; a domain change up to time 4 |
| `net` | driver and chip agree on interfaces and stations; nothing kept outlives its interface; a channel switch's work has its record | two interfaces, two chip indices, two stations, one indication on its way, ten mixes of two to five calls (`AllLoads`), starting with any interfaces added and open |
| `cac_warn` | finding: a second availability check over the ghost of a refused one | as `net`, the calls that start a check and close |
| `bus` | a remove undoes every probe, no interrupt has a freed interface, a bound device answers, payloads are sent when the chip waits | both buses, two probes, two threads, three transfers |

The bounds keep two actors on each shared word or record and every queue able to
be empty, partly filled and full.  In `rx` a buffer in the
indication ring and one with the reader make the ring refuse, and two buffers in
the rings make the allocation fail; the data ring's refusal is the same action
with the other parameter, and the proofs have every depth.  In `net`
the calls are given in mixes and not all at once: a mix has the calls that touch
one record, always with those that end the interface or the record; two
interfaces suffice because every record points to one.  In `detector` the
distances (below, at and above the interval, one above the burst, one above the
window) reach every branch of the detectors.  `CHECK_DEADLOCK FALSE` is set where
the system may really stop: a driver unloaded for good, a driver in recovery for
good, the bounded number of calls made, the series of pulses at its end.

**Fairness.**  `RsTx`: weak fairness of the thread and of each sender inside the
driver (the scheduler runs what can run; a sender cannot be abandoned between
push and post), strong fairness of `ThreadPop`, whose spin lock is queued in the
kernel, weak fairness of the unloading once begun.  Nobody is obliged to send,
open, scan or unload, and nothing is assumed of the chip beyond the premise of
the property: `DataDrains` asks that from some time on the chip has room, no
scan runs and the *other* queue's reported room is below the threshold.  The last
part is needed: with more room than that a pass over one queue goes on as long
as senders keep up with it, and the other queue waits.  `RsCtrl`: weak fairness
of each thread's next step (a timed wait always ends), strong fairness of taking
the mutex, which hands itself over to a waiter passed over too often.  No fairness
of the chip.  `RsRx`: weak fairness of the three threads and of a pending
interrupt; messages come only by the premise of `LaterArrivalWakes`.  `RsNet`,
`RsDetector` and `RsBus` are checked for safety only.

`tx_live` uses `FairConnectedSpec`, which starts with the interface open and
connected and leaves out closing, indications and unloading: what it has to show
is what the thread and the senders do to each other.

**What the receive side does not promise.**  The three threads clear their event
after their last look (`rs_c_rx.c:197`, `rs_c_rx.c:332`, `rs_c_indi.c:145`) and
do not look again, unlike the TX thread.  `RsRx` reaches states in which a thread
sleeps with messages in its ring.  `LaterArrivalWakes` states what is left: the
delay lasts until the next message of the kind, not for ever.

## Findings

* **`NoVifLeftStopped`** (`rs_c_tx.c:282-285`, comment "Start net_if" at 283).
  The data queue is full of frames of interface 1.  A sender on interface 2 is
  refused, finds the queue full and stops interface 2.  The thread drains the
  queue; the last frame popped is of interface 1, and that is the interface it
  starts.  Interface 2 has no frame queued, so no later pass will start it, and
  the stack will not call the driver for a stopped interface.  A related
  mismatch: the flag and the stack's state are changed in two steps that the
  starting side does not take under the lock, so a start between a stop's two
  steps leaves the flag clear and the stack stopped.
* **`StopCompletes`** (`rs_c_tx.c:309`, `rs_k_thread.c:83`).  `rs_c_tx_deinit`
  posts the exit event; the thread, at the end of a turn, resets the event and
  does not yet see the stop flag; `kthread_stop` sets the flag and wakes the
  thread, whose wait tests only the event's bits.  The unloading never returns.
* **`SuccessReturnsResponse`** (`rs_c_ctrl.c:84`).  `c_ctrl_wait` clears the
  command number in the response buffer *after* the command was written.  If the
  response has been copied by then, the call succeeds with command number 0, and
  the callers, which compare it with the command, treat the response as absent.
* **`CacStartsAlone`** (`rs_net_dfs.c:1012`, which asserts "CAC already in
  progress").  `net_cfg80211_start_radar_detection` records the interface and
  starts the timer before it asks the chip and undoes neither when the request
  fails or is refused; cfg80211, told that no check runs, starts the next one.

Further behaviours met while modelling, visible in the modules but contradicting
no statement of the repository:

* A successful answer of an earlier CAC start is read when a later request had
  none (`cac_status`); the CAC may also end while its work is in a request.
* A scan that completes between the answer to its start and the assignment of
  `scan_request` is never seen: the request and `core->scan` stay set until the
  interface closes, and the TX thread stays shut (`rs_net_cfg80211.c:1383`).
* The finish of a channel switch that comes before its work is set up is lost
  (`rs_net_cfg80211.c:2615`), and the record stays, so that later switches are
  refused; a stop of the access point leaves the record too.
* `change_virtual_iface` to a monitor takes a lock its caller holds
  (`rs_net_cfg80211.c:1290`).
* A recovery is never left by the driver itself; on SPI the reload always fails.
* A firmware download counts as done when its polls run out (`rs_k_sdio.c:639`);
  `k_spi_init`'s result is overwritten, and its failures leak pins.
* The pulse ring of the radar has 32 places, of which the indication thread uses
  16 (`rs_net_rx_indi.c:734`) while the work that empties it wraps at 32
  (`rs_net_dfs.c:870-886`): after the first wrap the work takes places that were
  never written.  The detectors are modelled for arbitrary pulses, the ring is not.

## Proofs

`RsRing_proofs` proves, for every depth 1..255 and every set of buffers:
`RingTypeCorrect`, `RingCorrect`, `PickAgreesWithPop` and `RingRefinesFifo`.  The
inductive invariant is `TypeOK /\ SlotsMatchIndices`: the second conjunct is what
makes "the slot is free" and "the count is below the depth" the same thing.  The
argument rests on `SlotOfInjective`, the slots of a ring are distinct; the
refinement then has one step per function and outcome.

`RsTx_proofs` proves, for any sets of senders and interfaces, any queue depths,
any status words and any threshold above 1: `TxTypeCorrect`, `NoWakeupLost` and
`RoomIsReadOften`.  `TxTypeOK` is inductive; besides types it says who holds the
spin lock, that a sender past the start of its call has an interface, and that
the queue a pop takes from is not empty.  `NoLostWakeup` is inductive relative
to it.  Its form is the argument: while a frame is queued, the event is up, *or*
the thread has still to read the queues before it waits, *or* a reader of the
queues (thread or sender) has seen a frame and not posted.  A post can overwrite
bits but never make the event empty; the only step that empties it, the thread's
reset, leads to the thread's own check of both queues.

`RsCtrl_proofs` proves, for any callers, notifiers and commands whose numbers
overlap as they like: `CtrlTypeCorrect`, `RecoveryHasReset` and
`ResponsesReachCall`.  Three invariants, each kept by every step: `Typed` (the
types, and a command for every thread inside a call), `ResetBehind` (whoever is
past the hardware reset of `rs_c_recovery_event_post` has sent it, and so has
everyone once the flag is up) and `OneCall` (until the first failure one thread
is between lock and unlock, and at most one response to it is on its way: in the
chip, in the RX thread's hands or in the buffer).  The last gives that a response
finds the call that asked for it, which TLC shows for two callers only.

`RsRx_proofs` proves, for any buffers and ring depths: `RxTypeCorrect`,
`BuffersHaveOneOwner` and `RxRefinesDelivery`.  `Typed` adds to the types where
each thread has a buffer; ownership is inductive relative to it, and rests on
one lemma for each way in which a step moves a buffer.  For the refinement the
abstract inbox, pending queue and message in handling are read off the contents
of the buffers; ownership is what makes them stay the same when another buffer
is written.

`RsBus_proofs` proves, for any threads, any number of probes and of transfers and
both buses: `BusTypeCorrect`, `RemovesUndoProbes`, `NoInterruptDangles`,
`BoundDevicesAnswer` and `PayloadsWhenReady`.  `BusInv` says what is held at each
step of the walks through probe and remove: which resources of the module, of the
interface and of the core (`CoreInv`: exactly the first `nth` parts on the way up,
the parts not yet taken down on the way down), which allocations are live, and that
every pointer and every enabled interrupt that is left refers to a live one.  That a
remove leaves nothing is the case of its last step.  For the transfers, one thread
is inside a transfer (`OneTransfer`), and as long as no edge came late the chip's
state and the thread's place correspond, with at most one edge outstanding
(`Handshake`).

`RsDetector_proofs` proves, for every window, tolerance, burst length, threshold and
series of pulses: `DetectorTypeCorrect`, `SequencesAreCounted` and
`RadarsFoundAreGenuine`, a radar is reported only when that many pulses at fitting
distances were heard.  The inductive invariant speaks of the detector and of the
history `heard` together: every queued pulse was heard (`QueueInv`), a sequence of
short pulses was made of heard ones at multiples of one interval
(`ShortSequence`), a sequence of long ones of as many bursts as it counts
(`LongSequence`).  Lemmas say, for each operator, what it keeps of that.

`RsDetectorFinds_proofs` continues with the other direction,
`RadarsAfterSilenceAreFound`: a train of pulses that comes after a silence is reported
by the pulse that completes it.  The train may have pulses missing and jitter within the
tolerance; the bursts of long pulses may be of several pulses.  The invariant says what
the detector has made of *every* train that has begun so far (`Finds`).  For short pulses
(`ShortFinds`): after the first pulse no sequence is left (`Fresh`; the deadlines of all
older ones have passed, and no queued pulse is at an interval of the type); from the
second on there is one sequence, and its count is the number of pulses of the train
(`Tracked`).  Every later pulse is counted because a pulse that fits comes no sooner than
the detector takes notice (`FittingIsFar`), and no other sequence is made because a new
one would have to count more pulses than were heard since the silence (`NextPulse`).  For
long pulses (`LongFinds`): the one sequence is never given up, so it counts at least the
train's bursts, and it begins with the first of them, or is past its deadline with the
first burst queued, and will begin with it when the second comes (`CountsBursts`).

The silence the property asks for is that of the longest burst of the type, not that of
a burst at the train's own interval: a sequence that noise has left at a longer
interval is not past its deadline after the shorter one, and as long as the pulses of
the train happen to fit it too it counts as the longer sequence and keeps the train
from making its own.  Where the threshold depends on the interval a train can be missed
so.

`RsNet_proofs` proves, for any interfaces, indices, stations, calls and numbers of
calls and indications: `NetTypeCorrect`, `InterfacesAlwaysAgree`,
`StationsAlwaysAgree`, `NothingEverOutlives` and `SwitchWorkKeepsRecord`, all from
`NetInvariant`.  A call of the stack is a list of steps, between which indications,
works and the chip run, so the invariant says for every step a list still holds
what must be true when it is reached.  `Place`: where the interface of the call is.
`Indices`, `Known` and `Forgotten`: an interface has an index of its own from the
chip's answer to `if_add` until `if_remove`, the chip knows it by that index, and has
no connection or station left for the indices nobody has; without the last, an
index given out again would bring the stations of an interface closed before.
`Listed`: an access point's list is the chip's, and empty once the access point is
stopped.  `Outlives`: a call that closes either has nothing to clear or still holds
the step that clears it, which is what makes it true that nothing outlives its
interface at the moment it goes down.  `Switch`: `net_csa_work` has its record until
its last step, which frees it.  Which steps may follow each other in a list
(`After`) is an invariant too.  The proof has a lemma for each action; most say that
the action disturbs nothing the steps left ask for (`RestKeeps`, `Marks`), and the
others are the dozen steps that open, close, connect, start, stop, add and delete.

The assumptions used are those named in the modules (`CapAssumption`,
`DepthAssumption`, `BufAssumption`, `ThresholdAssumption`, `StatusAssumption`,
`NoneAssumption`, `BitsAssumption`, `ActorAssumption`, `CmdAssumption`,
`UserAssumption`, `BusAssumption`, `BoundAssumption`, `SpecAssumption`,
`VifAssumption`, `IndexAssumption`); each is evaluated by a run.  The last two say
that there are finitely many interfaces and that no interface or index is the null
pointer.  `RsDetector` asks for thresholds of at least 2 pulses (the tables of
`rs_net_dfs.c` have 4 or more: `PPB_THRESH` of 8 or more), a shortest interval of at
least twice the tolerance (134 us and 16 us), and an interval of long pulses no longer
than their window (2 ms and 12 s).

Every invariant and every refinement a passing run checks is proved.  Only
model-checked are the liveness properties `DataDrains`, `PowerDrains`, `CallsReturn` and
`LaterArrivalWakes`: the proof system has no rules for fairness and `ENABLED`.  The
properties of the runs that expect a violation are false, so there is nothing to prove.

## Not modelled

Contents of frames, keys, commands and indications; headers and statistics of
received frames; memory exhaustion except in `RsCtrl`'s failing write, `RsRx`'s
allocation and `RsBus`'s probe; the `#else` variants without threads, which
`core/inc/rs_core.h` does not select; channel numbers and the counts of channel
contexts; the table of radar types and the pulse ring; parameters
(`rs_net_params.c`), statistics, debugfs and test mode, which are text and
counters; the wrappers around the kernel's allocation.

## Plan

1. The pulse ring between indication and work as a module below `RsDetector`, with
   its two wraps.
2. The recovery's reload composed with the calls of `RsNet`: what a new probe finds
   of the interfaces that were open.
