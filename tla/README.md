# PhantomCC / htsim in TLA+

Models, model-checking runs and machine-checked proofs about the simulator of
this repository: htsim with the UEC (PhantomCC) transport, its switch queues with
phantom queues, its pipes, its event list and its flow triggers, priority flow
control over lossless queues, and the RoCE, HPCC and Swift transports it is compared
with. Paths below are relative to `src/sim/`.

Contents

1. [The system](#1-the-system)
2. [The modules](#2-the-modules)
3. [The runs](#3-the-runs)
4. [What the code does against its own words](#4-what-the-code-does-against-its-own-words)
5. [The proofs](#5-the-proofs)
6. [What is not modelled](#6-what-is-not-modelled)
7. [Plan](#7-plan)

To check a run: `tlc -config uec_safety.cfg MCUec.tla`; the proofs: `tlapm
UecProofs.tla`, likewise the other modules whose name ends in `Proofs`; `PfcProofs` and
`PfcFlowProofs`, the longest, take some five and eight minutes. `PROJECT.json` lists runs, mutants (small faults
put into the model, which the properties must find), the source lines of every
definition, hazards, findings and theorems.

## 1. The system

The simulator is one sequential program driven by a list of timed events. Its
hard behaviour is not in threads but in the order of events: any object may be
woken at any time, wake-ups cannot be told apart except by their time, objects
call each other in the middle of a handler, and the network reorders, trims and
turns around packets at will.

### Components

| Component | Where | State | Operations |
|---|---|---|---|
| UEC sender, `UecSrc` | `uec.cpp`, `uec.h` | `_sent_packets` (timer, acked, nacked, timedOut of each packet), `_highest_sent`, `_cwnd`, `_unacked`, `_nack_rtx_pending`, `_rtx_pending`, `_flow_finished` | `startflow`, `receivePacket` (`processAck`, `processNack`, `processBts`), `send_packets`, `retransmit_packet`, `resend_packet`, `mark_received`, `adjust_window`, `quick_adapt` |
| UEC receiver, `UecSink` | `uec.cpp` | `_cumulative_ack`, `_received` (held out of order, sorted) | `receivePacket`, `send_ack`, `send_nack` |
| Switch port, `CompositeQueue` | `compositequeue.cpp` | `_enqueued_low`, `_enqueued_high`, their byte counts, `_serv`, `_crt`, `_current_queuesize_phatom`, `_decrease_phantom_next`, `first_time` | `receivePacket`, `beginService`, `completeService`, `decreasePhantom`, `doNextEvent`, `decide_ECN` |
| Link, `Pipe`, and switch latency, `CallbackPipe` | `pipe.cpp`, `callback_pipe.cpp` | a growing ring `_inflight_v`, `_next_insert`, `_next_pop`, `_count`, `_size` | `receivePacket`, `doNextEvent` |
| `EventList` | `eventlist.cpp` | `_pendingsources` (a multimap by time), `_pending_triggers` (a stack), `_lasteventtime`, `_endtime` | `doNextEvent`, `sourceIsPending`, `triggerIsPending`, `cancelPendingSource` |
| Triggers and flow set-up | `trigger.cpp`, `datacenter/connection_matrix.cpp`, `datacenter/main_uec_entry_modern.cpp` | `_done`, `_next`, `_activations_remaining`; the flows of the matrix | `activate`, `add_target`, `ConnectionMatrix::load`, `getTrigger`, `connect` |
| Lossless queues | `queue_lossless*.cpp`, `eth_pause_packet.cpp` | byte counts per input, paused or not, virtual input queues | `receivePacket`, `completedService`, `sendPause` |
| Host queue | `queue.cpp` (`FairPriorityQueue`) | queues per priority and flow, what is being sent | `receivePacket`, `beginService`, `completeService` |
| RoCE and HPCC | `roce.cpp`, `hpcc.cpp` | `_highest_sent`, `_last_acked`, `_state_send`, pacing; `_cwnd` and `_flightsize` of HPCC; `_cumulative_ack` of the sink | `startflow`, `doNextEvent`, `processAck`, `processNack`, `processPause`, `receivePacket` |
| Swift | `swift.cpp`, `swift_scheduler.cpp` | window, recovery and timer of a subflow, its numbers and those of the flow's data (`_dsn_map`), the pacer, what the scheduler holds of each flow | `receivePacket`, `handle_ack`, `send_packets`, `send_callback`, `rtx_timer_hook`, `doNextEvent` of source, pacer, scanner and scheduler |
| Pacer of UEC | `smartt_pacer.cpp` | `_interpacket_delay`, `_last_send`, `_next_send` | `schedule_send`, `cancel`, `doNextEvent` |
| Switches and routing | `switch.cpp`, `datacenter/fat_tree_*switch.cpp` | packets between ingress and egress pass, forwarding tables | `receivePacket`, `getNextHop` |
| Other transports | `ndp.cpp`, `bbr.cpp`, `tcp.cpp`, `uec_drop.cpp`, ... | their own | their own |
| Schedule replay | `lgs/`, `datacenter/logsim-interface.cpp` | | |

### How they interact

* A flow: `main` reads a connection matrix and builds an `UecSrc` and an `UecSink`
  per line; `connect` asks the event list to wake the source at its start time,
  or, if it waits for a trigger, at `TRIGGER_START`, which is past the end.
* A packet goes from the source to a host queue, through pipes, switches and
  `CompositeQueue`s to the sink, each hop a `receivePacket` call from the one
  before; queues and pipes delay it by asking for a wake-up. Its path is chosen
  anew for every packet, so that packets of one flow overtake each other.
* A full port strips the payload (`trim`) and forwards the header first, or turns
  the header around to the sender (`use_bts`), or frees the packet
  (`_drop_when_full`). The sink answers data with an ACK and a header with a NACK.
* The source moves only when something arrives: it updates `_sent_packets`, the
  window, and sends what the window allows. No timer is active.
* When the last acknowledgement arrives the source activates its end trigger,
  which asks the event list to start other flows before time goes on.
* In a lossless network an input queue counts what is in its switch, and has the
  sender at the other end of its link pause by calling its `receivePacket`. A host
  queue passes PAUSE and RESUME on to the RoCE or HPCC source, which stops pacing.
* A Swift source asks the scheduler of its host before it sends, and is called back
  when a packet of its has left. A scanner looks at the timers of all subflows; one
  that has expired becomes an event of its source.

### What is hard, and what makes each part correct

* **UEC transport.** Acknowledgements and NACKs come in any order, and one handler
  changes entries, counters and window and sends several packets. Correct: no
  assertion fails; each packet is in flight at most once, so that nothing is
  retransmitted that is not known lost; the counters agree with the entries; a
  NACK that found the window full is remembered; the window never stalls the
  flow; completion means that the receiver has everything; and it is reached.
* **CompositeQueue.** The end of a service and the drain of the phantom queue are
  wake-ups of one source that `doNextEvent` tells apart by the time. Correct:
  neither is lost nor taken for the other in a way that matters; the byte counts
  are exact on every path; every packet leaves exactly once, in one way; headers
  and data share the port as the round says.
* **Pipe.** One wake-up serves all packets, the ring grows while wrapped, and the
  next hop may call back in the middle of a handler. Correct: a delay line.
* **Event list and triggers.** Triggers fire last in, first out, before time goes
  on. Correct: each flow starts once, at the moment its trigger says, and the
  assertions of `activate` hold for every matrix that is well formed.
* **Lossless and host queues.** A PAUSE or RESUME comes at any point of a service, of
  several ports, and a departure must be credited to the input its packet came by.
  Correct: input and sender agree, counts are exact, a service is under way at most
  once, buffers of the usual headroom suffice, nothing is lost, and every pause is
  lifted.
* **RoCE and HPCC.** Pacing is a chain of events that the source keeps alive itself,
  while NACKs set back what was sent and pauses break the chain. Correct: a source
  with something to send has an event pending; it neither finishes early nor leaves a
  hole; it completes, and then has no event left.
* **Swift.** Timeouts race acknowledgements, and set back numbers that other data then
  gets; sending may be stopped by window, pacer or scheduler. Correct: data sent is not
  forgotten before it is accepted, the flow completes after a loss, and completion is
  what the sink says.

The hazards of `PROJECT.json` list these, line by line, with the properties that
would catch each.

## 2. The modules

| Module | Models | Built on |
|---|---|---|
| `ReliableTransfer` | abstract: what a flow promises | |
| `UecTransport` | `UecSrc`, `UecSink`, the network between them | |
| `UecInvariants` | the inductive invariant | `UecTransport` |
| `UecProofs` | lemmas and theorems | `UecInvariants`, `TLAPS` |
| `DelayLine` | abstract: what a pipe promises | |
| `Pipe` | `Pipe`, `CallbackPipe`, with the wake-ups of the event list | |
| `PipeProofs` | lemmas and theorems | `Pipe`, `TLAPS` |
| `CompositeQueue` | the port queue with its phantom queue and its wake-ups | |
| `CompositeProofs` | lemmas and theorems | `CompositeQueue`, `TLAPS` |
| `EventList` | clock, pending sources, trigger stack | |
| `FlowTriggers` | triggers, matrix, flow starts and completions | `EventList` |
| `TriggersProofs` | lemmas and theorems | `FlowTriggers`, `TLAPS` |
| `Pfc` | hosts' queues, lossless input and output queues, PAUSE and RESUME, links | |
| `PfcProofs` | lemmas and theorems: ports, pauses, counts, headroom | `Pfc`, `TLAPS` |
| `PfcFlowProofs` | the same: routes, order, losses, distant thresholds, rest | `PfcProofs` |
| `GoBackN` | RoCE and HPCC sources and sinks | |
| `GoBackNProofs` | lemmas and theorems | `GoBackN`, `TLAPS` |
| `Swift` | Swift source, pacer, scheduler, timer and sinks | |
| `SwiftProofs` | lemmas and theorems | `Swift`, `TLAPS` |
| `MCUec`, `MCPipe`, `MCComposite`, `MCTriggers`, `MCPfc`, `MCGoBackN`, `MCSwift` | instances for TLC | |

`UecTransport`, `GoBackN` and `Swift` are shown to implement `ReliableTransfer`, and
`Pipe` to implement `DelayLine`.

A definition marked `(Mutant.)` is no part of the model: it is the definition
below or above it with one fault.

### UecTransport

All packets of a flow have the size `_mss`, so packet `p` stands for its bytes,
and sequence numbers are packet numbers. The window stays in bytes, since it is
not a multiple of `_mss` and the code compares bytes.

| Model | Code |
|---|---|
| `sent[p]` | the entry of `p` in `_sent_packets`: `none` before it is made, `out`, `nacked`, `acked`, `erased` once removed. `timedOut` never becomes true, see below |
| `highest`, `cwnd`, `unacked`, `nackRtx`, `rtxPending`, `finished` | `_highest_sent`, `_cwnd`, `_unacked`, `_nack_rtx_pending`, `_rtx_pending`, `_flow_finished` |
| `cumAck`, `received` | `_cumulative_ack`, `_received` |
| `data`, `headers`, `nacks`, `acks` | messages in flight. `data` counts copies; the others are sets, which `OneCopyInFlight` shows to be enough |
| `StartFlow` | `startflow` |
| `ReceiveAck` | `receivePacket` and `processAck`: `mark_received`, completion, `adjust_window`, `send_packets` |
| `ReceiveNack` | `processNack` and `processBts`: mark, window, `resend_packet`, `send_packets` |
| `SendPackets` | `send_packets`, with `retransmit_packet` if `_rtx_pending` |
| `ReceiveData`, `ReceiveTrimmed` | `UecSink::receivePacket` |
| `Trim`, `BackToSender`, `Drop` | what a full `CompositeQueue` does |

Two loops of the code, that of `retransmit_packet` and that of `send_packets`, are
given as the sets of packets they send (`Resent`, `Fresh`): packet by packet in
order, each while what is outstanding leaves room.

*Abstractions.* What congestion control does with the window is a choice among
`Windows` at each ACK or NACK: `check_limits_cwnd` keeps the window between `_mss`
and `_maxcwnd`, and nothing else of it matters here. `pause_send` is never set in
`uec.cpp`, and `_trimming_enabled` is always true. Pacing is off, which is its
default. Paths are free because delivery is in any order.

### Pipe

Time, the wake-ups pending for this pipe at each time, and the ring as it is in
memory: vector, insertion and pop index, count, size. `DoNextEvent` takes a wake-up,
pops, hands the packet on and asks for the next wake-up; between the two the next
hop may hand a packet back (`reentrant`), which happens when the pipe is the one
inside a switch and the queue it leads to turns packets around. `reentrant` is
fixed at the start, with the topology. `events` counts the wake-ups at one time:
they belong to one source and are interchangeable.

### CompositeQueue

Sizes are in units of a header, and a unit takes one unit of time to send. Times
are relative to now: `events[t]` counts the wake-ups of this queue due in `t`. Both
queues, the byte counts, the weighted round (`crt`, `Round`), what a full queue does
(`config.full`), the phantom queue in parallel or in series, its drain, `_use_mixed`
and the marking thresholds are there. Random marking is a choice. `streak` is a
history variable. `failed_link` is set by nothing in the repository and is left out.

### EventList and FlowTriggers

`pending` is the multimap as a sequence in order of time and, at one time, of
insertion; `triggers` is the stack. A flow takes some time of `Durations` from start
to completion. `Matrices` gives the connection matrices to consider, each an
initial state: the kind of each trigger, its count, and for each flow the trigger it
waits for and the one it activates.

### Pfc

A network of hosts, output queues and the links between them is given by constants:
`Forward` is the forwarding table, `Load` what each host sends. The input queue at the
end of a link has the name of the link.

| Model | Code |
|---|---|
| `queue`, `size`, `sending`, `due`, `send` | `_queue` or `_enqueued`, `_queuesize`, `_sending`, the completions pending in the event list, `_state_send`, of a host or an output |
| `vq`, `ring` | `_vq` of an output; the size and place of its `CircularBuffer` |
| `bytes`, `recv` | `_queuesize` and `_state_recv` of an input |
| `link`, `cross` | the pipe of a link; the pipe inside the switch at its end |
| `HostSends`, `HostCompletes` | `FairPriorityQueue::receivePacket`, `completeService` |
| `ReachesInput` | `LosslessInputQueue::receivePacket` and, by a call, the PAUSE at the sender |
| `ReachesOutput`, `OutputCompletes` | `LosslessOutputQueue::receivePacket`, `completeService`, with `completedService` of the input and its RESUME |
| `Tick` | time passes when nothing is due |

*Abstractions.* Packets have one size and one priority, and the order that
`FairPullQueue` makes of the flows of a host is given with its load. The receiver at
an exit takes a packet at once. Marks and telemetry are left out. The drops of
`completeService`, by timeout budget and with the slot it looks at, are modelled.

### GoBackN

`events` counts the wake-ups of the source, which are interchangeable; `spaced` says
that the packet spacing has passed. `data` and `answers` are what is on its way,
oldest first; with adaptive routing (`fat_tree_switch.cpp:338`) a message may overtake
others, at most `MaxReorder` times. `DoNextEvent`, `ReceiveAnswer` (`processAck`,
`processNack`), `Pause`, `Resume` and `ReceiveData` are the handlers; where RoCE and
HPCC differ a disjunct says so. The window of HPCC is a choice among `Windows`, at
least a packet each, for `computeWind` adds `_Wai`, which is `_mss` (`hpcc.cpp:66`,
`hpcc.cpp:406`). `tailLost` is a history variable.

### Swift

Packets have the size `_mss` and stand for their numbers, in the subflow (`seq`) and in
the data of the flow (`dsn`); data 0 is what `_dsn_map` gives for a number never sent.
`data` is the path to the sink, whose last `nic` packets are still in the scheduler.

| Model | Code |
|---|---|
| `SendPackets` | `send_packets`, as one step: `SendByWindow` is its loop, `SendByPacer` the other case, with `schedule_send`, which may send at once |
| `PacerFires`, `NicCompletes` | `SwiftPacer::doNextEvent`; `completeService` of the scheduler and `send_callback` |
| `ReceiveAck` | `receivePacket`, `adjust_cwnd` and the branches of `handle_ack`: `Advance`, `AdvancePartly`, `DuplicateInflates`, `DuplicateCounts`, `DuplicateRetransmits` |
| `TimerExpires`, `TimerExpiresEarly` | `rtx_timer_hook`; the second while something is still on its way |
| `Timeout` | `doNextEvent` of the subflow |
| `ReceiveData` | `receivePacket` of both sinks, `send_ack` |

*Abstractions.* What `adjust_cwnd` and the limits make of the window is a choice among
`Windows`. Of time only this is left: the timer runs or not, the pacing delay is
positive or not, a send that is scheduled is due or not. A flow has one subflow and a
fixed path, so that messages keep their order.

## 3. The runs

| Run | Instance | Result | Distinct states |
|---|---|---|---|
| `uec_safety` | 4 packets of 2 bytes, windows of 2, 3, 5 or 8 bytes, one message lost | holds | 9,397 |
| `uec_loss` | 3 packets, same windows, one message lost | `FlowCompletes` fails | |
| `pipe` | 5 packets, ring of 2 cells, delay 3, 8 moments, with and without packets handed back | holds | 12,740 |
| `pipe_reentrant` | 4 packets, packets handed back | `OnTime` fails | |
| `composite` | 6 packets of any kind, 2 data packets and 3 headers fit, all settings but `_use_mixed` | holds | 589,443 |
| `composite_mixed` | `_use_mixed`, packets without budget | `ServiceFindsPacket` fails | |
| `triggers` | 4 flows, 2 triggers, every well-formed matrix | holds | 15,912 |
| `triggers_recv` | 2 flows, one waiting for the receiver of the other | `AllFlowsFinish` fails | |
| `gobackn` | RoCE and HPCC, 3 packets, the last full or not, one loss, one overtaking, 2 pauses | holds | 329,306 |
| `pfc` | 3 hosts, 2 switches, 7 packets, thresholds of 3 and 2 bytes for packets of 2 | holds | 152,852 |
| `pfc_overlap` | thresholds of 5 and 4 bytes, a host with flows to two outputs | `NothingLost` fails | |
| `swift` | 5 packets, windows of half a packet, one, and all, 2 losses, one early timeout | holds | 183,777 |

**uec_safety.** `AssertionsHold`: the assertions of `mark_received` and `processNack`
never fail, which answers the question in the code, "would it be possible for a
packet to receive a nack after being acked?" (`uec.cpp:822`): no.
`FrontIsAckedCumulatively`: the branch that "should not happen because of cummulative
acks" (`uec.cpp:489`) does not. `OneCopyInFlight`: a packet, its header, its NACK and
its acknowledgement are never in flight together. `CountersExact`:
`_nack_rtx_pending` and `_unacked` say what they should, although each is changed in
several handlers and `reduce_unacked` clamps at zero; a lost message stays in
`_unacked` for ever. `NackedIsRemembered`, `RetransmissionsFirst`: a NACK that found no
room is not forgotten, and nothing new leaves before it. `WindowRespected`: what a
step sends fits the window, except that a retransmission needs only one free byte.
`ImplementsTransfer`: completion is reported once and only when the receiver has the
whole flow, and each packet is accepted once. `FlowCompletesUnlessLoss`: every flow
finishes unless a message is dropped, whatever congestion control does with the
window within its limits; no window, even one just cut, leaves a flow with nothing in
flight to wake it.

*Bounds.* With four packets entries are acknowledged selectively behind two gaps, one
of them closed by a cumulative acknowledgement that overtakes or is overtaken by the
others, while new packets are still to be sent. The windows are one packet, one and a half, two and a half,
and all four. One loss is enough to reach every difference a loss makes to the
counters and to the assertions; the theorems of section 5 cover every number.

*Fairness:* the event list runs every event
that is scheduled (`eventlist.cpp:10-35`), and each queue and pipe that holds a
message has an event scheduled, so that each message in flight arrives (weak
fairness). A data packet may be trimmed instead: strong fairness of `ReceiveData(p)`
says that a packet sent again and again is not trimmed for ever. This one is an
assumption on the traffic, not on the code, and it is needed: with a queue that
stays full a flow is retransmitted without end.

**pipe.** `ImplementsDelayLine`: a pipe from whose next hop nothing comes back is a
delay line through every growth and wrap of the ring. `OneWakeup`: exactly one
wake-up is then pending. `EverythingLeaves`: even with packets handed back, none is
forgotten, lost, repeated or overtaken. Two cells and five packets make the ring grow
twice, both wrapped and not; the ring of the code starts at 16. *Fairness:* the
event list runs what is pending, then time goes on.

**composite.** `OneCompletionPending`: while a queue is served exactly one wake-up
that is not the drain's is pending, and none otherwise, although the two are
exchanged when they fall together. `ServiceFindsPacket`: so no completion finds its
queue empty. `AccountsExact`: on every path through a full queue the
byte counts follow the packets, and each packet is in one queue or gone. `FairShare`:
while both queues wait the port serves at most `_ratio_high` headers in a row, and
`_ratio_low` data packets. The limits are small enough for each of them to be met by
six packets, and the drain time of 3 falls together with services of 1 and 2.

**triggers.** `StartedOnce`, `TriggeredAtOnce`: each flow is started once, at the very
moment its trigger fires, or for a barrier when the last flow it waits for finishes,
though the event list also holds (and must discard) a wake-up for it.
`ActivationsTaken`: a flow that finishes activates a trigger that takes it. No assertion of
a oneshot trigger or a barrier fails; a multishot one, which asserts nothing and returns
when no target is left, has then started everyone who waits for it. Its header says
otherwise, see section 4; the matrices of the run include such spare activations.
`AllFlowsFinish`: with the main loop running (`main_uec_entry_modern.cpp:1000`) every
flow runs. A matrix is well formed if its triggers are activated as often as they
need, multishot ones perhaps more often, by earlier lines of the matrix only: two triggers of four flows give chains, fans,
barriers and sequences, and combinations of two.

**pfc.** `PauseAgreed`: an input and the port it has paused agree, and an input is
paused only while enough is in its switch for a departure to lift the pause.
`InputBytesExact`: each departure is credited to the input its packet came by, though
that is found by the place in a second list. `HeadroomSuffices`: beyond
`_high_threshold` an input receives at most what is in the pipe, the packet in
transmission and one more. `OneServiceAtATime`: no PAUSE or RESUME makes a port
transmit twice at a time, or stop with its packet in hand. `NothingLost`: nothing is
lost and the packets of a flow keep their order. `Drained`: all packets arrive and
every pause is lifted. *Bounds.* Hosts h1 and h2 share the trunk to the second switch,
where h3 meets them, so that the second switch pauses the first and that one its
hosts; the thresholds are met by two packets, and seven are enough to pause, lift and
pause again at both. Packets have budgets that they do not outstay, and the delay in
the first switch makes a packet that pauses its host leave after the host's
transmission: without the first the outputs drop everything, and the second leaves
out what `pfc_overlap` shows. *Fairness:* the event list runs what is due and then
time passes.

**gobackn.** `NeverIdle`: a source that is not paused and has something to send has an
event pending. `ImplementsTransfer`, `FlowCompletes`: as for UEC, unless the tail of the
flow, or an answer, is lost, which nothing would notice: there is no timer
(`roce.cpp:191`). `PacingStops`: in an undisturbed flow no event outlives it. *Bounds.*
Three packets let a NACK set a finished source back and leave an acknowledgement
behind it; two pauses come before and after a NACK. Of HPCC nothing but types and
reliable transfer is promised once a message was lost or overtaken (`Promised`), see
section 4. *Fairness:* as before, and a PAUSE is lifted in the end, which `Drained`
shows of `Pfc`.

**swift.** `ImplementsTransfer`: rewinding, retransmissions under a new number, and packets
without data never make the sink count what it does not hold, nor the flow be
reported finished early. `NothingForgotten`: after one loss or early timeout, data that
was sent is accepted, on its way, or can be retransmitted. `FlowCompletes`: the flow
finishes, through every mixture of window, pacer, scheduler, fast recovery and
timeout. Both are conditioned on a single fault (`SingleFault`), and `FlowCompletes` on
the timer running when the loss occurs, because the code promises no more, see
section 4. *Bounds.* Five packets give the three duplicates that begin recovery, a
partial acknowledgement within it, and a scheduler that refuses the fourth. *Fairness:*
the event list runs the pacer, the scheduler and the timeout, messages arrive, and
the scanner, which schedules itself for ever, finds an expired timer. That a timer
expires only when nothing is on its way, unless it is counted as early, stands for an
`_rto` longer than a round trip.

## 4. What the code does against its own words

Each is a run TLC ends with a counterexample.

* `uec_loss`. `retransmit_packet` is introduced as "retransmission for timeout", and
  each entry keeps a timer, but no timeout can occur: it needs
  `_rtx_timeout_pending`, set only under `_enableDistanceBasedRtx`, which is false,
  and the scanner's registration is commented out. One dropped message stops a flow
  for ever.
* `pipe_reentrant`. "A pipe is a dumb device which simply delays all incoming packets"
  (`pipe.h:6`). `doNextEvent` lowers `_count` before it hands the packet on and asks
  for a wake-up after. A packet handed back in between makes `receivePacket` ask for
  one, and `doNextEvent` for another; a later packet leaves early with it.
* `composite_mixed`. With `-use_mixed` a completion first drops all packets that have
  outstayed their budget, and then asserts that a packet is left. `UecSrc` sets no
  budget, so that the first completion fails.
* `triggers_recv`. `recv_done_trigger` makes a trigger the end trigger of the sink, and
  no code of the sink activates it: a flow waiting for it never starts, while
  `connection_matrices/all_butt` uses it.

* `pfc_overlap`. The service loop of the host queue is "needed for lossless operation"
  (`queue.h:167`). A RESUME that comes while the host transmits begins a second service
  (`queue.cpp:543-545` has no test of `_sending`, as `queue_lossless_output.cpp:84` has):
  the packet in transmission is overwritten.

A comment and the code that disagree, without a run of their own: a `MultiShotTrigger`
"Will abort if called more than count" (`trigger.h:58-59`), as the other two triggers do by
assertion. `MultiShotTrigger::activate` prints "Noone left to activate" and returns
(`trigger.cpp:35-40`). The model does what the code does (`MayActivate`, `Released`), and the
matrices need it: in `connection_matrices/all`, 16 of the 48 triggers are multishot ones
that four flows activate and three flows wait for (trigger 3: lines 12 to 18), and a
trigger that aborted would end the run there. So `ActivationsTaken` does not ask that there be no such
activation, but that it finds everyone started.

Met while modelling, without a run of their own; the properties leave them out by the
condition named:

* Lossless outputs drop packets without a timeout budget (`queue_lossless_output.cpp:142-177`),
  and only `uec_drop.cpp` sets one: the runs of `Pfc` give packets a budget (`Budgeted`).
* HPCC restarts its pacing on a NACK with `>` where `doNextEvent` stops with `>=`, and
  a NACK clears `_flightsize` under acknowledgements that are still coming
  (`Promised`).
* RoCE and HPCC do not notice the loss of the last packet (`tailLost`). After a late NACK
  at the end of a flow an event goes on scheduling itself (`Disturbed`).
* A timeout of Swift sets `_highest_sent` back, and new data gets numbers that older
  data has in `_dsn_map`, which is there "so we can retransmit" (`swift.cpp:380`); and the
  timer stops at an acknowledgement of what was sent after the timeout. With two
  losses, or one and an early timeout, data can be lost for ever (`SingleFault`).
  `_inflate` survives a timeout, too.
* What the pacer of Swift sends does not start the retransmission timer, unlike
  `send_packets` ("RFC2988 5.1"): its loss may go unnoticed (`untimed`).
* A Swift flow whose size is not a multiple of `_mss` never has all of it sent
  (`swift.cpp:743`), and `update_dsn_ack` never reports it finished: `N` counts whole packets.

## 5. The proofs

### UecProofs

`UecProofs` proves, for every number of packets `N`, every packet size, every set of
windows that hold at least one packet, and every number of lost messages
(`FlowAssumption`, `WindowAssumption`, which `check_limits_cwnd` and the
constructor justify):

| Theorem | Says |
|---|---|
| `Invariance` | `Spec => []IInv` |
| `TypeCorrect` | `Spec => []TypeOK` |
| `AssertionsNeverFail` | `Spec => []AssertionsHold` |
| `FrontNeverSelective` | `Spec => []FrontIsAckedCumulatively` |
| `AcknowledgedIsHeld` | `Spec => []AckedIsHeld` |
| `OneCopy` | `Spec => []OneCopyInFlight` |
| `FinishedMeansComplete` | `Spec => []FinishedIsComplete` |
| `NackedRemembered` | `Spec => []NackedIsRemembered` |
| `Refinement` | `Spec => ImplementsTransfer` |

**The inductive invariant.** None of these properties is inductive, except
`NackedIsRemembered`, which needs no more than types (`RememberedPreserved`). That a NACK finds its
entry needs to know that its packet is outstanding, hence in one place only and not
held (`Travelling`); that, that an acknowledgement concerns a packet held and not
yet counted (`Answering`); and that an entry is erased only when its packet is known
to be held (`AckedIsHeld`). The assertion of `mark_received` is the hard one: a
selective acknowledgement looks for an entry that a cumulative one might have erased
before it, and if its packet were the first entry the code would take the branch that
"should not happen". `SelectiveHasGap` excludes both: an entry acknowledged
selectively, or about to be, is still beyond the receiver's cumulative
acknowledgement, or has in front of it the entry of a packet that only a cumulative
acknowledgement covering both can remove. For that to survive a cumulative
acknowledgement, those in flight must cover disjoint ranges
(`CumulativeRangesDisjoint`), and what is held must lie beyond a gap
(`HeldBeyondGap`). `MCUec` extends
`UecInvariants`, so that TLC checks `IInv` once it is added to `uec_safety.cfg`.

**The argument.** `SendPacketsEffect` says once what sending does to a packet, and
`SendingKeepsMarked` that it preserves the part of the invariant that speaks of
entries (`Marked`). What is left for each handler is the state it calls
`send_packets` with: `AckMarks` for `mark_received`, `NackMarks` and `ResendMarks` for
`processNack`. One lemma per action (`StartFlowStep` to `DropStep`) then gives
`InvariantPreserved`. `Refinement` maps `accepted` to what the receiver holds, and
needs the invariant in two steps: a packet handed to the application again must be
a stutter, and completion must find the frontier at `N`.

Of the counters and the window, from the same assumptions:

| Theorem | Says |
|---|---|
| `CountersStayExact` | `Spec => []CountersExact` |
| `RetransmissionsGoFirst` | `Spec => RetransmissionsFirst` |
| `WindowIsRespected` | `Spec => WindowRespected` |

A counter of the code is the number of packets in a set, and a handler that changes it
moves packets into or out of that set. `InFlightMeans` says which set: the packets that
are on their way in one of the four forms (`OnTheWay`). A message is one packet of it
(`OneCopyInFlight`); `AnswerUncounted` and `FormChangeCounts` are the two
things that can happen to it, and `SendingCounts` adds what `send_packets` sends. What is
subtracted is always counted, so that the clamp of `reduce_unacked` at 0 never hides an
error. `WindowRespected` needs in addition that what `send_packets` selects, packet by
packet, still fits when it is taken together (`ResentFits`, `SendingFits`): new packets
whole, a retransmission while one byte is free, so that it exceeds the window by less
than a packet. `RetransmissionsFirst` needs no more than `NackedIsRemembered`.

Of what makes a flow finish:

| Theorem | Says |
|---|---|
| `SomethingOutstanding` | `Spec => []AlwaysOutstanding`: a flow that has started and not finished has a packet outstanding |
| `NeverWaitsForNothing` | `Spec => []SenderNeverWaits`: until a message is dropped it has something on its way |

Everything in the sender happens in answer to a message, so a handler that left nothing
on its way would stop the flow for ever: the safety core of `FlowCompletesUnlessLoss`.
A window holds at least a packet, so `send_packets` leaves a packet outstanding unless
everything is sent and nothing remembered as NACKed (`SendingLeavesOut`); then all is
erased, and a flow of which all is erased is finished (`ErasedMeansFinished`). What is
outstanding is on its way as long as nothing was dropped (`OutTravels`).

### PipeProofs

For every delay, initial size of the ring, number of packets and number of instants
(`PipeAssumption`), and whether or not packets are handed back:

| Theorem | Says |
|---|---|
| `PipeInvariance` | `Spec => []IInv` |
| `PipeTypeCorrect` | `Spec => []TypeOK` |
| `OneWakeupAtATime` | `Spec => []OneWakeup` |
| `NothingLostOrReordered` | what left and what is in the ring are the packets received, in order |
| `PipeIsADelayLine` | `Spec => ImplementsDelayLine` |

The proofs read the ring as a sequence: the `i`-th packet is in the cell `Cell(pop, i, sz)`.
`ReceiveRing` and `PopRing` show that inserting appends to it, through growth and
wrap-around, and that popping takes its first. Above that the invariant says that
times increase along it (`InOrder`), and, unless packets are handed back, that one wake-up is due, with the
oldest (`Woken`), and not in the past (`NotLate`). With
packets handed back there may be several wake-ups, and one that finds its packet late;
then order and completeness still hold, which `NothingLostOrReordered` says, but not the
delay, so that the delay line is implemented only without (as its definition says).

`NeverOversleeps` is about both: `Spec => [](Watched /\ NeverLate)`. The oldest packet is never
overdue and a wake-up is pending at the time it is due, so no packet leaves late, and
`EverythingLeaves` cannot fail by a wake-up that was not asked for. That is the safety
core of it. With packets handed back, `doNextEvent` and the `receivePacket` in the middle of it
may both ask for a wake-up, and one more than needed stays pending; the proof shows that
never one less does.

### CompositeProofs

For every size, ratio, threshold, drain and number of packets (`SizeAssumption`):

| Theorem | Says |
|---|---|
| `RoundIsFair` | `Spec => []FairShare` |
| `CompositeInvariance` | `PlainFlags => (Spec => []IInv)` |
| `CompositeTypeCorrect` | `PlainFlags => (Spec => []TypeOK)` |
| `CompletionFindsPacket` | `PlainFlags => (Spec => []ServiceFindsPacket)` |
| `OneCompletion` | `PlainFlags => (Spec => []OneCompletionPending)` |
| `AccountsStayExact` | `PlainFlags => (Spec => []AccountsExact)` |

`PlainFlags` says that no configuration sets `_use_mixed`, which is off by default. It is
needed: with it `completeService` first removes packets whose budget is used up, perhaps
all of them, and `composite_mixed` shows a completion that finds nothing. `RoundIsFair` needs no such
condition. The invariant `FairInv` bounds `crt`, and `streak` by it.

`doNextEvent` does not know what it was woken for: it takes a wake-up for the drain if one is due,
and otherwise for a completion. `Pending` is what makes that right: the wake-ups pending at
each time are one for the drain, if it has begun and is due then, and one for the
completion, if the port serves. When both are due at once they may be taken in the
wrong order, and both are done. `Serving` adds that what is in service is in its queue, and `Account`
that each packet number is in one place only and that the byte counts are the sizes of
what is there (`AppendCounted`, `TailCounted`).

### TriggersProofs

For every number of flows and triggers, every set of connection matrices, durations and
end of the simulation (`EndTimeAssumption`, `MatrixAssumption`, `MatricesAssumption`):

| Theorem | Says |
|---|---|
| `TriggersInvariance` | `Spec => []IInv` |
| `TriggersTypeCorrect` | `Spec => []TypeOK` |
| `FlowsStartOnce` | `Spec => []StartedOnce` |
| `TriggersActAtOnce` | `ActivatedAsTaken => (Spec => []TriggeredAtOnce)` |
| `EveryActivationTaken` | `ActivatedAsTaken => (Spec => []ActivationsTaken)` |

`StartedOnce` is not inductive: that a flow on the stack has not been started needs that no
activation releases a flow again. `FreedOK` says that a flow with a trigger has started,
or is about to, only if the activations of the trigger so far have released it (`Freed`:
a oneshot trigger all its targets with the first, a multishot one the next target with
each, a barrier all with the last), and `ReleasedMeans` that an activation releases none
that had been released. `Agenda` says that the list is in order of time, that nothing
in it is in the past and that no source is in it twice; `AgendaInsert` and `AgendaTail`
show that `sourceIsPending` and `doNextEvent` keep it so. `FiredOK` ties the count of a trigger to
the flows that have finished, of which there is one each.

`ActivatedAsTaken` says that the connection matrix, which is a file the user writes,
has at most one flow that activates a oneshot trigger and at most its count for a barrier,
and someone who waits for them; a matrix for which this is not so ends in an assertion.
Multishot triggers may be activated any number of times.
The matrices of the runs satisfy it (`WellFormed`). It is not needed for `StartedOnce`.

For a multishot trigger without targets left `EveryActivationTaken` needs the converse of
`FreedOK`: who has been released has started or is on the stack (`FreedRuns`, `MultishotOver`).

What the set-up computes, the list at time 0 (`ConnectedMeans`) and the targets of a
trigger (`TargetsMean`), are recursive functions; `Recursion` shows that such a function exists
and `UpTo` proves what it returns.

`EveryFlowRuns` is the safety core of `AllFlowsFinish`: if no flows wait for one another in
a circle (`NoCircle`), each trigger someone waits for is activated as often as its type needs
(`ActivatedAsNeeded`), and `EndTime` is beyond the sum of the durations
(`LongEnough`), then the event list runs out only when every flow has finished. The matrices and
the end of the `triggers` run satisfy this; the code has a start past the end for flows that
wait, so that where one of the three fails a flow may silently be left out. The invariant (`RunInv`)
says that what is pending is no later than the flows started so far may take, that a flow
without trigger is pending until it starts and any flow from its start until it
finishes; `FreedRuns` is part of it.

### PfcProofs

For every network, forwarding table, load, thresholds and delays (`PfcAssumption`), with or
without timeout budgets that run out:

| Theorem | Says |
|---|---|
| `PfcInvariance` | `Spec => []IInv` |
| `PfcTypeCorrect` | `Spec => []TypeOK` |
| `PausesAgree` | `Spec => []PauseAgreed` |
| `BytesMatchEntries` | an input counts the packets in its pipe and its entries in the outputs' lists |
| `OutputsServeOneAtATime` | an output has one completion pending if it transmits, and none otherwise |
| `SwitchHeadroom` | an input at a link from an output counts at most its headroom: `_high_threshold`, two packets, and what the link takes in its delay |
| `HeadroomUnlessDoubled` | `Spec /\ []OneServiceAtATime => []HeadroomSuffices` |

The invariant says of each port how queue, count, transmission, completions and pause go
together (`PortOK`); of the pipes that what is in them comes in order (`PipesOK`); of
an output that it knows the input of each of its packets (`InputsKnown`) and has a slot free (`SlotsOK`); of an
input what it counts (`BytesCounted`), without which a departure might take more off a
count than is there; and of an input and the port before it that they agree on the
pause (`PauseAgreed`), and that the input counts something whose departure can lift it. A
handler changes one port, or one port and the pause of the ports before the inputs it
touches: `BeginOK`, `ReceivePauseOK`, `ReceiveResumeOK` and `ServeOnOK` are about the first,
`EntriesAppend` and `EntriesTail` about the counts. What `completeService` drops is a
recursive function over slots (`Kept`); `KeptFits` shows by a least counterexample
that it never leaves more than was there.

The headroom rests on the pace of a port. One that serves a packet at a time starts
packets `TxTime` apart, so that the packets in its pipe are `TxTime` apart (`Spaced`) and
at most `LinkDelay \div TxTime` and one more fit. While an input says PAUSED its port starts
none, so bytes, packets in the pipe and the packet in transmission together only decrease
(`Room`). Outputs serve one at a time. A host does so unless a RESUME makes it
transmit twice, which is the condition of `HeadroomUnlessDoubled`.

`OneServiceAtATime` is proved of outputs here. Of hosts it does not hold for all
thresholds, which `pfc_overlap` shows; `PfcFlowProofs` proves it for thresholds that
are far enough apart.

### PfcFlowProofs

For the same, and forwarding tables that send no packet around in circles (`RoutesEnd`): the
topologies of the code route up a tree and then down, so theirs do not.

| Theorem | Says |
|---|---|
| `FlowsStayInOrder` | `Spec => []InOrder`, with drops and doubled transmissions |
| `NothingLostUnlessDoubled` | if every packet has a budget, `Spec /\ []OneServiceAtATime => []NothingLost` |
| `InputBytesMatch` | if every packet has a budget, `Spec => []InputBytesExact` |
| `OneServiceIfApart` | `Apart`: `Spec => []OneServiceAtATime` |
| `HeadroomIfApart` | `Apart`: `Spec => []HeadroomSuffices` |
| `NothingLostIfApart` | `Apart`, and every packet has a budget: `Spec => []NothingLost` |
| `NoDeadlock` | `NoCircle`, and every packet has a budget: `Spec => []RestsDrained` |

In the first three rows both conditions are needed: a packet without budget is dropped, and `pfc_overlap` shows a
host that a RESUME makes transmit twice and forget a packet. The counts of inputs stay exact even
then, since a host has no input queue before it.

Between two outputs a packet is in one of four places. The proofs see them as one
sequence, the line of a port (`Line`): the pipe of the switch at the end of its link, the pipe of
the link, what the port transmits, its queue. Then each action is one of four (`NextLines`): a
burst is added to the line of its host; the first packet of a line moves to the end of the
line behind the switch; the first packet of the line of an exit arrives; or the lines stay
as they are, but for packets that are dropped or forgotten, which leaves the others in
their order (`Follows`; `KeptFollows` for the drops of `completeService`).

For `InOrder` the invariant (`FlowsInv`) says of two packets of a flow that the one
nearer to the receiver, in the same line or in a line further along the route, was sent
first, and that a packet is only in lines on its route. That no line is further along than itself
(`NoWayBack`) follows from `RoutesEnd`, and that of two lines of a route one is further
along (`OneIsBeyond`) from the definition of a route as a least set. `NothingLost`
needs no more than that the lines and `arrived` together have what the hosts sent, which each of the
four keeps when nothing is dropped (`NextPresent`). For `InputBytesExact` the list of an output names, place by place, an
input on the route of its packet whose switch sends it there (`ListOK`), and a route has only one
(`OneWayIn`); so the entries that `BytesMatchEntries` counts are the packets that wait.

**Distant thresholds.** `Apart` asks that between `Low` and `High` there be two packets for
each output by which the packets of a host leave its switch (`Fed`). It answers when
the host's missing test of `_sending` does no harm. With the thresholds
of `main_roce.cpp:93`, `main_hpcc.cpp:93` and `main_ndp2.cpp:143`, 15 and 12 packets, it holds if
the flows of a host leave its switch by one output, as in an incast; with the 50 and 25
packets of `main_uec_entry_modern.cpp:629` for twelve outputs. `pfc_overlap`,
with two outputs and thresholds closer than that, does not satisfy it; nor does
`pfc`, where nothing is doubled because the delay in the switch is long, so the condition is
sufficient and not necessary. A RESUME must not reach a host during the
transmission in which it was paused. The invariant `HostsFar` says that a host which is to
pause and still transmits has at least `Low` bytes in its switch and besides as many
packets as may leave the outputs it feeds before that transmission ends
(`Coming`), of which each output has at most two. A PAUSE is sent at `High`
bytes or more, where `Apart` makes this true; a departure takes one packet off
both sides; time only takes off what may leave. So the first departure that finds the count
below `Low` comes after the transmission. What a host counts is then exactly what it
has, with one completion pending if and only if it transmits (`HostsServe`). The proof
assumes that a burst is not empty (`BurstsHavePackets`): a host whose burst is
empty would begin a service with nothing to serve, which no call of `receivePacket` does.

**Rest.** Pauses spread from switch to switch, and a circle of inputs that wait for one another's
outputs would stop for ever. `NoCircle` says that there is none: among any inputs
one has only packets that leave by outputs outside them, as in any tree
whose routes go up and then down. `NoDeadlock` then says that the network comes to rest,
with nothing transmitting and nothing in a pipe, only when everything sent has arrived and
every pause is lifted: the safety core of `Drained`, for any topology and thresholds, and
whether or not a host transmits twice. A port that
is not paused and has something to send transmits (`NoneAsleep`), so at rest whatever
waits is behind a pause; an input that is paused has a packet at an output that waits as well
(`PausedWaits`), and following these would lead in a circle.

### GoBackNProofs

For either protocol, every flow size, packet size, set of windows, and number of
losses, overtakings and pauses (`GoBackNAssumption`):

| Theorem | Says |
|---|---|
| `GoBackNInvariance` | `Spec => []IInv` |
| `GoBackNTypeCorrect` | `Spec => []TypeOK` |
| `GoBackNRefinement` | `Spec => ImplementsTransfer` |
| `GoBackNNeverIdle` | `Spec => []NeverIdle` |

The invariant adds to the types that answers say no more than the sink acknowledges,
nor does the source believe more (`AnswersKnown`), and that the flight of HPCC is what lies
between the last acknowledgement and the last packet sent (`FlightExact`), without which its
subtraction could leave the naturals. `NeverIdle` is inductive for RoCE. For HPCC it
is not: that a NACK may find nothing to restart is excluded only because an
undisturbed flow has no NACK, and that because what is on its way are exactly the
packets the sink expects, in order (`InOrder`).

`GoBackNNeverStuck`, `Spec => []NeverStuck`, is the safety core of `FlowCompletes`: a flow that has started
and is not done, and whose tail has not been lost, always has something that moves it on. There is a
packet or an answer on its way, a PAUSE that will be lifted, or an event of the
pacing which finds a packet to send and room for it. There is no timer, so an event that
found nothing, or an answer that moved nothing, would be the end of it. The invariant (`WaitInv`) adds that once
the last packet is sent it is on its way, or an answer is that completes the flow or takes the source back
(`TailAnswered`); that, undisturbed, the answers on their way end with what the sink
has (`AllAnswered`), which keeps the window of HPCC from closing for ever; and that
a source stays paused only as long as its switch says so (`PauseLasts`).

`GoBackNPacingEnds`, `Spec => [][EndsPacing]_vars`, is that of `PacingStops`: once an undisturbed flow
is done, no late answer and no RESUME schedules the source again, and each event left is one fewer. With
`InOrder` all that was sent has arrived by then, so an event finds the flow sent and is its last.

### SwiftProofs

For every number of packets, packet size, set of windows, limit of the scheduler, and
number of losses and early timeouts (`SwiftAssumption`):

| Theorem | Says |
|---|---|
| `SwiftInvariance` | `Spec => []IInv` |
| `SwiftTypeCorrect` | `Spec => []TypeOK` |
| `SwiftRefinement` | `Spec => ImplementsTransfer` |
| `SwiftForgetsNothing` | `Spec => []NothingForgotten` |
| `SwiftNeverStuck` | `Spec => []NeverStuck`: as long as there was at most one fault, and no loss that the timer is not running for, a flow that has started and is not done has data or acknowledgements on their way, or its timer running, or its pacer waiting to send data |

`PutTyped` and `SendPacketsTyped` say once what sending does to the types, for each handler
that sends. The refinement rests on the sink alone: `TakesData` shows that a packet
changes nothing or adds one datum and moves the acknowledgement to the end of the
prefix, as long as what is held lies beyond a gap (`HeldBeyondGap`); and completion is
right because acknowledgements on their way say no more than the sink (`AcksKnown`).

`NothingForgotten` speaks of flows that met at most one fault. It is not inductive: that the
source still knows the missing packet by a number above its last acknowledgement needs
that the sink waits for just that packet. `LossInv` says why it does. Without a loss
nothing is missing (`Missing`: sent, not accepted, not on its way). Before any fault everything on its way
is in order (`Orderly`): the data are the next the sink expects, the acknowledgements lead up to
the sink's. So after the first fault at most the packet after the sink's cumulative acknowledgement is
missing (`OneMissing`), no acknowledgement on its way goes beyond it, and the last one asks for it.

`NeverStuck` adds to this what each side does about it (`RunInv`). A handler that sends ends in
`send_packets`, which leaves the source with nothing in flight only if all data has been sent, or
the pacer is to go on, or the full scheduler will call back (`SendPacketsReady`, `SendsOn`). The
acknowledgements on their way ascend, and what the sink holds lies beyond a gap (`SinkInv`).
While the timer does not run, all that was sent is acknowledged or on its way
(`TimerGuards`); the source falls behind the sink only by the loss of the last
acknowledgement, and then the timer runs (`AnswerLost`); and once the sink has
everything, the acknowledgement that completes the flow is on its way, or the timer has
something to send again (`EndAnswered`). The hypothesis on the timer is the hazard at
`swift.cpp:867`: what the pacer sends does not start it.

### Only model-checked

Liveness, which the proof system does not cover: that a flow completes, that everything leaves
a pipe, that a network drains. For UEC, `GoBackN`, Swift, `Pipe`, `FlowTriggers` and `Pfc` the
safety core of it is proved, that the system never stands still before it is done
(`NeverWaitsForNothing`, `GoBackNNeverStuck`, `SwiftNeverStuck`, `NeverOversleeps`, `EveryFlowRuns`,
`NoDeadlock`), and of `PacingStops` that after the end nothing is scheduled
(`GoBackNPacingEnds`); what TLC adds is that it does not go on for ever either. Every safety
property of the passing runs is stated by a theorem, some of them under the conditions above, which
the instance of the run need not satisfy (`OneServiceAtATime`, `HeadroomSuffices` and `NothingLost` in `pfc`): there TLC checks the
instance and the theorem covers others.

## 6. What is not modelled

* **Congestion-window arithmetic** (`adjust_window`, `quick_adapt`, `reduce_cwnd`):
  abstracted to its limits in `UecTransport`. It is 32-bit arithmetic with an
  unsigned wrap, planned as a module of its own.
* **`LosslessQueue`**, whose PAUSE frames travel through the network; several priorities
  and packet sizes in `FairPriorityQueue`; ECN marks and telemetry of lossless outputs.
* **Pacing of UEC**: off by default; planned.
* **`CircularBuffer`**: its growth and the scan of its content are part of `Pfc`, elsewhere
  it is a sequence.
* **The windows of HPCC and Swift**: a choice among allowed ones. Of Swift several
  subflows, PLB, `_app_limited`, `_stop_time`, and the SYN exchange, which `startflow`
  bypasses.
* **Other transports** (NDP, BBR, STrack, TCP, DCTCP, `uec_drop`): baselines
  inherited from htsim, or variants. `uec_drop` has timeouts and is planned. Files named
  `... copy.cpp` are older versions of others.
* **Topologies, routing tables, matrix generators, options**: static set-up. A route is
  assumed to lead to the destination.
* **LogGOPSim replay, computation events**: a later candidate.
* **Logging, parsing, plots, traffic generation**: input and output only.
* **Packet pools** (`PacketDB`): memory management; packets are values here.

## 7. Plan

The order puts first what every experiment depends on. Done: the UEC transport with its
abstract specification and proofs, `Pipe` with `DelayLine`, `CompositeQueue`,
`EventList` and `FlowTriggers`, `Pfc`, `GoBackN` and `Swift`, each with proofs.

Next:

1. `UecWindow`: the window in arithmetic modulo 2^w for a small w (`uec.cpp:1549`). An ECN
   mark never raises the window; the limits hold after every path.
2. `UecPaced`: sender and pacer on `EventList`, with re-entrance of `send_packets`, the
   cancelling of events, and what outlives a flow (`smartt_pacer.cpp:14`, `:34`).
3. `CompositeQueue` on `EventList`: the drain schedules itself for ever
   (`compositequeue.cpp:67`), so a run ends only by its end time.
4. `uec_drop`, with its timeouts and budgets, on `Pfc`: what a dropped budget does to the
   counts of an input (`queue_lossless_output.cpp:189`).
5. Swift with several subflows that share the data of a flow; TCP, whose recovery is like
   Swift's; then the ingress and egress pass of the switch, pull queues and
   schedule replay.

Theorems: `Apart` made weaker by what is known of the delays, so that it covers the instance of
`pfc`; `NothingForgotten` and `NeverStuck` of Swift after several faults, which `LossInv` does not cover.
What a recursive function computes is
proved by a least counterexample among finitely many naturals (`LeastNatural`); modules
with theorems use no RECURSIVE operator.
