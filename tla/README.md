# FuzzUSB: a verification project

FuzzUSB fuzzes the Linux USB gadget stack.  The kernel under test carries an emulated
host controller and device controller (`src/patch/kernel/dummy_hcd.c`) that connects a
gadget driver to a host driver in the same machine; syzkaller, patched
(`src/patch/syzkaller/`), generates, executes and collects programs; a script
(`src/to_disk/state_mgr.py`) walks a gadget through its states.  This directory models the
parts whose correctness depends on what happens in which order, checks the models with
TLC, and proves some of their properties with TLAPS for all sizes.

## 1. Inventory

| Component | Source | State | Operations | What is hard | Modelled |
|---|---|---|---|---|---|
| Emulated link | dummy_hcd.c 369-484, 868-1016, 1165-1230, 1985-2476, 2687-2715 | port status of each root hub, remembered status, `active`, `callback_usage`, `driver`, pullup | hub requests, bus and system suspend/resume, soft-connect, bind and unbind, remote wakeup | the lock is dropped around every driver callback; two root hubs share one gadget | `DummyLink` |
| URB and request engine | dummy_hcd.c 329-359, 498-860, 1240-1311, 1544-1981, 2326-2359 | `urbp_list`, `next_frame_urbp`, `udev`, the timer, endpoint queues, halts and wedges | enqueue, dequeue, the timer function, SETUP handling, nuke | a loop with cursors into a list that other threads change whenever the lock is dropped | `DummyUrb` |
| Data transfer | dummy_hcd.c 1313-1512 | lengths, limit, statuses of an URB and of requests of several streams | `transfer()` | packet boundaries, short and zero-length packets, requests left half transferred, requeueing in completions | `DummyTransfer` |
| Corpus and signal exchange | rpc.go, manager.go 496-570 and 896-1067, fuzzer.go 478-664, proc.go 66-272, workqueue.go | corpus, database, candidates, phase; per fuzzer: entry, signal, queues | Connect, Check, Poll, NewInput, minimization, triage | two locks in the manager, calls in flight, VMs that crash and come back | `CorpusSync` |
| usbtest host driver | usbtest.c | of a test: the parameters, the shared context (`count`, `pending`, `status`), the URBs in flight | probe, `usbtest_do_ioctl`, `fz_ioctl`, the tests that keep URBs in flight and their completion handlers | handlers share a context on the stack of a thread that waits, times out and cancels | `UsbTest`, `UrbBatch` |
| Controller set-up | dummy_hcd.c 1055-1098, 2491-2515, 2618-2685, 2728-2871 | platform devices and drivers, HCDs, UDCs | init, probe, remove, cleanup | unwinding of a partial failure; gadget drivers that bind meanwhile | `DummySetup`; the platform suspend and resume of the UDC in `DummyLink` |
| Streams | dummy_hcd.c 1143-1238, 2517-2593 | four-bit stream counts | alloc, free, validate | bit-field selection | `DummySetup` |
| Gadget state manager | state_mgr.py | state of the gadget and the order of actions | bind, unbind, configure, transfer | stale state between its two threads | no |
| Coverage pipeline | fuzzer.go 306-428, manager.go 293-325, 980-989 | files, the fuzzer's and the manager's maps | load, send, update, dump | a reader that races the writer of a file | no |
| VM scheduling | manager.go 344-494, 735-777 | idle VMs, pending and running reproductions | boot, stop, reproduce | the balance of fuzzing and reproduction | no |
| Executor USB calls | common_usb.h | emulated device, descriptor indices, configfs tree | connect, control, disconnect, gadget set-up | a protocol of several steps, each of which may fail | no |
| Reports, feature detection, descriptions, targets, scripts, kernel and fuzzer configuration, the `c*_fz` binaries | | none or pure I/O | | | no |

How they interact: a USB host driver, of which usbtest is the one the fuzzer drives, submits URBs to the emulated host controller
(`dummy_urb_enqueue`); the hub worker of usbcore drives the root hubs (`dummy_hub_control`);
the gadget driver queues requests (`dummy_queue`).  All three share `dum->lock`.  The timer
function moves data between URBs and requests and calls completion handlers and the gadget
driver's `setup` with the lock released.  `set_link_state()` calls the driver's
`disconnect`, `reset`, `suspend` and `resume` the same way.  The syz-fuzzers in the VMs
share nothing but RPC calls to the syz-manager.

What makes each part correct, in short: the link never calls a driver that is gone and
reports every change; the engine never loses or overtakes an URB and gives each back once;
the transfer loop overruns nothing and ends each side as USB says; a test of usbtest
finishes with all of its URBs before it returns; the module is loaded completely or not at
all, and no gadget driver meets half a controller; the exchange loses no signal and no
program.

## 2. Modules

### DummyLink
State variables carry the names of the fields.  A thread (`HubThreads` for the hub worker,
`RhThreads` for the other hub's root hub polling and bus suspend, `TimerThreads`,
`FnThreads` for the gadget driver, `Udc` for the UDC core) has a `pc` that is "idle" or
names the point where it is in a callback or inside `nuke()`, that is, where it has released
the lock.  Everything between two such points is one step, because the code holds
`dum->lock`.  `set_link_state(t, h, p, next)` is one operator used by every handler that
calls it; it branches into the giveback loop, a driver event, a suspend or resume callback,
or straight to the caller's next point.  `dummy_queue()` is two steps because its checks
(line 706) precede the lock (line 715); `dummy_wakeup()` and `dummy_bus_suspend()` likewise.
Root hub requests of one usbcore are serialized, so that there is one hub worker.
Left out: the LOW and HIGH speed bits, LED and test features, endpoint enabling (in
`DummyUrb`).

### DummyUrb
`urbp_list` is a sequence, `cur` and `tmp` are the two cursors of
`list_for_each_entry_safe`, `tpc` is where the timer function is.  Host calls
(`dummy_urb_enqueue`, `dummy_urb_dequeue`, bus suspend and resume) and gadget calls
(`dummy_queue`, `dummy_dequeue`, `dummy_enable`, `dummy_disable`,
`dummy_set_halt_and_wedge`, link changes with their `nuke()`) happen whenever the lock is
free, that is while the timer function is idle or in a callback.  An iteration of the
function is `Scan*`, up to the call of `transfer()`, and `Xfer*`, what the iterations of
`transfer()` can do to the queue, the URB and the bandwidth; the bytes are `DummyTransfer`'s.
The link is reduced to whether URBs can be delivered (`link`) and whether there is a driver
and a gadget speed (`ready`): `dummy_queue()` and `dummy_enable()` test only the latter, which
outlives a suspend or a disconnect.  Stream ids (they are in `DummyTransfer`) and the periodic
bandwidth are left out.

### DummyTransfer
One call of `transfer()` with real numbers: `Skip` passes over a request of another stream,
`Move` is an iteration, `MoveFails` one whose scatter-gather list is too short,
`GivebackReturn` and `Dequeue` are what happens while a completion handler runs without the
lock.  `Want`, `Chunk`, `IsShort`, `Bytes`, `Remainder`, `ShortEnd` and `FullEnd` are the local
computations of the loop body.  Which stream a request has matters only in comparison with the
URB's, so that `same` is a flag; on an endpoint without streams all have it.  `Init` is what
earlier calls can leave behind: the first request of the URB's stream, and any of another
stream, may be transferred in part, and one that is full may still wait for its zero-length
packet.  `short` and `failed` are history: how the latest packet ended.

### CorpusSync
The manager's `corpus`, `corpusDB`, `candidates`, `phase`; the RPC server's `maxSignal`,
`corpusSignal` and its entries `fuzzers`; and for each VM the fuzzer's corpus, signal, work
queues, its poll in progress and its procs.  An RPC handler that holds `serv.mu` throughout
is one step; `Connect()` is two, because `fuzzerConnect()` runs before `serv.mu` is taken.
`poll()` is three (send, serve, apply), triage is split at its RPC call, and
`checkNewCallSignal()` is split where it trades its read lock for the write lock: `Run` takes
the difference to the known signal into `found`, and `MergeNew` merges this very difference,
whatever others have merged meanwhile (fuzzer.go:653-660).  The programs that minimization
executes go the same way (`TriageExec`, `MergeNew`).  `loadCorpus` deletes the records that
cannot be parsed (`Broken`) and makes candidates of the others.  A crash loses all of a VM and
the replies on their way to it; a Poll that was sent is lost or still served, before the VM is
up again, since booting one takes much longer than serving a call that has arrived.
`signal.Minimize`, outside the repository, is any choice of inputs that keeps the signal.
Left out: signal priorities, the hub (none is configured), leak checking, smashing as distinct
from fuzzing (both execute arbitrary programs), the order of equal items in a work queue.
`corpusDB` stands for the records of the database in memory: when `Flush()` fails, which is
only logged (manager.go:1037-1039), the file falls behind them.  A restart of the manager needs
no action: it keeps only the file, and `Init` allows every database.

### UrbBatch and UsbTest
`UrbBatch` is the abstract specification: a test owns a batch of URBs, submits and finishes
them, and ends only when none is busy.  `UsbTest` is usbtest.c: `tpc` is where the thread of
the ioctl is, `cpc` where the completion handler is (handlers run one at a time, in the
timer function of the emulated controller, on another CPU), `ctx` the context on the
thread's stack that both use, `flight` and `unlinked` the URBs at the controller, `cur` and
`cst` the URB being completed and its status.  The kinds of tests are `simple` (`simple_io`),
`sglist`, `ctrl` (`test_ctrl_queue`), `unlink1`, `queue` (`test_queue`), `unlink_queued` and
`ctr_fuzz` (`host_ctr_fuzz`); `KindOf` and `Supported` are the dispatch of
`usbtest_do_ioctl()`, and `fz_ioctl` the one FuzzUSB adds; several flags in one call of it
are several calls, since it runs their tests one after the other whatever they return.  A
critical section is a step.  `ctrl_complete()` is two steps, split at the resubmission: it
holds its lock throughout, but `test_ctrl_queue()` reads `pending` without it.  A handler ends
in a step of its own, `HandlerReturn`: `complete()` comes before it
(`complicated_callback()` calls it at line 2111 and releases the lock at 2114), so that the
waiting thread may return, and another test may start, while the handler is still on its way
out.  Only `usb_kill_urb()` waits for that step.  `ToCancel` is the loop of
`ctrl_complete()` that cancels the other URBs (lines 1300-1303): it leaves out the URB whose
index is the *number of the subcase*, that is, the URB's index modulo `NumSubcases` (16), so
that in a longer queue it can leave out one that is in flight.  `perform_sglist()` arms its
timer (`SglistArm`) before it submits (`SglistSubmit`), and the timer may fire in between.
Every test may fail to allocate (`AllocationFails`).  Unsigned counters wrap at `UMax`, which
matters when a fuzzing test asks for 0 iterations.  The controller gives back the oldest
URB, with any status, or a cancelled one; it need never give back an URB that is not
cancelled.  Left out: buffer contents and alignment, the tests made of synchronous control
transfers (ch9, ctrl_out, halt, toggle), what happens to a second test after one has
returned too early, the release of the lock at the end of a handler as a step of its own, what
freeing array elements that were never written does, `is_set_alt` of `fz_ioctl()` (it calls
`usb_set_interface()` and leaves the driver's pipes as they are), and the errors of
`usb_unlink_urb()` for which `unlink1()` gives up (lines 1634-1637): the emulated controller
returns none of them.

### DummySetup
`pc` is the step of `init()` (an allocation, a registration or a loop of additions), the
label it unwinds from, or `cleanup`; `i` is its loop index.  `dum` holds the pointers of
`init()`, which are not initialized before the allocation loop reaches them: "wild" or
"null".  `ptr` is what `struct dummy` points to, `alive` which HCDs exist, `udc` and
`gadget` what udc-core knows.  A probe fails or not without `platform_device_add()` telling,
which is what `CheckHcds` and `CheckUdcs` are for.  Gadget drivers bind and unbind at any
time.  Stream counts are the real table of nibbles: `usb_pipeendpoint` and `usb_pipeout`
select bits of a pipe, and the callers pass an endpoint number.  `granted` and `latest` are
history: what each endpoint was granted, and which endpoints the last grant was for.
`SetStreams` is the loop over the endpoints of a call as one function per byte; an `ASSUME`
of `MCDummySetup` has TLC compare it with the loop.  Endpoint numbers are 1 to 15, as
descriptors have them.

## 3. Runs

| Run | Instance | What it shows |
|---|---|---|
| link | USB 2 root hub; one hub worker, timer, function driver, UDC core; one endpoint, one request; 312,288 states | Port status legal, active only when up, callbacks counted and with a driver, every connection change reported, `dummy_udc_stop()` returns |
| link_two_hubs | both root hubs, hub worker, root hub thread, UDC core; 647,307 states | The same gadget is never active on a hub whose port is down |
| link_event | as link | **Violation** of `EventHasDriver` |
| urb | one control and one bulk URB, one request and the FIFO request, endpoint 0 and a bulk IN endpoint; 690,732 states | Cursors, frames, the `udev` reference, the timer, SETUP before data, one queue per request |
| urb_control | two control URBs, no bound on faults; 134,808 states | SETUP once per URB when two compete; a cancelled URB is given back |
| transfer | two requests, each of the URB's stream or another, lengths and limits up to 3, packets up to 2, one requeue; 1,912,910 states | Bounds, end conditions of both sides, order within a stream, termination |
| corpus | two VMs with one proc, one program whose executions show either of two elements of signal, batches of one; 290,051 states | Signal sharing in both directions, loading once, delivery of every input, those in a backlog included |
| corpus_db | one VM with two procs, two programs with overlapping signal, a disabled and a broken one; 2,753,616 states | Corpus signal, persistence, when the database may shrink |
| corpus_triage | two VMs, two programs, candidates sent four at a time | **Violation** of `DroppedAfterTriage` |
| usbtest | a bulk-only device and one with every kind of endpoint, all kinds of tests, up to four URBs, two iterations and three subcases; 183,986 states | The waiting tests implement `UrbBatch`; queues run every iteration; order errors are real; after an error nothing is submitted but the one URB that the cancel loop may leave out in a queue longer than the subcases; tests with a timeout end |
| usbtest_wait | up to three queued control requests | **Violation** of `WaitsForLast` |
| setup | `num` of 0, 1, 2 and 33, every failure; three endpoints that allow 16, 4 and 0 streams, requests for 2 and 16; 25,897 states | Loading is all or nothing, a UDC has its controllers, the latest grant of streams stays valid |

Bounds and why they are enough.  In `DummyLink` one endpoint with one request is enough for
the lock to be released at every place it can be; two hubs are all there are.  `FewChanges`
(run link_two_hubs) keeps at most one change bit pending and the root hubs running: the
property of that run concerns which hub owns the link, and suspend is in run link; the
theorem `ActiveLinksAreUp` needs neither restriction.  In `DummyUrb` two URBs give the
cursor a successor that can disappear or arrive, and two endpoints a second queue;
`FewFaults` limits how many things are wrong at once (cancelled URBs, halts, disabled
endpoints, a down link, a suspended hub) to two, and is a constraint of run urb only, which
checks no liveness.  In `DummyTransfer` lengths of 3 with packets of 1 and 2 cover less than
a packet, a packet, several and a remainder, and two requests one behind another, of one stream
or of two.  `Returns` holds for finitely many requeues (`MaxRequeue`): nothing in the code
bounds a completion handler that queues its request again each time its data could not be
copied.  In `CorpusSync` two fuzzers are sender and receiver.  In run corpus the executions of
the program show one element or the other, which makes two inputs; with batches of one
(`BatchSize` and `InitialBatch` 1) the second one waits in the backlog of the entry, and may
arrive there after the first batch has left.  `OneFinder` has executions in one VM only find
new signal, so that one VM sends and both receive; it cuts off no behaviour of the others, only
those in which the second VM finds something as well, and of these `InputsDelivered` says
nothing.  In run corpus_db two programs of which one
covers the other exercise minimization, and the procs of one fuzzer trade locks with each
other; `MinimizationFindsNothing` has the executions of minimization show nothing new there,
which run corpus and the theorems do without.  `BatchSize`, `InitialBatch` and `SplitSize`
stand for 8, 30 and 500 (`cfg/main.cfg` has 8 procs).  Run corpus_db is symmetric in its procs
and checks no liveness.  In `UsbTest` `unlink_queued()` needs four URBs; two iterations are a
resubmission and a last one.  A ring of three subcases is shorter than a queue of four URBs,
which stands for queues of more than 16: the fourth URB has the number of the first, and the
order and the cancel loop meet it.  A `UMax` of 16 is small enough to be wrapped to.
`CountFits` is the check with which both queues refuse what their counters cannot hold
(usbtest.c:1351 and 2191), and with it the product never wraps, whichever ioctl the parameters
come from.  In `DummySetup` two controllers are what it takes for one to exist when the next one fails; 0 and 33 are outside the limits; two
endpoints of one number and one of another cover sharing a byte and not sharing it.

Where the system may stop: `transfer()` ends, and all VMs may be down; those runs have
`CHECK_DEADLOCK FALSE`.  The link, URB, usbtest and set-up runs check deadlock.

Fairness.  `DummyLink`: callbacks return, `nuke()` goes on, and `dummy_udc_stop()` gets the
lock again after its sleep; nobody is obliged to call anything.  `DummyUrb`: an armed timer
fires and its function runs on.  A gadget driver that queues a request on endpoint 0 in
every completion can keep the stale-request path of the function busy for ever (line 1869),
so that `UnlinkedReturned` assumes finitely many queue calls.  `DummyTransfer`: the call
runs on.  `CorpusSync`: the ticker of `pollLoop()` fires and calls return; the procs need no
fairness, and crashes are allowed at any time.  `UsbTest`: threads, kernel timers and
completion handlers run, and a cancelled URB is given back (which is `UnlinkedReturned`,
while the root hub runs); a device may never answer, so that only tests with a timeout are
said to end.

Refinement.  `OwnsItsUrbs` is `UrbBatch!Spec` under `BatchPhase` (a waiting test is running)
and `BatchBusy` (URBs in flight, and the one whose handler has not yet called `complete()`).
It says that a test returns only when the handlers have counted all of its URBs, not that the
last handler has returned, which the code does not ensure (section 4).  It covers every kind
of test but the two control queues, whose early return is run usbtest_wait.

## 4. What the violations show

* link_event: `set_link_state()` calls `stop_activity()`, which releases the lock for each
  giveback, before it raises `callback_usage`.  `dummy_udc_stop()` may then see 0, clear
  `dum->driver` and return, and the disconnect or reset callback goes through the cleared
  pointer, although its comment promises to wait for callbacks.
* corpus_triage: the database is minimized once the candidates have been handed out, not
  once they are triaged; if the fuzzer that holds them crashes, programs are lost that were
  in the database before.
* usbtest_wait: `test_ctrl_queue()` looks at `pending` without the lock and does not wait if
  it is 0; with one URB left it is 0 while `ctrl_complete()` is about to submit that URB
  again.  `host_ctr_fuzz()` has the same comment and the same read.

The models contain more that no text of the repository rules out, so that no run is built on
it.  `dummy_queue()` (line 706) checks before it locks, so that a request can be added to an
endpoint that a reset has just emptied.  An input that reaches the manager between
`fuzzerConnect()` and `serv.mu.Lock()` (rpc.go:79) is not sent to the fuzzer that connects;
its signal is, later.  A failed allocation in `init()` with more than one controller frees
pointers that were never set (dummy_hcd.c:2846): `AllOrNothing` says that it does not happen
with one.  All endpoints share the upper nibble of `num_stream[0]`, because endpoint numbers
have none of the bits that select another one: `LatestGrantValid` holds only for the latest
grant.  `complicated_callback()` calls `complete()` (usbtest.c:2111) before it releases
`ctx->lock` (2114); `test_queue()` waits for the completion only (2265), and may return, its
context with it, before the handler has released the lock: the state `cpc = "return"` with
`tpc = "idle"`.  In a queue of more than 16 control requests the cancel loop of
`ctrl_complete()` leaves out the URB that has the index of the failing URB's subcase
(usbtest.c:1300-1303), which may complete and be resubmitted after the error:
`NothingAfterError` names this exception.  When an allocation of `test_queue()` fails, it
frees elements of `urbs[]` that it has not written (2214-2216, 2285-2289).

## 5. Proofs

All hold for every value of the constants that meets the assumptions of the module.

| Theorem | Statement | Argument |
|---|---|---|
| DummyLink_proofs!TypeCorrect, CallbacksCounted, CallbacksHaveDriver | `[]TypeOK`, `[]CallbackCount`, `[]CallbackHasDriver` | The invariant `IndInv` adds `StopProtocol`: callbacks are enabled only with a driver, and never again while `dummy_udc_stop()` quiesces.  The count is a cardinality, so each step is classified as entering a callback, leaving one, or neither (`Enters`, `Leaves`, `Passes`), and the count follows from the library's facts about finite sets.  `StopFinish` needs the count to be 0, hence no thread is inside a callback when the driver is cleared. |
| DummyLink_proofs!ActiveLinksAreUp, PortStatusIsLegal | `[]ActiveLinkIsUp` for one root hub or two, `[]PortStatusLegal` for the USB 2 hub alone | `LinkInv` adds that only the hub of the gadget's speed is active (`GadgetsLink`) and what each port may show (`PortsOK`): `set_link_state()` recomputes one hub, and the other one cannot be active.  With two hubs the status of the hub the gadget does not use is not recomputed, so that `PortStatusLegal` is about one. |
| DummyLink_proofs!ConnectChangesReported | `ConnectChangeReported`, for the USB 2 hub and one hub worker | `set_link_state()` compares with `old_status`, which is out of date while a callback runs.  `ConnInv` says when that matters: the connection follows power, pullup and suspend at once; with power, `old_status` is wrong about it only while the UDC thread is inside its own call; without power, nothing is remembered unless the hub worker is inside the call that switched it off (`InCall`).  So whoever can change the connection finds `old_status` right.  Two hub workers on one port would break it: one could switch the power on while the other is still in the callback of switching it off. |
| DummyUrb_proofs!CursorsAreListed, NextFrameIsAhead, UdevIsHeld, TimerIsArmed | `[]CursorListed`, `[]NextFrameAhead`, `[]UdevHeld`, `[]TimerArmed` | `ListInv`.  An URB leaves the list only at `return_urb`, which forgets both cursors; everything that happens while the lock is released appends.  So the invariant says where the cursors are (`tmp` is the URB behind `cur`), that URBs are listed once, and that `cur` has not passed `next_frame_urbp`; the rest is lemmas about positions in sequences without repetitions (`Appended`, `Removed`). |
| DummyUrbSetup_proofs!TypeCorrect, DataFollowsSetup, SetupHandledOnce, QueuesAreDisjoint | `[]TypeOK`, `[]DataAfterSetup`, `SetupOnce`, `[]OneQueue` | `UrbInv` is `ListInv` with `TypeRest`, `SetupInv` and `QueueInv`.  `SetupInv`: of the listed control URBs only the first can have been looked at (`LaterAreNew`), its SETUP was handled or is still due in `setup_stage` (`SetupKnown`, `StageFresh`), and a pass that is beyond it does not serve endpoint 0 again (`SeenAhead`).  That one `setup_stage` serves all URBs of the endpoint is what makes these parts necessary.  `QueueInv` adds that a request on its way through `dummy_queue()` is on no queue. |
| DummyTransfer_proofs!TransferInBounds, TransferUrbEnd, TransferReqEnd, TransferTypeCorrect | `[]InBounds`, `[]UrbEnd`, `[]ReqEnd`, `[]TypeOK` | `BytesFit`: an iteration moves at most the smaller of the room on both sides and the limit, and a remainder is smaller than its divisor.  `LoopStatus` (the loop runs only with the URB in progress) makes `UrbEnd` inductive, because an ended URB is never written again.  An overflow comes with a short packet that fills the URB or could not be copied, from a request with more data than that (`ShortEnd`).  A request ends when it is full or when its packet was the last of the URB. |
| DummyTransfer_proofs!TransferInOrder | `InOrder`, for requests of any streams | `OrderInv` is about the requests of the URB's stream: none is queued twice, none but the first may be transferred in part, and the loop is behind one of them (`Behind`) only with the limit used up and room in the URB (`BehindFresh`, `PassedOver`).  Then a request with data has no bandwidth, and an empty one ends the URB without moving anything (`SpentIteration`). |
| CorpusSync_proofs!CorpusKeepsSignal, CorpusIsPersisted | `[]CorpusSignalBacked`, `[]CorpusPersisted` | Only `minimizeCorpus` and `NewInput` change the corpus; minimization keeps the signal of the inputs it chooses and the database records of all of them, and an accepted input adds the same signal on both sides and is saved unless it is there.  `loadCorpus` deletes only what cannot be parsed, and no such program gets into the corpus (`CorpusParsable`, `CheckStep`). |
| CorpusSync_proofs!TypeCorrect, SignalReachesAll | `[]TypeOK`, `[]MaxSignalShared` | `SharedInv` adds `Polling`: a reply belongs to a connected fuzzer, and a call to one whose entry the server has, crashed or not.  Whatever leaves an entry is then in the reply on its way, and what leaves the reply is in the fuzzer.  For the other direction `ReportInv` adds that all the manager sends is its own (`SentInv`), and that what waits for triage or is triaged is part of what the fuzzer knows, but for the difference just found, which `MergeNew` collects for the next poll (`LocalInv`). |
| CorpusSync_proofs!CorpusLoadedOnce, DropsAfterHandout | `LoadedOnce`, `DroppedAfterHandout` | `PhaseInv`: the phase is the first one exactly as long as there is no check result, and candidates wait only in the second.  `minimizeCorpus` takes programs from the database only from the third on; what `loadCorpus` deletes cannot be parsed, which the property exempts. |
| UsbTest_proofs!ImplementsBatch, TypeCorrect | `Spec => OwnsItsUrbs`, `[]TypeOK` | `IInv`: by kind of test, what `pending` counts (`QueueCount`, `UnlinkQueuedCount`), that the other tests have at most one URB, and none between arming the timer and submitting (`SingleBusy`), where a test of each kind can be (`PcOf`), and that a test that has returned has nothing busy (`Returned`).  Each step then maps to a step of `UrbBatch` or to a stutter. |
| UsbTestQueue_proofs!QueuesRunAll, OrderErrors, NothingAfterErrors | `[]AllIterationsRun`, `[]OrderErrorIsReal`, `NothingAfterError` | `RunInv`.  For `test_queue()` (`QueueRun`) as long as nothing has failed all URBs are out or the count is what is pending.  For `test_ctrl_queue()` the URBs form a ring (`Ring`): the k-th at the controller is the k-th behind the one being completed, so that `last` is always the number before it, modulo the ring of subcases; `CtrlSubmitting` and `CtrlRunning` count them before and after the thread has submitted all, and after an error the count is cut or all are cancelled but one of `Missed`, the URBs that the cancel loop can leave out in a queue longer than the ring (`CtrlFailed`). |
| DummySetup_proofs!ControllersUnderUdcs, LoadsAllOrNothing | `[]GadgetHasController`, `[]AllOrNothing` | For each step of `init()`, of its unwinding and of `cleanup()`, which devices have which of platform device, memory, HCDs and UDC, by comparison of their number with the loop index (`DevicesInv`, `MemoryInv`, `ControllersInv`, `UdcsInv`). |
| DummySetup_proofs!TypeCorrect, GrantsStayValid | `[]TypeOK`, `[]LatestGrantValid` | `StreamsInv`: the endpoints of the latest grant are enabled, and none was granted more than the nibble says.  It is one nibble for all (`PipeOf`), a call stores the same number for each of its endpoints (`SetStreamsIs`), and that number is at most what each allows (`MinIs`). |

Assumptions: the named `ASSUME`s of the modules (finite thread sets with one UDC thread,
positive packet sizes and batches, a finite set of programs and typed `Shows`, a `NULL` that
is not an URB or an entry, endpoint numbers from 1 to 15 and a bound on stream counts that
fits a nibble).  In
CorpusSync_proofs the only fact about `signal.Minimize` is that it keeps the signal.  Nothing
else is assumed.

Model-checked only: liveness, which TLAPS has no fairness reasoning for (`UdcStopReturns`,
`UnlinkedReturned`, `Returns`, `InputsDelivered`, `TimedTestReturns`).  Every other property
of a passing run is proved.  Two of the theorems are about less than the model has:
`PortStatusIsLegal` and `ConnectChangesReported` about the USB 2 root hub alone, as the run
that checks them.  `AllOrNothing` covers a failed allocation with one controller only, see
section 4.

## 6. Not modelled, and what is left to do

* The gadget state manager: `c1_mutate()` walks the gadget up and down with a binary that is
  in the repository without source, and sets the global `state` afterwards; `loop()` reads
  `state` before and after its sleep, and overwrites it a second after it has chosen a
  transition.  The two threads interleave, so that `state` may differ from the gadget until
  the walk's next step.  A module `StateMgr` would have both threads, the transition table
  of `load_fsm()` and the two coverage sets, with the binary as an external action.
* The executor's USB calls: `cfg/main.cfg` enables `syz_usb_idle` only, so that none of them
  is made in the shipped configuration.  Of interest if they are: a file descriptor that is
  closed and opened again finds the index of the earlier device (`lookup_usb_index()`), and
  the teardown of "hid2" removes another configuration than its set-up makes.
* The coverage pipeline (files written by a collector outside the repository) and
  `vmLoop()`: `Kcov` and `VmLoop`, after the state manager.
* The tests of usbtest that keep no URB in flight, the descriptor checks of
  `dummy_enable()`, LOW and HIGH speed port bits, sysfs attributes, signal priorities, the
  hub and leak checking.
* Descriptions, targets, report parsing, feature detection, scripts: declarative data,
  regular expressions over text, or pure I/O.
* Proofs: the `Xfer*` steps of `DummyUrb` as an abstraction of `DummyTransfer`'s iterations,
  and `ActiveLinksAreUp` and the connect changes with both root hubs.

## 7. Running

    tlc -workers 2 -config MCDummyLink.cfg MCDummyLink     # likewise for the other .cfg files
    tlapm DummyLink_proofs.tla                             # and the other *_proofs modules

The operators named `X_Something` above an `X` ("Broken variant") are plausible mistakes in
the code that `X` translates; with one in the place of `X` the property it is listed with in
`PROJECT.json` fails, which shows that the property depends on that code.
