------------------------------- MODULE DummyUrb -------------------------------
(***************************************************************************)
(* The transfer engine of dummy_hcd.c: the list of URBs the host has       *)
(* submitted, the timer that serves it once per frame, and the request     *)
(* queues of the gadget's endpoints.                                       *)
(*                                                                         *)
(* dummy_timer() holds dum->lock except while it calls out: its pc is      *)
(*   "idle"   no timer function is running                                 *)
(*   "fired"  the function has begun and waits for the lock                *)
(*   "scan"   lock held, at the head of the loop over urbp_list            *)
(*   "xfer"   lock held, at the head of the loop of transfer()             *)
(*   "stale"  lock released, giving back a request left on endpoint 0      *)
(*   "setup"  lock released, inside driver->setup()                        *)
(*   "req"    lock released, transfer() giving back a request              *)
(*   "urb"    lock released, giving back an URB                            *)
(* so that every other operation that takes the lock requires ~Locked.     *)
(* How many bytes an iteration of transfer() moves is left open, and one   *)
(* unit of bandwidth stands for the bytes of one iteration.                *)
(***************************************************************************)
EXTENDS Integers, Sequences, FiniteSets, SequencesExt

CONSTANTS
    Urbs,           \* the URBs of the host's drivers
    Reqs,           \* the requests of the gadget driver
    Fifo,           \* dum->fifo_req, a request of the emulator's own
    DataEps,        \* endpoint numbers, without endpoint 0
    InEps,          \* the data endpoints whose direction is IN
    EpOf,           \* [Urbs -> Eps], from urb->pipe
    FrameUnits,     \* bandwidth of one frame
    NULL

Eps == {0} \cup DataEps
AllReqs == Reqs \cup {Fifo}

ASSUME EpsAssumption == DataEps \subseteq Nat \ {0} /\ InEps \subseteq DataEps
ASSUME EpOfAssumption == EpOf \in [Urbs -> Eps]
ASSUME NullAssumption == NULL \notin Urbs /\ Fifo \notin Reqs
ASSUME UnitsAssumption == FrameUnits \in Nat \ {0}

VARIABLES
    urbp_list, next_frame_urbp,
    udev,           \* whether dum_hcd->udev is set
    pending,        \* whether dum_hcd->timer is pending
    rh_running,     \* rh_state = DUMMY_RH_RUNNING
    unlinked,       \* the URBs with urb->unlinked set
    new,            \* the URBs with urb->error_count set: SETUP not yet seen
    link,           \* is_active() and ints_enabled
    ready,          \* there is a driver, and is_enabled(): also while the port is suspended
    enabled,        \* the data endpoints with a descriptor
    halted, wedged, already_seen,
    setup_stage,    \* of endpoint 0
    queue,          \* [Eps -> sequence of requests]
    adding,         \* what dummy_queue() has checked but not added: {} or {<<ep, req>>}
    nuking,         \* endpoints that a nuke() in progress has still to empty
    tpc, cur, tmp,  \* dummy_timer(): control point, urbp and tmp of its loop,
    total, limit,   \*   bandwidth left, and the limit given to transfer()
    finished,       \*   whether transfer() has set *status
    did_setup       \* history: the listed URBs whose SETUP was handled

hostvars == <<urbp_list, next_frame_urbp, udev, pending, rh_running, unlinked, new>>
epvars   == <<halted, wedged, already_seen, setup_stage>>
gadgvars == <<link, ready, enabled, adding, nuking>>
timervars == <<tpc, cur, tmp, total, limit, finished>>
vars == <<hostvars, epvars, gadgvars, queue, timervars, did_setup>>

Listed == Range(urbp_list)
Queued == UNION {Range(queue[e]) : e \in Eps}
Locked == tpc \in {"scan", "xfer"}

TypeOK ==
    /\ urbp_list \in Seq(Urbs)
    /\ next_frame_urbp \in Urbs \cup {NULL}
    /\ udev \in BOOLEAN /\ pending \in BOOLEAN /\ rh_running \in BOOLEAN
    /\ unlinked \subseteq Urbs /\ new \subseteq Urbs
    /\ link \in BOOLEAN /\ ready \in BOOLEAN
    /\ enabled \subseteq DataEps
    /\ halted \subseteq Eps /\ wedged \subseteq DataEps /\ already_seen \subseteq Eps
    /\ setup_stage \in BOOLEAN
    /\ queue \in [Eps -> Seq(AllReqs)]
    /\ adding \subseteq Eps \X Reqs
    /\ nuking \subseteq Eps
    /\ tpc \in {"idle", "fired", "scan", "xfer", "stale", "setup", "req", "urb"}
    /\ cur \in Urbs \cup {NULL} /\ tmp \in Urbs \cup {NULL}
    /\ total \in Int /\ limit \in Nat
    /\ finished \in BOOLEAN
    /\ did_setup \subseteq Urbs

Init ==
    /\ urbp_list = <<>> /\ next_frame_urbp = NULL
    /\ udev = FALSE /\ pending = FALSE /\ rh_running = TRUE
    /\ unlinked = {} /\ new = {}
    /\ link = TRUE /\ ready = TRUE /\ enabled = DataEps
    /\ halted = {} /\ wedged = {} /\ already_seen = {} /\ setup_stage = FALSE
    /\ queue = [e \in Eps |-> <<>>]
    /\ adding = {} /\ nuking = {}
    /\ tpc = "idle" /\ cur = NULL /\ tmp = NULL
    /\ total = 0 /\ limit = 0 /\ finished = FALSE
    /\ did_setup = {}
-----------------------------------------------------------------------------
(* Host side: URB submission and cancellation, root hub suspend.           *)

\* Broken variant of dummy_urb_enqueue: list_add() instead of list_add_tail().
dummy_urb_enqueue_AtHead(u) ==
    /\ ~Locked /\ u \notin Listed
    /\ urbp_list' = <<u>> \o urbp_list
    /\ udev' = TRUE
    /\ next_frame_urbp' = IF next_frame_urbp = NULL THEN u ELSE next_frame_urbp
    /\ new' = IF EpOf[u] = 0 THEN new \cup {u} ELSE new
    /\ unlinked' = unlinked \ {u}
    /\ pending' = TRUE
    /\ UNCHANGED <<rh_running, epvars, gadgvars, queue, timervars, did_setup>>

dummy_urb_enqueue(u) ==
    /\ ~Locked /\ u \notin Listed
    /\ urbp_list' = Append(urbp_list, u)
    /\ udev' = TRUE
    /\ next_frame_urbp' = IF next_frame_urbp = NULL THEN u ELSE next_frame_urbp
    /\ new' = IF EpOf[u] = 0 THEN new \cup {u} ELSE new
    /\ unlinked' = unlinked \ {u}
    /\ pending' = TRUE
    /\ UNCHANGED <<rh_running, epvars, gadgvars, queue, timervars, did_setup>>

\* Broken variant of dummy_urb_dequeue: the URB leaves the list at once.
dummy_urb_dequeue_AtOnce(u) ==
    /\ ~Locked /\ u \in Listed
    /\ urbp_list' = SelectSeq(urbp_list, LAMBDA v : v # u)
    /\ UNCHANGED <<next_frame_urbp, udev, pending, rh_running, unlinked, new, epvars, gadgvars,
                   queue, timervars, did_setup>>

dummy_urb_dequeue(u) ==
    /\ ~Locked /\ u \in Listed \ unlinked
    /\ unlinked' = unlinked \cup {u}
    /\ pending' = (pending \/ ~rh_running)
    /\ UNCHANGED <<urbp_list, next_frame_urbp, udev, rh_running, new, epvars, gadgvars,
                   queue, timervars, did_setup>>

dummy_bus_suspend ==
    /\ ~Locked /\ rh_running
    /\ rh_running' = FALSE
    /\ UNCHANGED <<urbp_list, next_frame_urbp, udev, pending, unlinked, new, epvars,
                   gadgvars, queue, timervars, did_setup>>

\* Broken variant of dummy_bus_resume: the timer is not armed.
dummy_bus_resume_NoTimer ==
    /\ ~Locked /\ ~rh_running
    /\ rh_running' = TRUE
    /\ UNCHANGED <<urbp_list, next_frame_urbp, udev, pending, unlinked, new, epvars,
                   gadgvars, queue, timervars, did_setup>>

dummy_bus_resume ==
    /\ ~Locked /\ ~rh_running
    /\ rh_running' = TRUE
    /\ pending' = (pending \/ urbp_list # <<>>)
    /\ UNCHANGED <<urbp_list, next_frame_urbp, udev, unlinked, new, epvars,
                   gadgvars, queue, timervars, did_setup>>
-----------------------------------------------------------------------------
(* Gadget side: the link, endpoints and requests.                          *)

\* nuke() of the endpoints in S, up to the next release of the lock.
Nuke(S) ==
    LET busy == {e \in S : queue[e] # <<>>}
    IN  \/ busy = {} /\ nuking' = {} /\ UNCHANGED queue
        \/ \E e \in busy :
              /\ \A i \in busy : e <= i
              /\ queue' = [queue EXCEPT ![e] = Tail(@)]
              /\ nuking' = {i \in S : e <= i}

\* The link goes down; a reset, a power-off and dummy_udc_stop() also stop all activity.
\* A suspended port stays enabled, and dummy_udc_stop() keeps the driver to its end.
LinkDown ==
    /\ ~Locked /\ link /\ nuking = {}
    /\ link' = FALSE /\ ready' \in BOOLEAN
    /\ \/ Nuke(Eps)
       \/ UNCHANGED <<nuking, queue>>
    /\ UNCHANGED <<hostvars, epvars, enabled, adding, timervars, did_setup>>

LinkUp ==
    /\ ~Locked /\ ~link
    /\ link' = TRUE /\ ready' = TRUE
    /\ UNCHANGED <<hostvars, epvars, enabled, adding, nuking, queue, timervars, did_setup>>

\* The driver leaves or the port is disabled while the link is down, or the reverse.
ReadyChange ==
    /\ ~Locked /\ ~link
    /\ ready' = ~ready
    /\ UNCHANGED <<hostvars, epvars, link, enabled, adding, nuking, queue, timervars, did_setup>>

NukeResume ==
    /\ ~Locked /\ nuking # {}
    /\ Nuke(nuking)
    /\ UNCHANGED <<hostvars, epvars, link, ready, enabled, adding, timervars, did_setup>>

\* dummy_enable() takes no lock.
dummy_enable(e) ==
    /\ e \notin enabled /\ ready
    /\ enabled' = enabled \cup {e}
    /\ halted' = halted \ {e} /\ wedged' = wedged \ {e}
    /\ UNCHANGED <<hostvars, already_seen, setup_stage, link, ready, adding, nuking, queue,
                   timervars, did_setup>>

dummy_disable(e) ==
    /\ ~Locked /\ e \in enabled /\ nuking = {}
    /\ enabled' = enabled \ {e}
    /\ Nuke({e})
    /\ UNCHANGED <<hostvars, epvars, link, ready, adding, timervars, did_setup>>

\* The checks of dummy_queue() are made before the lock is taken.
dummy_queue(e, r) ==
    /\ adding = {} /\ r \notin Queued
    /\ e \in enabled \cup {0} /\ ready
    /\ adding' = {<<e, r>>}
    /\ UNCHANGED <<hostvars, epvars, link, ready, enabled, nuking, queue, timervars, did_setup>>

\* Broken variant of FifoFree: the FIFO is not checked to be free.
FifoFree_Unchecked(e) == TRUE

\* "implement an emulated single-request FIFO": a short request of an idle IN endpoint
\* is completed at once and the emulator's own request takes its place.
FifoFree(e) == Fifo \notin Queued /\ queue[e] = <<>>

QueueAdd ==
    \E a \in adding :
        /\ ~Locked
        /\ \/ queue' = [queue EXCEPT ![a[1]] = Append(@, a[2])]
           \/ /\ a[1] \in InEps \cap enabled /\ FifoFree(a[1])
              /\ queue' = [queue EXCEPT ![a[1]] = Append(@, Fifo)]
        /\ adding' = {}
        /\ UNCHANGED <<hostvars, epvars, link, ready, enabled, nuking, timervars, did_setup>>

dummy_dequeue(e, r) ==
    /\ ~Locked
    /\ \E k \in DOMAIN queue[e] :
          queue[e][k] = r /\ queue' = [queue EXCEPT ![e] = RemoveAt(@, k)]
    /\ UNCHANGED <<hostvars, epvars, gadgvars, timervars, did_setup>>

\* dummy_set_halt() and dummy_set_wedge() take no lock.
dummy_set_halt_and_wedge(e, value, wedge) ==
    /\ \/ ~value /\ halted' = halted \ {e} /\ wedged' = wedged \ {e}
       \/ /\ value
          /\ ~(e \in InEps \cap enabled /\ queue[e] # <<>>)
          /\ halted' = halted \cup {e}
          /\ wedged' = IF wedge THEN wedged \cup {e} ELSE wedged
    /\ UNCHANGED <<hostvars, already_seen, setup_stage, gadgvars, queue, timervars, did_setup>>
-----------------------------------------------------------------------------
(* dummy_timer().                                                          *)

Pos(u) == CHOOSE i \in 1 .. Len(urbp_list) : urbp_list[i] = u
Succ(u) == IF Pos(u) = Len(urbp_list) THEN NULL ELSE urbp_list[Pos(u) + 1]

\* find_endpoint()
find_endpoint(e) == link /\ (e = 0 \/ e \in enabled)

\* The "restart" label: the loop begins again at the head of the list.
Restart ==
    /\ cur' = IF urbp_list = <<>> THEN NULL ELSE Head(urbp_list)
    /\ tmp' = NULL
    /\ tpc' = "scan"

\* The kernel starts the timer function: the timer is no longer pending.
TimerFire ==
    /\ tpc = "idle" /\ pending
    /\ pending' = FALSE
    /\ tpc' = "fired"
    /\ UNCHANGED <<urbp_list, next_frame_urbp, udev, rh_running, unlinked, new, epvars,
                   gadgvars, queue, cur, tmp, total, limit, finished, did_setup>>

TimerBegin ==
    /\ tpc = "fired" /\ udev
    /\ next_frame_urbp' = NULL
    /\ already_seen' = {}
    /\ total' = FrameUnits
    /\ Restart
    /\ UNCHANGED <<urbp_list, udev, pending, rh_running, unlinked, new, halted, wedged,
                   setup_stage, gadgvars, queue, limit, finished, did_setup>>

\* "timer fired with no URBs pending?"
TimerNoUrbs ==
    /\ tpc = "fired" /\ ~udev
    /\ tpc' = "idle"
    /\ UNCHANGED <<hostvars, epvars, gadgvars, queue, cur, tmp, total, limit, finished, did_setup>>

\* Broken variants of TimerEnd: udev is not released, or the timer is not armed again.
TimerEnd_KeepsUdev ==
    /\ tpc = "scan" /\ cur \in {NULL, next_frame_urbp}
    /\ pending' = (pending \/ (urbp_list # <<>> /\ rh_running))
    /\ tpc' = "idle" /\ cur' = NULL /\ tmp' = NULL
    /\ total' = 0 /\ limit' = 0 /\ finished' = FALSE
    /\ UNCHANGED <<urbp_list, next_frame_urbp, udev, rh_running, unlinked, new, epvars,
                   gadgvars, queue, did_setup>>
TimerEnd_NoRearm ==
    /\ tpc = "scan" /\ cur \in {NULL, next_frame_urbp}
    /\ udev' = (urbp_list # <<>>)
    /\ tpc' = "idle" /\ cur' = NULL /\ tmp' = NULL
    /\ total' = 0 /\ limit' = 0 /\ finished' = FALSE
    /\ UNCHANGED <<urbp_list, next_frame_urbp, pending, rh_running, unlinked, new, epvars,
                   gadgvars, queue, did_setup>>

\* The loop has reached its end, or the URBs queued after the timer interrupt.
TimerEnd ==
    /\ tpc = "scan" /\ cur \in {NULL, next_frame_urbp}
    /\ udev' = (urbp_list # <<>>)
    /\ pending' = (pending \/ (urbp_list # <<>> /\ rh_running))
    /\ tpc' = "idle" /\ cur' = NULL /\ tmp' = NULL
    /\ total' = 0 /\ limit' = 0 /\ finished' = FALSE
    /\ UNCHANGED <<urbp_list, next_frame_urbp, rh_running, unlinked, new, epvars, gadgvars,
                   queue, did_setup>>

\* The label return_urb: cur leaves the list, with the flags of the endpoints in es (the
\* one that was found, if any) reset, and is given back with the lock released.
return_urb(es) ==
    /\ urbp_list' = RemoveAt(urbp_list, Pos(cur))
    /\ unlinked' = unlinked \ {cur} /\ new' = new \ {cur} /\ did_setup' = did_setup \ {cur}
    /\ already_seen' = already_seen \ es
    /\ tpc' = "urb" /\ cur' = NULL /\ tmp' = NULL /\ limit' = 0 /\ finished' = FALSE
    /\ UNCHANGED <<next_frame_urbp, udev, pending, rh_running, gadgvars>>

\* The loop body is at URB cur, which may be served in this frame.
AtUrb == tpc = "scan" /\ cur \notin {NULL, next_frame_urbp}
InFrame == AtUrb /\ cur \notin unlinked /\ rh_running /\ total > 0
Served == InFrame /\ find_endpoint(EpOf[cur]) /\ EpOf[cur] \notin already_seen

ScanUnlinked ==
    /\ AtUrb /\ cur \in unlinked
    /\ return_urb({})
    /\ UNCHANGED <<halted, wedged, setup_stage, queue, total>>

ScanNoEp ==
    /\ InFrame /\ ~find_endpoint(EpOf[cur])
    /\ return_urb({})
    /\ UNCHANGED <<halted, wedged, setup_stage, queue, total>>

ScanSkip ==
    /\ AtUrb /\ cur \notin unlinked
    /\ \/ ~rh_running
       \/ total <= 0
       \/ find_endpoint(EpOf[cur]) /\ EpOf[cur] \in already_seen
    /\ cur' = Succ(cur)
    /\ UNCHANGED <<hostvars, epvars, gadgvars, queue, tpc, tmp, total, limit, finished, did_setup>>

\* Broken variant of SetupStage: a new URB is not noticed.
SetupStage_IgnoresNew == EpOf[cur] = 0 /\ setup_stage

\* setup_stage after "a new urb" was noticed on endpoint 0
SetupStage == EpOf[cur] = 0 /\ (setup_stage \/ cur \in new)

ScanHalted ==
    /\ Served /\ EpOf[cur] \in halted /\ ~SetupStage
    /\ return_urb({EpOf[cur]})
    /\ setup_stage' = (setup_stage /\ EpOf[cur] # 0)
    /\ UNCHANGED <<halted, wedged, queue, total>>

\* "paranoia, in case of stale queued data"
ScanStale ==
    /\ Served /\ SetupStage /\ queue[0] # <<>>
    /\ setup_stage' = TRUE /\ new' = new \ {cur}
    /\ already_seen' = already_seen \cup {0}
    /\ queue' = [queue EXCEPT ![0] = Tail(@)]
    /\ tpc' = "stale" /\ cur' = NULL
    /\ UNCHANGED <<urbp_list, next_frame_urbp, udev, pending, rh_running, unlinked, halted,
                   wedged, gadgvars, tmp, total, limit, finished, did_setup>>

StaleReturn ==
    /\ tpc = "stale"
    /\ already_seen' = already_seen \ {0}
    /\ Restart
    /\ UNCHANGED <<hostvars, halted, wedged, setup_stage, gadgvars, queue, total, limit,
                   finished, did_setup>>

\* The effect of the standard requests on endpoint halts, of which endpoint 0 was cleared.
SetHalt(e)   == halted' = (halted \ {0}) \cup {e}
ClearHalt(e) == halted' = IF e \in wedged THEN halted \ {0} ELSE halted \ {0, e}

\* handle_control_request() returns 0 or an error: the URB is finished.
handle_control_request ==
    /\ Served /\ SetupStage /\ queue[0] = <<>>
    /\ \/ halted' = halted \ {0}
       \/ \E e \in enabled : SetHalt(e)
       \/ \E e \in enabled \cup {0} : ClearHalt(e)
    /\ setup_stage' = FALSE
    /\ return_urb({0})
    /\ UNCHANGED <<wedged, queue, total>>

\* Broken variant of ScanSetup: the URB stays marked as new.
ScanSetup_KeepsNew ==
    /\ Served /\ SetupStage /\ queue[0] = <<>>
    /\ halted' = halted \ {0}
    /\ setup_stage' = FALSE
    /\ already_seen' = already_seen \cup {0}
    /\ did_setup' = did_setup \cup {cur}
    /\ tmp' = Succ(cur)
    /\ tpc' = "setup"
    /\ UNCHANGED <<hostvars, wedged, gadgvars, queue, cur, total, limit, finished>>

\* ... and all other requests are for driver->setup().
ScanSetup ==
    /\ Served /\ SetupStage /\ queue[0] = <<>>
    /\ halted' = halted \ {0}
    /\ setup_stage' = FALSE /\ new' = new \ {cur}
    /\ already_seen' = already_seen \cup {0}
    /\ did_setup' = did_setup \cup {cur}
    /\ tmp' = Succ(cur)
    /\ tpc' = "setup"
    /\ UNCHANGED <<urbp_list, next_frame_urbp, udev, pending, rh_running, unlinked, wedged,
                   gadgvars, queue, cur, total, limit, finished>>

SetupReturn ==
    /\ tpc = "setup"
    /\ tpc' = "xfer" /\ limit' = FrameUnits
    /\ UNCHANGED <<hostvars, epvars, gadgvars, queue, cur, tmp, total, finished, did_setup>>

SetupStall ==
    /\ tpc = "setup"
    /\ return_urb({0})
    /\ setup_stage' = FALSE
    /\ UNCHANGED <<halted, wedged, queue, total>>

ScanData ==
    /\ Served /\ ~SetupStage /\ EpOf[cur] \notin halted
    /\ already_seen' = already_seen \cup {EpOf[cur]}
    /\ limit' \in {total, FrameUnits}   \* a periodic endpoint may exceed the total
    /\ tmp' = Succ(cur)
    /\ tpc' = "xfer"
    /\ UNCHANGED <<hostvars, halted, wedged, setup_stage, gadgvars, queue, cur, total,
                   finished, did_setup>>
-----------------------------------------------------------------------------
(* transfer(), one iteration at a time.                                    *)

\* transfer() returns with the URB unfinished, and the loop goes on with tmp.
Continue ==
    /\ tpc' = "scan" /\ cur' = tmp /\ tmp' = NULL /\ limit' = 0
    /\ UNCHANGED <<hostvars, epvars, gadgvars, finished, did_setup>>

\* "the device is NAKing", or the bandwidth left is too little for a packet.
XferNak ==
    /\ tpc = "xfer"
    /\ queue[EpOf[cur]] = <<>> \/ limit < FrameUnits
    /\ Continue
    /\ UNCHANGED <<queue, total>>

\* The i-th request is finished (and, if urbdone, so is the URB).
XferRequestDone(i, used, urbdone) ==
    /\ queue' = [queue EXCEPT ![EpOf[cur]] = RemoveAt(@, i)]
    /\ total' = total - used /\ limit' = limit - used
    /\ finished' = urbdone
    /\ tpc' = "req"
    /\ UNCHANGED <<hostvars, epvars, gadgvars, cur, tmp, did_setup>>

\* Broken variant of XferShort: the bandwidth is not checked.
XferShort_NoLimit ==
    /\ tpc = "xfer" /\ queue[EpOf[cur]] # <<>>
    /\ \E used \in 0 .. 1 : XferRequestDone(1, used, TRUE)

\* A short packet (maybe of length zero) ends both sides.
XferShort ==
    /\ tpc = "xfer" /\ queue[EpOf[cur]] # <<>>
    /\ \E used \in 0 .. 1 : used <= limit /\ XferRequestDone(1, used, TRUE)

\* Whole packets fill the request, and perhaps the URB too.
XferRequestFull ==
    /\ tpc = "xfer" /\ queue[EpOf[cur]] # <<>> /\ limit > 0
    /\ \E urbdone \in BOOLEAN : XferRequestDone(1, 1, urbdone)

\* Whole packets fill the URB only.
XferUrbFull ==
    /\ tpc = "xfer" /\ queue[EpOf[cur]] # <<>> /\ limit > 0
    /\ total' = total - 1
    /\ return_urb({EpOf[cur]})
    /\ setup_stage' = (setup_stage /\ EpOf[cur] # 0)
    /\ UNCHANGED <<halted, wedged, queue>>

\* Whole packets fill neither: a remainder follows after a rescan, or ...
XferRescan ==
    /\ tpc = "xfer" /\ queue[EpOf[cur]] # <<>> /\ limit > 0
    /\ total' = total - 1 /\ limit' = limit - 1
    /\ UNCHANGED <<hostvars, epvars, gadgvars, queue, tpc, cur, tmp, finished, did_setup>>

\* ... the bandwidth is used up, and the loop looks at the request behind: it ends there,
\* unless that request has length zero.
XferExhausted ==
    /\ tpc = "xfer" /\ limit > 0
    /\ \/ /\ queue[EpOf[cur]] # <<>>
          /\ total' = total - limit
          /\ Continue
          /\ UNCHANGED queue
       \/ Len(queue[EpOf[cur]]) > 1 /\ XferRequestDone(2, limit, TRUE)

\* A request was given back by transfer().
ReqReturn ==
    /\ tpc = "req" /\ ~finished
    /\ tpc' = "xfer"
    /\ UNCHANGED <<hostvars, epvars, gadgvars, queue, cur, tmp, total, limit, finished, did_setup>>

ReqReturnDone ==
    /\ tpc = "req" /\ finished
    /\ return_urb({EpOf[cur]})
    /\ setup_stage' = (setup_stage /\ EpOf[cur] # 0)
    /\ UNCHANGED <<halted, wedged, queue, total>>

UrbReturn ==
    /\ tpc = "urb"
    /\ Restart
    /\ UNCHANGED <<hostvars, epvars, gadgvars, queue, total, limit, finished, did_setup>>
-----------------------------------------------------------------------------
Scan == \/ ScanUnlinked \/ ScanNoEp \/ ScanSkip \/ ScanHalted \/ ScanStale
        \/ handle_control_request \/ ScanSetup \/ ScanData
Xfer == \/ XferNak \/ XferShort \/ XferRequestFull \/ XferUrbFull \/ XferRescan
        \/ XferExhausted
TimerStep ==
    \/ TimerFire \/ TimerBegin \/ TimerNoUrbs \/ TimerEnd
    \/ Scan \/ Xfer
    \/ StaleReturn \/ SetupReturn \/ SetupStall \/ ReqReturn \/ ReqReturnDone \/ UrbReturn

HostStep ==
    \/ \E u \in Urbs : dummy_urb_enqueue(u) \/ dummy_urb_dequeue(u)
    \/ dummy_bus_suspend
    \/ dummy_bus_resume

GadgetStep ==
    \/ LinkDown \/ LinkUp \/ ReadyChange \/ NukeResume
    \/ \E e \in DataEps : dummy_enable(e) \/ dummy_disable(e)
    \/ \E e \in Eps, r \in Reqs : dummy_queue(e, r) \/ dummy_dequeue(e, r)
    \/ QueueAdd
    \/ \E e \in Eps, v \in BOOLEAN : dummy_set_halt_and_wedge(e, v, FALSE)
    \/ \E e \in DataEps : dummy_set_halt_and_wedge(e, TRUE, TRUE)

Next == TimerStep \/ HostStep \/ GadgetStep

Spec == Init /\ [][Next]_vars

\* The kernel runs a pending timer, and the callbacks it calls return.
Fairness == WF_vars(TimerStep)

FairSpec == Spec /\ Fairness
-----------------------------------------------------------------------------
(* Properties.                                                             *)

\* The loop of dummy_timer() never stands on, or keeps in tmp, an URB that has left the
\* list (and whose urbp was freed), although the lock is released inside the loop body.
CursorListed ==
    /\ cur # NULL => cur \in Listed
    /\ tmp # NULL => tmp \in Listed

\* next_frame_urbp, when set, is on the list, and the URB being served was queued before it:
\* what is submitted while a frame runs is left for the next frame.
NextFrameAhead ==
    next_frame_urbp # NULL =>
        /\ next_frame_urbp \in Listed
        /\ tpc \in {"setup", "xfer", "req"} => Pos(cur) < Pos(next_frame_urbp)

\* The reference to the usb_device is held exactly while URBs are listed; only a timer
\* function in progress may hold it longer.
UdevHeld ==
    /\ urbp_list # <<>> => udev
    /\ tpc \in {"idle", "fired"} => (udev <=> urbp_list # <<>>)

\* While the root hub runs, listed URBs always have a timer to serve them: it is pending,
\* or its function is running and will arm it again.
TimerArmed == urbp_list # <<>> /\ rh_running => pending \/ tpc # "idle"

\* The data stage of a control URB is reached only after its SETUP was handled, ...
DataAfterSetup == tpc \in {"setup", "xfer", "req"} /\ EpOf[cur] = 0 => cur \in did_setup

\* ... and the SETUP of a control URB is handled once, however often the loop restarts,
\* the lock is released or the link goes down in between.
SetupOnce == [][ScanSetup \/ handle_control_request => cur \notin did_setup]_vars

\* A request, the FIFO request included, is on one endpoint queue at most, and once.
OneQueue ==
    /\ \A e \in Eps : \A i, j \in DOMAIN queue[e] : queue[e][i] = queue[e][j] => i = j
    /\ \A d, e \in Eps : d # e => Range(queue[d]) \cap Range(queue[e]) = {}

\* A cancelled URB is given back, or the root hub is suspended first - provided that the
\* gadget driver does not go on queueing requests for ever: one that queues its request on
\* endpoint 0 again whenever it is given back as stale keeps dummy_timer() in its loop.
QueuesFinitelyOften == <>[][\A e \in Eps, r \in Reqs : ~dummy_queue(e, r)]_vars
UnlinkedReturned ==
    QueuesFinitelyOften =>
        \A u \in Urbs : (u \in unlinked) ~> (u \notin unlinked \/ ~rh_running)
=============================================================================
