------------------------------ MODULE DummyLink ------------------------------
(***************************************************************************)
(* The emulated link of dummy_hcd.c: the port status kept by the root hub, *)
(* the gadget side that pulls the data line up or down, and the callbacks  *)
(* into the bound gadget driver.                                           *)
(*                                                                         *)
(* dum->lock is held for the whole of an action: one action is one stretch *)
(* of code between taking and releasing the lock.  set_link_state() and    *)
(* stop_activity() release it around every call into the gadget driver, so *)
(* a thread that is inside such a call has a pc other than "idle".         *)
(*                                                                         *)
(* pc values:                                                              *)
(*   "idle"      not in dummy_hcd.c                                        *)
(*   "nuke"      set_link_state -> stop_activity -> nuke, giving back a    *)
(*               request with the lock released                            *)
(*   "event"     set_link_state calling driver->disconnect or ->reset      *)
(*   "pm"        set_link_state calling driver->suspend or ->resume        *)
(*   "setup"     dummy_timer calling driver->setup                         *)
(*   "stopnuke"  dummy_udc_stop -> stop_activity -> nuke, as "nuke"        *)
(*   "stopwait"  dummy_udc_stop waiting for callback_usage to drop         *)
(*   "queue"     dummy_queue between its checks and its lock               *)
(*   "wakeup"    dummy_wakeup between its checks and its assignments       *)
(*   "poll"      about to call usb_hcd_poll_rh_status()                    *)
(*   "pollc"     the same if the port has change bits (dummy_hub_control)  *)
(***************************************************************************)
EXTENDS Integers, FiniteSets

CONSTANTS
    Hcds,           \* root hubs registered: {"hs"}, or {"hs","ss"} when is_super_speed
    HubThreads,     \* hub workers of usbcore: hub_control, bus and platform PM
    RhThreads,      \* the rh_timer of usbcore: hub_status_data
    TimerThreads,   \* executions of dummy_timer()
    Udc,            \* the thread of the UDC core (calls are serialised by udc_lock)
    FnThreads,      \* threads of the gadget function driver
    NumEps,         \* DUMMY_ENDPOINTS
    MaxReq          \* bound on the requests queued on one endpoint

Threads == HubThreads \cup RhThreads \cup TimerThreads \cup FnThreads \cup {Udc}

ASSUME HcdsAssumption == Hcds \in {{"hs"}, {"hs", "ss"}}
ASSUME ThreadsAssumption ==
    IsFiniteSet(HubThreads \cup RhThreads \cup TimerThreads \cup FnThreads)
ASSUME BoundsAssumption == NumEps \in Nat \ {0} /\ MaxReq \in Nat \ {0}

VARIABLES
    port_status,    \* [Hcds -> set of USB_PORT_STAT_* bits]
    old_status,     \* port_status at the end of the last set_link_state()
    active, old_active, resuming,
    rh_state,       \* [Hcds -> "running", "suspended"]
    accessible,     \* HCD_FLAG_HW_ACCESSIBLE of each hcd
    elapsed,        \* whether jiffies has reached re_timeout
    pullup, udc_suspended, ints_enabled,
    driver,         \* whether dum->driver is non-NULL
    super,          \* whether gadget.speed is USB_SPEED_SUPER
    callback_usage,
    wakeup_en,      \* the USB_DEVICE_REMOTE_WAKEUP bit of devstatus
    queue,          \* [0..NumEps-1 -> number of requests on ep->queue]
    pc,             \* per thread: its control point,
    hcd,            \*   the dum_hcd its set_link_state() works on,
    ret,            \*   where it goes when a blocked set_link_state() returns,
    ep              \*   the endpoint nuke() is at

hubvars  == <<rh_state, accessible>>
linkvars == <<port_status, old_status, active, old_active, resuming, elapsed>>
udcvars  == <<pullup, udc_suspended, ints_enabled, driver, super, wakeup_en>>
vars == <<hubvars, linkvars, udcvars, callback_usage, queue, pc, hcd, ret, ep>>

PortBits == {"CONNECTION", "ENABLE", "SUSPEND", "RESET", "POWER",
             "C_CONNECTION", "C_SUSPEND", "C_RESET"}
PORT_C_MASK == {"C_CONNECTION", "C_SUSPEND", "C_RESET"}
Eps == 0 .. NumEps - 1

\* Where set_link_state() can return to.
AfterCall == {"idle", "poll", "pollc"}
Callback  == {"event", "pm", "setup"}
PCs == AfterCall \cup Callback \cup
       {"nuke", "stopnuke", "stopwait", "queue", "wakeup"}

\* gadget_to_dummy_hcd()
gadget_to_dummy_hcd == IF super THEN "ss" ELSE "hs"

TypeOK ==
    /\ port_status \in [Hcds -> SUBSET PortBits]
    /\ old_status \in [Hcds -> SUBSET PortBits]
    /\ active \in [Hcds -> BOOLEAN]
    /\ old_active \in [Hcds -> BOOLEAN]
    /\ resuming \in [Hcds -> BOOLEAN]
    /\ rh_state \in [Hcds -> {"running", "suspended"}]
    /\ accessible \in [Hcds -> BOOLEAN]
    /\ elapsed \in [Hcds -> BOOLEAN]
    /\ pullup \in BOOLEAN
    /\ udc_suspended \in BOOLEAN
    /\ ints_enabled \in BOOLEAN
    /\ driver \in BOOLEAN
    /\ super \in BOOLEAN
    /\ super => "ss" \in Hcds
    /\ callback_usage \in Int
    /\ wakeup_en \in BOOLEAN
    /\ queue \in [Eps -> 0 .. MaxReq]
    /\ pc \in [Threads -> PCs]
    /\ hcd \in [Threads -> Hcds]
    /\ ret \in [Threads -> AfterCall]
    /\ ep \in [Threads -> Eps]

\* kzalloc'ed state after dummy_start()/init_dummy_udc_hw().
Init ==
    /\ port_status = [h \in Hcds |-> {}]
    /\ old_status = [h \in Hcds |-> {}]
    /\ active = [h \in Hcds |-> FALSE]
    /\ old_active = [h \in Hcds |-> FALSE]
    /\ resuming = [h \in Hcds |-> FALSE]
    /\ rh_state = [h \in Hcds |-> "running"]
    /\ accessible = [h \in Hcds |-> TRUE]
    /\ elapsed = [h \in Hcds |-> TRUE]
    /\ pullup = FALSE /\ udc_suspended = FALSE /\ ints_enabled = FALSE
    /\ driver = FALSE /\ super = FALSE /\ wakeup_en = FALSE
    /\ callback_usage = 0
    /\ queue = [e \in Eps |-> 0]
    /\ pc = [t \in Threads |-> "idle"]
    /\ hcd = [t \in Threads |-> "hs"]
    /\ ret = [t \in Threads |-> "idle"]
    /\ ep = [t \in Threads |-> 0]
-----------------------------------------------------------------------------
(* stop_activity() and nuke().                                             *)

Busy(e) == {i \in Eps : i >= e /\ queue[i] > 0}

\* nuke() from endpoint e on, up to the next release of the lock: thread t takes the
\* first request off the first busy endpoint and gives it back at control point `at`.
NukeOne(t, e, at) ==
    \E i \in Busy(e) :
        /\ \A j \in Busy(e) : i <= j
        /\ queue' = [queue EXCEPT ![i] = @ - 1]
        /\ ep' = [ep EXCEPT ![t] = i]
        /\ pc' = [pc EXCEPT ![t] = at]
        /\ UNCHANGED callback_usage

\* stop_activity() of set_link_state(), then ++callback_usage and the driver's callback.
StopThenEvent(t, e) ==
    \/ NukeOne(t, e, "nuke")
    \/ /\ Busy(e) = {}
       /\ callback_usage' = callback_usage + 1
       /\ pc' = [pc EXCEPT ![t] = "event"]
       /\ ep' = [ep EXCEPT ![t] = 0]
       /\ UNCHANGED queue

\* stop_activity() of dummy_udc_stop().
StopThenWait(t, e) ==
    \/ NukeOne(t, e, "stopnuke")
    \/ /\ Busy(e) = {}
       /\ pc' = [pc EXCEPT ![t] = "stopwait"]
       /\ ep' = [ep EXCEPT ![t] = 0]
       /\ UNCHANGED <<queue, callback_usage>>
-----------------------------------------------------------------------------
(* set_link_state().                                                       *)

\* Broken variant of PortBySpeed: a disconnect does not raise the change bit.
PortBySpeed_NoChange(h, p) ==
    IF "POWER" \notin p THEN {}
    ELSE IF ~pullup' \/ udc_suspended'
    THEN p \ {"CONNECTION", "ENABLE", "SUSPEND"}
    ELSE p \cup {"CONNECTION"}
           \cup (IF "CONNECTION" \in old_status[h] THEN {} ELSE {"C_CONNECTION"})

\* set_link_state_by_speed(): the port status of h computed from p.
PortBySpeed(h, p) ==
    IF "POWER" \notin p THEN {}
    ELSE IF ~pullup' \/ udc_suspended'
    THEN (p \ (IF h = "ss" THEN {"CONNECTION", "ENABLE"}
                           ELSE {"CONNECTION", "ENABLE", "SUSPEND"}))
         \cup (IF "CONNECTION" \in old_status[h] THEN {"C_CONNECTION"} ELSE {})
    ELSE (p \ (IF h = "hs" /\ "ENABLE" \notin p THEN {"SUSPEND"} ELSE {}))
         \cup {"CONNECTION"}
         \cup (IF "CONNECTION" \in old_status[h] THEN {} ELSE {"C_CONNECTION"})

\* ... and whether it leaves the link active.
ActiveBySpeed(h, p) ==
    /\ "POWER" \in p
    /\ pullup' /\ ~udc_suspended'
    /\ "ENABLE" \in p
    /\ h = "hs" => "SUSPEND" \notin p
    /\ rh_state'[h] # "suspended"

\* The two conditions of the tail of set_link_state(), for new port status q.
EventDue(h, q) ==
    /\ ints_enabled'
    /\ "POWER" \notin q \/ "RESET" \in q
    /\ \/ "POWER" \in old_status[h] \ q
       \/ "RESET" \in q \ old_status[h]
PmDue(h, q, a) ==
    /\ ints_enabled'
    /\ "POWER" \in q /\ "RESET" \notin q
    /\ a # old_active[h]

\* The last two assignments of set_link_state().
Remember(h) ==
    /\ old_status' = [old_status EXCEPT ![h] = port_status'[h]]
    /\ old_active' = [old_active EXCEPT ![h] = active'[h]]

\* Broken variant: a hub does not step back when the gadget runs at the other hub's speed.
SpeedMismatch_Never(h) == FALSE

SpeedMismatch(h) == pullup' /\ (h = "ss") # super

\* Called by thread t with port_status[h] already changed to p; `next` is where t goes
\* when set_link_state() has returned.  The caller determines pullup', udc_suspended',
\* ints_enabled' and rh_state'.
set_link_state(t, h, p, next) ==
    LET q == PortBySpeed(h, p)
        a == ActiveBySpeed(h, p)
    IN  /\ hcd' = [hcd EXCEPT ![t] = h]
        /\ \/ /\ SpeedMismatch(h)
              /\ port_status' = [port_status EXCEPT ![h] = p]
              /\ active' = [active EXCEPT ![h] = FALSE]
              /\ pc' = [pc EXCEPT ![t] = next]
              /\ UNCHANGED <<old_status, old_active, resuming, callback_usage, queue, ret, ep>>
           \/ /\ ~SpeedMismatch(h)
              /\ port_status' = [port_status EXCEPT ![h] = q]
              /\ active' = [active EXCEPT ![h] = a]
              /\ resuming' = [resuming EXCEPT ![h] = @ /\ "ENABLE" \in q /\ ~a]
              /\ \/ /\ EventDue(h, q)
                    /\ StopThenEvent(t, 0)
                    /\ ret' = [ret EXCEPT ![t] = next]
                    /\ UNCHANGED <<old_status, old_active>>
                 \/ /\ PmDue(h, q, a)
                    /\ callback_usage' = callback_usage + 1
                    /\ pc' = [pc EXCEPT ![t] = "pm"]
                    /\ ret' = [ret EXCEPT ![t] = next]
                    /\ UNCHANGED <<old_status, old_active, queue, ep>>
                 \/ /\ ~EventDue(h, q) /\ ~PmDue(h, q, a)
                    /\ Remember(h)
                    /\ pc' = [pc EXCEPT ![t] = next]
                    /\ UNCHANGED <<callback_usage, queue, ret, ep>>

\* The lock is taken again after a request was given back.
NukeResume(t) ==
    /\ pc[t] = "nuke"
    /\ StopThenEvent(t, ep[t])
    /\ UNCHANGED <<hubvars, linkvars, udcvars, hcd, ret>>

\* Broken variants of CallbackReturn, for the checks of the properties: the decrement is
\* missing, or the two assignments that end set_link_state() are.
CallbackReturn_NoDecrement(t) ==
    /\ pc[t] \in {"event", "pm"}
    /\ pc' = [pc EXCEPT ![t] = ret[t]]
    /\ ret' = [ret EXCEPT ![t] = "idle"]
    /\ UNCHANGED <<port_status, active, resuming, elapsed>>
    /\ Remember(hcd[t])
    /\ UNCHANGED <<hubvars, udcvars, callback_usage, queue, hcd, ep>>
\* The driver's callback has returned: --callback_usage and the end of set_link_state().
CallbackReturn(t) ==
    /\ pc[t] \in {"event", "pm"}
    /\ callback_usage' = callback_usage - 1
    /\ pc' = [pc EXCEPT ![t] = ret[t]]
    /\ ret' = [ret EXCEPT ![t] = "idle"]
    /\ UNCHANGED <<port_status, active, resuming, elapsed>>
    /\ Remember(hcd[t])
    /\ UNCHANGED <<hubvars, udcvars, queue, hcd, ep>>
-----------------------------------------------------------------------------
(* Host side: dummy_hub_control(), dummy_hub_status(), bus suspend/resume. *)

Idle(t) == pc[t] = "idle"

\* A request of dummy_hub_control() that leaves port_status[h] as p and calls
\* set_link_state(); the root hub is polled after the lock is released.
HubRequest(t, h, p) ==
    /\ Idle(t) /\ accessible[h]
    /\ UNCHANGED <<hubvars, pullup, udc_suspended, ints_enabled, driver, super>>
    /\ set_link_state(t, h, p, "pollc")

ClearPortFeature(t, h, bit) ==
    /\ bit \in {"ENABLE", "POWER"} \cup PORT_C_MASK
    /\ UNCHANGED <<elapsed, wakeup_en>>
    /\ HubRequest(t, h, port_status[h] \ {bit})

\* ClearPortFeature(USB_PORT_FEAT_SUSPEND): 20 msec of resume signalling.
ClearPortSuspend(t, h) ==
    /\ Idle(t) /\ accessible[h]
    /\ h = "hs" /\ "SUSPEND" \in port_status[h]
    /\ resuming' = [resuming EXCEPT ![h] = TRUE]
    /\ elapsed' = [elapsed EXCEPT ![h] = FALSE]
    /\ pc' = [pc EXCEPT ![t] = "pollc"]
    /\ hcd' = [hcd EXCEPT ![t] = h]
    /\ UNCHANGED <<port_status, old_status, active, old_active, hubvars, udcvars,
                   callback_usage, queue, ret, ep>>

SetPortPower(t, h) ==
    /\ UNCHANGED <<elapsed, wakeup_en>>
    /\ HubRequest(t, h, port_status[h] \cup {"POWER"})

SetPortSuspend(t, h) ==
    /\ h = "hs" /\ active[h]
    /\ UNCHANGED <<elapsed, wakeup_en>>
    /\ HubRequest(t, h, port_status[h] \cup {"SUSPEND"})

\* Broken variant of ResetStatus: an enabled port is not disabled.
ResetStatus_StaysEnabled(h) ==
    IF h = "ss" THEN {"POWER", "CONNECTION", "RESET"} ELSE port_status[h] \cup {"RESET"}

\* SetPortFeature(USB_PORT_FEAT_RESET), or BH_PORT_RESET on the USB 3 root hub.
ResetStatus(h) ==
    IF h = "ss" THEN {"POWER", "CONNECTION", "RESET"}
    ELSE LET p == port_status[h] \ {"ENABLE"}
         IN  IF "POWER" \in p THEN p \cup {"RESET"} ELSE p

SetPortReset(t, h) ==
    /\ wakeup_en' = FALSE
    /\ elapsed' = [elapsed EXCEPT ![h] = FALSE]
    /\ HubRequest(t, h, ResetStatus(h))

\* "whoever resets or resumes must GetPortStatus to complete it!!"
ResumeDone(h, p) ==
    IF resuming[h] /\ elapsed[h] THEN (p \ {"SUSPEND"}) \cup {"C_SUSPEND"} ELSE p
ResetDone(h, p) ==
    IF "RESET" \in p /\ elapsed[h]
    THEN (p \ {"RESET"}) \cup {"C_RESET"} \cup (IF pullup THEN {"ENABLE"} ELSE {})
    ELSE p

GetPortStatus(t, h) ==
    /\ UNCHANGED <<elapsed, wakeup_en>>
    /\ HubRequest(t, h, ResetDone(h, ResumeDone(h, port_status[h])))

dummy_hub_control(t, h) ==
    \/ \E bit \in PortBits : ClearPortFeature(t, h, bit)
    \/ ClearPortSuspend(t, h)
    \/ SetPortPower(t, h)
    \/ SetPortSuspend(t, h)
    \/ SetPortReset(t, h)
    \/ GetPortStatus(t, h)

\* dummy_hub_status() changes the port only when a resume has to be completed.
HubStatus(t, h) ==
    \/ /\ accessible[h] /\ resuming[h] /\ elapsed[h]
       /\ UNCHANGED <<hubvars, udcvars, elapsed>>
       /\ set_link_state(t, h, ResumeDone(h, port_status[h]), "idle")
    \/ /\ ~(accessible[h] /\ resuming[h] /\ elapsed[h])
       /\ pc' = [pc EXCEPT ![t] = "idle"]
       /\ UNCHANGED <<hubvars, linkvars, udcvars, callback_usage, queue, hcd, ret, ep>>

\* hub_status called by the rh_timer of usbcore
dummy_hub_status(t, h) == Idle(t) /\ HubStatus(t, h)

\* usb_hcd_poll_rh_status() at the end of an operation
PollRhStatus(t) ==
    \/ pc[t] = "poll" /\ HubStatus(t, hcd[t])
    \/ /\ pc[t] = "pollc" /\ port_status[hcd[t]] \cap PORT_C_MASK # {}
       /\ HubStatus(t, hcd[t])
    \/ /\ pc[t] = "pollc" /\ port_status[hcd[t]] \cap PORT_C_MASK = {}
       /\ pc' = [pc EXCEPT ![t] = "idle"]
       /\ UNCHANGED <<hubvars, linkvars, udcvars, callback_usage, queue, hcd, ret, ep>>

\* Broken variant of BusPm: the link state is not recomputed.
BusPm_NoLinkState(t, h, state) ==
    /\ Idle(t)
    /\ rh_state' = [rh_state EXCEPT ![h] = state]
    /\ UNCHANGED <<accessible, linkvars, udcvars, callback_usage, queue, pc, hcd, ret, ep>>

BusPm(t, h, state) ==
    /\ Idle(t)
    /\ rh_state' = [rh_state EXCEPT ![h] = state]
    /\ UNCHANGED <<accessible, elapsed, udcvars>>
    /\ set_link_state(t, h, port_status[h], "idle")

dummy_bus_suspend(t, h) == rh_state[h] = "running" /\ BusPm(t, h, "suspended")
dummy_bus_resume(t, h) ==
    rh_state[h] = "suspended" /\ accessible[h] /\ BusPm(t, h, "running")

\* platform suspend and resume of the controller (the primary hcd)
dummy_hcd_suspend(t) ==
    /\ Idle(t)
    /\ rh_state["hs"] # "running"
    /\ accessible' = [accessible EXCEPT !["hs"] = FALSE]
    /\ UNCHANGED <<rh_state, linkvars, udcvars, callback_usage, queue, pc, hcd, ret, ep>>

dummy_hcd_resume(t) ==
    /\ Idle(t) /\ ~accessible["hs"]
    /\ accessible' = [accessible EXCEPT !["hs"] = TRUE]
    /\ pc' = [pc EXCEPT ![t] = "poll"]
    /\ hcd' = [hcd EXCEPT ![t] = "hs"]
    /\ UNCHANGED <<rh_state, linkvars, udcvars, callback_usage, queue, ret, ep>>
-----------------------------------------------------------------------------
(* Gadget side: the UDC core's calls, in the order it makes them (set_speed *)
(* and udc_start, pullups, pullup(0) and udc_stop), and platform suspend.   *)

dummy_udc_set_speed ==
    /\ Idle(Udc) /\ ~driver /\ ~pullup
    /\ super' \in {b \in BOOLEAN : b => "ss" \in Hcds}
    /\ UNCHANGED <<hubvars, linkvars, pullup, udc_suspended, ints_enabled, driver,
                   wakeup_en, callback_usage, queue, pc, hcd, ret, ep>>

dummy_udc_start ==
    /\ Idle(Udc) /\ ~driver
    /\ driver' = TRUE
    /\ ints_enabled' = TRUE
    /\ wakeup_en' = FALSE
    /\ UNCHANGED <<hubvars, linkvars, pullup, udc_suspended, super, callback_usage,
                   queue, pc, hcd, ret, ep>>

dummy_pullup(value) ==
    /\ Idle(Udc) /\ driver
    /\ pullup' = value
    /\ UNCHANGED <<hubvars, elapsed, udc_suspended, ints_enabled, driver, super, wakeup_en>>
    /\ LET h == gadget_to_dummy_hcd IN set_link_state(Udc, h, port_status[h], "poll")

dummy_udc_pm(suspend) ==
    /\ Idle(Udc)
    /\ udc_suspended' = suspend
    /\ UNCHANGED <<hubvars, elapsed, pullup, ints_enabled, driver, super, wakeup_en>>
    /\ LET h == gadget_to_dummy_hcd IN set_link_state(Udc, h, port_status[h], "poll")

\* Broken variant of dummy_udc_stop: ints_enabled stays set.
dummy_udc_stop_KeepsInts ==
    /\ Idle(Udc) /\ driver /\ ~pullup
    /\ StopThenWait(Udc, 0)
    /\ UNCHANGED <<hubvars, linkvars, udcvars, hcd, ret>>

dummy_udc_stop ==
    /\ Idle(Udc) /\ driver /\ ~pullup
    /\ ints_enabled' = FALSE
    /\ StopThenWait(Udc, 0)
    /\ UNCHANGED <<hubvars, linkvars, pullup, udc_suspended, driver, super, wakeup_en,
                   hcd, ret>>

StopNukeResume ==
    /\ pc[Udc] = "stopnuke"
    /\ StopThenWait(Udc, ep[Udc])
    /\ UNCHANGED <<hubvars, linkvars, udcvars, hcd, ret>>

\* Broken variant of StopFinish: the callbacks are not waited for.
StopFinish_NoWait ==
    /\ pc[Udc] = "stopwait"
    /\ driver' = FALSE
    /\ pc' = [pc EXCEPT ![Udc] = "idle"]
    /\ UNCHANGED <<hubvars, linkvars, pullup, udc_suspended, ints_enabled, super,
                   wakeup_en, callback_usage, queue, hcd, ret, ep>>

\* "emulate synchronize_irq(): wait for callbacks to finish"
StopFinish ==
    /\ pc[Udc] = "stopwait"
    /\ ~(callback_usage > 0)
    /\ driver' = FALSE
    /\ pc' = [pc EXCEPT ![Udc] = "idle"]
    /\ UNCHANGED <<hubvars, linkvars, pullup, udc_suspended, ints_enabled, super,
                   wakeup_en, callback_usage, queue, hcd, ret, ep>>
-----------------------------------------------------------------------------
(* The gadget function driver.                                             *)

\* dummy_queue(): dum->driver and is_enabled() are read before the lock is taken.
dummy_queue(t, e) ==
    /\ Idle(t)
    /\ driver /\ "ENABLE" \in port_status[gadget_to_dummy_hcd]
    /\ pc' = [pc EXCEPT ![t] = "queue"]
    /\ ep' = [ep EXCEPT ![t] = e]
    /\ UNCHANGED <<hubvars, linkvars, udcvars, callback_usage, queue, hcd, ret>>

\* list_add_tail() under the lock; the bound MaxReq stands for the driver's own limit.
QueueAdd(t) ==
    /\ pc[t] = "queue" /\ queue[ep[t]] < MaxReq
    /\ queue' = [queue EXCEPT ![ep[t]] = @ + 1]
    /\ pc' = [pc EXCEPT ![t] = "idle"]
    /\ ep' = [ep EXCEPT ![t] = 0]
    /\ UNCHANGED <<hubvars, linkvars, udcvars, callback_usage, hcd, ret>>

\* dummy_wakeup() takes no lock at all.
dummy_wakeup(t) ==
    LET h == gadget_to_dummy_hcd
    IN  /\ Idle(t)
        /\ wakeup_en /\ "CONNECTION" \in port_status[h]
        /\ "SUSPEND" \in port_status[h] \/ rh_state[h] = "suspended"
        /\ pc' = [pc EXCEPT ![t] = "wakeup"]
        /\ hcd' = [hcd EXCEPT ![t] = h]
        /\ UNCHANGED <<hubvars, linkvars, udcvars, callback_usage, queue, ret, ep>>

WakeupSignal(t) ==
    /\ pc[t] = "wakeup"
    /\ resuming' = [resuming EXCEPT ![hcd[t]] = TRUE]
    /\ elapsed' = [elapsed EXCEPT ![hcd[t]] = FALSE]
    /\ pc' = [pc EXCEPT ![t] = "idle"]
    /\ UNCHANGED <<port_status, old_status, active, old_active, hubvars, udcvars,
                   callback_usage, queue, hcd, ret, ep>>
-----------------------------------------------------------------------------
(* dummy_timer(), as far as it touches the link and the driver.            *)

\* is_active() and find_endpoint() of endpoint 0 for a control URB of root hub h
FindEp0(h) ==
    LET p == port_status[gadget_to_dummy_hcd]
    IN  /\ rh_state[h] = "running"
        /\ {"CONNECTION", "ENABLE"} \subseteq p /\ "SUSPEND" \notin p
        /\ ints_enabled

\* handle_control_request(): SET_FEATURE / CLEAR_FEATURE of remote wakeup
TimerFeature(t, h) ==
    /\ Idle(t) /\ FindEp0(h)
    /\ wakeup_en' \in BOOLEAN
    /\ UNCHANGED <<hubvars, linkvars, pullup, udc_suspended, ints_enabled, driver, super,
                   callback_usage, queue, pc, hcd, ret, ep>>

\* all other requests are handled by driver->setup(), with the lock released
TimerSetup(t, h) ==
    /\ Idle(t) /\ FindEp0(h)
    /\ callback_usage' = callback_usage + 1
    /\ pc' = [pc EXCEPT ![t] = "setup"]
    /\ UNCHANGED <<hubvars, linkvars, udcvars, queue, hcd, ret, ep>>

SetupReturn(t) ==
    /\ pc[t] = "setup"
    /\ callback_usage' = callback_usage - 1
    /\ pc' = [pc EXCEPT ![t] = "idle"]
    /\ UNCHANGED <<hubvars, linkvars, udcvars, queue, hcd, ret, ep>>

\* Broken variant of TimerComplete: the queue is not tested for being empty.
TimerComplete_Unchecked(t, e) ==
    /\ Idle(t) /\ \E h \in Hcds : FindEp0(h)
    /\ queue' = [queue EXCEPT ![e] = @ - 1]
    /\ UNCHANGED <<hubvars, linkvars, udcvars, callback_usage, pc, hcd, ret, ep>>

\* transfer() completes a request of endpoint e (its giveback is in DummyTimer)
TimerComplete(t, e) ==
    /\ Idle(t) /\ \E h \in Hcds : FindEp0(h)
    /\ queue[e] > 0
    /\ queue' = [queue EXCEPT ![e] = @ - 1]
    /\ UNCHANGED <<hubvars, linkvars, udcvars, callback_usage, pc, hcd, ret, ep>>

\* jiffies reaches re_timeout
Tick(h) ==
    /\ ~elapsed[h]
    /\ elapsed' = [elapsed EXCEPT ![h] = TRUE]
    /\ UNCHANGED <<port_status, old_status, active, old_active, resuming, hubvars, udcvars,
                   callback_usage, queue, pc, hcd, ret, ep>>
-----------------------------------------------------------------------------
HubStep(t) ==
    \/ \E h \in Hcds : \/ dummy_hub_control(t, h)
                       \/ dummy_bus_suspend(t, h)
                       \/ dummy_bus_resume(t, h)
    \/ dummy_hcd_suspend(t)
    \/ dummy_hcd_resume(t)

UdcStep ==
    \/ dummy_udc_set_speed
    \/ dummy_udc_start
    \/ \E v \in BOOLEAN : dummy_pullup(v)
    \/ \E v \in BOOLEAN : dummy_udc_pm(v)
    \/ dummy_udc_stop
    \/ StopNukeResume
    \/ StopFinish

FnStep(t) ==
    \/ \E e \in Eps : dummy_queue(t, e)
    \/ QueueAdd(t)
    \/ dummy_wakeup(t)
    \/ WakeupSignal(t)

TimerStep(t) ==
    \/ \E h \in Hcds : TimerFeature(t, h) \/ TimerSetup(t, h)
    \/ SetupReturn(t)
    \/ \E e \in Eps : TimerComplete(t, e)

\* Steps that finish what a thread has begun.
Continue(t) == NukeResume(t) \/ CallbackReturn(t) \/ PollRhStatus(t)

Next ==
    \/ \E t \in HubThreads : HubStep(t)
    \/ \E t \in RhThreads, h \in Hcds : dummy_hub_status(t, h)
    \/ \E t \in TimerThreads : TimerStep(t)
    \/ UdcStep
    \/ \E t \in FnThreads : FnStep(t)
    \/ \E t \in Threads : Continue(t)
    \/ \E h \in Hcds : Tick(h)

Spec == Init /\ [][Next]_vars

\* Gadget driver callbacks and completion handlers return, and a thread that runs
\* kernel code is scheduled again.  Nothing forces usbcore, the UDC core or the
\* function driver to start an operation.
Fairness ==
    /\ \A t \in Threads : WF_vars(Continue(t))
    /\ \A t \in TimerThreads : WF_vars(SetupReturn(t))
    /\ WF_vars(StopNukeResume) /\ WF_vars(StopFinish)

FairSpec == Spec /\ Fairness
-----------------------------------------------------------------------------
(* Properties.                                                             *)

InCallback == {t \in Threads : pc[t] \in Callback}

\* callback_usage, which dummy_udc_stop() waits on, counts exactly the threads that are
\* inside a callback of the gadget driver, however the increments and decrements of
\* set_link_state() and dummy_timer() interleave.
CallbackCount == callback_usage = Cardinality(InCallback)

\* driver->setup, ->suspend and ->resume are never called through a NULL dum->driver:
\* dummy_udc_stop() cannot clear it between the test of ints_enabled and the return of
\* the callback, although the lock is not held during the callback.
CallbackHasDriver == \A t \in Threads : pc[t] \in {"pm", "setup"} => driver

\* Callbacks are enabled only with a driver bound, and never again while dummy_udc_stop()
\* quiesces it: what makes waiting on callback_usage once enough.
StopProtocol ==
    /\ ints_enabled => driver
    /\ pc[Udc] \in {"stopnuke", "stopwait"} => ~ints_enabled

\* The inductive invariant behind CallbackCount and CallbackHasDriver.
IndInv == TypeOK /\ StopProtocol /\ CallbackCount /\ CallbackHasDriver

\* dummy_udc_stop() says it waits for callbacks to finish before dum->driver is cleared;
\* for driver->disconnect and ->reset this means they run with a driver.
EventHasDriver == \A t \in Threads : pc[t] = "event" => driver

\* Whenever the lock is free, a link that counts as active (set_link_state() then allows
\* SetPortFeature(SUSPEND) and reports suspend/resume) is powered, connected, enabled,
\* not suspended, not in reset, on a running root hub, with the pullup on and the UDC awake.
ActiveLinkIsUp ==
    \A h \in Hcds : active[h] =>
        /\ {"POWER", "CONNECTION", "ENABLE"} \subseteq port_status[h]
        /\ {"SUSPEND", "RESET"} \cap port_status[h] = {}
        /\ rh_state[h] = "running" /\ pullup /\ ~udc_suspended

\* On the USB 2 root hub a port is enabled only while it is connected, is suspended only
\* while enabled, and is never enabled while it is being reset.
PortStatusLegal ==
    LET p == port_status["hs"]
    IN  /\ "ENABLE" \in p => "CONNECTION" \in p /\ "RESET" \notin p
        /\ "SUSPEND" \in p => "ENABLE" \in p
        /\ p # {} => "POWER" \in p

\* Every connect or disconnect of a powered port raises C_CONNECTION, which is how the hub
\* driver learns of it; the code derives it from old_status, which is stale while a callback runs.
ConnectChangeReported ==
    [][\A h \in Hcds :
         /\ ("CONNECTION" \in port_status[h]) # ("CONNECTION" \in port_status'[h])
         /\ "POWER" \in port_status'[h]
         => "C_CONNECTION" \in port_status'[h]]_vars

\* dummy_udc_stop() returns: its loop on callback_usage ends, because no new callback starts
\* once ints_enabled is clear, and nuke() ends.
UdcStopReturns == (pc[Udc] \in {"stopnuke", "stopwait"}) ~> (pc[Udc] = "idle")

=============================================================================
