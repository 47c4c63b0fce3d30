-------------------------- MODULE DummyLink_proofs --------------------------
(***************************************************************************)
(* Proofs about DummyLink, for any number of threads, endpoints and        *)
(* requests and for one or two root hubs.                                  *)
(***************************************************************************)
EXTENDS DummyLink, FiniteSetTheorems, TLAPS

\* The values a caller of set_link_state() has determined before it calls it.
CallerOK ==
    /\ pullup' \in BOOLEAN /\ udc_suspended' \in BOOLEAN /\ ints_enabled' \in BOOLEAN
    /\ rh_state' \in [Hcds -> {"running", "suspended"}]

\* What set_link_state() leaves well typed.
LinkTyped ==
    /\ port_status' \in [Hcds -> SUBSET PortBits]
    /\ old_status' \in [Hcds -> SUBSET PortBits]
    /\ active' \in [Hcds -> BOOLEAN]
    /\ old_active' \in [Hcds -> BOOLEAN]
    /\ resuming' \in [Hcds -> BOOLEAN]
    /\ callback_usage' \in Int
    /\ queue' \in [Eps -> 0 .. MaxReq]
    /\ pc' \in [Threads -> PCs]
    /\ hcd' \in [Threads -> Hcds]
    /\ ret' \in [Threads -> AfterCall]
    /\ ep' \in [Threads -> Eps]

\* The status computed by set_link_state_by_speed() is a set of port bits.
LEMMA PortBySpeedType ==
    ASSUME TypeOK, NEW h \in Hcds, NEW p \in SUBSET PortBits,
           pullup' \in BOOLEAN, udc_suspended' \in BOOLEAN
    PROVE  PortBySpeed(h, p) \in SUBSET PortBits
<1>1. {"CONNECTION", "C_CONNECTION"} \subseteq PortBits
  BY DEF PortBits
<1> QED BY <1>1 DEF PortBySpeed

\* nuke() keeps the types of what it changes.
LEMMA NukeOneType ==
    ASSUME TypeOK, NEW t \in Threads, NEW e \in Eps, NEW at \in PCs, NukeOne(t, e, at)
    PROVE  /\ queue' \in [Eps -> 0 .. MaxReq]
           /\ ep' \in [Threads -> Eps]
           /\ pc' \in [Threads -> PCs]
           /\ pc' = [pc EXCEPT ![t] = at]
           /\ callback_usage' = callback_usage
<1>1. PICK i \in Busy(e) : /\ queue' = [queue EXCEPT ![i] = @ - 1]
                           /\ ep' = [ep EXCEPT ![t] = i]
                           /\ pc' = [pc EXCEPT ![t] = at]
                           /\ UNCHANGED callback_usage
  BY DEF NukeOne
<1>2. i \in Eps /\ queue[i] \in 1 .. MaxReq
  BY BoundsAssumption DEF Busy, TypeOK
<1>3. queue' \in [Eps -> 0 .. MaxReq]
  BY <1>1, <1>2, BoundsAssumption DEF TypeOK
<1> QED BY <1>1, <1>2, <1>3 DEF TypeOK

StopPcs == {"stopnuke", "stopwait"}

\* How a step of thread t moves it with respect to the driver's callbacks: it enters one
\* (and is counted), returns from one (and is no longer counted), or does neither.
Enters(t) == \E c \in Callback :
    pc[t] \notin Callback /\ pc' = [pc EXCEPT ![t] = c] /\ callback_usage' = callback_usage + 1
Leaves(t) == \E c \in AfterCall :
    pc[t] \in Callback /\ pc' = [pc EXCEPT ![t] = c] /\ callback_usage' = callback_usage - 1
Passes(t) == \E c \in PCs \ (Callback \cup StopPcs) :
    pc[t] \notin Callback /\ pc' = [pc EXCEPT ![t] = c] /\ callback_usage' = callback_usage

\* stop_activity() of set_link_state(): types, and the callback it may lead to is counted.
LEMMA StopThenEventStep ==
    ASSUME TypeOK, NEW t \in Threads, NEW e \in Eps, StopThenEvent(t, e),
           pc[t] \notin Callback
    PROVE  /\ queue' \in [Eps -> 0 .. MaxReq]
           /\ ep' \in [Threads -> Eps]
           /\ pc' \in [Threads -> PCs]
           /\ callback_usage' \in Int
           /\ Passes(t) \/ (Enters(t) /\ pc'[t] = "event")
<1>1. CASE NukeOne(t, e, "nuke")
  <2>1. "nuke" \in PCs /\ "nuke" \notin Callback \cup StopPcs
    BY DEF PCs, Callback, StopPcs
  <2> QED BY <1>1, <2>1, NukeOneType DEF Passes, TypeOK
<1>2. CASE /\ callback_usage' = callback_usage + 1
           /\ pc' = [pc EXCEPT ![t] = "event"]
           /\ ep' = [ep EXCEPT ![t] = 0]
           /\ UNCHANGED queue
  <2>1. "event" \in PCs /\ "event" \in Callback /\ 0 \in Eps
    BY BoundsAssumption DEF PCs, Callback, Eps
  <2>2. Enters(t) /\ pc'[t] = "event"
    BY <1>2, <2>1 DEF Enters, TypeOK
  <2>3. /\ queue' \in [Eps -> 0 .. MaxReq] /\ ep' \in [Threads -> Eps]
        /\ pc' \in [Threads -> PCs] /\ callback_usage' \in Int
    BY <1>2, <2>1 DEF TypeOK
  <2> QED BY <2>2, <2>3
<1> QED BY <1>1, <1>2 DEF StopThenEvent

\* set_link_state() keeps every variable it writes well typed, and enters a callback only
\* with ints_enabled set.
LEMMA LinkStep ==
    ASSUME TypeOK, CallerOK, NEW t \in Threads, NEW h \in Hcds,
           NEW p \in SUBSET PortBits, NEW next \in AfterCall,
           pc[t] \notin Callback, set_link_state(t, h, p, next)
    PROVE  LinkTyped /\ (Passes(t) \/ (Enters(t) /\ ints_enabled'))
<1> DEFINE q == PortBySpeed(h, p)
           a == ActiveBySpeed(h, p)
<1>1. q \in SUBSET PortBits
  BY PortBySpeedType DEF CallerOK
<1>2. a \in BOOLEAN
  BY DEF ActiveBySpeed
<1>3. next \in PCs /\ next \notin Callback \cup StopPcs /\ 0 \in Eps
  BY BoundsAssumption DEF PCs, AfterCall, Callback, StopPcs, Eps
<1>h. hcd' = [hcd EXCEPT ![t] = h] /\ hcd' \in [Threads -> Hcds]
  BY DEF set_link_state, TypeOK
<1>4. CASE /\ SpeedMismatch(h)
           /\ port_status' = [port_status EXCEPT ![h] = p]
           /\ active' = [active EXCEPT ![h] = FALSE]
           /\ pc' = [pc EXCEPT ![t] = next]
           /\ UNCHANGED <<old_status, old_active, resuming, callback_usage, queue, ret, ep>>
  BY <1>4, <1>3, <1>h DEF LinkTyped, Passes, TypeOK
<1>5. CASE /\ port_status' = [port_status EXCEPT ![h] = q]
           /\ active' = [active EXCEPT ![h] = a]
           /\ resuming' = [resuming EXCEPT ![h] = @ /\ "ENABLE" \in q /\ ~a]
           /\ \/ /\ EventDue(h, q)
                 /\ StopThenEvent(t, 0)
                 /\ ret' = [ret EXCEPT ![t] = next]
                 /\ UNCHANGED <<old_status, old_active>>
              \/ /\ PmDue(h, q, a)
                 /\ callback_usage' = callback_usage + 1
                 /\ pc' = [pc EXCEPT ![t] = "pm"]
                 /\ ret' = [ret EXCEPT ![t] = next]
                 /\ UNCHANGED <<old_status, old_active, queue, ep>>
              \/ /\ Remember(h)
                 /\ pc' = [pc EXCEPT ![t] = next]
                 /\ UNCHANGED <<callback_usage, queue, ret, ep>>
  <2>1. /\ port_status' \in [Hcds -> SUBSET PortBits]
        /\ active' \in [Hcds -> BOOLEAN]
    BY <1>5, <1>1, <1>2 DEF TypeOK
  <2>2. resuming' \in [Hcds -> BOOLEAN]
    BY <1>5, <1>2 DEF TypeOK
  <2>3. CASE /\ EventDue(h, q)
             /\ StopThenEvent(t, 0)
             /\ ret' = [ret EXCEPT ![t] = next]
             /\ UNCHANGED <<old_status, old_active>>
    <3>1. ret' \in [Threads -> AfterCall] /\ ints_enabled'
      BY <2>3 DEF EventDue, TypeOK
    <3>2. /\ queue' \in [Eps -> 0 .. MaxReq] /\ ep' \in [Threads -> Eps]
          /\ pc' \in [Threads -> PCs] /\ callback_usage' \in Int
          /\ Passes(t) \/ Enters(t)
      BY <2>3, <1>3, StopThenEventStep
    <3> QED BY <2>1, <2>2, <2>3, <3>1, <3>2, <1>h DEF LinkTyped, TypeOK
  <2>4. CASE /\ PmDue(h, q, a)
             /\ callback_usage' = callback_usage + 1
             /\ pc' = [pc EXCEPT ![t] = "pm"]
             /\ ret' = [ret EXCEPT ![t] = next]
             /\ UNCHANGED <<old_status, old_active, queue, ep>>
    <3>1. "pm" \in PCs /\ "pm" \in Callback
      BY DEF PCs, Callback
    <3>2. ints_enabled'
      BY <2>4 DEF PmDue
    <3>3. Enters(t)
      BY <2>4, <3>1 DEF Enters
    <3>4. LinkTyped
      BY <2>1, <2>2, <2>4, <3>1, <1>h DEF LinkTyped, TypeOK
    <3> QED BY <3>2, <3>3, <3>4
  <2>5. CASE /\ Remember(h)
             /\ pc' = [pc EXCEPT ![t] = next]
             /\ UNCHANGED <<callback_usage, queue, ret, ep>>
    <3>1. /\ old_status' \in [Hcds -> SUBSET PortBits]
          /\ old_active' \in [Hcds -> BOOLEAN]
      BY <2>1, <2>5 DEF Remember, TypeOK
    <3> QED BY <2>1, <2>2, <2>5, <3>1, <1>3, <1>h DEF LinkTyped, Passes, TypeOK
  <2> QED BY <1>5, <2>3, <2>4, <2>5
<1> QED BY <1>4, <1>5 DEF set_link_state

\* dummy_udc_stop() moves only the UDC thread, with ints_enabled clear.
Stops(t) == \E c \in StopPcs :
    /\ t = Udc /\ pc[t] \notin Callback /\ ~ints_enabled'
    /\ pc' = [pc EXCEPT ![t] = c] /\ callback_usage' = callback_usage
Moves(t) ==
    \/ Passes(t)
    \/ Leaves(t)
    \/ Stops(t)
    \/ Enters(t) /\ (ints_enabled' \/ pc'[t] = "event")
Rests == pc' = pc /\ callback_usage' = callback_usage

\* The variables set_link_state() does not write.
CallerTyped ==
    /\ accessible' \in [Hcds -> BOOLEAN]
    /\ elapsed' \in [Hcds -> BOOLEAN]
    /\ driver' \in BOOLEAN
    /\ super' \in BOOLEAN /\ (super' => "ss" \in Hcds)
    /\ wakeup_en' \in BOOLEAN

\* An action that ends in set_link_state() keeps TypeOK and moves one thread.
LEMMA CallerStep ==
    ASSUME TypeOK, CallerOK, CallerTyped, NEW t \in Threads, NEW h \in Hcds,
           NEW p \in SUBSET PortBits, NEW next \in AfterCall,
           pc[t] \notin Callback, set_link_state(t, h, p, next)
    PROVE  TypeOK' /\ Moves(t)
<1>1. LinkTyped /\ (Passes(t) \/ (Enters(t) /\ ints_enabled'))
  BY LinkStep
<1>2. TypeOK'
  BY <1>1 DEF LinkTyped, CallerOK, CallerTyped, TypeOK
<1> QED BY <1>1, <1>2 DEF Moves

\* The threads named by the actions, and their hubs.
LEMMA Names ==
    /\ HubThreads \subseteq Threads /\ RhThreads \subseteq Threads
    /\ TimerThreads \subseteq Threads /\ FnThreads \subseteq Threads /\ Udc \in Threads
    /\ "hs" \in Hcds
    /\ "idle" \in AfterCall /\ "poll" \in AfterCall /\ "pollc" \in AfterCall
    /\ AfterCall \subseteq PCs \ (Callback \cup StopPcs)
    /\ {"queue", "wakeup"} \subseteq PCs \ (Callback \cup StopPcs)
    /\ StopPcs \subseteq PCs /\ StopPcs \cap Callback = {} /\ Callback \subseteq PCs
    /\ 0 \in Eps
  BY HcdsAssumption, BoundsAssumption DEF Threads, AfterCall, PCs, Callback, StopPcs, Eps

\* gadget_to_dummy_hcd() returns a registered hub.
LEMMA GadgetHcd ==
    ASSUME TypeOK
    PROVE  gadget_to_dummy_hcd \in Hcds
  BY Names DEF gadget_to_dummy_hcd, TypeOK

\* The bits a completed resume or reset leaves are port bits.
LEMMA DoneType ==
    ASSUME NEW h \in Hcds, NEW p \in SUBSET PortBits
    PROVE  ResumeDone(h, p) \in SUBSET PortBits /\ ResetDone(h, p) \in SUBSET PortBits
<1>1. {"C_SUSPEND", "C_RESET", "ENABLE"} \subseteq PortBits
  BY DEF PortBits
<1> QED BY <1>1 DEF ResumeDone, ResetDone

\* Every request of dummy_hub_control() keeps TypeOK and moves its thread.
LEMMA HubControlStep ==
    ASSUME TypeOK, NEW t \in HubThreads, NEW h \in Hcds, dummy_hub_control(t, h)
    PROVE  TypeOK' /\ Moves(t)
<1> t \in Threads /\ "pollc" \in AfterCall
  BY Names
<1>0. port_status[h] \in SUBSET PortBits
  BY DEF TypeOK
<1>1. ASSUME NEW p \in SUBSET PortBits, HubRequest(t, h, p),
             elapsed' \in [Hcds -> BOOLEAN], wakeup_en' \in BOOLEAN
      PROVE  TypeOK' /\ Moves(t)
  <2>1. CallerOK /\ CallerTyped
    BY <1>1 DEF HubRequest, hubvars, CallerOK, CallerTyped, TypeOK
  <2>2. pc[t] \notin Callback
    BY <1>1 DEF HubRequest, Idle, Callback
  <2>3. set_link_state(t, h, p, "pollc")
    BY <1>1 DEF HubRequest
  <2> QED BY <2>1, <2>2, <2>3, CallerStep
<1>2. CASE \E bit \in PortBits : ClearPortFeature(t, h, bit)
  <2>1. PICK bit \in PortBits : ClearPortFeature(t, h, bit)
    BY <1>2
  <2>2. /\ port_status[h] \ {bit} \in SUBSET PortBits
        /\ elapsed' \in [Hcds -> BOOLEAN] /\ wakeup_en' \in BOOLEAN
    BY <1>0, <2>1 DEF ClearPortFeature, TypeOK
  <2> QED BY <1>1, <2>1, <2>2 DEF ClearPortFeature
<1>3. CASE ClearPortSuspend(t, h)
  <2>1. pc[t] \notin Callback
    BY <1>3 DEF ClearPortSuspend, Idle, Callback
  <2>2. Passes(t)
    BY <1>3, <2>1, Names DEF ClearPortSuspend, Passes
  <2>3. TypeOK'
    BY <1>3, Names DEF ClearPortSuspend, hubvars, udcvars, TypeOK
  <2> QED BY <2>2, <2>3 DEF Moves
<1>4. CASE SetPortPower(t, h)
  <2>1. /\ port_status[h] \cup {"POWER"} \in SUBSET PortBits
        /\ elapsed' \in [Hcds -> BOOLEAN] /\ wakeup_en' \in BOOLEAN
    BY <1>0, <1>4 DEF SetPortPower, TypeOK, PortBits
  <2> QED BY <1>1, <1>4, <2>1 DEF SetPortPower
<1>5. CASE SetPortSuspend(t, h)
  <2>1. /\ port_status[h] \cup {"SUSPEND"} \in SUBSET PortBits
        /\ elapsed' \in [Hcds -> BOOLEAN] /\ wakeup_en' \in BOOLEAN
    BY <1>0, <1>5 DEF SetPortSuspend, TypeOK, PortBits
  <2> QED BY <1>1, <1>5, <2>1 DEF SetPortSuspend
<1>6. CASE SetPortReset(t, h)
  <2>1. ResetStatus(h) \in SUBSET PortBits
    BY <1>0 DEF ResetStatus, PortBits
  <2>2. elapsed' \in [Hcds -> BOOLEAN] /\ wakeup_en' \in BOOLEAN
    BY <1>6 DEF SetPortReset, TypeOK
  <2> QED BY <1>1, <1>6, <2>1, <2>2 DEF SetPortReset
<1>7. CASE GetPortStatus(t, h)
  <2>1. ResetDone(h, ResumeDone(h, port_status[h])) \in SUBSET PortBits
    BY <1>0, DoneType
  <2>2. elapsed' \in [Hcds -> BOOLEAN] /\ wakeup_en' \in BOOLEAN
    BY <1>7 DEF GetPortStatus, TypeOK
  <2> QED BY <1>1, <1>7, <2>1, <2>2 DEF GetPortStatus
<1> QED BY <1>2, <1>3, <1>4, <1>5, <1>6, <1>7 DEF dummy_hub_control

\* dummy_hub_status(), from the rh_timer or at the end of an operation.
LEMMA HubStatusStep ==
    ASSUME TypeOK, NEW t \in Threads, NEW h \in Hcds, pc[t] \notin Callback, HubStatus(t, h)
    PROVE  TypeOK' /\ Moves(t)
<1>1. CASE /\ UNCHANGED <<hubvars, udcvars, elapsed>>
           /\ set_link_state(t, h, ResumeDone(h, port_status[h]), "idle")
  <2>1. ResumeDone(h, port_status[h]) \in SUBSET PortBits
    BY DoneType DEF TypeOK
  <2>2. CallerOK /\ CallerTyped
    BY <1>1 DEF hubvars, udcvars, CallerOK, CallerTyped, TypeOK
  <2> QED BY <1>1, <2>1, <2>2, Names, CallerStep
<1>2. CASE /\ pc' = [pc EXCEPT ![t] = "idle"]
           /\ UNCHANGED <<hubvars, linkvars, udcvars, callback_usage, queue, hcd, ret, ep>>
  <2>1. Passes(t)
    BY <1>2, Names DEF Passes
  <2>2. TypeOK'
    BY <1>2, Names DEF hubvars, linkvars, udcvars, TypeOK
  <2> QED BY <2>1, <2>2 DEF Moves
<1> QED BY <1>1, <1>2 DEF HubStatus

\* Bus and platform power management.
LEMMA PmStep ==
    ASSUME TypeOK, NEW t \in HubThreads,
           \/ \E h \in Hcds : dummy_bus_suspend(t, h) \/ dummy_bus_resume(t, h)
           \/ dummy_hcd_suspend(t)
           \/ dummy_hcd_resume(t)
    PROVE  TypeOK' /\ (Rests \/ Moves(t))
<1> t \in Threads
  BY Names
<1>1. ASSUME NEW h \in Hcds, NEW state \in {"running", "suspended"}, BusPm(t, h, state)
      PROVE  TypeOK' /\ Moves(t)
  <2>1. CallerOK /\ CallerTyped
    BY <1>1 DEF BusPm, udcvars, CallerOK, CallerTyped, TypeOK
  <2>2. pc[t] \notin Callback /\ port_status[h] \in SUBSET PortBits
    BY <1>1 DEF BusPm, Idle, Callback, TypeOK
  <2>3. set_link_state(t, h, port_status[h], "idle")
    BY <1>1 DEF BusPm
  <2> QED BY <2>1, <2>2, <2>3, Names, CallerStep
<1>2. CASE \E h \in Hcds : dummy_bus_suspend(t, h) \/ dummy_bus_resume(t, h)
  BY <1>1, <1>2 DEF dummy_bus_suspend, dummy_bus_resume
<1>3. CASE dummy_hcd_suspend(t)
  BY <1>3, Names DEF dummy_hcd_suspend, Rests, linkvars, udcvars, TypeOK
<1>4. CASE dummy_hcd_resume(t)
  <2>1. Passes(t)
    BY <1>4, Names DEF dummy_hcd_resume, Passes, Idle, Callback
  <2>2. TypeOK'
    BY <1>4, Names DEF dummy_hcd_resume, linkvars, udcvars, TypeOK
  <2> QED BY <2>1, <2>2 DEF Moves
<1> QED BY <1>2, <1>3, <1>4

\* The calls of the UDC core.
LEMMA UdcCallStep ==
    ASSUME TypeOK, UdcStep, pc[Udc] = "stopnuke" => ~ints_enabled
    PROVE  TypeOK' /\ (Rests \/ Moves(Udc))
<1> DEFINE h == gadget_to_dummy_hcd
<1>0. h \in Hcds /\ port_status[h] \in SUBSET PortBits /\ Udc \in Threads
  BY GadgetHcd, Names DEF TypeOK
<1>1. CASE dummy_udc_set_speed
  BY <1>1 DEF dummy_udc_set_speed, Rests, hubvars, linkvars, TypeOK
<1>2. CASE dummy_udc_start
  BY <1>2 DEF dummy_udc_start, Rests, hubvars, linkvars, TypeOK
<1>3. ASSUME NEW v \in BOOLEAN, dummy_pullup(v) \/ dummy_udc_pm(v)
      PROVE  TypeOK' /\ Moves(Udc)
  <2>1. CallerOK /\ CallerTyped
    BY <1>3 DEF dummy_pullup, dummy_udc_pm, hubvars, CallerOK, CallerTyped, TypeOK
  <2>2. pc[Udc] \notin Callback
    BY <1>3 DEF dummy_pullup, dummy_udc_pm, Idle, Callback
  <2>3. set_link_state(Udc, h, port_status[h], "poll")
    BY <1>3 DEF dummy_pullup, dummy_udc_pm
  <2> QED BY <1>0, <2>1, <2>2, <2>3, Names, CallerStep
<1>4. ASSUME NEW e \in Eps, StopThenWait(Udc, e), pc[Udc] \notin Callback, ~ints_enabled'
      PROVE  /\ queue' \in [Eps -> 0 .. MaxReq] /\ ep' \in [Threads -> Eps]
             /\ pc' \in [Threads -> PCs] /\ callback_usage' \in Int
             /\ Stops(Udc)
  <2>1. "stopnuke" \in PCs /\ StopPcs = {"stopnuke", "stopwait"} /\ "stopwait" \in PCs
    BY DEF PCs, StopPcs
  <2>2. CASE NukeOne(Udc, e, "stopnuke")
    BY <1>0, <1>4, <2>1, <2>2, NukeOneType DEF Stops, TypeOK
  <2>3. CASE /\ pc' = [pc EXCEPT ![Udc] = "stopwait"]
             /\ ep' = [ep EXCEPT ![Udc] = 0]
             /\ UNCHANGED <<queue, callback_usage>>
    BY <1>0, <1>4, <2>1, <2>3, Names DEF Stops, TypeOK
  <2> QED BY <1>4, <2>2, <2>3 DEF StopThenWait
<1>5. CASE dummy_udc_stop
  <2>1. pc[Udc] \notin Callback /\ ~ints_enabled' /\ StopThenWait(Udc, 0)
    BY <1>5 DEF dummy_udc_stop, Idle, Callback
  <2>2. /\ queue' \in [Eps -> 0 .. MaxReq] /\ ep' \in [Threads -> Eps]
        /\ pc' \in [Threads -> PCs] /\ callback_usage' \in Int
        /\ Stops(Udc)
    BY <1>4, <2>1, Names
  <2> QED BY <1>5, <2>2 DEF dummy_udc_stop, hubvars, linkvars, Moves, TypeOK
<1>6. CASE StopNukeResume /\ ~ints_enabled
  <2>1. pc[Udc] \notin Callback /\ StopThenWait(Udc, ep[Udc]) /\ ep[Udc] \in Eps
    BY <1>0, <1>6 DEF StopNukeResume, Callback, TypeOK
  <2>2. ints_enabled' = ints_enabled
    BY <1>6 DEF StopNukeResume, udcvars
  <2>3. /\ queue' \in [Eps -> 0 .. MaxReq] /\ ep' \in [Threads -> Eps]
        /\ pc' \in [Threads -> PCs] /\ callback_usage' \in Int
        /\ Stops(Udc)
    BY <1>4, <1>6, <2>1, <2>2
  <2> QED BY <1>6, <2>3 DEF StopNukeResume, hubvars, linkvars, udcvars, Moves, TypeOK
<1>7. CASE StopFinish
  <2>1. Passes(Udc)
    BY <1>7, Names DEF StopFinish, Passes, Callback
  <2>2. TypeOK'
    BY <1>7, Names DEF StopFinish, hubvars, linkvars, TypeOK
  <2> QED BY <2>1, <2>2 DEF Moves
<1> QED BY <1>1, <1>2, <1>3, <1>5, <1>6, <1>7 DEF UdcStep, StopNukeResume

\* The gadget function driver's calls.
LEMMA FnCallStep ==
    ASSUME TypeOK, NEW t \in FnThreads, FnStep(t)
    PROVE  TypeOK' /\ Moves(t)
<1> t \in Threads
  BY Names
<1>1. CASE \E e \in Eps : dummy_queue(t, e)
  <2>1. PICK e \in Eps : dummy_queue(t, e)
    BY <1>1
  <2>2. Passes(t)
    BY <2>1, Names DEF dummy_queue, Passes, Idle, Callback
  <2>3. TypeOK'
    BY <2>1, Names DEF dummy_queue, hubvars, linkvars, udcvars, TypeOK
  <2> QED BY <2>2, <2>3 DEF Moves
<1>2. CASE QueueAdd(t)
  <2>1. Passes(t)
    BY <1>2, Names DEF QueueAdd, Passes, Callback
  <2>2. queue' \in [Eps -> 0 .. MaxReq]
    <3>1. ep[t] \in Eps /\ queue[ep[t]] \in 0 .. MaxReq /\ queue[ep[t]] < MaxReq
      BY <1>2 DEF QueueAdd, TypeOK
    <3> QED BY <1>2, <3>1, BoundsAssumption DEF QueueAdd, TypeOK
  <2>3. TypeOK'
    BY <1>2, <2>2, Names DEF QueueAdd, hubvars, linkvars, udcvars, TypeOK
  <2> QED BY <2>1, <2>3 DEF Moves
<1>3. CASE dummy_wakeup(t)
  <2>1. Passes(t)
    BY <1>3, Names DEF dummy_wakeup, Passes, Idle, Callback
  <2>2. TypeOK'
    BY <1>3, Names, GadgetHcd DEF dummy_wakeup, hubvars, linkvars, udcvars, TypeOK
  <2> QED BY <2>1, <2>2 DEF Moves
<1>4. CASE WakeupSignal(t)
  <2>1. Passes(t)
    BY <1>4, Names DEF WakeupSignal, Passes, Callback
  <2>2. TypeOK'
    BY <1>4, Names DEF WakeupSignal, hubvars, udcvars, TypeOK
  <2> QED BY <2>1, <2>2 DEF Moves
<1> QED BY <1>1, <1>2, <1>3, <1>4 DEF FnStep

\* dummy_timer().
LEMMA TimerCallStep ==
    ASSUME TypeOK, NEW t \in TimerThreads, TimerStep(t)
    PROVE  TypeOK' /\ (Rests \/ Moves(t))
<1> t \in Threads
  BY Names
<1>1. CASE \E h \in Hcds : TimerFeature(t, h)
  BY <1>1 DEF TimerFeature, Rests, hubvars, linkvars, TypeOK
<1>2. CASE \E h \in Hcds : TimerSetup(t, h)
  <2>1. Idle(t) /\ ints_enabled' = ints_enabled /\ ints_enabled
    BY <1>2 DEF TimerSetup, FindEp0, udcvars
  <2>2. "setup" \in Callback /\ pc[t] \notin Callback
    BY <2>1 DEF Callback, Idle
  <2>3. Enters(t)
    BY <1>2, <2>2 DEF TimerSetup, Enters
  <2>4. TypeOK'
    BY <1>2, <2>2, Names DEF TimerSetup, hubvars, linkvars, udcvars, TypeOK
  <2> QED BY <2>1, <2>3, <2>4 DEF Moves
<1>3. CASE SetupReturn(t)
  <2>1. Leaves(t)
    BY <1>3, Names DEF SetupReturn, Leaves, Callback
  <2>2. TypeOK'
    BY <1>3, Names DEF SetupReturn, hubvars, linkvars, udcvars, TypeOK
  <2> QED BY <2>1, <2>2 DEF Moves
<1>4. CASE \E e \in Eps : TimerComplete(t, e)
  <2>1. PICK e \in Eps : TimerComplete(t, e)
    BY <1>4
  <2>2. queue' \in [Eps -> 0 .. MaxReq]
    BY <2>1, BoundsAssumption DEF TimerComplete, TypeOK
  <2> QED BY <2>1, <2>2 DEF TimerComplete, Rests, hubvars, linkvars, udcvars, TypeOK
<1> QED BY <1>1, <1>2, <1>3, <1>4 DEF TimerStep

\* A thread finishing what it has begun.
LEMMA ContinueStep ==
    ASSUME TypeOK, NEW t \in Threads, Continue(t)
    PROVE  TypeOK' /\ Moves(t)
<1>1. CASE NukeResume(t)
  <2>1. ep[t] \in Eps /\ pc[t] \notin Callback /\ StopThenEvent(t, ep[t])
    BY <1>1 DEF NukeResume, Callback, TypeOK
  <2>2. /\ queue' \in [Eps -> 0 .. MaxReq] /\ ep' \in [Threads -> Eps]
        /\ pc' \in [Threads -> PCs] /\ callback_usage' \in Int
        /\ Passes(t) \/ (Enters(t) /\ pc'[t] = "event")
    BY <2>1, StopThenEventStep
  <2> QED BY <1>1, <2>2 DEF NukeResume, hubvars, linkvars, udcvars, Moves, TypeOK
<1>2. CASE CallbackReturn(t)
  <2>1. pc[t] \in Callback /\ ret[t] \in AfterCall /\ hcd[t] \in Hcds
    BY <1>2 DEF CallbackReturn, Callback, TypeOK
  <2>2. Leaves(t)
    BY <1>2, <2>1 DEF CallbackReturn, Leaves
  <2>3. /\ old_status' \in [Hcds -> SUBSET PortBits]
        /\ old_active' \in [Hcds -> BOOLEAN]
    BY <1>2, <2>1 DEF CallbackReturn, Remember, TypeOK
  <2>4. TypeOK'
    BY <1>2, <2>1, <2>3, Names DEF CallbackReturn, hubvars, udcvars, TypeOK
  <2> QED BY <2>2, <2>4 DEF Moves
<1>3. CASE PollRhStatus(t)
  <2>1. hcd[t] \in Hcds /\ pc[t] \notin Callback
    BY <1>3 DEF PollRhStatus, Callback, TypeOK
  <2>2. CASE HubStatus(t, hcd[t])
    BY <2>1, <2>2, HubStatusStep
  <2>3. CASE /\ pc' = [pc EXCEPT ![t] = "idle"]
             /\ UNCHANGED <<hubvars, linkvars, udcvars, callback_usage, queue, hcd, ret, ep>>
    <3>1. Passes(t)
      BY <2>1, <2>3, Names DEF Passes
    <3>2. TypeOK'
      BY <2>3, Names DEF hubvars, linkvars, udcvars, TypeOK
    <3> QED BY <3>1, <3>2 DEF Moves
  <2> QED BY <1>3, <2>2, <2>3 DEF PollRhStatus
<1> QED BY <1>1, <1>2, <1>3 DEF Continue

\* Every step keeps TypeOK and moves at most one thread with respect to the callbacks.
LEMMA NextStep ==
    ASSUME TypeOK, pc[Udc] = "stopnuke" => ~ints_enabled, [Next]_vars
    PROVE  TypeOK' /\ (Rests \/ \E t \in Threads : Moves(t))
<1>1. CASE \E t \in HubThreads : HubStep(t)
  BY <1>1, HubControlStep, PmStep, Names DEF HubStep
<1>2. CASE \E t \in RhThreads, h \in Hcds : dummy_hub_status(t, h)
  <2>1. PICK t \in RhThreads, h \in Hcds : dummy_hub_status(t, h)
    BY <1>2
  <2>2. pc[t] \notin Callback /\ HubStatus(t, h) /\ t \in Threads
    BY <2>1, Names DEF dummy_hub_status, Idle, Callback
  <2> QED BY <2>2, HubStatusStep
<1>3. CASE \E t \in TimerThreads : TimerStep(t)
  BY <1>3, TimerCallStep, Names
<1>4. CASE UdcStep
  BY <1>4, UdcCallStep, Names
<1>5. CASE \E t \in FnThreads : FnStep(t)
  BY <1>5, FnCallStep, Names
<1>6. CASE \E t \in Threads : Continue(t)
  BY <1>6, ContinueStep
<1>7. CASE \E h \in Hcds : Tick(h)
  BY <1>7 DEF Tick, Rests, hubvars, udcvars, TypeOK
<1>8. CASE UNCHANGED vars
  BY <1>8 DEF vars, hubvars, linkvars, udcvars, Rests, TypeOK
<1> QED BY <1>1, <1>2, <1>3, <1>4, <1>5, <1>6, <1>7, <1>8 DEF Next

\* callback_usage follows the set of threads inside a callback.
LEMMA CountStep ==
    ASSUME TypeOK, CallbackCount, TypeOK', Rests \/ \E t \in Threads : Moves(t)
    PROVE  CallbackCount'
<1> IsFiniteSet(InCallback)
  <2>1. IsFiniteSet(HubThreads \cup RhThreads \cup TimerThreads \cup FnThreads)
    BY ThreadsAssumption
  <2>2. IsFiniteSet({Udc}) 
    BY FS_Singleton
  <2>3. IsFiniteSet(Threads)
    BY <2>1, <2>2, FS_Union DEF Threads
  <2> QED BY <2>3, FS_Subset DEF InCallback
<1>1. CASE Rests
  BY <1>1 DEF Rests, CallbackCount, InCallback
<1>2. ASSUME NEW t \in Threads, Enters(t)
      PROVE  CallbackCount'
  <2>1. InCallback' = InCallback \cup {t} /\ t \notin InCallback
    BY <1>2 DEF Enters, InCallback, TypeOK
  <2>2. Cardinality(InCallback') = Cardinality(InCallback) + 1
    BY <2>1, FS_AddElement
  <2> QED BY <1>2, <2>2 DEF Enters, CallbackCount
<1>3. ASSUME NEW t \in Threads, Leaves(t)
      PROVE  CallbackCount'
  <2>0. AfterCall \cap Callback = {}
    BY DEF AfterCall, Callback
  <2>1. InCallback' = InCallback \ {t} /\ t \in InCallback
    BY <1>3, <2>0 DEF Leaves, InCallback, TypeOK
  <2>2. Cardinality(InCallback') = Cardinality(InCallback) - 1
    BY <2>1, FS_RemoveElement
  <2> QED BY <1>3, <2>2 DEF Leaves, CallbackCount
<1>4. ASSUME NEW t \in Threads, Passes(t) \/ Stops(t)
      PROVE  CallbackCount'
  <2>0. StopPcs \cap Callback = {}
    BY DEF StopPcs, Callback
  <2>1. InCallback' = InCallback /\ callback_usage' = callback_usage
    BY <1>4, <2>0 DEF Passes, Stops, InCallback, TypeOK
  <2> QED BY <2>1 DEF CallbackCount
<1> QED BY <1>1, <1>2, <1>3, <1>4 DEF Moves

\* How a step may change dum->driver and ints_enabled.
DriverKept == driver' = driver /\ ints_enabled' = ints_enabled

\* Only binding and unbinding change the driver and its permission to be called.
LEMMA DriverStep ==
    ASSUME [Next]_vars
    PROVE  DriverKept \/ dummy_udc_start \/ dummy_udc_stop \/ StopFinish
<1>1. CASE \E t \in HubThreads : HubStep(t)
  <2>1. ASSUME NEW t, NEW h, dummy_hub_control(t, h)
        PROVE  DriverKept
    <3>1. ASSUME NEW p, HubRequest(t, h, p)
          PROVE  DriverKept
      BY <3>1 DEF HubRequest, DriverKept
    <3> QED BY <2>1, <3>1 DEF dummy_hub_control, ClearPortFeature, ClearPortSuspend,
              SetPortPower, SetPortSuspend, SetPortReset, GetPortStatus, udcvars, DriverKept
  <2>2. ASSUME NEW t, NEW h, dummy_bus_suspend(t, h) \/ dummy_bus_resume(t, h)
        PROVE  DriverKept
    BY <2>2 DEF dummy_bus_suspend, dummy_bus_resume, BusPm, udcvars, DriverKept
  <2>3. ASSUME NEW t, dummy_hcd_suspend(t) \/ dummy_hcd_resume(t)
        PROVE  DriverKept
    BY <2>3 DEF dummy_hcd_suspend, dummy_hcd_resume, udcvars, DriverKept
  <2> QED BY <1>1, <2>1, <2>2, <2>3 DEF HubStep
<1>2. CASE \E t \in RhThreads, h \in Hcds : dummy_hub_status(t, h)
  BY <1>2 DEF dummy_hub_status, HubStatus, udcvars, DriverKept
<1>3. CASE \E t \in TimerThreads : TimerStep(t)
  BY <1>3 DEF TimerStep, TimerFeature, TimerSetup, SetupReturn, TimerComplete, udcvars,
       DriverKept
<1>4. CASE UdcStep
  BY <1>4 DEF UdcStep, dummy_udc_set_speed, dummy_pullup, dummy_udc_pm, StopNukeResume,
       udcvars, DriverKept
<1>5. CASE \E t \in FnThreads : FnStep(t)
  BY <1>5 DEF FnStep, dummy_queue, QueueAdd, dummy_wakeup, WakeupSignal, udcvars, DriverKept
<1>6. CASE \E t \in Threads : Continue(t)
  BY <1>6 DEF Continue, NukeResume, CallbackReturn, PollRhStatus, HubStatus, udcvars,
       DriverKept
<1>7. CASE \E h \in Hcds : Tick(h)
  BY <1>7 DEF Tick, udcvars, DriverKept
<1>8. CASE UNCHANGED vars
  BY <1>8 DEF vars, udcvars, DriverKept
<1> QED BY <1>1, <1>2, <1>3, <1>4, <1>5, <1>6, <1>7, <1>8 DEF Next

\* IndInv is inductive.
LEMMA IndInvStep ==
    ASSUME IndInv, [Next]_vars
    PROVE  IndInv'
<1> USE DEF IndInv
<1>1. TypeOK' /\ (Rests \/ \E t \in Threads : Moves(t))
  BY NextStep DEF StopProtocol
<1>2. CallbackCount'
  BY <1>1, CountStep
<1>3. StopProtocol'
  <2>1. (ints_enabled => driver)'
    <3>1. CASE DriverKept
      BY <3>1 DEF DriverKept, StopProtocol
    <3>2. CASE dummy_udc_start
      BY <3>2 DEF dummy_udc_start
    <3>3. CASE dummy_udc_stop
      BY <3>3 DEF dummy_udc_stop
    <3>4. CASE StopFinish
      BY <3>4 DEF StopFinish, StopProtocol
    <3> QED BY <3>1, <3>2, <3>3, <3>4, DriverStep
  <2>2. (pc[Udc] \in StopPcs => ~ints_enabled)'
    <3>1. ASSUME ints_enabled', pc'[Udc] \in StopPcs
          PROVE  pc[Udc] \in StopPcs
      <4>1. CASE Rests
        BY <3>1, <4>1 DEF Rests
      <4>2. ASSUME NEW t \in Threads, Moves(t)
            PROVE  pc[Udc] \in StopPcs
        <5>1. ~Stops(t)
          BY <3>1 DEF Stops
        <5>2. \E c : c \notin StopPcs /\ pc' = [pc EXCEPT ![t] = c]
          BY <4>2, <5>1, Names DEF Moves, Passes, Leaves, Enters
        <5> QED BY <3>1, <5>2, Names DEF TypeOK
      <4> QED BY <1>1, <4>1, <4>2
    <3>2. ASSUME pc[Udc] \in StopPcs, ints_enabled'
          PROVE  FALSE
      <4>1. ~ints_enabled
        BY <3>2 DEF StopProtocol, StopPcs
      <4>2. ~dummy_udc_start
        BY <3>2 DEF dummy_udc_start, Idle, StopPcs
      <4> QED BY <3>2, <4>1, <4>2, DriverStep DEF DriverKept, dummy_udc_stop, StopFinish
    <3> QED BY <3>1, <3>2
  <2> QED BY <2>1, <2>2 DEF StopProtocol, StopPcs
<1>4. CallbackHasDriver'
  <2> SUFFICES ASSUME NEW u \in Threads, pc'[u] \in {"pm", "setup"}, ~driver'
               PROVE  FALSE
    BY DEF CallbackHasDriver
  <2>1. ~ints_enabled'
    BY <1>3 DEF StopProtocol
  <2>2. pc[u] \in {"pm", "setup"}
    <3>1. CASE Rests
      BY <3>1 DEF Rests
    <3>2. ASSUME NEW t \in Threads, Moves(t), t = u
          PROVE  FALSE
      BY <2>1, <3>2 DEF Moves, Passes, Leaves, Stops, AfterCall, StopPcs, Callback, TypeOK
    <3>3. ASSUME NEW t \in Threads, Moves(t), t # u
          PROVE  pc[u] = pc'[u]
      BY <3>3 DEF Moves, Passes, Leaves, Stops, Enters, TypeOK
    <3> QED BY <1>1, <3>1, <3>2, <3>3
  <2>3. driver
    BY <2>2 DEF CallbackHasDriver
  <2>4. StopFinish
    BY <2>3, DriverStep DEF DriverKept, dummy_udc_start, dummy_udc_stop
  <2>5. u \in InCallback
    BY <2>2 DEF InCallback, Callback
  <2>6. Cardinality(InCallback) # 0
    <3>1. IsFiniteSet(Threads)
      BY ThreadsAssumption, FS_Singleton, FS_Union DEF Threads
    <3>2. IsFiniteSet(InCallback)
      BY <3>1, FS_Subset DEF InCallback
    <3> QED BY <2>5, <3>2, FS_EmptySet
  <2>7. callback_usage \in Nat
    <3>1. IsFiniteSet(Threads)
      BY ThreadsAssumption, FS_Singleton, FS_Union DEF Threads
    <3>2. IsFiniteSet(InCallback)
      BY <3>1, FS_Subset DEF InCallback
    <3> QED BY <3>2, FS_CardinalityType DEF CallbackCount
  <2> QED BY <2>4, <2>6, <2>7 DEF StopFinish, CallbackCount
<1> QED BY <1>1, <1>2, <1>3, <1>4

\* The initial state satisfies IndInv.
LEMMA IndInvInit ==
    ASSUME Init
    PROVE  IndInv
<1>1. TypeOK
  <2>1. 0 \in 0 .. MaxReq /\ {} \in SUBSET PortBits /\ "idle" \in PCs
    BY BoundsAssumption DEF PCs, AfterCall
  <2>2. /\ pullup \in BOOLEAN /\ udc_suspended \in BOOLEAN /\ ints_enabled \in BOOLEAN
        /\ driver \in BOOLEAN /\ super \in BOOLEAN /\ wakeup_en \in BOOLEAN
        /\ super => "ss" \in Hcds
    BY Zenon DEF Init
  <2>3. /\ active \in [Hcds -> BOOLEAN] /\ old_active \in [Hcds -> BOOLEAN]
        /\ resuming \in [Hcds -> BOOLEAN] /\ accessible \in [Hcds -> BOOLEAN]
        /\ elapsed \in [Hcds -> BOOLEAN]
    BY Zenon DEF Init
  <2>4. /\ port_status \in [Hcds -> SUBSET PortBits] /\ old_status \in [Hcds -> SUBSET PortBits]
        /\ rh_state \in [Hcds -> {"running", "suspended"}]
        /\ callback_usage \in Int /\ queue \in [Eps -> 0 .. MaxReq]
        /\ pc \in [Threads -> PCs] /\ hcd \in [Threads -> Hcds]
        /\ ret \in [Threads -> AfterCall] /\ ep \in [Threads -> Eps]
    BY <2>1, Names DEF Init
  <2> QED BY <2>2, <2>3, <2>4 DEF TypeOK
<1>2. StopProtocol /\ CallbackHasDriver
  BY Names DEF Init, StopProtocol, CallbackHasDriver
<1>3. InCallback = {}
  BY DEF Init, InCallback, Callback
<1>4. CallbackCount
  BY <1>3, FS_EmptySet DEF CallbackCount, Init
<1> QED BY <1>1, <1>2, <1>4 DEF IndInv

\* Type correctness of the link model for every number of hubs, threads and requests.
THEOREM TypeCorrect == Spec => []TypeOK
<1>1. Init => IndInv
  BY IndInvInit
<1>2. IndInv /\ [Next]_vars => IndInv'
  BY IndInvStep
<1>3. IndInv => TypeOK
  BY DEF IndInv
<1> QED BY <1>1, <1>2, <1>3, PTL DEF Spec

\* callback_usage always counts exactly the driver callbacks in progress, so the loop of
\* dummy_udc_stop() waits for all of them and for nothing else.
THEOREM CallbacksCounted == Spec => []CallbackCount
<1>1. Init => IndInv
  BY IndInvInit
<1>2. IndInv /\ [Next]_vars => IndInv'
  BY IndInvStep
<1>3. IndInv => CallbackCount
  BY DEF IndInv
<1> QED BY <1>1, <1>2, <1>3, PTL DEF Spec

\* driver->setup, ->suspend and ->resume never run without a bound driver.
THEOREM CallbacksHaveDriver == Spec => []CallbackHasDriver
<1>1. Init => IndInv
  BY IndInvInit
<1>2. IndInv /\ [Next]_vars => IndInv'
  BY IndInvStep
<1>3. IndInv => CallbackHasDriver
  BY DEF IndInv
<1> QED BY <1>1, <1>2, <1>3, PTL DEF Spec
-----------------------------------------------------------------------------
(* The active link.  set_link_state() recomputes a hub from whatever       *)
(* status its caller has prepared, and only the hub of the gadget's speed  *)
(* can come out active.                                                    *)

\* A port that is enabled is not in reset, and a USB 3 port has no suspend bit.
PortOK(h, p) ==
    /\ "ENABLE" \in p => "RESET" \notin p
    /\ h = "ss" => "SUSPEND" \notin p

PortsOK == \A h \in Hcds : PortOK(h, port_status[h])

\* Only the hub of the gadget's speed is active.
GadgetsLink == \A h \in Hcds : active[h] => (h = "ss") = super

\* What makes ActiveLinkIsUp inductive.
LinkInv ==
    /\ ActiveLinkIsUp /\ GadgetsLink /\ PortsOK
    /\ Hcds = {"hs"} => PortStatusLegal

\* What a port status q means for an active hub h.
UpAt(h, q) ==
    /\ {"POWER", "CONNECTION", "ENABLE"} \subseteq q
    /\ {"SUSPEND", "RESET"} \cap q = {}
    /\ rh_state'[h] = "running" /\ pullup' /\ ~udc_suspended'
    /\ (h = "ss") = super

LegalHs(q) ==
    /\ "ENABLE" \in q => "CONNECTION" \in q /\ "RESET" \notin q
    /\ "SUSPEND" \in q => "ENABLE" \in q
    /\ q # {} => "POWER" \in q

\* The status and the activity set_link_state() computes for a hub whose speed does not clash.
LEMMA BySpeedFacts ==
    ASSUME TypeOK, CallerOK, NEW h \in Hcds, NEW p \in SUBSET PortBits, PortOK(h, p),
           ~SpeedMismatch(h)
    PROVE  /\ PortOK(h, PortBySpeed(h, p))
           /\ ActiveBySpeed(h, p) => UpAt(h, PortBySpeed(h, p))
           /\ h = "hs" => LegalHs(PortBySpeed(h, p))
<1> DEFINE q == PortBySpeed(h, p)
<1>1. PortOK(h, q)
  BY DEF PortBySpeed, PortOK
<1>2. ASSUME ActiveBySpeed(h, p)
      PROVE  UpAt(h, q)
  <2>1. /\ "POWER" \in p /\ pullup' /\ ~udc_suspended' /\ "ENABLE" \in p
        /\ h = "hs" => "SUSPEND" \notin p
        /\ rh_state'[h] = "running"
    BY <1>2 DEF ActiveBySpeed, CallerOK
  <2>2. "SUSPEND" \notin p /\ "RESET" \notin p
    BY <2>1, HcdsAssumption DEF PortOK
  <2>3. /\ {"POWER", "CONNECTION", "ENABLE"} \subseteq q
        /\ {"SUSPEND", "RESET"} \cap q = {}
    BY <2>1, <2>2 DEF PortBySpeed
  <2>4. (h = "ss") = super
    BY <2>1 DEF SpeedMismatch, TypeOK
  <2> QED BY <2>1, <2>3, <2>4 DEF UpAt
<1>3. ASSUME h = "hs"
      PROVE  LegalHs(q)
  BY <1>3 DEF PortBySpeed, PortOK, LegalHs
<1> QED BY <1>1, <1>2, <1>3

\* set_link_state() leaves one hub as LinkInv wants it.
LEMMA LinkStepActive ==
    ASSUME TypeOK, CallerOK, NEW t \in Threads, NEW h \in Hcds, NEW p \in SUBSET PortBits,
           NEW next \in AfterCall, PortOK(h, p), set_link_state(t, h, p, next)
    PROVE  \E q \in SUBSET PortBits, a \in BOOLEAN :
              /\ port_status' = [port_status EXCEPT ![h] = q]
              /\ active' = [active EXCEPT ![h] = a]
              /\ PortOK(h, q)
              /\ a => UpAt(h, q)
              /\ Hcds = {"hs"} => LegalHs(q)
<1> DEFINE q == PortBySpeed(h, p)
           a == ActiveBySpeed(h, p)
<1>1. CASE SpeedMismatch(h)
  <2>1. /\ port_status' = [port_status EXCEPT ![h] = p]
        /\ active' = [active EXCEPT ![h] = FALSE]
    BY <1>1 DEF set_link_state
  <2>2. Hcds # {"hs"}
    BY <1>1 DEF SpeedMismatch, TypeOK
  <2> QED BY <2>1, <2>2
<1>2. CASE ~SpeedMismatch(h)
  <2>1. /\ port_status' = [port_status EXCEPT ![h] = q]
        /\ active' = [active EXCEPT ![h] = a]
    BY <1>2 DEF set_link_state
  <2>2. q \in SUBSET PortBits /\ a \in BOOLEAN
    BY PortBySpeedType DEF CallerOK, ActiveBySpeed
  <2>3. /\ PortOK(h, q)
        /\ a => UpAt(h, q)
        /\ h = "hs" => LegalHs(q)
    BY <1>2, BySpeedFacts
  <2> HIDE DEF q, a
  <2>4. Hcds = {"hs"} => h = "hs"
    OBVIOUS
  <2> QED BY <2>1, <2>2, <2>3, <2>4
<1> QED BY <1>1, <1>2

\* An action that ends in set_link_state() keeps LinkInv: hub h is recomputed, and the
\* other hub either sees the same pullup and bus state as before, or is not the gadget's.
LEMMA CallerStepActive ==
    ASSUME TypeOK, LinkInv, CallerOK, NEW t \in Threads, NEW h \in Hcds,
           NEW p \in SUBSET PortBits, NEW next \in AfterCall, PortOK(h, p), super' = super,
           \A g \in Hcds : g # h => rh_state'[g] = rh_state[g],
           \/ pullup' = pullup /\ udc_suspended' = udc_suspended
           \/ h = gadget_to_dummy_hcd,
           set_link_state(t, h, p, next)
    PROVE  LinkInv'
<1>1. PICK q \in SUBSET PortBits, a \in BOOLEAN :
          /\ port_status' = [port_status EXCEPT ![h] = q]
          /\ active' = [active EXCEPT ![h] = a]
          /\ PortOK(h, q)
          /\ a => UpAt(h, q)
          /\ Hcds = {"hs"} => LegalHs(q)
  BY LinkStepActive
<1>2. port_status'[h] = q /\ active'[h] = a
  BY <1>1 DEF TypeOK
<1>3. \A g \in Hcds : g # h => port_status'[g] = port_status[g] /\ active'[g] = active[g]
  BY <1>1 DEF TypeOK
<1>4. PortsOK'
  BY <1>1, <1>2, <1>3 DEF PortsOK, PortOK, LinkInv
<1>5. GadgetsLink'
  BY <1>1, <1>2, <1>3 DEF GadgetsLink, UpAt, LinkInv
<1>6. ActiveLinkIsUp'
  <2> SUFFICES ASSUME NEW g \in Hcds, active'[g]
               PROVE  /\ {"POWER", "CONNECTION", "ENABLE"} \subseteq port_status'[g]
                      /\ {"SUSPEND", "RESET"} \cap port_status'[g] = {}
                      /\ rh_state'[g] = "running" /\ pullup' /\ ~udc_suspended'
    BY DEF ActiveLinkIsUp
  <2>1. CASE g = h
    BY <1>1, <1>2, <2>1 DEF UpAt
  <2>2. CASE g # h
    <3>1. /\ active[g] /\ port_status'[g] = port_status[g] /\ rh_state'[g] = rh_state[g]
      BY <1>3, <2>2
    <3>2. (g = "ss") = super
      BY <3>1 DEF LinkInv, GadgetsLink
    <3>3. g = gadget_to_dummy_hcd
      BY <3>2, HcdsAssumption DEF gadget_to_dummy_hcd, TypeOK
    <3>4. pullup' = pullup /\ udc_suspended' = udc_suspended
      BY <2>2, <3>3
    <3> QED BY <3>1, <3>4 DEF LinkInv, ActiveLinkIsUp
  <2> QED BY <2>1, <2>2
<1>7. Hcds = {"hs"} => PortStatusLegal'
  BY <1>1, <1>2 DEF LegalHs, PortStatusLegal
<1> QED BY <1>4, <1>5, <1>6, <1>7 DEF LinkInv

\* What LinkInv is about stays as it is.
LinkKept == UNCHANGED <<port_status, active, rh_state, pullup, udc_suspended, super>>

LEMMA LinkKeptStep ==
    ASSUME LinkInv, LinkKept
    PROVE  LinkInv'
  BY DEF LinkKept, LinkInv, ActiveLinkIsUp, GadgetsLink, PortsOK, PortOK, PortStatusLegal

\* Every request of dummy_hub_control() keeps LinkInv.
LEMMA HubControlActive ==
    ASSUME TypeOK, LinkInv, NEW t \in HubThreads, NEW h \in Hcds, dummy_hub_control(t, h)
    PROVE  LinkInv'
<1> t \in Threads /\ "pollc" \in AfterCall
  BY Names
<1>0. port_status[h] \in SUBSET PortBits /\ PortOK(h, port_status[h])
  BY DEF TypeOK, LinkInv, PortsOK
<1>1. ASSUME NEW p \in SUBSET PortBits, PortOK(h, p), HubRequest(t, h, p)
      PROVE  LinkInv'
  <2>1. /\ CallerOK /\ super' = super
        /\ rh_state' = rh_state /\ pullup' = pullup /\ udc_suspended' = udc_suspended
    BY <1>1 DEF HubRequest, hubvars, CallerOK, TypeOK
  <2>2. set_link_state(t, h, p, "pollc")
    BY <1>1 DEF HubRequest
  <2> QED BY <1>1, <2>1, <2>2, CallerStepActive
<1>2. CASE \E bit \in PortBits : ClearPortFeature(t, h, bit)
  <2>1. PICK bit \in PortBits : ClearPortFeature(t, h, bit)
    BY <1>2
  <2>2. port_status[h] \ {bit} \in SUBSET PortBits /\ PortOK(h, port_status[h] \ {bit})
    BY <1>0 DEF PortOK
  <2> QED BY <1>1, <2>1, <2>2 DEF ClearPortFeature
<1>3. CASE ClearPortSuspend(t, h)
  BY <1>3, LinkKeptStep DEF ClearPortSuspend, hubvars, udcvars, LinkKept
<1>4. CASE SetPortPower(t, h)
  <2>1. /\ port_status[h] \cup {"POWER"} \in SUBSET PortBits
        /\ PortOK(h, port_status[h] \cup {"POWER"})
    BY <1>0 DEF PortBits, PortOK
  <2> QED BY <1>1, <1>4, <2>1 DEF SetPortPower
<1>5. CASE SetPortSuspend(t, h)
  <2>1. /\ port_status[h] \cup {"SUSPEND"} \in SUBSET PortBits
        /\ PortOK(h, port_status[h] \cup {"SUSPEND"})
    BY <1>0, <1>5 DEF SetPortSuspend, PortBits, PortOK
  <2> QED BY <1>1, <1>5, <2>1 DEF SetPortSuspend
<1>6. CASE SetPortReset(t, h)
  <2>1. ResetStatus(h) \in SUBSET PortBits /\ PortOK(h, ResetStatus(h))
    BY <1>0, HcdsAssumption DEF ResetStatus, PortBits, PortOK
  <2> QED BY <1>1, <1>6, <2>1 DEF SetPortReset
<1>7. CASE GetPortStatus(t, h)
  <2> DEFINE r == ResumeDone(h, port_status[h])
  <2>1. r \in SUBSET PortBits /\ PortOK(h, r)
    BY <1>0, DoneType DEF ResumeDone, PortOK
  <2> HIDE DEF r
  <2>2. ResetDone(h, r) \in SUBSET PortBits /\ PortOK(h, ResetDone(h, r))
    BY <2>1, DoneType DEF ResetDone, PortOK
  <2> QED BY <1>1, <1>7, <2>2 DEF GetPortStatus, r
<1> QED BY <1>2, <1>3, <1>4, <1>5, <1>6, <1>7 DEF dummy_hub_control

\* dummy_hub_status() keeps LinkInv.
LEMMA HubStatusActive ==
    ASSUME TypeOK, LinkInv, NEW t \in Threads, NEW h \in Hcds, HubStatus(t, h)
    PROVE  LinkInv'
<1>1. CASE /\ UNCHANGED <<hubvars, udcvars, elapsed>>
           /\ set_link_state(t, h, ResumeDone(h, port_status[h]), "idle")
  <2> DEFINE r == ResumeDone(h, port_status[h])
  <2>1. r \in SUBSET PortBits /\ PortOK(h, r)
    BY DoneType DEF ResumeDone, PortOK, TypeOK, LinkInv, PortsOK
  <2>2. /\ CallerOK /\ super' = super
        /\ rh_state' = rh_state /\ pullup' = pullup /\ udc_suspended' = udc_suspended
    BY <1>1 DEF hubvars, udcvars, CallerOK, TypeOK
  <2> QED BY <1>1, <2>1, <2>2, Names, CallerStepActive
<1>2. CASE UNCHANGED <<hubvars, linkvars, udcvars, callback_usage, queue, hcd, ret, ep>>
  BY <1>2, LinkKeptStep DEF hubvars, linkvars, udcvars, LinkKept
<1> QED BY <1>1, <1>2 DEF HubStatus

\* Every step keeps LinkInv.
LEMMA LinkInvStep ==
    ASSUME TypeOK, LinkInv, [Next]_vars
    PROVE  LinkInv'
<1>1. ASSUME NEW t \in HubThreads, NEW h \in Hcds, NEW state \in {"running", "suspended"},
             BusPm(t, h, state)
      PROVE  LinkInv'
  <2>1. /\ CallerOK /\ super' = super
        /\ pullup' = pullup /\ udc_suspended' = udc_suspended
        /\ \A g \in Hcds : g # h => rh_state'[g] = rh_state[g]
    BY <1>1 DEF BusPm, udcvars, CallerOK, TypeOK
  <2>2. port_status[h] \in SUBSET PortBits /\ PortOK(h, port_status[h])
    BY DEF TypeOK, LinkInv, PortsOK
  <2>3. set_link_state(t, h, port_status[h], "idle")
    BY <1>1 DEF BusPm
  <2> QED BY <2>1, <2>2, <2>3, Names, CallerStepActive
<1>2. CASE \E t \in HubThreads : HubStep(t)
  <2>1. PICK t \in HubThreads : HubStep(t)
    BY <1>2
  <2>2. CASE \E h \in Hcds : dummy_hub_control(t, h)
    BY <2>2, HubControlActive
  <2>3. CASE \E h \in Hcds : dummy_bus_suspend(t, h) \/ dummy_bus_resume(t, h)
    BY <1>1, <2>3 DEF dummy_bus_suspend, dummy_bus_resume
  <2>4. CASE dummy_hcd_suspend(t) \/ dummy_hcd_resume(t)
    BY <2>4, LinkKeptStep
       DEF dummy_hcd_suspend, dummy_hcd_resume, linkvars, udcvars, LinkKept
  <2> QED BY <2>1, <2>2, <2>3, <2>4 DEF HubStep
<1>3. CASE \E t \in RhThreads, h \in Hcds : dummy_hub_status(t, h)
  BY <1>3, HubStatusActive, Names DEF dummy_hub_status
<1>4. CASE \E t \in TimerThreads : TimerStep(t)
  BY <1>4, LinkKeptStep DEF TimerStep, TimerFeature, TimerSetup, SetupReturn, TimerComplete,
       hubvars, linkvars, udcvars, LinkKept
<1>5. CASE UdcStep
  <2>1. CASE dummy_udc_set_speed
    <3>1. /\ ~pullup /\ active' = active /\ port_status' = port_status
          /\ rh_state' = rh_state /\ pullup' = pullup /\ udc_suspended' = udc_suspended
      BY <2>1 DEF dummy_udc_set_speed, hubvars, linkvars
    <3>2. \A h \in Hcds : ~active[h]
      BY <3>1 DEF LinkInv, ActiveLinkIsUp
    <3> QED BY <3>1, <3>2 DEF LinkInv, ActiveLinkIsUp, GadgetsLink, PortsOK, PortOK,
               PortStatusLegal
  <2>2. CASE dummy_udc_start \/ dummy_udc_stop \/ StopNukeResume \/ StopFinish
    BY <2>2, LinkKeptStep DEF dummy_udc_start, dummy_udc_stop, StopNukeResume, StopFinish,
         hubvars, linkvars, udcvars, LinkKept
  <2>3. ASSUME NEW v \in BOOLEAN, dummy_pullup(v) \/ dummy_udc_pm(v)
        PROVE  LinkInv'
    <3> DEFINE h == gadget_to_dummy_hcd
    <3>1. CallerOK /\ super' = super /\ rh_state' = rh_state
      BY <2>3 DEF dummy_pullup, dummy_udc_pm, hubvars, CallerOK, TypeOK
    <3>2. h \in Hcds /\ port_status[h] \in SUBSET PortBits /\ PortOK(h, port_status[h])
      BY GadgetHcd DEF TypeOK, LinkInv, PortsOK
    <3>3. set_link_state(Udc, h, port_status[h], "poll")
      BY <2>3 DEF dummy_pullup, dummy_udc_pm
    <3> HIDE DEF h
    <3> QED BY <3>1, <3>2, <3>3, Names, CallerStepActive DEF h
  <2> QED BY <1>5, <2>1, <2>2, <2>3 DEF UdcStep
<1>6. CASE \E t \in FnThreads : FnStep(t)
  BY <1>6, LinkKeptStep DEF FnStep, dummy_queue, QueueAdd, dummy_wakeup, WakeupSignal,
       hubvars, linkvars, udcvars, LinkKept
<1>7. CASE \E t \in Threads : Continue(t)
  <2>1. PICK t \in Threads : NukeResume(t) \/ CallbackReturn(t) \/ PollRhStatus(t)
    BY <1>7 DEF Continue
  <2>2. CASE NukeResume(t) \/ CallbackReturn(t)
    BY <2>2, LinkKeptStep DEF NukeResume, CallbackReturn, hubvars, linkvars, udcvars, LinkKept
  <2>3. CASE HubStatus(t, hcd[t])
    BY <2>3, HubStatusActive DEF TypeOK
  <2>4. CASE PollRhStatus(t) /\ ~HubStatus(t, hcd[t])
    BY <2>4, LinkKeptStep DEF PollRhStatus, hubvars, linkvars, udcvars, LinkKept
  <2> QED BY <2>1, <2>2, <2>3, <2>4
<1>8. CASE \E h \in Hcds : Tick(h)
  BY <1>8, LinkKeptStep DEF Tick, hubvars, udcvars, LinkKept
<1>9. CASE UNCHANGED vars
  BY <1>9, LinkKeptStep DEF vars, hubvars, linkvars, udcvars, LinkKept
<1> QED BY <1>2, <1>3, <1>4, <1>5, <1>6, <1>7, <1>8, <1>9 DEF Next

LEMMA LinkInvInit ==
    ASSUME Init
    PROVE  LinkInv
  BY Names DEF Init, LinkInv, ActiveLinkIsUp, GadgetsLink, PortsOK, PortOK, PortStatusLegal

LEMMA LinkInvariant == Spec => [](IndInv /\ LinkInv)
<1>1. Init => IndInv /\ LinkInv
  BY IndInvInit, LinkInvInit
<1>2. IndInv /\ LinkInv /\ [Next]_vars => (IndInv /\ LinkInv)'
  <2>1. IndInv => TypeOK
    BY DEF IndInv
  <2> QED BY <2>1, IndInvStep, LinkInvStep
<1> QED BY <1>1, <1>2, PTL DEF Spec

\* A link that counts as active is powered, connected, enabled, awake and pulled up, with
\* one root hub or two, whatever set_link_state() calls interleave on them.
THEOREM ActiveLinksAreUp == Spec => []ActiveLinkIsUp
<1>1. LinkInv => ActiveLinkIsUp
  BY DEF LinkInv
<1> QED BY <1>1, LinkInvariant, PTL

\* With the USB 2 root hub alone, every combination of port bits the host can read is one
\* that a hub may report.  (With two hubs the status of the hub the gadget does not use is
\* not recomputed.)
THEOREM PortStatusIsLegal ==
    ASSUME Hcds = {"hs"}
    PROVE  Spec => []PortStatusLegal
<1>1. LinkInv => PortStatusLegal
  BY DEF LinkInv
<1> QED BY <1>1, LinkInvariant, PTL
-----------------------------------------------------------------------------
(* Connect changes.  set_link_state() raises C_CONNECTION by comparing the *)
(* status with old_status, which is out of date while a callback runs.     *)

\* Thread t is inside a set_link_state() that has released the lock.
InCall(t) == pc[t] \in {"nuke", "event", "pm"}

\* The connection follows the power, the pullup and the UDC's suspend at once.
ConnectionFollows ==
    "CONNECTION" \in port_status["hs"] <=>
        "POWER" \in port_status["hs"] /\ pullup /\ ~udc_suspended

\* Without power nothing is remembered of an earlier link, unless a hub worker is still in
\* the call that switched the power off.
UnpoweredIsForgotten ==
    "POWER" \notin port_status["hs"] =>
        \/ \E t \in HubThreads : InCall(t)
        \/ {"POWER", "CONNECTION"} \cap old_status["hs"] = {} /\ ~old_active["hs"]

\* With power, old_status is out of date about the connection only while the UDC thread is
\* still in the call that changed it.
ConnectionRemembered ==
    "POWER" \in port_status["hs"] /\ ~InCall(Udc) =>
        ("CONNECTION" \in old_status["hs"] <=> "CONNECTION" \in port_status["hs"])

ConnInv == ConnectionFollows /\ UnpoweredIsForgotten /\ ConnectionRemembered

\* What ConnectChangeReported says of one step of the USB 2 root hub.
Reported ==
    /\ ("CONNECTION" \in port_status["hs"]) # ("CONNECTION" \in port_status'["hs"])
    /\ "POWER" \in port_status'["hs"]
    => "C_CONNECTION" \in port_status'["hs"]

\* set_link_state() on the only root hub: either it reaches its end, or it is inside a call
\* and has not yet remembered the new status.
LEMMA LinkStepConn ==
    ASSUME TypeOK, CallerOK, Hcds = {"hs"}, NEW t \in Threads, NEW p \in SUBSET PortBits,
           NEW next \in AfterCall, set_link_state(t, "hs", p, next)
    PROVE  LET q == PortBySpeed("hs", p)
               a == ActiveBySpeed("hs", p)
           IN  /\ port_status'["hs"] = q
               /\ \A s \in Threads : s # t => pc'[s] = pc[s]
               /\ \/ old_status'["hs"] = q /\ (old_active'["hs"] <=> a)
                  \/ /\ old_status' = old_status /\ old_active' = old_active /\ InCall(t)'
                     /\ EventDue("hs", q) \/ PmDue("hs", q, a)
<1> DEFINE q == PortBySpeed("hs", p)
           a == ActiveBySpeed("hs", p)
<1>1. ~SpeedMismatch("hs")
  BY DEF SpeedMismatch, TypeOK
<1>2. /\ port_status' = [port_status EXCEPT !["hs"] = q]
      /\ active' = [active EXCEPT !["hs"] = a]
      /\ \/ EventDue("hs", q) /\ StopThenEvent(t, 0) /\ UNCHANGED <<old_status, old_active>>
         \/ /\ PmDue("hs", q, a) /\ pc' = [pc EXCEPT ![t] = "pm"]
            /\ UNCHANGED <<old_status, old_active>>
         \/ Remember("hs") /\ pc' = [pc EXCEPT ![t] = next]
  BY <1>1 DEF set_link_state
<1> HIDE DEF q, a
<1>3. port_status'["hs"] = q /\ active'["hs"] = a
  BY <1>2, Zenon DEF TypeOK
<1>4. CASE EventDue("hs", q) /\ StopThenEvent(t, 0) /\ UNCHANGED <<old_status, old_active>>
  <2>1. \E c \in {"nuke", "event"} : pc' = [pc EXCEPT ![t] = c]
    BY <1>4 DEF StopThenEvent, NukeOne
  <2>2. InCall(t)' /\ \A s \in Threads : s # t => pc'[s] = pc[s]
    BY <2>1 DEF InCall, TypeOK
  <2> QED BY <1>3, <1>4, <2>2 DEF q, a
<1>5. CASE /\ PmDue("hs", q, a) /\ pc' = [pc EXCEPT ![t] = "pm"]
           /\ UNCHANGED <<old_status, old_active>>
  <2>1. InCall(t)' /\ \A s \in Threads : s # t => pc'[s] = pc[s]
    BY <1>5 DEF InCall, TypeOK
  <2> QED BY <1>3, <1>5, <2>1 DEF q, a
<1>6. CASE Remember("hs") /\ pc' = [pc EXCEPT ![t] = next]
  <2>1. \A s \in Threads : s # t => pc'[s] = pc[s]
    BY <1>6 DEF TypeOK
  <2>2. old_status'["hs"] = port_status'["hs"] /\ old_active'["hs"] = active'["hs"]
    BY <1>6, Zenon DEF Remember, TypeOK
  <2> QED BY <1>3, <2>1, <2>2 DEF q, a
<1> QED BY <1>2, <1>4, <1>5, <1>6

\* Who may change the connection: the UDC thread by its pullup and its suspend, a hub worker
\* by switching the power off, or on for a port that has nothing set.
MayCall(t, p) ==
    \/ /\ "POWER" \in p <=> "POWER" \in port_status["hs"]
       /\ t = Udc \/ UNCHANGED <<pullup, udc_suspended>>
    \/ /\ t \in HubThreads /\ UNCHANGED <<pullup, udc_suspended>>
       /\ "POWER" \notin p \/ p = {"POWER"}

\* A call of set_link_state() keeps ConnInv and reports what it changes.
LEMMA CallerStepConn ==
    ASSUME TypeOK, CallerOK, ConnInv, Hcds = {"hs"}, \A s, t \in HubThreads : s = t,
           NEW t \in Threads, NEW p \in SUBSET PortBits, NEW next \in AfterCall,
           ~InCall(t), MayCall(t, p), set_link_state(t, "hs", p, next)
    PROVE  ConnInv' /\ Reported
<1> DEFINE q == PortBySpeed("hs", p)
           a == ActiveBySpeed("hs", p)
           port == port_status["hs"]
           old == old_status["hs"]
<1>1. /\ port_status'["hs"] = q
      /\ \A s \in Threads : s # t => pc'[s] = pc[s]
      /\ \/ old_status'["hs"] = q /\ (old_active'["hs"] <=> a)
         \/ /\ old_status' = old_status /\ old_active' = old_active /\ InCall(t)'
            /\ EventDue("hs", q) \/ PmDue("hs", q, a)
  BY LinkStepConn
<1>2. /\ "POWER" \in q <=> "POWER" \in p
      /\ "CONNECTION" \in q <=> "POWER" \in p /\ pullup' /\ ~udc_suspended'
      /\ ("CONNECTION" \in q) # ("CONNECTION" \in old) /\ "POWER" \in p => "C_CONNECTION" \in q
      /\ a => "POWER" \in p /\ "ENABLE" \in p
      /\ p = {"POWER"} => "RESET" \notin q
  BY DEF PortBySpeed, ActiveBySpeed
<1>3. /\ \A s \in Threads : InCall(s) => s # t
      /\ \A s \in Threads : s # t => (InCall(s)' <=> InCall(s))
      /\ HubThreads \subseteq Threads /\ Udc \in Threads
  BY <1>1 DEF InCall, Threads
<1>4. \* A hub worker that switches the power on finds nothing remembered, and is not called back.
      ASSUME "POWER" \notin port, "POWER" \in p
      PROVE  /\ t \in HubThreads /\ "CONNECTION" \notin old
             /\ old_status'["hs"] = q
  <2>1. t \in HubThreads /\ p = {"POWER"}
    BY <1>4 DEF MayCall
  <2>2. "POWER" \notin old /\ "CONNECTION" \notin old /\ ~old_active["hs"]
    BY <1>4, <2>1 DEF ConnInv, UnpoweredIsForgotten
  <2>3. ~EventDue("hs", q)
    BY <1>2, <2>1, <2>2 DEF EventDue
  <2>4. ~a
    BY <1>2, <2>1
  <2>5. old_active["hs"] \in BOOLEAN /\ a \in BOOLEAN
    BY DEF TypeOK, ActiveBySpeed
  <2>6. ~PmDue("hs", q, a)
    <3> HIDE DEF a, q
    <3> QED BY <2>2, <2>4, <2>5, Zenon DEF PmDue
  <2> QED BY <1>1, <2>1, <2>2, <2>3, <2>6
<1> HIDE DEF q, a
<1>5. ConnectionFollows'
  BY <1>1, <1>2 DEF ConnectionFollows
<1>6. UnpoweredIsForgotten'
  <2> SUFFICES ASSUME "POWER" \notin q, ~\E s \in HubThreads : InCall(s)'
               PROVE  /\ {"POWER", "CONNECTION"} \cap old_status'["hs"] = {}
                      /\ ~old_active'["hs"]
    BY <1>1 DEF UnpoweredIsForgotten
  <2>1. CASE old_status'["hs"] = q /\ (old_active'["hs"] <=> a)
    BY <1>2, <2>1
  <2>2. CASE /\ old_status' = old_status /\ old_active' = old_active /\ InCall(t)'
    <3>1. t \notin HubThreads /\ "POWER" \notin port
      BY <1>2, <2>2 DEF MayCall
    <3>2. ~\E s \in HubThreads : InCall(s)
      BY <1>3, <3>1
    <3> QED BY <2>2, <3>1, <3>2 DEF ConnInv, UnpoweredIsForgotten
  <2> QED BY <1>1, <2>1, <2>2
<1>7. ConnectionRemembered'
  <2> SUFFICES ASSUME "POWER" \in q, ~InCall(Udc)', old_status'["hs"] # q
               PROVE  "CONNECTION" \in old_status'["hs"] <=> "CONNECTION" \in q
    BY <1>1 DEF ConnectionRemembered
  <2>1. old_status' = old_status /\ InCall(t)' /\ t # Udc /\ "POWER" \in port
    BY <1>1, <1>2, <1>4
  <2>2. ~InCall(Udc) /\ UNCHANGED <<pullup, udc_suspended>>
    BY <1>3, <2>1 DEF MayCall
  <2>3. "CONNECTION" \in q <=> "CONNECTION" \in port
    BY <1>2, <2>1, <2>2 DEF ConnInv, ConnectionFollows
  <2> QED BY <2>1, <2>2, <2>3 DEF ConnInv, ConnectionRemembered
<1>8. Reported
  <2> SUFFICES ASSUME ("CONNECTION" \in port) # ("CONNECTION" \in q), "POWER" \in q
               PROVE  "C_CONNECTION" \in q
    BY <1>1 DEF Reported
  <2>1. CASE "POWER" \notin port
    BY <1>2, <1>4, <2>1 DEF ConnInv, ConnectionFollows
  <2>2. CASE "POWER" \in port
    <3>1. t = Udc
      BY <1>2, <2>2 DEF MayCall, ConnInv, ConnectionFollows
    <3>2. "CONNECTION" \in old <=> "CONNECTION" \in port
      BY <2>2, <3>1 DEF ConnInv, ConnectionRemembered
    <3> QED BY <1>2, <3>2
  <2> QED BY <2>1, <2>2
<1> QED BY <1>5, <1>6, <1>7, <1>8 DEF ConnInv

\* What ConnInv is about stays as it is.
ConnKept ==
    /\ UNCHANGED <<port_status, old_status, old_active, pullup, udc_suspended>>
    /\ \A s \in Threads : InCall(s)' <=> InCall(s)

LEMMA ConnKeptStep ==
    ASSUME ConnInv, ConnKept
    PROVE  ConnInv' /\ Reported
<1>1. \A s \in HubThreads \cup {Udc} : InCall(s)' <=> InCall(s)
  BY Names DEF ConnKept
<1>2. ConnectionFollows' /\ ConnectionRemembered'
  BY <1>1 DEF ConnKept, ConnInv, ConnectionFollows, ConnectionRemembered
<1>3. UnpoweredIsForgotten'
  BY <1>1 DEF ConnKept, ConnInv, UnpoweredIsForgotten
<1>4. Reported
  BY DEF ConnKept, Reported
<1> QED BY <1>2, <1>3, <1>4 DEF ConnInv

\* A step that moves a thread between control points outside of the calls.
LEMMA MovedOutside ==
    ASSUME TypeOK, NEW t \in Threads, ~InCall(t), NEW c \in PCs \ {"nuke", "event", "pm"},
           pc' = [pc EXCEPT ![t] = c]
    PROVE  \A s \in Threads : InCall(s)' <=> InCall(s)
<1>1. \A s \in Threads : pc'[s] = IF s = t THEN c ELSE pc[s]
  BY DEF TypeOK
<1> QED BY <1>1 DEF InCall

\* Every request of dummy_hub_control() keeps ConnInv and reports a connect change.
LEMMA HubControlConn ==
    ASSUME TypeOK, LinkInv, ConnInv, Hcds = {"hs"}, \A s, t \in HubThreads : s = t,
           NEW t \in HubThreads, dummy_hub_control(t, "hs")
    PROVE  ConnInv' /\ Reported
<1> DEFINE port == port_status["hs"]
<1>0. /\ t \in Threads /\ "hs" \in Hcds /\ port \in SUBSET PortBits
      /\ port # {} => "POWER" \in port
      /\ "POWER" \in PortBits /\ "pollc" \in PCs \ {"nuke", "event", "pm"}
      /\ "pollc" \in AfterCall
  BY Names DEF TypeOK, LinkInv, PortStatusLegal, PortBits, PCs, AfterCall
<1>1. ASSUME NEW p \in SUBSET PortBits, HubRequest(t, "hs", p),
             \/ "POWER" \in p <=> "POWER" \in port
             \/ "POWER" \notin p \/ p = {"POWER"}
      PROVE  ConnInv' /\ Reported
  <2>1. /\ CallerOK /\ UNCHANGED <<pullup, udc_suspended>>
        /\ ~InCall(t) /\ set_link_state(t, "hs", p, "pollc")
    BY <1>0, <1>1 DEF HubRequest, Idle, InCall, hubvars, CallerOK, TypeOK
  <2>2. MayCall(t, p)
    BY <1>1, <2>1 DEF MayCall
  <2> QED BY <1>0, <2>1, <2>2, CallerStepConn
<1>2. CASE \E bit \in PortBits : ClearPortFeature(t, "hs", bit)
  <2>1. PICK bit \in PortBits : ClearPortFeature(t, "hs", bit)
    BY <1>2
  <2>2. /\ HubRequest(t, "hs", port \ {bit}) /\ port \ {bit} \in SUBSET PortBits
        /\ \/ "POWER" \in port \ {bit} <=> "POWER" \in port
           \/ "POWER" \notin port \ {bit}
    BY <1>0, <2>1 DEF ClearPortFeature
  <2> QED BY <1>1, <2>2
<1>3. CASE ClearPortSuspend(t, "hs")
  <2>1. \A s \in Threads : InCall(s)' <=> InCall(s)
    BY <1>0, <1>3, MovedOutside DEF ClearPortSuspend, Idle, InCall
  <2>2. ConnKept
    BY <1>3, <2>1 DEF ClearPortSuspend, udcvars, ConnKept
  <2> QED BY <2>2, ConnKeptStep
<1>4. CASE SetPortPower(t, "hs")
  <2>1. /\ HubRequest(t, "hs", port \cup {"POWER"}) /\ port \cup {"POWER"} \in SUBSET PortBits
        /\ ("POWER" \in port \cup {"POWER"} <=> "POWER" \in port) \/ port \cup {"POWER"} = {"POWER"}
    BY <1>0, <1>4 DEF SetPortPower
  <2> QED BY <1>1, <2>1
<1>5. CASE SetPortSuspend(t, "hs")
  <2>1. /\ HubRequest(t, "hs", port \cup {"SUSPEND"}) /\ port \cup {"SUSPEND"} \in SUBSET PortBits
        /\ "POWER" \in port \cup {"SUSPEND"} <=> "POWER" \in port
    BY <1>0, <1>5 DEF SetPortSuspend, PortBits
  <2> QED BY <1>1, <2>1
<1>6. CASE SetPortReset(t, "hs")
  <2>1. /\ HubRequest(t, "hs", ResetStatus("hs")) /\ ResetStatus("hs") \in SUBSET PortBits
        /\ "POWER" \in ResetStatus("hs") <=> "POWER" \in port
    BY <1>0, <1>6 DEF SetPortReset, ResetStatus, PortBits
  <2> QED BY <1>1, <2>1
<1>7. CASE GetPortStatus(t, "hs")
  <2> DEFINE r == ResumeDone("hs", port)
  <2>1. r \in SUBSET PortBits /\ ("POWER" \in r <=> "POWER" \in port)
    BY <1>0, DoneType DEF ResumeDone
  <2>2. HubRequest(t, "hs", ResetDone("hs", r))
    BY <1>7 DEF GetPortStatus
  <2> HIDE DEF r
  <2>3. /\ ResetDone("hs", r) \in SUBSET PortBits
        /\ "POWER" \in ResetDone("hs", r) <=> "POWER" \in port
    BY <1>0, <2>1, DoneType DEF ResetDone
  <2> QED BY <1>1, <2>2, <2>3
<1> QED BY <1>2, <1>3, <1>4, <1>5, <1>6, <1>7 DEF dummy_hub_control

\* The same for dummy_hub_status().
LEMMA HubStatusConn ==
    ASSUME TypeOK, ConnInv, Hcds = {"hs"}, \A s, t \in HubThreads : s = t,
           NEW t \in Threads, ~InCall(t), HubStatus(t, "hs")
    PROVE  ConnInv' /\ Reported
<1>1. CASE /\ UNCHANGED <<hubvars, udcvars, elapsed>>
           /\ set_link_state(t, "hs", ResumeDone("hs", port_status["hs"]), "idle")
  <2> DEFINE r == ResumeDone("hs", port_status["hs"])
  <2>1. r \in SUBSET PortBits /\ ("POWER" \in r <=> "POWER" \in port_status["hs"])
    <3>1. "hs" \in Hcds /\ port_status["hs"] \in SUBSET PortBits
      BY Names DEF TypeOK
    <3>2. r \in SUBSET PortBits
      BY <3>1, DoneType
    <3> QED BY <3>1, <3>2 DEF ResumeDone
  <2>2. /\ CallerOK /\ UNCHANGED <<pullup, udc_suspended>>
        /\ set_link_state(t, "hs", r, "idle")
    BY <1>1 DEF hubvars, udcvars, CallerOK, TypeOK
  <2> HIDE DEF r
  <2>3. MayCall(t, r)
    BY <2>1, <2>2 DEF MayCall
  <2> QED BY <2>1, <2>2, <2>3, Names, CallerStepConn
<1>2. CASE /\ pc' = [pc EXCEPT ![t] = "idle"]
           /\ UNCHANGED <<hubvars, linkvars, udcvars, callback_usage, queue, hcd, ret, ep>>
  <2>1. \A s \in Threads : InCall(s)' <=> InCall(s)
    BY <1>2, MovedOutside DEF PCs, AfterCall
  <2>2. ConnKept
    BY <1>2, <2>1 DEF linkvars, udcvars, ConnKept
  <2> QED BY <2>2, ConnKeptStep
<1> QED BY <1>1, <1>2 DEF HubStatus

\* Every step keeps ConnInv and reports a connect change.
LEMMA ConnStep ==
    ASSUME TypeOK, LinkInv, ConnInv, Hcds = {"hs"}, \A s, t \in HubThreads : s = t,
           [Next]_vars
    PROVE  ConnInv' /\ Reported
<1>0. /\ HubThreads \cup RhThreads \cup TimerThreads \cup FnThreads \cup {Udc} = Threads
      /\ {"idle", "poll", "setup", "queue", "wakeup", "stopnuke", "stopwait"}
            \subseteq PCs \ {"nuke", "event", "pm"}
      /\ "idle" \in AfterCall /\ "poll" \in AfterCall
  BY DEF Threads, PCs, AfterCall, Callback
<1>k. ASSUME NEW t \in Threads, ~InCall(t),
             NEW c \in {"idle", "poll", "setup", "queue", "wakeup", "stopnuke", "stopwait"},
             pc' = [pc EXCEPT ![t] = c],
             UNCHANGED <<port_status, old_status, old_active, pullup, udc_suspended>>
      PROVE  ConnInv' /\ Reported
  <2>1. \A s \in Threads : InCall(s)' <=> InCall(s)
    BY <1>0, <1>k, MovedOutside
  <2> QED BY <1>k, <2>1, ConnKeptStep DEF ConnKept
<1>u. ASSUME UNCHANGED <<pc, port_status, old_status, old_active, pullup, udc_suspended>>
      PROVE  ConnInv' /\ Reported
  BY <1>u, ConnKeptStep DEF ConnKept, InCall
<1>1. CASE \E t \in HubThreads : HubStep(t)
  <2>1. PICK t \in HubThreads : HubStep(t)
    BY <1>1
  <2>2. CASE dummy_hub_control(t, "hs")
    BY <2>2, HubControlConn
  <2>3. ASSUME NEW state \in {"running", "suspended"}, BusPm(t, "hs", state)
        PROVE  ConnInv' /\ Reported
    <3>1. /\ CallerOK /\ UNCHANGED <<pullup, udc_suspended>> /\ ~InCall(t)
          /\ set_link_state(t, "hs", port_status["hs"], "idle")
          /\ port_status["hs"] \in SUBSET PortBits
      BY <2>3, Names DEF BusPm, Idle, InCall, udcvars, CallerOK, TypeOK
    <3>2. MayCall(t, port_status["hs"])
      BY <3>1 DEF MayCall
    <3> QED BY <1>0, <3>1, <3>2, CallerStepConn
  <2>4. CASE dummy_hcd_suspend(t)
    BY <2>4, <1>u DEF dummy_hcd_suspend, linkvars, udcvars
  <2>5. CASE dummy_hcd_resume(t)
    BY <2>5, <1>0, <1>k DEF dummy_hcd_resume, Idle, InCall, linkvars, udcvars
  <2> QED BY <2>1, <2>2, <2>3, <2>4, <2>5
          DEF HubStep, dummy_bus_suspend, dummy_bus_resume
<1>2. CASE \E t \in RhThreads, h \in Hcds : dummy_hub_status(t, h)
  BY <1>0, <1>2, HubStatusConn DEF dummy_hub_status, Idle, InCall
<1>3. CASE \E t \in TimerThreads : TimerStep(t)
  <2>1. PICK t \in TimerThreads : TimerStep(t)
    BY <1>3
  <2>2. CASE (\E h \in Hcds : TimerFeature(t, h)) \/ (\E e \in Eps : TimerComplete(t, e))
    BY <2>2, <1>u DEF TimerFeature, TimerComplete, linkvars, udcvars
  <2>3. CASE (\E h \in Hcds : TimerSetup(t, h)) \/ SetupReturn(t)
    BY <2>3, <1>0, <1>k DEF TimerSetup, SetupReturn, Idle, InCall, linkvars, udcvars
  <2> QED BY <2>1, <2>2, <2>3 DEF TimerStep
<1>4. CASE UdcStep
  <2>1. CASE dummy_udc_set_speed \/ dummy_udc_start
    BY <2>1, <1>u DEF dummy_udc_set_speed, dummy_udc_start, linkvars
  <2>2. CASE dummy_udc_stop \/ StopNukeResume \/ StopFinish
    <3>1. ~InCall(Udc)
          /\ UNCHANGED <<port_status, old_status, old_active, pullup, udc_suspended>>
      BY <2>2 DEF dummy_udc_stop, StopNukeResume, StopFinish, Idle, InCall, linkvars, udcvars
    <3>2. \E c \in {"stopnuke", "stopwait", "idle"} : pc' = [pc EXCEPT ![Udc] = c]
      BY <2>2 DEF dummy_udc_stop, StopNukeResume, StopFinish, StopThenWait, NukeOne
    <3> QED BY <1>0, <3>1, <3>2, <1>k
  <2>3. ASSUME NEW v \in BOOLEAN, dummy_pullup(v) \/ dummy_udc_pm(v)
        PROVE  ConnInv' /\ Reported
    <3>1. gadget_to_dummy_hcd = "hs" /\ port_status["hs"] \in SUBSET PortBits
      BY GadgetHcd, Names DEF TypeOK
    <3>2. CallerOK /\ ~InCall(Udc)
      BY <2>3 DEF dummy_pullup, dummy_udc_pm, hubvars, Idle, InCall, CallerOK, TypeOK
    <3>3. set_link_state(Udc, "hs", port_status["hs"], "poll")
      BY <2>3, <3>1 DEF dummy_pullup, dummy_udc_pm
    <3>4. MayCall(Udc, port_status["hs"])
      BY DEF MayCall
    <3> QED BY <1>0, <3>1, <3>2, <3>3, <3>4, CallerStepConn
  <2> QED BY <1>4, <2>1, <2>2, <2>3 DEF UdcStep
<1>5. CASE \E t \in FnThreads : FnStep(t)
  BY <1>5, <1>0, <1>k DEF FnStep, dummy_queue, QueueAdd, dummy_wakeup, WakeupSignal, Idle,
       InCall, linkvars, udcvars
<1>6. CASE \E t \in Threads : Continue(t)
  <2>1. PICK t \in Threads : NukeResume(t) \/ CallbackReturn(t) \/ PollRhStatus(t)
    BY <1>6 DEF Continue
  <2>2. CASE NukeResume(t)
    <3>1. \E c \in {"nuke", "event"} : pc' = [pc EXCEPT ![t] = c]
      BY <2>2 DEF NukeResume, StopThenEvent, NukeOne
    <3>2. \A s \in Threads : InCall(s)' <=> InCall(s)
      BY <2>2, <3>1 DEF NukeResume, InCall, TypeOK
    <3> QED BY <2>2, <3>2, ConnKeptStep DEF NukeResume, linkvars, udcvars, ConnKept
  <2>3. CASE CallbackReturn(t)
    <3>1. /\ UNCHANGED <<port_status, active, pullup, udc_suspended>>
          /\ old_status'["hs"] = port_status["hs"] /\ (old_active'["hs"] <=> active["hs"])
      <4>1. hcd[t] = "hs"
        BY DEF TypeOK
      <4>2. /\ UNCHANGED <<port_status, active, pullup, udc_suspended>>
            /\ old_status' = [old_status EXCEPT !["hs"] = port_status["hs"]]
            /\ old_active' = [old_active EXCEPT !["hs"] = active["hs"]]
        BY <2>3, <4>1 DEF CallbackReturn, Remember, udcvars
      <4> QED BY <4>2, Names DEF TypeOK
    <3>2. "POWER" \notin port_status["hs"] => /\ ~active["hs"]
                                              /\ "CONNECTION" \notin port_status["hs"]
      BY Names DEF LinkInv, ActiveLinkIsUp, ConnInv, ConnectionFollows
    <3>3. ConnectionFollows' /\ Reported
      BY <3>1 DEF ConnInv, ConnectionFollows, Reported
    <3>4. ConnectionRemembered'
      BY <3>1 DEF ConnectionRemembered
    <3>5. UnpoweredIsForgotten'
      BY <3>1, <3>2 DEF UnpoweredIsForgotten
    <3> QED BY <3>3, <3>4, <3>5 DEF ConnInv
  <2>4. CASE PollRhStatus(t)
    <3>1. ~InCall(t) /\ hcd[t] = "hs"
      BY <2>4 DEF PollRhStatus, InCall, TypeOK
    <3>2. CASE HubStatus(t, hcd[t])
      BY <3>1, <3>2, HubStatusConn
    <3>3. CASE ~HubStatus(t, hcd[t])
      BY <2>4, <3>1, <3>3, <1>k DEF PollRhStatus, linkvars, udcvars
    <3> QED BY <3>2, <3>3
  <2> QED BY <2>1, <2>2, <2>3, <2>4
<1>7. CASE \E h \in Hcds : Tick(h)
  BY <1>7, <1>u DEF Tick, udcvars
<1>8. CASE UNCHANGED vars
  BY <1>8, <1>u DEF vars, linkvars, udcvars
<1> QED BY <1>1, <1>2, <1>3, <1>4, <1>5, <1>6, <1>7, <1>8 DEF Next

\* With the USB 2 root hub and its one hub worker, every connect or disconnect of a powered
\* port raises C_CONNECTION, whatever callbacks keep old_status out of date meanwhile, for any
\* number of rh_timer, gadget timer and function-driver threads.
THEOREM ConnectChangesReported ==
    ASSUME Hcds = {"hs"}, \A s, t \in HubThreads : s = t
    PROVE  Spec => ConnectChangeReported
<1>1. Init => ConnInv
  BY Names DEF Init, ConnInv, ConnectionFollows, UnpoweredIsForgotten, ConnectionRemembered
<1>2. IndInv => TypeOK
  BY DEF IndInv
<1>3. TypeOK /\ LinkInv /\ ConnInv /\ [Next]_vars => ConnInv' /\ Reported
  BY ConnStep
<1>4. Reported => [\A h \in Hcds :
         /\ ("CONNECTION" \in port_status[h]) # ("CONNECTION" \in port_status'[h])
         /\ "POWER" \in port_status'[h]
         => "C_CONNECTION" \in port_status'[h]]_vars
  BY DEF Reported
<1> QED BY <1>1, <1>2, <1>3, <1>4, LinkInvariant, PTL DEF Spec, ConnectChangeReported
=============================================================================
