----------------------------- MODULE DummySetup -----------------------------
(***************************************************************************)
(* Setting up and taking down the emulated controllers of dummy_hcd.c:     *)
(* module init with its unwinding, module cleanup, the probe and remove    *)
(* functions of the host controllers (HCDs) and of the device controllers  *)
(* (UDCs), and the bulk streams that host drivers use while a SuperSpeed   *)
(* HCD is running.  Gadget drivers are bound and unbound while the module  *)
(* is still on its way up, or already on its way down.                     *)
(***************************************************************************)
EXTENDS Integers, FiniteSetsExt, Functions

CONSTANTS
    Nums,        \* values of the module parameter num
    Eps,         \* bulk endpoints, as <<number, direction>>
    MaxStreams,  \* what the companion descriptor of each endpoint allows
    Requests     \* numbers of streams that host drivers ask for

ASSUME StreamsAssumption ==
    /\ Nums \subseteq Int /\ Requests \subseteq Nat \ {0}
    /\ Eps \subseteq (1 .. 15) \X {"in", "out"}
    /\ MaxStreams \in [Eps -> 0 .. 16]    \* more do not fit in a nibble

MAX_NUM_UDC == 32
StreamBytes == 0 .. 14
Ids == {0} \cup UNION {0 .. n - 1 : n \in {m \in Nums : m <= MAX_NUM_UDC}}

VARIABLES
    pc, i, retval,         \* where init() or cleanup() is, its loop index, the result
    num, super,            \* module parameters
    hcd_pdev, udc_pdev,    \* platform devices: "none", "alloc" or "added"
    hcd_drv, udc_drv,      \* the platform drivers are registered
    dum,                   \* the pointers of init(): "wild", "null" or "mem"
    mem,                   \* devices whose struct dummy is allocated
    wild,                  \* init() has freed a pointer that it never set
    ptr, alive,            \* HCDs that struct dummy points to; those that exist
    udc, gadget,           \* UDCs in udc-core; those with a driver bound
    stream_en_ep, num_stream,  \* of each SuperSpeed HCD
    granted, latest        \* history: streams granted; endpoints of the last grant

params == <<num, super>>
pdevs == <<hcd_pdev, udc_pdev>>
drivers == <<hcd_drv, udc_drv>>
memory == <<dum, mem, wild>>
hcds == <<ptr, alive>>
udcs == <<udc, gadget>>
streams == <<stream_en_ep, num_stream, granted, latest>>
vars == <<pc, i, retval, params, pdevs, drivers, memory, hcds, udcs, streams>>

Devs == 0 .. num - 1
Speeds == IF super THEN {"hs", "ss"} ELSE {"hs"}

InitSteps == {"alloc_hcd", "alloc_udc", "alloc_dum", "register_hcd", "register_udc",
              "add_hcd", "check_hcd", "add_udc", "check_udc"}
Unwinding == {"err_probe_udc", "err_add_udc", "err_add_hcd", "err_register_udc_driver",
              "err_add_pdata"}

TypeModule ==
    /\ pc \in {"absent", "live", "cleanup"} \cup InitSteps \cup Unwinding
    /\ i \in Ids /\ retval \in {"ok", "enomem", "einval", "error"}
    /\ num \in Nums \cup {0} /\ super \in BOOLEAN

TypeDevices ==
    /\ hcd_pdev \in [Ids -> {"none", "alloc", "added"}]
    /\ udc_pdev \in [Ids -> {"none", "alloc", "added"}]
    /\ hcd_drv \in BOOLEAN /\ udc_drv \in BOOLEAN

TypeMemory == dum \in [Ids -> {"wild", "null", "mem"}] /\ mem \subseteq Ids /\ wild \in BOOLEAN

TypeControllers ==
    /\ ptr \in [Ids -> SUBSET {"hs", "ss"}] /\ alive \in [Ids -> SUBSET {"hs", "ss"}]
    /\ udc \subseteq Ids /\ gadget \subseteq udc

TypeStreams ==
    /\ stream_en_ep \in [Ids -> SUBSET Eps] /\ num_stream \in [Ids -> [StreamBytes -> 0 .. 255]]
    /\ granted \in [Ids -> [Eps -> Nat]] /\ latest \in [Ids -> SUBSET Eps]

TypeOK == TypeModule /\ TypeDevices /\ TypeMemory /\ TypeControllers /\ TypeStreams

NoDevice(s) == [d \in Ids |-> s]

Init ==
    /\ pc = "absent" /\ i = 0 /\ retval = "ok" /\ num = 0 /\ super = FALSE
    /\ hcd_pdev = NoDevice("none") /\ udc_pdev = NoDevice("none")
    /\ hcd_drv = FALSE /\ udc_drv = FALSE
    /\ dum = NoDevice("null") /\ mem = {} /\ wild = FALSE
    /\ ptr = NoDevice({}) /\ alive = NoDevice({}) /\ udc = {} /\ gadget = {}
    /\ stream_en_ep = NoDevice({}) /\ num_stream = NoDevice([k \in StreamBytes |-> 0])
    /\ granted = NoDevice([e \in Eps |-> 0]) /\ latest = NoDevice({})

----------------------------------------------------------------------------
(* init().                                                                 *)

\* The pointers are on the stack and not initialized: each may be anything.
ModuleLoad ==
    /\ pc = "absent"
    /\ num' \in Nums /\ super' \in BOOLEAN
    /\ \E high \in BOOLEAN :
         IF (super' /\ ~high) \/ num' < 1 \/ num' > MAX_NUM_UDC
         THEN retval' = "einval" /\ UNCHANGED <<pc, dum>>
         ELSE retval' = "enomem" /\ pc' = "alloc_hcd" /\ dum' \in [Ids -> {"wild", "null"}]
    /\ i' = 0 /\ wild' = FALSE
    /\ UNCHANGED <<pdevs, drivers, mem, hcds, udcs, streams>>

\* Broken variant: the loops run up to num.
Loop_PastEnd(next) ==
    IF i < num THEN i' = i + 1 /\ UNCHANGED pc ELSE i' = 0 /\ pc' = next

\* The loop of a step ends, and the next step begins.
Loop(next) ==
    IF i + 1 < num THEN i' = i + 1 /\ UNCHANGED pc ELSE i' = 0 /\ pc' = next

Goto(label) == i' = 0 /\ pc' = label

\* platform_device_alloc(): a failure takes back what the loop has allocated.
AllocHcd ==
    /\ pc = "alloc_hcd"
    /\ \/ hcd_pdev' = [hcd_pdev EXCEPT ![i] = "alloc"] /\ Loop("alloc_udc")
       \/ hcd_pdev' = NoDevice("none") /\ Goto("absent")
    /\ UNCHANGED <<retval, params, udc_pdev, drivers, memory, hcds, udcs, streams>>

\* Broken variant: the HCD devices are forgotten.
AllocUdc_Leak ==
    /\ pc = "alloc_udc"
    /\ \/ udc_pdev' = [udc_pdev EXCEPT ![i] = "alloc"] /\ Loop("alloc_dum")
       \/ udc_pdev' = NoDevice("none") /\ Goto("absent")
    /\ UNCHANGED <<retval, params, hcd_pdev, drivers, memory, hcds, udcs, streams>>

AllocUdc ==
    /\ pc = "alloc_udc"
    /\ \/ udc_pdev' = [udc_pdev EXCEPT ![i] = "alloc"] /\ Loop("alloc_dum")
          /\ UNCHANGED hcd_pdev
       \/ udc_pdev' = NoDevice("none") /\ hcd_pdev' = NoDevice("none") /\ Goto("absent")
    /\ UNCHANGED <<retval, params, drivers, memory, hcds, udcs, streams>>

\* kzalloc(), then a copy of the pointer for each of the two devices.
AllocDum ==
    /\ pc = "alloc_dum"
    /\ \/ dum' = [dum EXCEPT ![i] = "mem"] /\ mem' = mem \cup {i}
          /\ \/ Loop("register_hcd")
             \/ Goto("err_add_pdata")    \* platform_device_add_data() has failed
       \/ dum' = [dum EXCEPT ![i] = "null"] /\ Goto("err_add_pdata") /\ UNCHANGED mem
    /\ UNCHANGED <<retval, params, pdevs, drivers, wild, hcds, udcs, streams>>

RegisterHcdDriver ==
    /\ pc = "register_hcd"
    /\ \/ hcd_drv' = TRUE /\ Goto("register_udc") /\ UNCHANGED retval
       \/ retval' = "error" /\ Goto("err_add_pdata") /\ UNCHANGED hcd_drv
    /\ UNCHANGED <<params, pdevs, udc_drv, memory, hcds, udcs, streams>>

RegisterUdcDriver ==
    /\ pc = "register_udc"
    /\ \/ udc_drv' = TRUE /\ Goto("add_hcd") /\ UNCHANGED retval
       \/ retval' = "error" /\ Goto("err_register_udc_driver") /\ UNCHANGED udc_drv
    /\ UNCHANGED <<params, pdevs, hcd_drv, memory, hcds, udcs, streams>>

\* Broken variant: the failure path leaves the pointer to the USB 2 HCD behind.
dummy_hcd_probe_Dangling(d) ==
    \/ /\ ptr' = [ptr EXCEPT ![d] = Speeds] /\ alive' = [alive EXCEPT ![d] = Speeds]
    \/ /\ ptr' = [ptr EXCEPT ![d] = {"hs"}] /\ UNCHANGED alive

dummy_setup(d) == ptr' = [ptr EXCEPT ![d] = Speeds]

\* usb_add_hcd() calls dummy_setup(), which sets the pointer to the HCD, and
\* dummy_start(); a failure at any of the HCDs removes what there is of them.
dummy_hcd_probe(d) ==
    \/ /\ dummy_setup(d) /\ alive' = [alive EXCEPT ![d] = Speeds]
    \/ /\ ptr' = [ptr EXCEPT ![d] = {}] /\ UNCHANGED alive

\* The memory of an HCD starts out cleared, and is gone with its streams.
NoStreams(S) ==
    /\ stream_en_ep' = [d \in Ids |-> IF d \in S THEN {} ELSE stream_en_ep[d]]
    /\ num_stream' = [d \in Ids |-> IF d \in S THEN [k \in StreamBytes |-> 0] ELSE num_stream[d]]
    /\ granted' = [d \in Ids |-> IF d \in S THEN [e \in Eps |-> 0] ELSE granted[d]]
    /\ latest' = [d \in Ids |-> IF d \in S THEN {} ELSE latest[d]]

dummy_hcd_remove(S) ==
    /\ ptr' = [d \in Ids |-> IF d \in S THEN {} ELSE ptr[d]]
    /\ alive' = [d \in Ids |-> IF d \in S THEN {} ELSE alive[d]]
    /\ NoStreams(S)

\* usb_del_gadget_udc() unbinds the gadget driver first.
dummy_udc_remove(S) == udc' = udc \ S /\ gadget' = gadget \ S

\* platform_device_add() succeeds even when the probe fails.
AddHcd ==
    /\ pc = "add_hcd"
    /\ \/ /\ hcd_pdev' = [hcd_pdev EXCEPT ![i] = "added"]
          /\ dummy_hcd_probe(i) /\ NoStreams({i})
          /\ Loop("check_hcd") /\ UNCHANGED retval
       \/ /\ hcd_pdev' = [d \in Ids |-> IF d < i THEN "alloc" ELSE hcd_pdev[d]]
          /\ dummy_hcd_remove(0 .. i - 1)
          /\ retval' = "error" /\ Goto("err_add_hcd")
    /\ UNCHANGED <<params, udc_pdev, drivers, memory, udcs>>

\* Broken variant: a SuperSpeed controller needs only one of its HCDs.
HcdsComplete_Hs == \A d \in Devs : "hs" \in ptr[d]

HcdsComplete == \A d \in Devs : Speeds \subseteq ptr[d]

CheckHcds ==
    /\ pc = "check_hcd"
    /\ IF HcdsComplete THEN Goto("add_udc") /\ UNCHANGED retval
       ELSE retval' = "einval" /\ Goto("err_add_udc")
    /\ UNCHANGED <<params, pdevs, drivers, memory, hcds, udcs, streams>>

\* It may fail in usb_add_gadget_udc() or at the sysfs file.
dummy_udc_probe(d) == udc' \in {udc, udc \cup {d}} /\ UNCHANGED gadget

AddUdc ==
    /\ pc = "add_udc"
    /\ \/ /\ udc_pdev' = [udc_pdev EXCEPT ![i] = "added"]
          /\ dummy_udc_probe(i)
          /\ Loop("check_udc") /\ UNCHANGED retval
       \/ /\ udc_pdev' = [d \in Ids |-> IF d < i THEN "alloc" ELSE udc_pdev[d]]
          /\ dummy_udc_remove(0 .. i - 1)
          /\ retval' = "error" /\ Goto("err_add_udc")
    /\ UNCHANGED <<params, hcd_pdev, drivers, memory, hcds, streams>>

CheckUdcs ==
    /\ pc = "check_udc"
    /\ IF Devs \subseteq udc THEN retval' = "ok" /\ Goto("live") /\ dum' = NoDevice("null")
       ELSE retval' = "einval" /\ Goto("err_probe_udc") /\ UNCHANGED dum
    /\ UNCHANGED <<params, pdevs, drivers, mem, wild, hcds, udcs, streams>>

----------------------------------------------------------------------------
(* The labels at the end of init(), each falling through to the next.      *)

DeleteUdc ==
    /\ pc = "err_probe_udc"
    /\ udc_pdev' = [udc_pdev EXCEPT ![i] = "alloc"] /\ dummy_udc_remove({i})
    /\ Loop("err_add_udc")
    /\ UNCHANGED <<retval, params, hcd_pdev, drivers, memory, hcds, streams>>

DeleteHcd ==
    /\ pc = "err_add_udc"
    /\ hcd_pdev' = [hcd_pdev EXCEPT ![i] = "alloc"] /\ dummy_hcd_remove({i})
    /\ Loop("err_add_hcd")
    /\ UNCHANGED <<retval, params, udc_pdev, drivers, memory, udcs>>

UnregisterUdcDriver ==
    /\ pc = "err_add_hcd" /\ udc_drv' = FALSE /\ Goto("err_register_udc_driver")
    /\ UNCHANGED <<retval, params, pdevs, hcd_drv, memory, hcds, udcs, streams>>

UnregisterHcdDriver ==
    /\ pc = "err_register_udc_driver" /\ hcd_drv' = FALSE /\ Goto("err_add_pdata")
    /\ UNCHANGED <<retval, params, pdevs, udc_drv, memory, hcds, udcs, streams>>

\* All of the pointers are freed, set or not, and all of the devices put.
PutAll ==
    /\ pc = "err_add_pdata"
    /\ wild' = (wild \/ \E d \in Devs : dum[d] = "wild")
    /\ mem' = mem \ {d \in Devs : dum[d] = "mem"} /\ dum' = NoDevice("null")
    /\ udc_pdev' = NoDevice("none") /\ hcd_pdev' = NoDevice("none")
    /\ Goto("absent")
    /\ UNCHANGED <<retval, params, drivers, hcds, udcs, streams>>

----------------------------------------------------------------------------
(* cleanup(), and what others do with the controllers.                     *)

ModuleUnload ==
    /\ pc = "live" /\ Goto("cleanup")
    /\ UNCHANGED <<retval, params, pdevs, drivers, memory, hcds, udcs, streams>>

\* Broken variant: the HCD goes first, in a step of its own.
cleanup_HcdFirst ==
    /\ pc = "cleanup"
    /\ \/ /\ hcd_pdev[i] # "none" /\ hcd_pdev' = [hcd_pdev EXCEPT ![i] = "none"]
          /\ dummy_hcd_remove({i})
          /\ UNCHANGED <<pc, i, udc_pdev, drivers, mem, udcs>>
       \/ /\ hcd_pdev[i] = "none" /\ udc_pdev' = [udc_pdev EXCEPT ![i] = "none"]
          /\ dummy_udc_remove({i}) /\ mem' = mem \ {i}
          /\ Loop("absent") /\ UNCHANGED <<hcd_pdev, hcds, streams>>
          /\ hcd_drv' = (hcd_drv /\ i + 1 < num) /\ udc_drv' = (udc_drv /\ i + 1 < num)
    /\ UNCHANGED <<retval, params, dum, wild>>

\* One UDC, then its HCD and the memory; the drivers after the last one.
cleanup ==
    /\ pc = "cleanup"
    /\ \/ /\ udc_pdev[i] # "none" /\ udc_pdev' = [udc_pdev EXCEPT ![i] = "none"]
          /\ dummy_udc_remove({i})
          /\ UNCHANGED <<pc, i, hcd_pdev, drivers, mem, hcds, streams>>
       \/ /\ udc_pdev[i] = "none" /\ hcd_pdev' = [hcd_pdev EXCEPT ![i] = "none"]
          /\ dummy_hcd_remove({i}) /\ mem' = mem \ {i}
          /\ Loop("absent") /\ UNCHANGED <<udc_pdev, udcs>>
          /\ hcd_drv' = (hcd_drv /\ i + 1 < num) /\ udc_drv' = (udc_drv /\ i + 1 < num)
    /\ UNCHANGED <<retval, params, dum, wild>>

\* udc-core binds a gadget driver as soon as a UDC is listed.
GadgetBind(d) ==
    /\ d \in udc \ gadget /\ gadget' = gadget \cup {d}
    /\ UNCHANGED <<pc, i, retval, params, pdevs, drivers, memory, hcds, udc, streams>>

GadgetUnbind(d) ==
    /\ d \in gadget /\ gadget' = gadget \ {d}
    /\ UNCHANGED <<pc, i, retval, params, pdevs, drivers, memory, hcds, udc, streams>>

----------------------------------------------------------------------------
(* Bulk streams of a SuperSpeed HCD.  The numbers of two endpoints share a *)
(* byte, selected by bits of a pipe; the callers pass an endpoint number.  *)

usb_pipeendpoint(pipe) == (pipe \div 32768) % 16    \* bits 15 to 18
usb_pipeout(pipe) == (pipe \div 128) % 2 = 0

Number(e) == e[1]

get_max_streams_for_pipe(ns, pipe) ==
    LET byte == ns[usb_pipeendpoint(pipe)]
    IN  (IF usb_pipeout(pipe) THEN byte \div 16 ELSE byte % 16) + 1

\* Broken variant: the number itself is stored, not the number less one.
set_max_streams_for_pipe_Plain(ns, pipe, n) ==
    [ns EXCEPT ![usb_pipeendpoint(pipe)] =
        IF usb_pipeout(pipe) THEN 16 * (n % 16) + (@ % 16) ELSE (n % 16) + 16 * (@ \div 16)]

\* The number less one, unsigned, is or-ed to the other nibble and cut to a byte: 0
\* becomes 15, with 15 also in the upper nibble when it is the lower one that is set.
set_max_streams_for_pipe(ns, pipe, n) ==
    [ns EXCEPT ![usb_pipeendpoint(pipe)] =
        IF usb_pipeout(pipe) THEN 16 * ((n - 1) % 16) + (@ % 16)
        ELSE ((n - 1) % 16) + 16 * (IF n = 0 THEN 15 ELSE @ \div 16)]

\* One call for each endpoint, byte by byte: as the numbers all lack the direction
\* bit, calls that address the same byte store the same in it.
SetStreams(ns, eps, n) ==
    [k \in StreamBytes |->
        LET calls == {e \in eps : usb_pipeendpoint(Number(e)) = k}
        IN  IF calls = {} THEN ns[k]
            ELSE set_max_streams_for_pipe(ns, Number(CHOOSE e \in calls : TRUE), n)[k]]

dummy_alloc_streams(d, eps, n) ==
    LET ret == Min({n} \cup {MaxStreams[e] : e \in eps})
    IN  /\ "ss" \in alive[d] /\ eps # {}
        /\ eps \cap stream_en_ep[d] = {} /\ ret > 0
        /\ stream_en_ep' = [stream_en_ep EXCEPT ![d] = @ \cup eps]
        /\ num_stream' = [num_stream EXCEPT ![d] = SetStreams(@, eps, ret)]
        /\ granted' = [granted EXCEPT ![d] = [e \in Eps |-> IF e \in eps THEN ret ELSE @[e]]]
        /\ latest' = [latest EXCEPT ![d] = eps]
        /\ UNCHANGED <<pc, i, retval, params, pdevs, drivers, memory, hcds, udcs>>

dummy_free_streams(d, eps) ==
    /\ "ss" \in alive[d] /\ eps # {} /\ eps \subseteq stream_en_ep[d]
    /\ stream_en_ep' = [stream_en_ep EXCEPT ![d] = @ \ eps]
    /\ num_stream' = [num_stream EXCEPT ![d] = SetStreams(@, eps, 0)]
    /\ latest' = [latest EXCEPT ![d] = @ \ eps]
    /\ granted' = [granted EXCEPT ![d] = [e \in Eps |-> IF e \in eps THEN 0 ELSE @[e]]]
    /\ UNCHANGED <<pc, i, retval, params, pdevs, drivers, memory, hcds, udcs>>

dummy_ep_stream_en(d, e) == e \in stream_en_ep[d]

\* dummy_urb_enqueue() accepts a stream ID; one above the limit is a BUG().
dummy_validate_stream(d, e, id) ==
    IF id = 0 THEN ~dummy_ep_stream_en(d, e)
    ELSE /\ dummy_ep_stream_en(d, e)
         /\ id <= get_max_streams_for_pipe(num_stream[d], usb_pipeendpoint(Number(e)))

----------------------------------------------------------------------------
ModuleStep ==
    \/ AllocHcd \/ AllocUdc \/ AllocDum \/ RegisterHcdDriver \/ RegisterUdcDriver
    \/ AddHcd \/ CheckHcds \/ AddUdc \/ CheckUdcs
    \/ DeleteUdc \/ DeleteHcd \/ UnregisterUdcDriver \/ UnregisterHcdDriver \/ PutAll
    \/ cleanup

Next ==
    \/ ModuleLoad \/ ModuleStep \/ ModuleUnload
    \/ \E d \in Ids : GadgetBind(d) \/ GadgetUnbind(d)
    \/ \E d \in Ids, eps \in SUBSET Eps :
         dummy_free_streams(d, eps) \/ \E n \in Requests : dummy_alloc_streams(d, eps, n)

Spec == Init /\ [][Next]_vars

----------------------------------------------------------------------------
(* Properties.                                                             *)

\* Loading the module is all or nothing: when init() has failed, or cleanup() has
\* ended, no device, driver or memory is left, and with a single controller nothing
\* has been freed that was not allocated; when it is loaded, every UDC and its HCDs
\* are there (the labels of init(), and the probes whose failure
\* platform_device_add() does not report).
AllOrNothing ==
    /\ pc = "absent" =>
         /\ hcd_pdev = NoDevice("none") /\ udc_pdev = NoDevice("none")
         /\ ~hcd_drv /\ ~udc_drv /\ mem = {} /\ alive = NoDevice({}) /\ udc = {}
    /\ wild => num > 1
    /\ pc = "live" => udc = Devs /\ \A d \in Devs : alive[d] = Speeds

\* As long as a gadget driver can be bound to a UDC, gadget_to_dummy_hcd() yields
\* an HCD that exists, whatever part of init() or cleanup() is still running; and
\* neither a UDC nor an HCD outlives the struct dummy they share.
GadgetHasController ==
    /\ \A d \in udc : ptr[d] = Speeds /\ alive[d] = Speeds
    /\ \A d \in Ids : d \in udc \/ alive[d] # {} => d \in mem /\ ptr[d] = alive[d]

\* The stream IDs of the latest allocation stay valid until its endpoints are
\* freed, whatever else is freed meanwhile: no URB for them runs into the BUG() of
\* dummy_validate_stream().
LatestGrantValid ==
    \A d \in Ids : "ss" \in alive[d] =>
        \A e \in latest[d] : \A id \in 1 .. granted[d][e] : dummy_validate_stream(d, e, id)
=============================================================================
