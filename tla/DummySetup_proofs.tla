-------------------------- MODULE DummySetup_proofs --------------------------
(***************************************************************************)
(* For any number of controllers, whatever fails while dummy_hcd.ko is     *)
(* loaded: init() leaves all or nothing, and a gadget driver never meets a *)
(* UDC whose host controllers are missing.                                 *)
(***************************************************************************)
EXTENDS DummySetup, WellFoundedInduction, TLAPS

(* The inductive invariant: what each part of init() and cleanup() can     *)
(* rely on, device by device.                                              *)

\* Outside of init() and cleanup() nothing is said of the parameters.
Where == pc # "absent" => num \in Nums /\ num \in 1 .. MAX_NUM_UDC /\ i \in Devs

NothingAllocated == {"absent", "alloc_hcd", "alloc_udc"}
NoHcdDriver == NothingAllocated \cup {"alloc_dum", "register_hcd", "err_add_pdata"}
NoUdcDriver == NoHcdDriver \cup {"register_udc", "err_register_udc_driver"}
NoHcds == NoUdcDriver \cup {"err_add_hcd"}
NoUdcs == NoHcds \cup {"add_hcd", "check_hcd", "err_add_udc"}
AllHcds == {"add_udc", "check_udc", "live", "err_probe_udc"}
AllMemory == {"register_hcd", "register_udc", "add_hcd", "check_hcd", "add_udc", "check_udc",
              "err_probe_udc", "err_add_udc", "err_add_hcd", "err_register_udc_driver"}

\* The platform devices: those of cleanup() disappear in the order of their numbers.
DevicesInv ==
    \A d \in Ids :
        /\ pc = "absent" \/ d \notin Devs => hcd_pdev[d] = "none"
        /\ pc \in {"absent", "alloc_hcd"} \/ d \notin Devs => udc_pdev[d] = "none"
        /\ pc = "alloc_udc" /\ d < i => udc_pdev[d] # "none"
        /\ pc \notin NothingAllocated \cup {"cleanup"} /\ d \in Devs => udc_pdev[d] # "none"
        /\ pc = "cleanup" /\ d < i => hcd_pdev[d] = "none" /\ udc_pdev[d] = "none"
        /\ pc = "cleanup" /\ d \in Devs /\ d > i => udc_pdev[d] # "none"

DriversInv ==
    /\ pc \in NoHcdDriver => ~hcd_drv
    /\ pc \in NoUdcDriver => ~udc_drv

\* The memory is what the pointers of init() say, as long as it has them.
MemoryInv ==
    /\ \A d \in Ids :
         /\ pc \in NothingAllocated => d \notin mem
         /\ pc \in {"alloc_hcd", "alloc_udc"} => dum[d] # "mem"
         /\ pc = "alloc_dum" => (d \in mem <=> d < i) /\ (dum[d] = "mem" <=> d < i)
         /\ pc \in AllMemory => (d \in mem <=> d \in Devs) /\ (d \in Devs => dum[d] = "mem")
         /\ pc = "live" => (d \in mem <=> d \in Devs)
         /\ pc = "cleanup" => (d \in mem <=> d \in Devs /\ d >= i)
         /\ pc = "err_add_pdata" => (d \in mem <=> d \in Devs /\ dum[d] = "mem")
    /\ pc = "err_add_pdata" /\ num = 1 => dum[0] # "wild"
    /\ wild => pc = "absent" /\ num > 1

\* The host controllers of a device are there completely or not at all.
ControllersInv ==
    \A d \in Ids :
        /\ ptr[d] = alive[d] /\ alive[d] \in {{}, Speeds}
        /\ pc \in NoHcds \/ d \notin Devs => alive[d] = {}
        /\ pc = "add_hcd" /\ d >= i => alive[d] = {}
        /\ pc \in AllHcds /\ d \in Devs => alive[d] = Speeds
        /\ pc \in {"err_add_udc", "cleanup"} /\ d < i => alive[d] = {}
        /\ pc = "cleanup" /\ d \in Devs /\ d >= i => alive[d] = Speeds

UdcsInv ==
    \A d \in Ids :
        /\ d \in udc => d \in Devs /\ pc \notin NoUdcs
        /\ pc = "add_udc" /\ d \in udc => d < i
        /\ pc = "live" /\ d \in Devs => d \in udc
        /\ pc = "err_probe_udc" /\ d \in udc => d >= i
        /\ pc = "cleanup" /\ d \in udc => d > i \/ (d = i /\ udc_pdev[d] # "none")

IInv ==
    /\ TypeModule /\ TypeDevices /\ TypeMemory /\ TypeControllers
    /\ Where /\ DevicesInv /\ DriversInv /\ MemoryInv /\ ControllersInv /\ UdcsInv

----------------------------------------------------------------------------
(* Numbers.                                                                *)

\* The devices of a module that is being loaded are among those of the model.
LEMMA Numbers ==
    /\ Ids \subseteq Nat /\ 0 \in Ids
    /\ Where /\ pc # "absent" => Devs \subseteq Ids /\ 0 \in Devs /\ i \in Nat /\ num \in Nat
<1>1. Nums \subseteq Int
  BY StreamsAssumption
<1>2. \A n \in Int : 0 .. n - 1 \subseteq Nat
  OBVIOUS
<1>3. Ids \subseteq Nat /\ 0 \in Ids
  BY <1>1, <1>2 DEF Ids
<1>4. ASSUME Where, pc # "absent"
      PROVE  Devs \subseteq Ids /\ 0 \in Devs /\ i \in Nat /\ num \in Nat
  <2>1. num \in {m \in Nums : m <= MAX_NUM_UDC} /\ num \in Nat /\ num >= 1
    BY <1>1, <1>4 DEF Where, MAX_NUM_UDC
  <2>2. Devs \subseteq Ids
    BY <2>1 DEF Ids, Devs
  <2> QED BY <1>4, <2>1, <2>2 DEF Where, Devs
<1> QED BY <1>3, <1>4

(* Streams are no part of the set-up. *)
setup == <<pc, i, retval, params, pdevs, drivers, memory, hcds, udcs>>

LEMMA Elsewhere ==
    /\ \A d \in Ids, eps \in SUBSET Eps :
         /\ dummy_free_streams(d, eps) => UNCHANGED setup
         /\ \A n \in Requests : dummy_alloc_streams(d, eps, n) => UNCHANGED setup
    /\ UNCHANGED vars => UNCHANGED setup
<1>1. ASSUME NEW d \in Ids, NEW eps \in SUBSET Eps, dummy_free_streams(d, eps)
      PROVE  UNCHANGED setup
  BY <1>1, Zenon DEF dummy_free_streams, setup
<1>2. ASSUME NEW d \in Ids, NEW eps \in SUBSET Eps, NEW n \in Requests,
             dummy_alloc_streams(d, eps, n)
      PROVE  UNCHANGED setup
  BY <1>2, Zenon DEF dummy_alloc_streams, setup
<1>3. UNCHANGED vars => UNCHANGED setup
  BY DEF vars, setup
<1> QED BY <1>1, <1>2, <1>3

LEMMA TypeModuleStep ==
    ASSUME IInv, [Next]_vars
    PROVE  TypeModule'
<1> USE Numbers
    DEF IInv, TypeModule, Where, InitSteps, Unwinding, Devs, Goto, Loop, params, pdevs,
        drivers, memory, hcds, udcs
<1>1. CASE ModuleLoad
  BY <1>1, StreamsAssumption DEF ModuleLoad, MAX_NUM_UDC
<1>2. CASE AllocHcd
  BY <1>2 DEF AllocHcd
<1>3. CASE AllocUdc
  BY <1>3 DEF AllocUdc
<1>4. CASE AllocDum
  BY <1>4 DEF AllocDum
<1>5. CASE RegisterHcdDriver
  BY <1>5 DEF RegisterHcdDriver
<1>6. CASE RegisterUdcDriver
  BY <1>6 DEF RegisterUdcDriver
<1>7. CASE AddHcd
  BY <1>7 DEF AddHcd, dummy_hcd_probe, dummy_setup, dummy_hcd_remove
<1>8. CASE CheckHcds
  BY <1>8 DEF CheckHcds, HcdsComplete
<1>9. CASE AddUdc
  BY <1>9 DEF AddUdc, dummy_udc_probe, dummy_udc_remove
<1>10. CASE CheckUdcs
  BY <1>10 DEF CheckUdcs
<1>11. CASE DeleteUdc
  BY <1>11 DEF DeleteUdc, dummy_udc_remove
<1>12. CASE DeleteHcd
  BY <1>12 DEF DeleteHcd, dummy_hcd_remove
<1>13. CASE UnregisterUdcDriver
  BY <1>13 DEF UnregisterUdcDriver
<1>14. CASE UnregisterHcdDriver
  BY <1>14 DEF UnregisterHcdDriver
<1>15. CASE PutAll
  BY <1>15 DEF PutAll
<1>16. CASE cleanup
  BY <1>16 DEF cleanup, dummy_hcd_remove, dummy_udc_remove
<1>17. CASE ModuleUnload
  BY <1>17 DEF ModuleUnload
<1>18. CASE \E d \in Ids : GadgetBind(d) \/ GadgetUnbind(d)
  BY <1>18 DEF GadgetBind, GadgetUnbind
<1>19. CASE UNCHANGED setup
  BY <1>19 DEF setup
<1> QED
  BY Elsewhere, <1>1, <1>2, <1>3, <1>4, <1>5, <1>6, <1>7, <1>8, <1>9, <1>10, <1>11,
     <1>12, <1>13, <1>14, <1>15, <1>16, <1>17, <1>18, <1>19
  DEF Next, ModuleStep

LEMMA TypeDevicesStep ==
    ASSUME IInv, [Next]_vars
    PROVE  TypeDevices'
<1> USE Numbers
    DEF IInv, TypeDevices, Where, NoDevice, Devs, Goto, Loop, params, pdevs, drivers,
        memory, hcds, udcs
<1>1. CASE ModuleLoad
  BY <1>1, StreamsAssumption DEF ModuleLoad, MAX_NUM_UDC
<1>2. CASE AllocHcd
  BY <1>2 DEF AllocHcd
<1>3. CASE AllocUdc
  BY <1>3 DEF AllocUdc
<1>4. CASE AllocDum
  BY <1>4 DEF AllocDum
<1>5. CASE RegisterHcdDriver
  BY <1>5 DEF RegisterHcdDriver
<1>6. CASE RegisterUdcDriver
  BY <1>6 DEF RegisterUdcDriver
<1>7. CASE AddHcd
  BY <1>7 DEF AddHcd, dummy_hcd_probe, dummy_setup, dummy_hcd_remove
<1>8. CASE CheckHcds
  BY <1>8 DEF CheckHcds, HcdsComplete
<1>9. CASE AddUdc
  BY <1>9 DEF AddUdc, dummy_udc_probe, dummy_udc_remove
<1>10. CASE CheckUdcs
  BY <1>10 DEF CheckUdcs
<1>11. CASE DeleteUdc
  BY <1>11 DEF DeleteUdc, dummy_udc_remove
<1>12. CASE DeleteHcd
  BY <1>12 DEF DeleteHcd, dummy_hcd_remove
<1>13. CASE UnregisterUdcDriver
  BY <1>13 DEF UnregisterUdcDriver
<1>14. CASE UnregisterHcdDriver
  BY <1>14 DEF UnregisterHcdDriver
<1>15. CASE PutAll
  BY <1>15 DEF PutAll
<1>16. CASE cleanup
  BY <1>16 DEF cleanup, dummy_hcd_remove, dummy_udc_remove
<1>17. CASE ModuleUnload
  BY <1>17 DEF ModuleUnload
<1>18. CASE \E d \in Ids : GadgetBind(d) \/ GadgetUnbind(d)
  BY <1>18 DEF GadgetBind, GadgetUnbind
<1>19. CASE UNCHANGED setup
  BY <1>19 DEF setup
<1> QED
  BY Elsewhere, <1>1, <1>2, <1>3, <1>4, <1>5, <1>6, <1>7, <1>8, <1>9, <1>10, <1>11,
     <1>12, <1>13, <1>14, <1>15, <1>16, <1>17, <1>18, <1>19
  DEF Next, ModuleStep

LEMMA TypeMemoryStep ==
    ASSUME IInv, [Next]_vars
    PROVE  TypeMemory'
<1> USE Numbers
    DEF IInv, TypeMemory, Where, NoDevice, Devs, Goto, Loop, params, pdevs, drivers, memory,
        hcds, udcs
<1>1. CASE ModuleLoad
  BY <1>1, StreamsAssumption DEF ModuleLoad, MAX_NUM_UDC
<1>2. CASE AllocHcd
  BY <1>2 DEF AllocHcd
<1>3. CASE AllocUdc
  BY <1>3 DEF AllocUdc
<1>4. CASE AllocDum
  BY <1>4 DEF AllocDum
<1>5. CASE RegisterHcdDriver
  BY <1>5 DEF RegisterHcdDriver
<1>6. CASE RegisterUdcDriver
  BY <1>6 DEF RegisterUdcDriver
<1>7. CASE AddHcd
  BY <1>7 DEF AddHcd, dummy_hcd_probe, dummy_setup, dummy_hcd_remove
<1>8. CASE CheckHcds
  BY <1>8 DEF CheckHcds, HcdsComplete
<1>9. CASE AddUdc
  BY <1>9 DEF AddUdc, dummy_udc_probe, dummy_udc_remove
<1>10. CASE CheckUdcs
  BY <1>10 DEF CheckUdcs
<1>11. CASE DeleteUdc
  BY <1>11 DEF DeleteUdc, dummy_udc_remove
<1>12. CASE DeleteHcd
  BY <1>12 DEF DeleteHcd, dummy_hcd_remove
<1>13. CASE UnregisterUdcDriver
  BY <1>13 DEF UnregisterUdcDriver
<1>14. CASE UnregisterHcdDriver
  BY <1>14 DEF UnregisterHcdDriver
<1>15. CASE PutAll
  BY <1>15 DEF PutAll
<1>16. CASE cleanup
  BY <1>16 DEF cleanup, dummy_hcd_remove, dummy_udc_remove
<1>17. CASE ModuleUnload
  BY <1>17 DEF ModuleUnload
<1>18. CASE \E d \in Ids : GadgetBind(d) \/ GadgetUnbind(d)
  BY <1>18 DEF GadgetBind, GadgetUnbind
<1>19. CASE UNCHANGED setup
  BY <1>19 DEF setup
<1> QED
  BY Elsewhere, <1>1, <1>2, <1>3, <1>4, <1>5, <1>6, <1>7, <1>8, <1>9, <1>10, <1>11,
     <1>12, <1>13, <1>14, <1>15, <1>16, <1>17, <1>18, <1>19
  DEF Next, ModuleStep

LEMMA TypeControllersStep ==
    ASSUME IInv, [Next]_vars
    PROVE  TypeControllers'
<1> USE Numbers
    DEF IInv, TypeControllers, Where, Speeds, NoDevice, Devs, Goto, Loop, params, pdevs,
        drivers, memory, hcds, udcs
<1>1. CASE ModuleLoad
  BY <1>1, StreamsAssumption DEF ModuleLoad, MAX_NUM_UDC
<1>2. CASE AllocHcd
  BY <1>2 DEF AllocHcd
<1>3. CASE AllocUdc
  BY <1>3 DEF AllocUdc
<1>4. CASE AllocDum
  BY <1>4 DEF AllocDum
<1>5. CASE RegisterHcdDriver
  BY <1>5 DEF RegisterHcdDriver
<1>6. CASE RegisterUdcDriver
  BY <1>6 DEF RegisterUdcDriver
<1>7. CASE AddHcd
  BY <1>7 DEF AddHcd, dummy_hcd_probe, dummy_setup, dummy_hcd_remove
<1>8. CASE CheckHcds
  BY <1>8 DEF CheckHcds, HcdsComplete
<1>9. CASE AddUdc
  BY <1>9 DEF AddUdc, dummy_udc_probe, dummy_udc_remove
<1>10. CASE CheckUdcs
  BY <1>10 DEF CheckUdcs
<1>11. CASE DeleteUdc
  BY <1>11 DEF DeleteUdc, dummy_udc_remove
<1>12. CASE DeleteHcd
  BY <1>12 DEF DeleteHcd, dummy_hcd_remove
<1>13. CASE UnregisterUdcDriver
  BY <1>13 DEF UnregisterUdcDriver
<1>14. CASE UnregisterHcdDriver
  BY <1>14 DEF UnregisterHcdDriver
<1>15. CASE PutAll
  BY <1>15 DEF PutAll
<1>16. CASE cleanup
  BY <1>16 DEF cleanup, dummy_hcd_remove, dummy_udc_remove
<1>17. CASE ModuleUnload
  BY <1>17 DEF ModuleUnload
<1>18. CASE \E d \in Ids : GadgetBind(d) \/ GadgetUnbind(d)
  BY <1>18 DEF GadgetBind, GadgetUnbind
<1>19. CASE UNCHANGED setup
  BY <1>19 DEF setup
<1> QED
  BY Elsewhere, <1>1, <1>2, <1>3, <1>4, <1>5, <1>6, <1>7, <1>8, <1>9, <1>10, <1>11,
     <1>12, <1>13, <1>14, <1>15, <1>16, <1>17, <1>18, <1>19
  DEF Next, ModuleStep

LEMMA WhereStep ==
    ASSUME IInv, [Next]_vars
    PROVE  Where'
<1> USE Numbers
    DEF IInv, Where, Devs, Goto, Loop, params, pdevs, drivers, memory, hcds, udcs
<1>1. CASE ModuleLoad
  <2>1. num' \in Int
    BY <1>1, StreamsAssumption DEF ModuleLoad
  <2>2. CASE num' < 1 \/ num' > MAX_NUM_UDC
    BY <1>1, <2>2 DEF ModuleLoad, Where
  <2>3. CASE num' >= 1 /\ num' <= MAX_NUM_UDC
    <3>1. num' \in 1 .. MAX_NUM_UDC
      BY <2>1, <2>3 DEF MAX_NUM_UDC
    <3>2. 0 \in 0 .. num' - 1
      <4>1. \A n \in Int : n >= 1 => 0 \in 0 .. n - 1
        OBVIOUS
      <4> QED BY <4>1, <2>1, <2>3
    <3> QED BY <1>1, <3>1, <3>2 DEF ModuleLoad, Where, Devs
  <2> QED BY <2>1, <2>2, <2>3 DEF MAX_NUM_UDC
<1>2. CASE AllocHcd
  BY <1>2 DEF AllocHcd
<1>3. CASE AllocUdc
  BY <1>3 DEF AllocUdc
<1>4. CASE AllocDum
  BY <1>4 DEF AllocDum
<1>5. CASE RegisterHcdDriver
  BY <1>5 DEF RegisterHcdDriver
<1>6. CASE RegisterUdcDriver
  BY <1>6 DEF RegisterUdcDriver
<1>7. CASE AddHcd
  BY <1>7 DEF AddHcd, dummy_hcd_probe, dummy_setup, dummy_hcd_remove
<1>8. CASE CheckHcds
  BY <1>8 DEF CheckHcds, HcdsComplete
<1>9. CASE AddUdc
  BY <1>9 DEF AddUdc, dummy_udc_probe, dummy_udc_remove
<1>10. CASE CheckUdcs
  BY <1>10 DEF CheckUdcs
<1>11. CASE DeleteUdc
  BY <1>11 DEF DeleteUdc, dummy_udc_remove
<1>12. CASE DeleteHcd
  BY <1>12 DEF DeleteHcd, dummy_hcd_remove
<1>13. CASE UnregisterUdcDriver
  BY <1>13 DEF UnregisterUdcDriver
<1>14. CASE UnregisterHcdDriver
  BY <1>14 DEF UnregisterHcdDriver
<1>15. CASE PutAll
  BY <1>15 DEF PutAll
<1>16. CASE cleanup
  BY <1>16 DEF cleanup, dummy_hcd_remove, dummy_udc_remove
<1>17. CASE ModuleUnload
  BY <1>17 DEF ModuleUnload
<1>18. CASE \E d \in Ids : GadgetBind(d) \/ GadgetUnbind(d)
  BY <1>18 DEF GadgetBind, GadgetUnbind
<1>19. CASE UNCHANGED setup
  BY <1>19 DEF setup
<1> QED
  BY Elsewhere, <1>1, <1>2, <1>3, <1>4, <1>5, <1>6, <1>7, <1>8, <1>9, <1>10, <1>11,
     <1>12, <1>13, <1>14, <1>15, <1>16, <1>17, <1>18, <1>19
  DEF Next, ModuleStep

LEMMA DevicesInvStep ==
    ASSUME IInv, [Next]_vars
    PROVE  DevicesInv'
<1> USE Numbers
    DEF IInv, Where, TypeDevices, DevicesInv, NothingAllocated, NoDevice, Devs, Goto, Loop,
        params, pdevs, drivers, memory, hcds, udcs
<1>1. CASE ModuleLoad
  BY <1>1, StreamsAssumption DEF ModuleLoad, MAX_NUM_UDC
<1>2. CASE AllocHcd
  BY <1>2 DEF AllocHcd
<1>3. CASE AllocUdc
  BY <1>3 DEF AllocUdc
<1>4. CASE AllocDum
  BY <1>4 DEF AllocDum
<1>5. CASE RegisterHcdDriver
  BY <1>5 DEF RegisterHcdDriver
<1>6. CASE RegisterUdcDriver
  BY <1>6 DEF RegisterUdcDriver
<1>7. CASE AddHcd
  BY <1>7 DEF AddHcd, dummy_hcd_probe, dummy_setup, dummy_hcd_remove
<1>8. CASE CheckHcds
  BY <1>8 DEF CheckHcds, HcdsComplete
<1>9. CASE AddUdc
  BY <1>9 DEF AddUdc, dummy_udc_probe, dummy_udc_remove
<1>10. CASE CheckUdcs
  BY <1>10 DEF CheckUdcs
<1>11. CASE DeleteUdc
  BY <1>11 DEF DeleteUdc, dummy_udc_remove
<1>12. CASE DeleteHcd
  BY <1>12 DEF DeleteHcd, dummy_hcd_remove
<1>13. CASE UnregisterUdcDriver
  BY <1>13 DEF UnregisterUdcDriver
<1>14. CASE UnregisterHcdDriver
  BY <1>14 DEF UnregisterHcdDriver
<1>15. CASE PutAll
  BY <1>15 DEF PutAll
<1>16. CASE cleanup
  BY <1>16 DEF cleanup, dummy_hcd_remove, dummy_udc_remove
<1>17. CASE ModuleUnload
  BY <1>17 DEF ModuleUnload
<1>18. CASE \E d \in Ids : GadgetBind(d) \/ GadgetUnbind(d)
  BY <1>18 DEF GadgetBind, GadgetUnbind
<1>19. CASE UNCHANGED setup
  BY <1>19 DEF setup
<1> QED
  BY Elsewhere, <1>1, <1>2, <1>3, <1>4, <1>5, <1>6, <1>7, <1>8, <1>9, <1>10, <1>11,
     <1>12, <1>13, <1>14, <1>15, <1>16, <1>17, <1>18, <1>19
  DEF Next, ModuleStep

LEMMA DriversInvStep ==
    ASSUME IInv, [Next]_vars
    PROVE  DriversInv'
<1> USE Numbers
    DEF IInv, DriversInv, NoHcdDriver, NoUdcDriver, NothingAllocated, Devs, Goto, Loop,
        params, pdevs, drivers, memory, hcds, udcs
<1>1. CASE ModuleLoad
  BY <1>1, StreamsAssumption DEF ModuleLoad, MAX_NUM_UDC
<1>2. CASE AllocHcd
  BY <1>2 DEF AllocHcd
<1>3. CASE AllocUdc
  BY <1>3 DEF AllocUdc
<1>4. CASE AllocDum
  BY <1>4 DEF AllocDum
<1>5. CASE RegisterHcdDriver
  BY <1>5 DEF RegisterHcdDriver
<1>6. CASE RegisterUdcDriver
  BY <1>6 DEF RegisterUdcDriver
<1>7. CASE AddHcd
  BY <1>7 DEF AddHcd, dummy_hcd_probe, dummy_setup, dummy_hcd_remove
<1>8. CASE CheckHcds
  BY <1>8 DEF CheckHcds, HcdsComplete
<1>9. CASE AddUdc
  BY <1>9 DEF AddUdc, dummy_udc_probe, dummy_udc_remove
<1>10. CASE CheckUdcs
  BY <1>10 DEF CheckUdcs
<1>11. CASE DeleteUdc
  BY <1>11 DEF DeleteUdc, dummy_udc_remove
<1>12. CASE DeleteHcd
  BY <1>12 DEF DeleteHcd, dummy_hcd_remove
<1>13. CASE UnregisterUdcDriver
  BY <1>13 DEF UnregisterUdcDriver
<1>14. CASE UnregisterHcdDriver
  BY <1>14 DEF UnregisterHcdDriver
<1>15. CASE PutAll
  BY <1>15 DEF PutAll
<1>16. CASE cleanup
  BY <1>16 DEF cleanup, dummy_hcd_remove, dummy_udc_remove
<1>17. CASE ModuleUnload
  BY <1>17 DEF ModuleUnload
<1>18. CASE \E d \in Ids : GadgetBind(d) \/ GadgetUnbind(d)
  BY <1>18 DEF GadgetBind, GadgetUnbind
<1>19. CASE UNCHANGED setup
  BY <1>19 DEF setup
<1> QED
  BY Elsewhere, <1>1, <1>2, <1>3, <1>4, <1>5, <1>6, <1>7, <1>8, <1>9, <1>10, <1>11,
     <1>12, <1>13, <1>14, <1>15, <1>16, <1>17, <1>18, <1>19
  DEF Next, ModuleStep

LEMMA MemoryInvStep ==
    ASSUME IInv, [Next]_vars
    PROVE  MemoryInv'
<1> USE Numbers
    DEF IInv, Where, TypeMemory, MemoryInv, NothingAllocated, AllMemory, NoDevice, Devs,
        Goto, Loop, params, pdevs, drivers, memory, hcds, udcs
<1>1. CASE ModuleLoad
  BY <1>1, StreamsAssumption DEF ModuleLoad, MAX_NUM_UDC
<1>2. CASE AllocHcd
  BY <1>2 DEF AllocHcd
<1>3. CASE AllocUdc
  BY <1>3 DEF AllocUdc
<1>4. CASE AllocDum
  BY <1>4 DEF AllocDum
<1>5. CASE RegisterHcdDriver
  BY <1>5 DEF RegisterHcdDriver
<1>6. CASE RegisterUdcDriver
  BY <1>6 DEF RegisterUdcDriver
<1>7. CASE AddHcd
  BY <1>7 DEF AddHcd, dummy_hcd_probe, dummy_setup, dummy_hcd_remove
<1>8. CASE CheckHcds
  BY <1>8 DEF CheckHcds, HcdsComplete
<1>9. CASE AddUdc
  BY <1>9 DEF AddUdc, dummy_udc_probe, dummy_udc_remove
<1>10. CASE CheckUdcs
  BY <1>10 DEF CheckUdcs
<1>11. CASE DeleteUdc
  BY <1>11 DEF DeleteUdc, dummy_udc_remove
<1>12. CASE DeleteHcd
  BY <1>12 DEF DeleteHcd, dummy_hcd_remove
<1>13. CASE UnregisterUdcDriver
  BY <1>13 DEF UnregisterUdcDriver
<1>14. CASE UnregisterHcdDriver
  BY <1>14 DEF UnregisterHcdDriver
<1>15. CASE PutAll
  BY <1>15 DEF PutAll
<1>16. CASE cleanup
  BY <1>16 DEF cleanup, dummy_hcd_remove, dummy_udc_remove
<1>17. CASE ModuleUnload
  BY <1>17 DEF ModuleUnload
<1>18. CASE \E d \in Ids : GadgetBind(d) \/ GadgetUnbind(d)
  BY <1>18 DEF GadgetBind, GadgetUnbind
<1>19. CASE UNCHANGED setup
  BY <1>19 DEF setup
<1> QED
  BY Elsewhere, <1>1, <1>2, <1>3, <1>4, <1>5, <1>6, <1>7, <1>8, <1>9, <1>10, <1>11,
     <1>12, <1>13, <1>14, <1>15, <1>16, <1>17, <1>18, <1>19
  DEF Next, ModuleStep

\* A probe changes one device only, which had no host controllers before.
LEMMA AddHcdControllers ==
    ASSUME IInv, AddHcd
    PROVE  ControllersInv'
<1>1. num' = num /\ Speeds' = Speeds /\ pc = "add_hcd"
  BY DEF AddHcd, params, Speeds
<1>2. i \in Devs /\ i \in Ids /\ i \in Nat /\ Ids \subseteq Nat /\ num \in Nat
  BY <1>1, Numbers DEF IInv, Where
<1>3. \A d \in Ids : d \notin Devs \/ d >= i => alive[d] = {}
  BY <1>1 DEF IInv, ControllersInv
<1>4. CASE dummy_hcd_probe(i) /\ Loop("check_hcd")
  <2>1. \A d \in Ids \ {i} : ptr'[d] = ptr[d] /\ alive'[d] = alive[d]
    BY <1>2, <1>4 DEF dummy_hcd_probe, dummy_setup, IInv, TypeControllers
  <2>2. ptr'[i] = alive'[i] /\ alive'[i] \in {{}, Speeds}
    BY <1>2, <1>3, <1>4 DEF dummy_hcd_probe, dummy_setup, IInv, TypeControllers
  <2>3. pc' \in {"add_hcd", "check_hcd"} /\ (pc' = "add_hcd" => i' = i + 1)
    BY <1>1, <1>4 DEF Loop
  <2>4. \A d \in Ids : ptr'[d] = alive'[d] /\ alive'[d] \in {{}, Speeds}
    BY <2>1, <2>2 DEF IInv, ControllersInv
  <2>5. \A d \in Ids : d \notin Devs \/ d > i => alive'[d] = {}
    BY <1>2, <1>3, <2>1
  <2>6. pc' = "add_hcd" => \A d \in Ids : d >= i' => d > i
    BY <1>2, <2>3
  <2> QED BY <1>1, <2>3, <2>4, <2>5, <2>6 DEF ControllersInv, Devs, NoHcds, NoUdcDriver,
             NoHcdDriver, NothingAllocated, AllHcds
<1>5. CASE dummy_hcd_remove(0 .. i - 1) /\ Goto("err_add_hcd")
  <2>1. \A d \in Ids : ptr'[d] = {} /\ alive'[d] = {}
    BY <1>2, <1>3, <1>5 DEF dummy_hcd_remove, IInv, ControllersInv
  <2> QED BY <1>5, <2>1 DEF Goto, ControllersInv, AllHcds
<1> QED BY <1>4, <1>5 DEF AddHcd

LEMMA CleanupControllers ==
    ASSUME IInv, cleanup
    PROVE  ControllersInv'
<1>1. num' = num /\ Speeds' = Speeds /\ pc = "cleanup"
  BY DEF cleanup, params, Speeds
<1>2. i \in Devs /\ i \in Ids /\ i \in Nat /\ Ids \subseteq Nat /\ num \in Nat
  BY <1>1, Numbers DEF IInv, Where
<1>3. CASE UNCHANGED <<pc, i, ptr, alive>>
  BY <1>1, <1>3 DEF IInv, ControllersInv, Devs
<1>4. CASE dummy_hcd_remove({i}) /\ Loop("absent")
  <2>1. \A d \in Ids : /\ ptr'[d] = IF d = i THEN {} ELSE ptr[d]
                       /\ alive'[d] = IF d = i THEN {} ELSE alive[d]
    BY <1>4 DEF dummy_hcd_remove
  <2>2. \A d \in Ids : ptr'[d] = alive'[d] /\ alive'[d] \in {{}, Speeds}
    BY <2>1 DEF IInv, ControllersInv
  <2>3. \A d \in Ids : alive'[d] = IF d \in Devs /\ d > i THEN Speeds ELSE {}
    BY <1>1, <1>2, <2>1 DEF IInv, ControllersInv
  <2>4. CASE i + 1 < num
    <3>1. pc' = "cleanup" /\ i' = i + 1
      BY <1>1, <1>4, <2>4 DEF Loop
    <3>2. \A d \in Ids : d < i' <=> ~(d > i)
      BY <1>2, <3>1
    <3>3. \A d \in Ids : d >= i' <=> d > i
      BY <1>2, <3>1
    <3> QED BY <1>1, <2>2, <2>3, <3>1, <3>2, <3>3 DEF ControllersInv, Devs, NoHcds, NoUdcDriver,
               NoHcdDriver, NothingAllocated, AllHcds
  <2>5. CASE ~(i + 1 < num)
    <3>1. pc' = "absent"
      BY <1>4, <2>5 DEF Loop
    <3>2. \A d \in Ids : ~(d \in Devs /\ d > i)
      BY <1>2, <2>5 DEF Devs
    <3> QED BY <2>2, <2>3, <3>1, <3>2 DEF ControllersInv, AllHcds
  <2> QED BY <2>4, <2>5
<1> QED BY <1>3, <1>4 DEF cleanup, hcds

LEMMA ControllersInvStep ==
    ASSUME IInv, [Next]_vars
    PROVE  ControllersInv'
<1> USE Numbers
    DEF IInv, Where, TypeControllers, ControllersInv, NoHcds, NoUdcDriver, NoHcdDriver,
        NothingAllocated, AllHcds, Speeds, NoDevice, Devs, Goto, Loop, params, pdevs,
        drivers, memory, hcds, udcs
<1>1. CASE ModuleLoad
  BY <1>1, StreamsAssumption DEF ModuleLoad, MAX_NUM_UDC
<1>2. CASE AllocHcd
  BY <1>2 DEF AllocHcd
<1>3. CASE AllocUdc
  BY <1>3 DEF AllocUdc
<1>4. CASE AllocDum
  BY <1>4 DEF AllocDum
<1>5. CASE RegisterHcdDriver
  BY <1>5 DEF RegisterHcdDriver
<1>6. CASE RegisterUdcDriver
  BY <1>6 DEF RegisterUdcDriver
<1>7. CASE AddHcd
  BY <1>7, AddHcdControllers
<1>8. CASE CheckHcds
  BY <1>8 DEF CheckHcds, HcdsComplete
<1>9. CASE AddUdc
  BY <1>9 DEF AddUdc, dummy_udc_probe, dummy_udc_remove
<1>10. CASE CheckUdcs
  BY <1>10 DEF CheckUdcs
<1>11. CASE DeleteUdc
  BY <1>11 DEF DeleteUdc, dummy_udc_remove
<1>12. CASE DeleteHcd
  BY <1>12 DEF DeleteHcd, dummy_hcd_remove
<1>13. CASE UnregisterUdcDriver
  BY <1>13 DEF UnregisterUdcDriver
<1>14. CASE UnregisterHcdDriver
  BY <1>14 DEF UnregisterHcdDriver
<1>15. CASE PutAll
  BY <1>15 DEF PutAll
<1>16. CASE cleanup
  BY <1>16, CleanupControllers
<1>17. CASE ModuleUnload
  BY <1>17 DEF ModuleUnload
<1>18. CASE \E d \in Ids : GadgetBind(d) \/ GadgetUnbind(d)
  <2>1. UNCHANGED <<pc, i, num, super, ptr, alive>>
    BY <1>18 DEF GadgetBind, GadgetUnbind, params, hcds
  <2> QED BY <2>1 DEF ControllersInv, Devs, Speeds
<1>19. CASE UNCHANGED setup
  BY <1>19 DEF setup
<1> QED
  BY Elsewhere, <1>1, <1>2, <1>3, <1>4, <1>5, <1>6, <1>7, <1>8, <1>9, <1>10, <1>11,
     <1>12, <1>13, <1>14, <1>15, <1>16, <1>17, <1>18, <1>19
  DEF Next, ModuleStep

LEMMA UdcsInvStep ==
    ASSUME IInv, [Next]_vars
    PROVE  UdcsInv'
<1> USE Numbers
    DEF IInv, Where, TypeControllers, DevicesInv, UdcsInv, NoUdcs, NoHcds, NoUdcDriver,
        NoHcdDriver, NothingAllocated, NoDevice, Devs, Goto, Loop, params, pdevs, drivers,
        memory, hcds, udcs
<1>1. CASE ModuleLoad
  BY <1>1, StreamsAssumption DEF ModuleLoad, MAX_NUM_UDC
<1>2. CASE AllocHcd
  BY <1>2 DEF AllocHcd
<1>3. CASE AllocUdc
  BY <1>3 DEF AllocUdc
<1>4. CASE AllocDum
  BY <1>4 DEF AllocDum
<1>5. CASE RegisterHcdDriver
  BY <1>5 DEF RegisterHcdDriver
<1>6. CASE RegisterUdcDriver
  BY <1>6 DEF RegisterUdcDriver
<1>7. CASE AddHcd
  BY <1>7 DEF AddHcd, dummy_hcd_probe, dummy_setup, dummy_hcd_remove
<1>8. CASE CheckHcds
  BY <1>8 DEF CheckHcds, HcdsComplete
<1>9. CASE AddUdc
  BY <1>9 DEF AddUdc, dummy_udc_probe, dummy_udc_remove
<1>10. CASE CheckUdcs
  BY <1>10 DEF CheckUdcs
<1>11. CASE DeleteUdc
  BY <1>11 DEF DeleteUdc, dummy_udc_remove
<1>12. CASE DeleteHcd
  BY <1>12 DEF DeleteHcd, dummy_hcd_remove
<1>13. CASE UnregisterUdcDriver
  BY <1>13 DEF UnregisterUdcDriver
<1>14. CASE UnregisterHcdDriver
  BY <1>14 DEF UnregisterHcdDriver
<1>15. CASE PutAll
  BY <1>15 DEF PutAll
<1>16. CASE cleanup
  BY <1>16 DEF cleanup, dummy_hcd_remove, dummy_udc_remove
<1>17. CASE ModuleUnload
  BY <1>17 DEF ModuleUnload
<1>18. CASE \E d \in Ids : GadgetBind(d) \/ GadgetUnbind(d)
  BY <1>18 DEF GadgetBind, GadgetUnbind
<1>19. CASE UNCHANGED setup
  BY <1>19 DEF setup
<1> QED
  BY Elsewhere, <1>1, <1>2, <1>3, <1>4, <1>5, <1>6, <1>7, <1>8, <1>9, <1>10, <1>11,
     <1>12, <1>13, <1>14, <1>15, <1>16, <1>17, <1>18, <1>19
  DEF Next, ModuleStep

----------------------------------------------------------------------------
LEMMA Initially == Init => IInv
<1> SUFFICES ASSUME Init PROVE IInv
  OBVIOUS
<1> USE Numbers DEF Init, NoDevice
<1>1. TypeModule /\ TypeDevices /\ TypeMemory /\ TypeControllers
  BY DEF TypeModule, TypeDevices, TypeMemory, TypeControllers
<1>2. Where /\ DevicesInv
  BY DEF Where, DevicesInv, NothingAllocated
<1>3. DriversInv /\ MemoryInv
  BY DEF DriversInv, MemoryInv, NothingAllocated, AllMemory
<1>4. ControllersInv /\ UdcsInv
  BY DEF ControllersInv, UdcsInv, AllHcds
<1> QED BY <1>1, <1>2, <1>3, <1>4 DEF IInv

LEMMA Inductive == Spec => []IInv
<1>1. IInv /\ [Next]_vars => IInv'
  <2> SUFFICES ASSUME IInv, [Next]_vars PROVE IInv'
    OBVIOUS
  <2> QED BY TypeModuleStep, TypeDevicesStep, TypeMemoryStep, TypeControllersStep, WhereStep,
             DevicesInvStep, DriversInvStep, MemoryInvStep, ControllersInvStep, UdcsInvStep
          DEF IInv
<1> QED BY <1>1, Initially, PTL DEF Spec

\* A gadget driver never meets a UDC whose HCDs are missing or whose memory is freed, for
\* any number of controllers and whatever fails in init().
THEOREM ControllersUnderUdcs == Spec => []GadgetHasController
<1>1. IInv => GadgetHasController
  <2> SUFFICES ASSUME IInv PROVE GadgetHasController
    OBVIOUS
  <2>1. \A d \in udc : ptr[d] = Speeds /\ alive[d] = Speeds
    <3> SUFFICES ASSUME NEW d \in udc PROVE ptr[d] = Speeds /\ alive[d] = Speeds
      OBVIOUS
    <3>1. d \in Ids /\ d \in Devs /\ pc \in AllHcds \cup {"cleanup"}
      BY DEF IInv, TypeModule, TypeControllers, UdcsInv, InitSteps, Unwinding, AllHcds,
             NoUdcs, NoHcds, NoUdcDriver, NoHcdDriver, NothingAllocated
    <3>2. pc = "cleanup" => d >= i
      BY <3>1, Numbers DEF IInv, UdcsInv
    <3> QED BY <3>1, <3>2 DEF IInv, ControllersInv
  <2>2. ASSUME NEW d \in Ids, d \in udc \/ alive[d] # {} PROVE d \in mem /\ ptr[d] = alive[d]
    <3>1. d \in Devs /\ pc \notin NoHcds
      BY <2>1, <2>2 DEF IInv, ControllersInv, UdcsInv, NoUdcs
    <3>2. pc \in AllMemory \cup {"live"} \/ pc = "cleanup"
      BY <3>1 DEF IInv, TypeModule, InitSteps, Unwinding, AllMemory, NoHcds, NoUdcDriver,
                  NoHcdDriver, NothingAllocated
    <3>3. pc = "cleanup" => d >= i
      BY <2>2, <3>1, Numbers DEF IInv, UdcsInv, ControllersInv
    <3> QED BY <3>1, <3>2, <3>3 DEF IInv, MemoryInv, ControllersInv
  <2> QED BY <2>1, <2>2 DEF GadgetHasController
<1> QED BY <1>1, Inductive, PTL

\* Loading the module is all or nothing, for any number of controllers and whatever fails.
THEOREM LoadsAllOrNothing == Spec => []AllOrNothing
<1>1. IInv => AllOrNothing
  <2> SUFFICES ASSUME IInv PROVE AllOrNothing
    OBVIOUS
  <2>1. pc = "absent" => hcd_pdev = NoDevice("none") /\ udc_pdev = NoDevice("none")
    BY DEF IInv, TypeDevices, DevicesInv, NoDevice
  <2>2. pc = "absent" => ~hcd_drv /\ ~udc_drv
    BY DEF IInv, DriversInv, NoUdcDriver, NoHcdDriver, NothingAllocated
  <2>3. pc = "absent" => mem = {} /\ udc = {}
    BY DEF IInv, TypeMemory, TypeControllers, MemoryInv, UdcsInv, NoUdcs, NoHcds, NoUdcDriver,
           NoHcdDriver, NothingAllocated
  <2>4. pc = "absent" => alive = NoDevice({})
    BY DEF IInv, TypeControllers, ControllersInv, NoHcds, NoUdcDriver, NoHcdDriver,
           NothingAllocated, NoDevice
  <2>5. wild => num > 1
    BY DEF IInv, MemoryInv
  <2>6. ASSUME pc = "live" PROVE udc = Devs /\ \A d \in Devs : alive[d] = Speeds
    <3>1. Devs \subseteq Ids
      BY <2>6, Numbers DEF IInv
    <3> QED BY <2>6, <3>1 DEF IInv, TypeControllers, UdcsInv, ControllersInv, AllHcds
  <2> QED BY <2>1, <2>2, <2>3, <2>4, <2>5, <2>6 DEF AllOrNothing
<1> QED BY <1>1, Inductive, PTL

----------------------------------------------------------------------------
(* Streams.                                                                *)

\* What is granted fits in a nibble, and as long as the endpoints of the latest grant
\* have streams the limit stored in byte 0 is no less than that.
StreamsInv ==
    /\ TypeStreams
    /\ \A d \in Ids : /\ latest[d] \subseteq stream_en_ep[d]
                      /\ \A e \in Eps : granted[d][e] <= 16
                      /\ \A e \in latest[d] : granted[d][e] <= (num_stream[d][0] \div 16) + 1

\* Every pipe that the callers make of an endpoint number selects byte 0, as an OUT pipe.
LEMMA PipeOf ==
    /\ \A e \in Eps : /\ usb_pipeendpoint(Number(e)) = 0 /\ usb_pipeout(Number(e))
    /\ usb_pipeendpoint(0) = 0 /\ usb_pipeout(0)
<1>1. \A n \in 0 .. 15 : (n \div 32768) % 16 = 0 /\ (n \div 128) % 2 = 0
  OBVIOUS
<1>2. \A e \in Eps : Number(e) \in 0 .. 15
  BY StreamsAssumption DEF Number
<1> QED BY <1>1, <1>2 DEF usb_pipeendpoint, usb_pipeout

\* Two nibbles are a byte, of which the upper one is the quotient.
LEMMA Nibbles ==
    ASSUME NEW a \in 0 .. 15, NEW b \in 0 .. 255
    PROVE  /\ 16 * a + (b % 16) \in 0 .. 255
           /\ (16 * a + (b % 16)) \div 16 = a
<1>1. b % 16 \in 0 .. 15
  OBVIOUS
<1> QED BY <1>1

\* A nonempty set of natural numbers has a minimum.
LEMMA MinIs ==
    ASSUME NEW S \in SUBSET Nat, S # {}
    PROVE  Min(S) \in S /\ \A x \in S : Min(S) <= x
<1>1. IsWellFoundedOn(OpToRel(<, Nat), Nat)
  BY NatLessThanWellFounded
<1>2. PICK x \in S : \A y \in S : ~(<<y, x>> \in OpToRel(<, Nat))
  BY <1>1, WFMin
<1>3. ASSUME NEW y \in S
      PROVE  x <= y
  <2>1. x \in Nat /\ y \in Nat
    OBVIOUS
  <2>2. y < x => <<y, x>> \in OpToRel(<, Nat)
    BY <2>1, Zenon DEF OpToRel
  <2>3. ~(y < x)
    BY <1>2, <2>2
  <2> QED BY <2>1, <2>3
<1> QED BY <1>3 DEF Min

\* The number of streams that is stored: 0 becomes 16.
LEMMA SetStreamsIs ==
    ASSUME NEW ns \in [StreamBytes -> 0 .. 255], NEW eps \in SUBSET Eps, eps # {},
           NEW n \in 0 .. 16
    PROVE  /\ SetStreams(ns, eps, n) \in [StreamBytes -> 0 .. 255]
           /\ n > 0 => (SetStreams(ns, eps, n)[0] \div 16) + 1 = n
           /\ n = 0 => (SetStreams(ns, eps, n)[0] \div 16) + 1 = 16
<1> DEFINE a == (n - 1) % 16
           value == 16 * a + (ns[0] % 16)
<1>1. a \in 0 .. 15 /\ (n > 0 => a + 1 = n) /\ (n = 0 => a + 1 = 16)
  OBVIOUS
<1>2. ns[0] \in 0 .. 255 /\ 0 \in StreamBytes
  BY DEF StreamBytes
<1> HIDE DEF a
<1>3. value \in 0 .. 255 /\ value \div 16 = a
  BY <1>1, <1>2, Nibbles
<1>4. ASSUME NEW e \in Eps
      PROVE  set_max_streams_for_pipe(ns, Number(e), n) = [ns EXCEPT ![0] = value]
  BY PipeOf, Zenon DEF set_max_streams_for_pipe, a
<1> HIDE DEF value
<1>5. SetStreams(ns, eps, n) = [k \in StreamBytes |-> IF k = 0 THEN value ELSE ns[k]]
  <2> SUFFICES ASSUME NEW k \in StreamBytes
               PROVE  SetStreams(ns, eps, n)[k] = IF k = 0 THEN value ELSE ns[k]
    BY DEF SetStreams
  <2> DEFINE calls == {e \in eps : usb_pipeendpoint(Number(e)) = k}
  <2>1. SetStreams(ns, eps, n)[k] =
            IF calls = {} THEN ns[k]
            ELSE set_max_streams_for_pipe(ns, Number(CHOOSE e \in calls : TRUE), n)[k]
    BY DEF SetStreams
  <2>2. CASE k = 0
    <3>1. calls = eps
      BY <2>2, PipeOf
    <3>2. (CHOOSE e \in calls : TRUE) \in Eps
      BY <3>1
    <3>3. set_max_streams_for_pipe(ns, Number(CHOOSE e \in calls : TRUE), n)[0] = value
      BY <1>2, <1>4, <3>2
    <3> QED BY <2>1, <2>2, <3>1, <3>3
  <2>3. CASE k # 0
    BY <2>1, <2>3, PipeOf
  <2> QED BY <2>2, <2>3
<1> QED BY <1>1, <1>2, <1>3, <1>5

\* Streams are granted for all endpoints alike, no more than a nibble holds.
LEMMA AllocStreams ==
    ASSUME StreamsInv, NEW d \in Ids, NEW eps \in SUBSET Eps, NEW n \in Requests,
           dummy_alloc_streams(d, eps, n)
    PROVE  StreamsInv'
<1> DEFINE S == {n} \cup {MaxStreams[e] : e \in eps}
           ret == Min(S)
<1>1. /\ eps # {} /\ ret > 0
      /\ stream_en_ep' = [stream_en_ep EXCEPT ![d] = stream_en_ep[d] \cup eps]
      /\ num_stream' = [num_stream EXCEPT ![d] = SetStreams(num_stream[d], eps, ret)]
      /\ granted' = [granted EXCEPT ![d] = [e \in Eps |-> IF e \in eps THEN ret ELSE granted[d][e]]]
      /\ latest' = [latest EXCEPT ![d] = eps]
  BY Zenon DEF dummy_alloc_streams
<1>2. ret \in 1 .. 16
  <2>1. S \in SUBSET Nat /\ S # {}
    BY StreamsAssumption
  <2>2. PICK e \in eps : MaxStreams[e] \in S /\ MaxStreams[e] \in 0 .. 16
    BY <1>1, StreamsAssumption
  <2>3. ret \in S /\ ret <= MaxStreams[e]
    BY <2>1, <2>2, MinIs
  <2> QED BY <1>1, <2>1, <2>2, <2>3
<1> HIDE DEF ret
<1>3. /\ SetStreams(num_stream[d], eps, ret) \in [StreamBytes -> 0 .. 255]
      /\ (SetStreams(num_stream[d], eps, ret)[0] \div 16) + 1 = ret
  <2>1. num_stream[d] \in [StreamBytes -> 0 .. 255] /\ ret \in 0 .. 16 /\ ret > 0
    BY <1>2 DEF StreamsInv, TypeStreams
  <2> QED BY <1>1, <2>1, SetStreamsIs
<1>4. TypeStreams'
  BY <1>1, <1>2, <1>3 DEF StreamsInv, TypeStreams
<1>5. ASSUME NEW c \in Ids
      PROVE  /\ latest'[c] \subseteq stream_en_ep'[c]
             /\ \A e \in Eps : granted'[c][e] <= 16
             /\ \A e \in latest'[c] : granted'[c][e] <= (num_stream'[c][0] \div 16) + 1
  <2>1. CASE c = d
    <3>1. /\ latest'[c] = eps /\ eps \subseteq stream_en_ep'[c]
          /\ \A e \in Eps : granted'[c][e] = IF e \in eps THEN ret ELSE granted[c][e]
          /\ num_stream'[c] = SetStreams(num_stream[d], eps, ret)
      BY <1>1, <2>1 DEF StreamsInv, TypeStreams
    <3>2. \A e \in Eps : granted'[c][e] <= 16
      BY <1>2, <3>1 DEF StreamsInv
    <3>3. \A e \in eps : granted'[c][e] = (num_stream'[c][0] \div 16) + 1
      BY <1>3, <3>1
    <3> QED BY <1>2, <1>3, <3>1, <3>2, <3>3
  <2>2. CASE c # d
    BY <1>1, <2>2 DEF StreamsInv, TypeStreams
  <2> QED BY <2>1, <2>2
<1> QED BY <1>4, <1>5 DEF StreamsInv

\* Freeing raises the limit: the endpoints that keep their streams lose none.
LEMMA FreeStreams ==
    ASSUME StreamsInv, NEW d \in Ids, NEW eps \in SUBSET Eps, dummy_free_streams(d, eps)
    PROVE  StreamsInv'
<1>1. /\ eps # {}
      /\ stream_en_ep' = [stream_en_ep EXCEPT ![d] = stream_en_ep[d] \ eps]
      /\ num_stream' = [num_stream EXCEPT ![d] = SetStreams(num_stream[d], eps, 0)]
      /\ granted' = [granted EXCEPT ![d] = [e \in Eps |-> IF e \in eps THEN 0 ELSE granted[d][e]]]
      /\ latest' = [latest EXCEPT ![d] = latest[d] \ eps]
  BY Zenon DEF dummy_free_streams
<1>2. /\ SetStreams(num_stream[d], eps, 0) \in [StreamBytes -> 0 .. 255]
      /\ (SetStreams(num_stream[d], eps, 0)[0] \div 16) + 1 = 16
  <2>1. num_stream[d] \in [StreamBytes -> 0 .. 255]
    BY DEF StreamsInv, TypeStreams
  <2> QED BY <1>1, <2>1, SetStreamsIs
<1>3. TypeStreams'
  BY <1>1, <1>2 DEF StreamsInv, TypeStreams
<1>4. ASSUME NEW c \in Ids
      PROVE  /\ latest'[c] \subseteq stream_en_ep'[c]
             /\ \A e \in Eps : granted'[c][e] <= 16
             /\ \A e \in latest'[c] : granted'[c][e] <= (num_stream'[c][0] \div 16) + 1
  <2>1. CASE c = d
    <3>1. /\ latest'[c] = latest[c] \ eps /\ stream_en_ep'[c] = stream_en_ep[c] \ eps
          /\ \A e \in Eps : granted'[c][e] = IF e \in eps THEN 0 ELSE granted[c][e]
          /\ num_stream'[c] = SetStreams(num_stream[d], eps, 0)
      BY <1>1, <2>1 DEF StreamsInv, TypeStreams
    <3>2. \A e \in Eps : granted'[c][e] <= 16
      BY <3>1 DEF StreamsInv
    <3>3. latest'[c] \subseteq Eps
      BY <1>3 DEF TypeStreams
    <3> QED BY <1>2, <3>1, <3>2, <3>3 DEF StreamsInv
  <2>2. CASE c # d
    BY <1>1, <2>2 DEF StreamsInv, TypeStreams
  <2> QED BY <2>1, <2>2
<1> QED BY <1>3, <1>4 DEF StreamsInv

\* An HCD that goes, or comes, has no streams.
LEMMA ClearStreams ==
    ASSUME StreamsInv, NEW S, NoStreams(S)
    PROVE  StreamsInv'
<1>1. [k \in StreamBytes |-> 0] \in [StreamBytes -> 0 .. 255] /\ 0 \in StreamBytes
  BY DEF StreamBytes
<1>2. TypeStreams'
  BY <1>1 DEF NoStreams, StreamsInv, TypeStreams
<1>3. ASSUME NEW c \in Ids
      PROVE  /\ latest'[c] \subseteq stream_en_ep'[c]
             /\ \A e \in Eps : granted'[c][e] <= 16
             /\ \A e \in latest'[c] : granted'[c][e] <= (num_stream'[c][0] \div 16) + 1
  <2>1. CASE c \in S
    BY <2>1 DEF NoStreams
  <2>2. CASE c \notin S
    BY <2>2 DEF NoStreams, StreamsInv
  <2> QED BY <2>1, <2>2
<1> QED BY <1>2, <1>3 DEF StreamsInv

LEMMA StreamsStep == StreamsInv /\ [Next]_vars => StreamsInv'
<1> SUFFICES ASSUME StreamsInv, [Next]_vars PROVE StreamsInv'
  OBVIOUS
<1>1. CASE UNCHANGED streams
  BY <1>1 DEF streams, StreamsInv, TypeStreams
<1>2. CASE \E S : NoStreams(S)
  BY <1>2, ClearStreams
<1>3. CASE \E d \in Ids, eps \in SUBSET Eps :
             dummy_free_streams(d, eps) \/ \E n \in Requests : dummy_alloc_streams(d, eps, n)
  BY <1>3, AllocStreams, FreeStreams
<1>4. CASE AddHcd \/ DeleteHcd \/ cleanup
  <2>1. UNCHANGED streams \/ \E S : NoStreams(S)
    BY <1>4, Zenon DEF AddHcd, DeleteHcd, cleanup, dummy_hcd_remove
  <2> QED BY <2>1, <1>1, <1>2
<1>5. CASE \/ ModuleLoad \/ ModuleUnload \/ (\E d \in Ids : GadgetBind(d) \/ GadgetUnbind(d))
           \/ UNCHANGED vars
  <2>1. UNCHANGED streams
    BY <1>5, Zenon DEF ModuleLoad, ModuleUnload, GadgetBind, GadgetUnbind, vars
  <2> QED BY <2>1, <1>1
<1>6. CASE \/ AllocHcd \/ AllocUdc \/ AllocDum \/ RegisterHcdDriver \/ RegisterUdcDriver
           \/ CheckHcds \/ AddUdc \/ CheckUdcs
           \/ DeleteUdc \/ UnregisterUdcDriver \/ UnregisterHcdDriver \/ PutAll
  <2>1. UNCHANGED streams
    BY <1>6, Zenon DEF AllocHcd, AllocUdc, AllocDum, RegisterHcdDriver, RegisterUdcDriver,
       CheckHcds, AddUdc, CheckUdcs, DeleteUdc, UnregisterUdcDriver, UnregisterHcdDriver, PutAll
  <2> QED BY <2>1, <1>1
<1> QED BY <1>3, <1>4, <1>5, <1>6 DEF Next, ModuleStep

LEMMA StreamsInvariant == Spec => []StreamsInv
<1>1. Init => StreamsInv
  <2> SUFFICES ASSUME Init PROVE StreamsInv
    OBVIOUS
  <2>1. TypeStreams
    BY DEF Init, TypeStreams, NoDevice
  <2> QED BY <2>1 DEF Init, StreamsInv, NoDevice
<1>2. StreamsInv /\ [Next]_vars => StreamsInv'
  BY StreamsStep
<1> QED BY <1>1, <1>2, PTL DEF Spec

\* The types of the whole module, streams included (dummy_hcd.c, init() and cleanup(),
\* and the bytes of num_stream).
THEOREM TypeCorrect == Spec => []TypeOK
<1>1. IInv /\ StreamsInv => TypeOK
  BY DEF IInv, StreamsInv, TypeOK
<1> QED BY <1>1, Inductive, StreamsInvariant, PTL

\* No URB that uses a stream ID of the latest allocation runs into the BUG() of
\* dummy_validate_stream(), for any endpoints and any number of streams, though all
\* endpoints share one nibble.
THEOREM GrantsStayValid == Spec => []LatestGrantValid
<1>1. StreamsInv => LatestGrantValid
  <2> SUFFICES ASSUME StreamsInv, NEW d \in Ids, NEW e \in latest[d], NEW id \in 1 .. granted[d][e]
               PROVE  dummy_validate_stream(d, e, id)
    BY DEF LatestGrantValid
  <2>1. e \in Eps /\ e \in stream_en_ep[d] /\ granted[d][e] \in Nat
        /\ granted[d][e] <= (num_stream[d][0] \div 16) + 1
    BY DEF StreamsInv, TypeStreams
  <2>2. get_max_streams_for_pipe(num_stream[d], usb_pipeendpoint(Number(e)))
            = (num_stream[d][0] \div 16) + 1
    BY <2>1, PipeOf, Zenon DEF get_max_streams_for_pipe
  <2>3. (num_stream[d][0] \div 16) + 1 \in Nat
    <3>1. num_stream[d][0] \in 0 .. 255
      BY DEF StreamsInv, TypeStreams, StreamBytes
    <3> QED BY <3>1
  <2> QED BY <2>1, <2>2, <2>3 DEF dummy_validate_stream, dummy_ep_stream_en
<1> QED BY <1>1, StreamsInvariant, PTL
=============================================================================
