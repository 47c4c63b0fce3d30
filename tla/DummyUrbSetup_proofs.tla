------------------------- MODULE DummyUrbSetup_proofs -------------------------
(***************************************************************************)
(* Proofs about the SETUP stage of control URBs and about the endpoint     *)
(* queues of DummyUrb, and its type correctness.  Endpoint 0 is shared by  *)
(* all control URBs and has one setup_stage flag.  What keeps their stages *)
(* apart is that only the first of them on the list is ever served: those  *)
(* behind it are still new, since already_seen[0] is set from the moment   *)
(* that the first one is served until it has been given back.              *)
(***************************************************************************)
EXTENDS DummyUrb_proofs

-----------------------------------------------------------------------------
(* Types of the variables that are not about the list or the queues.       *)

TypeHost ==
    /\ udev \in BOOLEAN /\ pending \in BOOLEAN /\ rh_running \in BOOLEAN
    /\ unlinked \subseteq Urbs /\ new \subseteq Urbs /\ did_setup \subseteq Urbs

TypeEps ==
    /\ link \in BOOLEAN /\ ready \in BOOLEAN /\ setup_stage \in BOOLEAN
    /\ enabled \subseteq DataEps /\ nuking \subseteq Eps
    /\ halted \subseteq Eps /\ wedged \subseteq DataEps /\ already_seen \subseteq Eps

TypeBudget == total \in Int /\ limit \in Nat /\ finished \in BOOLEAN

TypeRest == TypeHost /\ TypeEps /\ TypeBudget

\* The endpoint of the URB at which the loop stands.
LEMMA CurEp ==
    ASSUME ListInv
    PROVE  /\ AtUrb => cur \in Urbs /\ EpOf[cur] \in Eps
           /\ tpc \in Serving => cur \in Urbs /\ EpOf[cur] \in Eps
BY AtUrbIs, EpOfAssumption DEF ListInv, TypeList

LEMMA TypeHostStep ==
    ASSUME ListInv, TypeRest, [Next]_vars
    PROVE  TypeHost'
<1> USE DEF TypeRest, TypeHost
<1>1. ASSUME NEW es, return_urb(es)
      PROVE  TypeHost'
  BY <1>1 DEF return_urb
<1>2. CASE HostStep
  <2>1. ASSUME NEW u \in Urbs, dummy_urb_enqueue(u) \/ dummy_urb_dequeue(u)
        PROVE  TypeHost'
    <3>1. /\ new' \subseteq Urbs /\ unlinked' \subseteq Urbs /\ did_setup' = did_setup
          /\ rh_running' = rh_running
      BY <2>1 DEF dummy_urb_enqueue, dummy_urb_dequeue
    <3>2. udev' \in BOOLEAN /\ pending' \in BOOLEAN
      BY <2>1, Zenon DEF dummy_urb_enqueue, dummy_urb_dequeue
    <3> QED BY <3>1, <3>2
  <2>2. CASE dummy_bus_suspend
    BY <2>2 DEF dummy_bus_suspend
  <2>3. CASE dummy_bus_resume
    <3>1. UNCHANGED <<udev, unlinked, new, did_setup>>
      BY <2>3 DEF dummy_bus_resume
    <3>2. pending' \in BOOLEAN /\ rh_running' \in BOOLEAN
      BY <2>3, Zenon DEF dummy_bus_resume
    <3> QED BY <3>1, <3>2
  <2> QED BY <1>2, <2>1, <2>2, <2>3 DEF HostStep
<1>3. CASE TimerFire \/ TimerBegin \/ TimerNoUrbs
  BY <1>3 DEF TimerFire, TimerBegin, TimerNoUrbs, hostvars
<1>4. CASE TimerEnd
  <2>1. UNCHANGED <<rh_running, unlinked, new, did_setup>>
    BY <1>4 DEF TimerEnd
  <2>2. udev' \in BOOLEAN /\ pending' \in BOOLEAN
    BY <1>4, Zenon DEF TimerEnd
  <2> QED BY <2>1, <2>2
<1>5. CASE Scan
  <2>1. CASE ScanUnlinked \/ ScanNoEp \/ ScanHalted \/ handle_control_request
    BY <1>1, <2>1 DEF ScanUnlinked, ScanNoEp, ScanHalted, handle_control_request
  <2>2. CASE ScanSkip \/ ScanData
    BY <2>2 DEF ScanSkip, ScanData, hostvars
  <2>3. CASE ScanStale
    BY <2>3 DEF ScanStale
  <2>4. CASE ScanSetup
    <3>1. cur \in Urbs
      BY <2>4, CurEp DEF ScanSetup, Served, InFrame
    <3> QED BY <2>4, <3>1 DEF ScanSetup
  <2> QED BY <1>5, <2>1, <2>2, <2>3, <2>4 DEF Scan
<1>6. CASE Xfer
  <2>1. CASE XferNak \/ XferShort \/ XferRequestFull \/ XferRescan \/ XferExhausted
    BY <2>1 DEF XferNak, XferShort, XferRequestFull, XferRescan, XferExhausted,
       XferRequestDone, Continue, hostvars
  <2>2. CASE XferUrbFull
    BY <1>1, <2>2 DEF XferUrbFull
  <2> QED BY <1>6, <2>1, <2>2 DEF Xfer
<1>7. CASE StaleReturn \/ SetupReturn \/ ReqReturn \/ UrbReturn
  BY <1>7 DEF StaleReturn, SetupReturn, ReqReturn, UrbReturn, hostvars
<1>8. CASE SetupStall \/ ReqReturnDone
  BY <1>1, <1>8 DEF SetupStall, ReqReturnDone
<1>9. CASE GadgetStep
  BY <1>9, GadgetFrame DEF hostvars
<1>10. CASE UNCHANGED vars
  BY <1>10 DEF vars, hostvars
<1> QED BY <1>2, <1>3, <1>4, <1>5, <1>6, <1>7, <1>8, <1>9, <1>10 DEF Next, TimerStep

LEMMA TypeBudgetStep ==
    ASSUME ListInv, TypeRest, [Next]_vars
    PROVE  TypeBudget'
<1> USE UnitsAssumption DEF TypeRest, TypeBudget
<1>1. ASSUME NEW es, return_urb(es), total' \in {total, total - 1}
      PROVE  TypeBudget'
  <2>1. limit' = 0 /\ finished' \in BOOLEAN
    BY <1>1 DEF return_urb
  <2>2. total' \in Int
    BY <1>1
  <2> QED BY <2>1, <2>2
<1>2. CASE HostStep
  BY <1>2 DEF HostStep, dummy_urb_enqueue, dummy_urb_dequeue, dummy_bus_suspend,
     dummy_bus_resume, timervars
<1>3. CASE TimerFire \/ TimerBegin \/ TimerNoUrbs
  BY <1>3 DEF TimerFire, TimerBegin, TimerNoUrbs
<1>4. CASE TimerEnd
  <2>1. total' = 0 /\ limit' = 0 /\ finished' \in BOOLEAN
    BY <1>4 DEF TimerEnd
  <2> QED BY <2>1
<1>5. CASE Scan
  <2>1. CASE ScanUnlinked \/ ScanNoEp \/ ScanHalted \/ handle_control_request
    <3>1. CASE ScanUnlinked
      BY <1>1, <3>1 DEF ScanUnlinked
    <3>2. CASE ScanNoEp
      BY <1>1, <3>2 DEF ScanNoEp
    <3>3. CASE ScanHalted
      BY <1>1, <3>3 DEF ScanHalted
    <3>4. CASE handle_control_request
      BY <1>1, <3>4 DEF handle_control_request
    <3> QED BY <2>1, <3>1, <3>2, <3>3, <3>4
  <2>2. CASE ScanSkip \/ ScanStale \/ ScanSetup
    BY <2>2 DEF ScanSkip, ScanStale, ScanSetup
  <2>3. CASE ScanData
    <3>1. UNCHANGED <<total, finished>> /\ limit' \in {total, FrameUnits} /\ total > 0
      BY <2>3 DEF ScanData, Served, InFrame
    <3> QED BY <3>1
  <2> QED BY <1>5, <2>1, <2>2, <2>3 DEF Scan
<1>6. CASE Xfer
  <2>1. ASSUME NEW used \in Nat, used <= limit, total' = total - used,
               limit' = limit - used, finished' \in BOOLEAN
        PROVE  TypeBudget'
    BY <2>1
  <2>2. CASE XferShort
    <3>1. PICK used \in 0 .. 1 : used <= limit /\ XferRequestDone(1, used, TRUE)
      BY <2>2 DEF XferShort
    <3>2. total' = total - used /\ limit' = limit - used /\ finished' \in BOOLEAN
      BY <3>1 DEF XferRequestDone
    <3> QED BY <2>1, <3>1, <3>2
  <2>3. CASE XferRequestFull
    <3>1. total' = total - 1 /\ limit' = limit - 1 /\ finished' \in BOOLEAN /\ limit > 0
      BY <2>3 DEF XferRequestFull, XferRequestDone
    <3> QED BY <2>1, <3>1
  <2>4. CASE XferExhausted
    <3>1. CASE XferRequestDone(2, limit, TRUE)
      <4>1. total' = total - limit /\ limit' = limit - limit /\ finished' \in BOOLEAN
        BY <3>1 DEF XferRequestDone
      <4> QED BY <2>1, <4>1
    <3>2. CASE total' = total - limit /\ Continue
      BY <3>2 DEF Continue
    <3> QED BY <2>4, <3>1, <3>2, Zenon DEF XferExhausted
  <2>5. CASE XferNak \/ XferRescan
    BY <2>5 DEF XferNak, XferRescan, Continue
  <2>6. CASE XferUrbFull
    <3>1. total' = total - 1 /\ \E es : return_urb(es)
      BY <2>6, Zenon DEF XferUrbFull
    <3> QED BY <1>1, <3>1
  <2> QED BY <1>6, <2>2, <2>3, <2>4, <2>5, <2>6 DEF Xfer
<1>7. CASE StaleReturn \/ SetupReturn \/ ReqReturn \/ UrbReturn
  BY <1>7 DEF StaleReturn, SetupReturn, ReqReturn, UrbReturn
<1>8. CASE SetupStall \/ ReqReturnDone
  <2>1. total' = total /\ \E es : return_urb(es)
    BY <1>8, Zenon DEF SetupStall, ReqReturnDone
  <2> QED BY <1>1, <2>1
<1>9. CASE GadgetStep
  BY <1>9, GadgetFrame DEF timervars
<1>10. CASE UNCHANGED vars
  BY <1>10 DEF vars, timervars
<1> QED BY <1>2, <1>3, <1>4, <1>5, <1>6, <1>7, <1>8, <1>9, <1>10 DEF Next, TimerStep

-----------------------------------------------------------------------------
(* The invariant of endpoint 0.                                            *)

Ctrl == {u \in Urbs : EpOf[u] = 0}

\* The marks belong to listed control URBs.
Marks ==
    /\ new \subseteq Ctrl \cap Listed
    /\ did_setup \subseteq Ctrl \cap Listed
    /\ new \cap did_setup = {}

\* A control URB behind another one has not been looked at.
LaterAreNew ==
    \A k, l \in 1 .. Len(urbp_list) :
        k < l /\ urbp_list[k] \in Ctrl /\ urbp_list[l] \in Ctrl => urbp_list[l] \in new

\* The SETUP of a listed control URB is still to be handled, or was handled.
SetupKnown == \A u \in Ctrl \cap Listed : u \in new \/ u \in did_setup \/ setup_stage

\* setup_stage is set only for a SETUP that is still to be handled.
StageFresh == setup_stage => did_setup = {}

\* Behind a control URB the loop serves endpoint 0 no more in this pass.
SeenAhead ==
    \A u \in Ctrl \cap Listed :
        tpc \in {"scan"} \cup Serving /\ cur # NULL /\ Pos(u) < Pos(cur) =>
            0 \in already_seen \/ (tpc = "scan" /\ (~rh_running \/ total <= 0))

\* A control URB that is being served.
ServedCtrl ==
    /\ tpc = "setup" => EpOf[cur] = 0
    /\ tpc \in Serving /\ EpOf[cur] = 0 =>
         0 \in already_seen /\ ~setup_stage /\ cur \in did_setup

SetupInv == Marks /\ LaterAreNew /\ SetupKnown /\ StageFresh /\ SeenAhead /\ ServedCtrl

\* The variables SetupInv is about.
setupvars == <<urbp_list, new, did_setup, setup_stage, already_seen, tpc, cur>>

\* A step that leaves them alone, and of the rest what a pass of the loop relies on.
LEMMA QuietSetup ==
    ASSUME SetupInv, UNCHANGED setupvars, tpc = "scan" => UNCHANGED <<rh_running, total>>
    PROVE  SetupInv'
BY DEF SetupInv, setupvars, Marks, LaterAreNew, SetupKnown, StageFresh, SeenAhead, ServedCtrl,
   Listed, Pos, Serving

\* A control URB that may be served is the first one, and all others are new.
LEMMA FirstServed ==
    ASSUME ListInv, TypeBudget, SetupInv, Served, EpOf[cur] = 0
    PROVE  /\ cur \in Ctrl \cap Listed
           /\ \A u \in Ctrl \cap Listed : u # cur => u \in new /\ Pos(cur) < Pos(u)
<1>1. tpc = "scan" /\ cur # NULL /\ cur \in Listed /\ cur \in Urbs
  BY DEF Served, InFrame, AtUrb, ListInv, CursorListed, TypeList
<1>2. rh_running /\ total > 0 /\ 0 \notin already_seen
  BY DEF Served, InFrame
<1>3. ASSUME NEW u \in Ctrl \cap Listed, u # cur
      PROVE  u \in new /\ Pos(cur) < Pos(u)
  <2>1. /\ Pos(u) \in 1 .. Len(urbp_list) /\ urbp_list[Pos(u)] = u
        /\ Pos(cur) \in 1 .. Len(urbp_list) /\ urbp_list[Pos(cur)] = cur
        /\ Pos(u) \in Int /\ Pos(cur) \in Int
    BY <1>1, SuccIs DEF ListInv
  <2>2. ~(total <= 0)
    BY <1>2 DEF TypeBudget
  <2>3. ~(Pos(u) < Pos(cur))
    BY <1>1, <1>2, <2>2 DEF SetupInv, SeenAhead
  <2>4. Pos(cur) < Pos(u)
    BY <1>3, <2>1, <2>3
  <2> QED BY <1>1, <2>1, <2>4 DEF SetupInv, LaterAreNew, Ctrl
<1> QED BY <1>1, <1>3 DEF Ctrl

\* What the gadget's calls leave alone of the endpoints.
LEMMA GadgetEps ==
    ASSUME GadgetStep
    PROVE  UNCHANGED <<already_seen, setup_stage>>
<1>1. CASE LinkDown \/ LinkUp \/ ReadyChange \/ NukeResume \/ QueueAdd
  BY <1>1 DEF LinkDown, LinkUp, ReadyChange, NukeResume, QueueAdd, epvars
<1>2. ASSUME NEW e, dummy_enable(e) \/ dummy_disable(e)
      PROVE  UNCHANGED <<already_seen, setup_stage>>
  BY <1>2 DEF dummy_enable, dummy_disable, epvars
<1>3. ASSUME NEW e, NEW r, dummy_queue(e, r) \/ dummy_dequeue(e, r)
      PROVE  UNCHANGED <<already_seen, setup_stage>>
  BY <1>3 DEF dummy_queue, dummy_dequeue, epvars
<1>4. ASSUME NEW e, NEW v, NEW w, dummy_set_halt_and_wedge(e, v, w)
      PROVE  UNCHANGED <<already_seen, setup_stage>>
  BY <1>4 DEF dummy_set_halt_and_wedge
<1> QED BY <1>1, <1>2, <1>3, <1>4 DEF GadgetStep

\* dummy_urb_enqueue(): the URB is behind all others, and new.
LEMMA EnqueueSetup ==
    ASSUME ListInv, SetupInv, NEW u \in Urbs, dummy_urb_enqueue(u)
    PROVE  SetupInv'
<1> USE DEF SetupInv
<1>1. /\ u \notin Listed /\ urbp_list' = Append(urbp_list, u) /\ tpc # "scan"
      /\ new' = (IF EpOf[u] = 0 THEN new \cup {u} ELSE new)
      /\ UNCHANGED <<did_setup, setup_stage, already_seen, tpc, cur>>
  BY DEF dummy_urb_enqueue, timervars, epvars, Locked
<1>2. urbp_list \in Seq(Urbs) /\ DistinctIn(urbp_list) /\ u \notin Range(urbp_list)
  BY <1>1 DEF ListInv, TypeList, Distinct, Listed
<1>3. /\ Range(urbp_list) \cup {u} \subseteq Range(urbp_list')
      /\ PosIn(urbp_list', u) = Len(urbp_list) + 1
      /\ \A v \in Range(urbp_list) : PosIn(urbp_list', v) = PosIn(urbp_list, v)
  BY <1>1, <1>2, Appended
<1>4. /\ Len(urbp_list') = Len(urbp_list) + 1 /\ Len(urbp_list) \in Nat
      /\ urbp_list'[Len(urbp_list) + 1] = u
      /\ \A i \in 1 .. Len(urbp_list) : urbp_list'[i] = urbp_list[i]
  BY <1>1, <1>2, AppendProperties
<1>5. Listed' = Listed \cup {u}
  <2>1. \A v \in Listed' : v \in Listed \cup {u}
    BY <1>4 DEF Listed, Range
  <2> QED BY <1>3, <2>1 DEF Listed
<1>6. /\ \A v \in Listed : Pos(v)' = Pos(v) /\ Pos(v) <= Len(urbp_list) /\ Pos(v) \in Int
      /\ Pos(u)' = Len(urbp_list) + 1
  <2>1. \A v : Pos(v) = PosIn(urbp_list, v) /\ Pos(v)' = PosIn(urbp_list', v)
    BY DEF Pos, PosIn
  <2>2. \A v \in Listed : Pos(v) <= Len(urbp_list) /\ Pos(v) \in Int
    BY SuccIs DEF ListInv
  <2> QED BY <1>3, <2>1, <2>2 DEF Listed
<1>7. Marks' /\ SetupKnown'
  BY <1>1, <1>5 DEF Marks, SetupKnown, Ctrl
<1>8. LaterAreNew'
  <2> SUFFICES ASSUME NEW k \in 1 .. Len(urbp_list'), NEW l \in 1 .. Len(urbp_list'), k < l,
                      urbp_list'[k] \in Ctrl, urbp_list'[l] \in Ctrl
               PROVE  urbp_list'[l] \in new'
    BY DEF LaterAreNew, Ctrl
  <2>1. CASE l = Len(urbp_list) + 1
    BY <1>1, <1>4, <2>1 DEF Ctrl
  <2>2. CASE l # Len(urbp_list) + 1
    <3>1. k \in 1 .. Len(urbp_list) /\ l \in 1 .. Len(urbp_list)
      BY <1>4, <2>2
    <3>2. urbp_list[l] \in new
      BY <1>4, <3>1 DEF LaterAreNew
    <3> QED BY <1>1, <1>4, <3>1, <3>2
  <2> QED BY <2>1, <2>2
<1>9. StageFresh' /\ ServedCtrl'
  BY <1>1 DEF StageFresh, ServedCtrl, Serving
<1>10. SeenAhead'
  <2> SUFFICES ASSUME NEW v \in Ctrl \cap Listed', tpc \in Serving, cur # NULL,
                      Pos(v)' < Pos(cur)'
               PROVE  0 \in already_seen
    BY <1>1 DEF SeenAhead, Ctrl, Serving
  <2>1. cur \in Listed
    BY DEF ListInv, CursorListed
  <2>2. v \in Listed /\ Pos(v) < Pos(cur)
    <3>1. Pos(cur)' = Pos(cur) /\ Pos(cur) <= Len(urbp_list) /\ Pos(cur) \in Int
      BY <1>1, <1>6, <2>1
    <3>2. v # u
      BY <1>4, <1>6, <3>1
    <3> QED BY <1>5, <1>6, <3>1, <3>2
  <2> QED BY <2>2 DEF SeenAhead, Serving
<1> QED BY <1>7, <1>8, <1>9, <1>10

\* return_urb: the other URBs keep their marks and their order.  Either setup_stage is
\* kept, or it is reset while all other control URBs are new.
LEMMA ReturnSetup ==
    ASSUME ListInv, SetupInv, NEW es, return_urb(es), cur # NULL,
           \/ setup_stage' = setup_stage
           \/ ~setup_stage' /\ \A u \in Ctrl \cap Listed : u # cur => u \in new
    PROVE  SetupInv'
<1> USE DEF SetupInv
<1> DEFINE n == Len(urbp_list)
           f(j) == IF j < Pos(cur) THEN j ELSE j + 1
<1>1. /\ urbp_list \in Seq(Urbs) /\ DistinctIn(urbp_list) /\ cur \in Listed /\ n \in Nat
      /\ Pos(cur) \in 1 .. n /\ urbp_list[Pos(cur)] = cur
  BY SuccIs DEF ListInv, TypeList, Distinct, CursorListed
<1>2. /\ urbp_list' = RemoveAt(urbp_list, Pos(cur)) /\ tpc' = "urb" /\ cur' = NULL
      /\ new' = new \ {cur} /\ did_setup' = did_setup \ {cur}
  BY DEF return_urb
<1>3. /\ urbp_list' \in Seq(Urbs) /\ Len(urbp_list') = n - 1
      /\ \A j \in 1 .. n - 1 : urbp_list'[j] = urbp_list[f(j)]
  BY <1>1, <1>2, RemoveAtElements
<1>4. \A j \in 1 .. n - 1 : f(j) \in 1 .. n /\ f(j) # Pos(cur) /\ urbp_list[f(j)] # cur
  <2> SUFFICES ASSUME NEW j \in 1 .. n - 1
               PROVE  f(j) \in 1 .. n /\ f(j) # Pos(cur) /\ urbp_list[f(j)] # cur
    OBVIOUS
  <2>1. f(j) \in 1 .. n /\ f(j) # Pos(cur)
    BY <1>1
  <2> QED BY <1>1, <2>1 DEF DistinctIn
<1>5. Listed' = Listed \ {cur}
  <2>1. \A v \in Listed : v # cur => v \in Listed'
    BY <1>1, <1>2, Removed DEF Listed
  <2>2. ASSUME NEW v \in Listed'
        PROVE  v \in Listed /\ v # cur
    <3>1. PICK j \in 1 .. n - 1 : v = urbp_list'[j]
      BY <1>3 DEF Listed, Range
    <3>2. v = urbp_list[f(j)] /\ f(j) \in 1 .. n /\ v # cur
      BY <1>3, <1>4, <3>1
    <3> HIDE DEF f
    <3> QED BY <1>1, <3>2 DEF Listed, Range
  <2> QED BY <2>1, <2>2
<1>6. Marks' /\ SetupKnown'
  BY <1>2, <1>5 DEF Marks, SetupKnown, Ctrl
<1>7. LaterAreNew'
  <2> SUFFICES ASSUME NEW k \in 1 .. Len(urbp_list'), NEW l \in 1 .. Len(urbp_list'), k < l,
                      urbp_list'[k] \in Ctrl, urbp_list'[l] \in Ctrl
               PROVE  urbp_list'[l] \in new'
    BY DEF LaterAreNew, Ctrl
  <2>1. k \in 1 .. n - 1 /\ l \in 1 .. n - 1 /\ f(k) < f(l)
    BY <1>1, <1>3
  <2>2. urbp_list[f(l)] \in new /\ urbp_list[f(l)] # cur
    BY <1>3, <1>4, <2>1 DEF LaterAreNew
  <2> QED BY <1>2, <1>3, <2>1, <2>2
<1>8. StageFresh'
  BY <1>2 DEF StageFresh
<1>9. SeenAhead' /\ ServedCtrl'
  BY <1>2 DEF SeenAhead, ServedCtrl, Serving
<1> QED BY <1>6, <1>7, <1>8, <1>9

\* The loop begins again: at the head of the list nothing is behind.
LEMMA RestartSetup ==
    ASSUME ListInv, SetupInv, Restart, UNCHANGED <<urbp_list, new, did_setup, setup_stage>>
    PROVE  SetupInv'
<1> USE DEF SetupInv
<1>1. Marks' /\ LaterAreNew' /\ SetupKnown' /\ StageFresh'
  BY DEF Marks, LaterAreNew, SetupKnown, StageFresh, Listed, Ctrl
<1>2. ServedCtrl' /\ tpc' = "scan"
  BY DEF Restart, ServedCtrl, Serving
<1>3. ASSUME cur' # NULL, NEW u \in Listed
      PROVE  ~(Pos(u)' < Pos(cur)')
  <2>1. /\ urbp_list \in Seq(Urbs) /\ DistinctIn(urbp_list) /\ urbp_list # <<>>
        /\ cur' = Head(urbp_list)
    BY <1>3 DEF ListInv, TypeList, Distinct, Restart
  <2>2. 1 \in 1 .. Len(urbp_list) /\ cur' = urbp_list[1]
    BY <2>1
  <2>3. PosIn(urbp_list, cur') = 1
    BY <2>1, <2>2, PosAt
  <2>4. Pos(cur)' = 1 /\ Pos(u)' = Pos(u)
    BY <2>3 DEF Pos, PosIn
  <2>5. Pos(u) \in 1 .. Len(urbp_list)
    BY SuccIs DEF ListInv
  <2> QED BY <2>4, <2>5
<1>4. SeenAhead'
  BY <1>2, <1>3 DEF SeenAhead, Listed, Ctrl, Serving
<1> QED BY <1>1, <1>2, <1>4

\* The loop goes on behind cur.  An URB of endpoint 0 that is left behind has been seen, or
\* no further URB is served in this frame.
LEMMA GoOnSetup ==
    ASSUME ListInv, SetupInv, cur # NULL, cur' = tmp \/ cur' = Succ(cur), tpc' = "scan",
           UNCHANGED <<urbp_list, new, did_setup, setup_stage, already_seen>>,
           \/ tpc \in Serving
           \/ /\ tpc = "scan" /\ UNCHANGED <<rh_running, total>>
              /\ EpOf[cur] = 0 => 0 \in already_seen \/ ~rh_running \/ total <= 0
    PROVE  SetupInv'
<1> USE DEF SetupInv
<1>1. Marks' /\ LaterAreNew' /\ SetupKnown' /\ StageFresh' /\ ServedCtrl'
  BY DEF Marks, LaterAreNew, SetupKnown, StageFresh, ServedCtrl, Listed, Ctrl, Serving
<1>2. SeenAhead'
  <2> SUFFICES ASSUME NEW u \in Ctrl \cap Listed, cur' # NULL, Pos(u)' < Pos(cur)'
               PROVE  0 \in already_seen' \/ (~rh_running' \/ total' <= 0)
    BY DEF SeenAhead, Listed, Ctrl
  <2>1. cur \in Listed /\ Pos(cur) \in Int /\ urbp_list[Pos(cur)] = cur
    BY SuccIs DEF ListInv, CursorListed
  <2>2. Pos(cur') = Pos(cur) + 1
    BY <2>1, SuccIs DEF ListInv, Cursors
  <2>3. Pos(u) < Pos(cur) \/ Pos(u) = Pos(cur)
    <3>1. Pos(u)' = Pos(u) /\ Pos(cur)' = Pos(cur')
      BY DEF Pos
    <3>2. Pos(u) \in Int
      BY SuccIs DEF ListInv
    <3> QED BY <2>1, <2>2, <3>1, <3>2
  <2>4. Pos(u) < Pos(cur) \/ u = cur
    BY <2>1, <2>3, SuccIs DEF ListInv
  <2>5. CASE tpc \in Serving
    BY <2>4, <2>5 DEF SeenAhead, ServedCtrl, Ctrl, Serving
  <2>6. CASE tpc = "scan"
    BY <2>4, <2>6 DEF SeenAhead, Ctrl, Serving
  <2> QED BY <2>5, <2>6
<1> QED BY <1>1, <1>2

\* transfer() and the callbacks it waits for stay at cur.
LEMMA StaySetup ==
    ASSUME SetupInv, tpc \in Serving, tpc' \in {"xfer", "req"},
           UNCHANGED <<urbp_list, new, did_setup, setup_stage, already_seen, cur>>
    PROVE  SetupInv'
BY DEF SetupInv, Marks, LaterAreNew, SetupKnown, StageFresh, SeenAhead, ServedCtrl, Listed,
   Ctrl, Pos, Serving

\* The timer function is entered or left: no URB is being served.
LEMMA IdleSetup ==
    ASSUME SetupInv, tpc' \in {"idle", "fired"},
           UNCHANGED <<urbp_list, new, did_setup, setup_stage>>
    PROVE  SetupInv'
BY DEF SetupInv, Marks, LaterAreNew, SetupKnown, StageFresh, SeenAhead, ServedCtrl, Listed,
   Ctrl, Pos, Serving

\* The SETUP at cur is taken up, as stale or to be handled: only cur stops being new.
LEMMA TakeSetup ==
    ASSUME ListInv, TypeBudget, SetupInv, Served, SetupStage,
           urbp_list' = urbp_list, new' = new \ {cur}
    PROVE  /\ LaterAreNew'
           /\ cur \in Ctrl \cap Listed /\ cur \notin did_setup
           /\ \A u \in Ctrl \cap Listed : u # cur => u \in new /\ u \notin did_setup
<1> USE DEF SetupInv
<1>1. EpOf[cur] = 0 /\ (setup_stage \/ cur \in new)
  BY DEF SetupStage
<1>2. /\ cur \in Ctrl \cap Listed
      /\ \A u \in Ctrl \cap Listed : u # cur => u \in new /\ Pos(cur) < Pos(u)
  BY <1>1, FirstServed
<1>3. cur \notin did_setup
  BY <1>1 DEF StageFresh, Marks
<1>4. LaterAreNew'
  <2> SUFFICES ASSUME NEW k \in 1 .. Len(urbp_list), NEW l \in 1 .. Len(urbp_list), k < l,
                      urbp_list[k] \in Ctrl, urbp_list[l] \in Ctrl
               PROVE  urbp_list[l] \in new \ {cur}
    BY DEF LaterAreNew, Ctrl
  <2>1. urbp_list[l] \in new
    BY DEF LaterAreNew
  <2>2. urbp_list[l] # cur
    <3>1. /\ PosIn(urbp_list, urbp_list[k]) = k /\ urbp_list[k] \in Listed
          /\ PosIn(urbp_list, urbp_list[l]) = l
      BY PosAt DEF ListInv, TypeList, Distinct, Listed
    <3>2. Pos(urbp_list[k]) = k /\ Pos(urbp_list[l]) = l
      BY <3>1 DEF Pos, PosIn
    <3>3. urbp_list[k] # cur => Pos(cur) < k
      BY <1>2, <3>1, <3>2
    <3>4. Pos(cur) \in Int
      BY <1>2, SuccIs DEF ListInv
    <3> QED BY <3>2, <3>3, <3>4
  <2> QED BY <2>1, <2>2
<1> QED BY <1>2, <1>3, <1>4 DEF Marks

\* The SETUP at cur has not been handled before.
LEMMA TakeSetupFresh ==
    ASSUME SetupInv, ScanSetup \/ handle_control_request
    PROVE  cur \notin did_setup
<1>1. Served /\ SetupStage
  BY DEF ScanSetup, handle_control_request
<1>2. EpOf[cur] = 0 /\ (setup_stage \/ cur \in new)
  BY <1>1 DEF SetupStage
<1> QED BY <1>2 DEF SetupInv, StageFresh, Marks

LEMMA ScanSetupStep ==
    ASSUME ListInv, TypeRest, SetupInv, ScanStale \/ ScanSetup \/ ScanData
    PROVE  SetupInv'
<1> USE DEF SetupInv
<1>0. cur \in Urbs /\ cur # NULL /\ tpc = "scan" /\ cur \in Listed
  BY AtUrbIs, CurEp DEF ScanStale, ScanSetup, ScanData, Served, InFrame, ListInv, CursorListed
<1>1. CASE ScanStale \/ ScanSetup
  <2>1. Served /\ SetupStage /\ urbp_list' = urbp_list /\ new' = new \ {cur}
    BY <1>1 DEF ScanStale, ScanSetup
  <2>2. /\ LaterAreNew'
        /\ cur \in Ctrl \cap Listed /\ cur \notin did_setup
        /\ \A u \in Ctrl \cap Listed : u # cur => u \in new /\ u \notin did_setup
    BY <2>1, TakeSetup DEF TypeRest
  <2>3. CASE ScanStale
    <3>1. setup_stage' /\ did_setup' = did_setup /\ cur' = NULL /\ tpc' = "stale"
      BY <2>3 DEF ScanStale
    <3>2. did_setup = {}
      BY <2>2 DEF Marks
    <3>3. Marks' /\ SetupKnown' /\ StageFresh'
      BY <2>1, <3>1, <3>2 DEF Marks, SetupKnown, StageFresh, Listed, Ctrl
    <3>4. SeenAhead' /\ ServedCtrl'
      BY <3>1 DEF SeenAhead, ServedCtrl, Serving
    <3> QED BY <2>2, <3>3, <3>4
  <2>4. CASE ScanSetup
    <3>1. /\ ~setup_stage' /\ did_setup' = did_setup \cup {cur} /\ cur' = cur /\ tpc' = "setup"
          /\ already_seen' = already_seen \cup {0}
      BY <2>4 DEF ScanSetup
    <3>2. Marks' /\ SetupKnown' /\ StageFresh'
      BY <2>1, <2>2, <3>1 DEF Marks, SetupKnown, StageFresh, Listed, Ctrl
    <3>3. SeenAhead' /\ ServedCtrl'
      BY <2>2, <3>1 DEF SeenAhead, ServedCtrl, Serving, Ctrl
    <3> QED BY <2>2, <3>2, <3>3
  <2> QED BY <1>1, <2>3, <2>4
<1>2. CASE ScanData
  <2>1. /\ UNCHANGED <<urbp_list, new, did_setup, setup_stage, cur>> /\ tpc' = "xfer"
        /\ already_seen' = already_seen \cup {EpOf[cur]} /\ Served /\ ~SetupStage
    BY <1>2 DEF ScanData, hostvars
  <2>2. Marks' /\ LaterAreNew' /\ SetupKnown' /\ StageFresh'
    BY <2>1 DEF Marks, LaterAreNew, SetupKnown, StageFresh, Listed, Ctrl
  <2>3. ServedCtrl'
    BY <1>0, <2>1 DEF ServedCtrl, Serving, SetupStage, SetupKnown, Ctrl
  <2>4. SeenAhead'
    <3> SUFFICES ASSUME NEW u \in Ctrl \cap Listed, Pos(u)' < Pos(cur)'
                 PROVE  0 \in already_seen
      BY <2>1 DEF SeenAhead, Listed, Ctrl
    <3>1. Pos(u) < Pos(cur)
      BY <2>1 DEF Pos
    <3>2. rh_running /\ ~(total <= 0)
      BY <2>1 DEF Served, InFrame, TypeRest, TypeBudget
    <3> QED BY <1>0, <3>1, <3>2 DEF SeenAhead
  <2> QED BY <2>2, <2>3, <2>4
<1> QED BY <1>1, <1>2

\* The steps that give an URB back.
LEMMA ReturnSetupStep ==
    ASSUME ListInv, TypeRest, SetupInv,
           \/ ScanUnlinked \/ ScanNoEp \/ ScanHalted \/ handle_control_request
           \/ SetupStall \/ XferUrbFull \/ ReqReturnDone
    PROVE  SetupInv'
<1>1. CASE ScanUnlinked \/ ScanNoEp
  BY <1>1, AtUrbIs, ReturnSetup DEF ScanUnlinked, ScanNoEp, InFrame
<1>2. CASE ScanHalted
  <2>1. cur # NULL /\ return_urb({EpOf[cur]})
    BY <1>2, AtUrbIs DEF ScanHalted, Served, InFrame
  <2>2. setup_stage' = setup_stage
    BY <1>2, Zenon DEF ScanHalted, SetupStage, TypeRest, TypeEps
  <2> QED BY <2>1, <2>2, ReturnSetup
<1>3. CASE handle_control_request
  <2>1. cur # NULL /\ return_urb({0}) /\ ~setup_stage' /\ Served /\ EpOf[cur] = 0
    BY <1>3, AtUrbIs DEF handle_control_request, Served, InFrame, SetupStage
  <2>2. \A u \in Ctrl \cap Listed : u # cur => u \in new
    BY <2>1, FirstServed DEF TypeRest
  <2> QED BY <2>1, <2>2, ReturnSetup
<1>4. CASE SetupStall
  <2>1. cur # NULL /\ return_urb({0}) /\ tpc = "setup" /\ setup_stage' = FALSE
    BY <1>4, AtUrbIs DEF SetupStall, Serving
  <2>2. setup_stage = FALSE
    BY <2>1 DEF SetupInv, ServedCtrl, Serving
  <2> QED BY <2>1, <2>2, ReturnSetup
<1>5. CASE XferUrbFull \/ ReqReturnDone
  <2>1. cur # NULL /\ return_urb({EpOf[cur]}) /\ tpc \in Serving
    BY <1>5, AtUrbIs DEF XferUrbFull, ReqReturnDone, Serving
  <2>2. setup_stage' = (setup_stage /\ EpOf[cur] # 0)
    BY <1>5 DEF XferUrbFull, ReqReturnDone
  <2>3. EpOf[cur] = 0 => ~setup_stage
    BY <2>1 DEF SetupInv, ServedCtrl
  <2>4. setup_stage' = setup_stage
    BY <2>2, <2>3, Zenon DEF TypeRest, TypeEps
  <2> QED BY <2>1, <2>4, ReturnSetup
<1> QED BY <1>1, <1>2, <1>3, <1>4, <1>5

LEMMA SetupInvStep == ListInv /\ TypeRest /\ SetupInv /\ [Next]_vars => SetupInv'
<1> SUFFICES ASSUME ListInv, TypeRest, SetupInv, [Next]_vars
             PROVE  SetupInv'
  OBVIOUS
<1>1. CASE HostStep
  <2>1. CASE \E u \in Urbs : dummy_urb_enqueue(u)
    BY <2>1, EnqueueSetup
  <2>2. CASE (\E u \in Urbs : dummy_urb_dequeue(u)) \/ dummy_bus_suspend \/ dummy_bus_resume
    <3>1. UNCHANGED setupvars /\ tpc # "scan"
      BY <2>2 DEF dummy_urb_dequeue, dummy_bus_suspend, dummy_bus_resume, setupvars, epvars,
         timervars, Locked
    <3> QED BY <3>1, QuietSetup
  <2> QED BY <1>1, <2>1, <2>2 DEF HostStep
<1>2. CASE GadgetStep
  <2>1. UNCHANGED setupvars /\ UNCHANGED <<rh_running, total>>
    BY <1>2, GadgetFrame, GadgetEps DEF hostvars, timervars, setupvars
  <2> QED BY <2>1, QuietSetup
<1>3. CASE UNCHANGED vars
  <2>1. UNCHANGED setupvars /\ UNCHANGED <<rh_running, total>>
    BY <1>3 DEF vars, hostvars, epvars, timervars, setupvars
  <2> QED BY <2>1, QuietSetup
<1>4. CASE TimerFire \/ TimerNoUrbs \/ TimerEnd
  <2>1. UNCHANGED <<urbp_list, new, did_setup, setup_stage>> /\ tpc' \in {"idle", "fired"}
    BY <1>4 DEF TimerFire, TimerNoUrbs, TimerEnd, hostvars, epvars
  <2> QED BY <2>1, IdleSetup
<1>5. CASE TimerBegin \/ StaleReturn \/ UrbReturn
  BY <1>5, RestartSetup DEF TimerBegin, StaleReturn, UrbReturn, hostvars, epvars
<1>6. CASE Scan
  <2>1. CASE ScanUnlinked \/ ScanNoEp \/ ScanHalted \/ handle_control_request
    BY <2>1, ReturnSetupStep
  <2>2. CASE ScanStale \/ ScanSetup \/ ScanData
    BY <2>2, ScanSetupStep
  <2>3. CASE ScanSkip
    <3>1. /\ tpc = "scan" /\ cur # NULL /\ cur' = Succ(cur) /\ tpc' = tpc
          /\ UNCHANGED <<urbp_list, new, did_setup, setup_stage, already_seen, rh_running, total>>
      BY <2>3 DEF ScanSkip, AtUrb, hostvars, epvars
    <3>2. EpOf[cur] = 0 => 0 \in already_seen \/ ~rh_running \/ total <= 0
      BY <2>3 DEF ScanSkip
    <3> QED BY <3>1, <3>2, GoOnSetup
  <2> QED BY <1>6, <2>1, <2>2, <2>3 DEF Scan
<1>7. CASE Xfer
  <2>1. tpc = "xfer" /\ cur # NULL
    BY <1>7, AtUrbIs DEF Xfer, XferNak, XferShort, XferRequestFull, XferUrbFull, XferRescan,
       XferExhausted, Serving
  <2>2. ASSUME NEW i, NEW used, NEW urbdone, XferRequestDone(i, used, urbdone)
        PROVE  SetupInv'
    BY <2>1, <2>2, StaySetup DEF XferRequestDone, hostvars, epvars, Serving
  <2>3. ASSUME Continue
        PROVE  SetupInv'
    BY <2>1, <2>3, GoOnSetup DEF Continue, hostvars, epvars, Serving
  <2>4. CASE XferNak \/ XferShort \/ XferRequestFull \/ XferExhausted
    BY <2>2, <2>3, <2>4 DEF XferNak, XferShort, XferRequestFull, XferExhausted
  <2>5. CASE XferRescan
    BY <2>1, <2>5, StaySetup DEF XferRescan, hostvars, epvars, Serving
  <2>6. CASE XferUrbFull
    BY <2>6, ReturnSetupStep
  <2> QED BY <1>7, <2>4, <2>5, <2>6 DEF Xfer
<1>8. CASE SetupReturn \/ ReqReturn
  BY <1>8, StaySetup DEF SetupReturn, ReqReturn, hostvars, epvars, Serving
<1>9. CASE SetupStall \/ ReqReturnDone
  BY <1>9, ReturnSetupStep
<1> QED BY <1>1, <1>2, <1>3, <1>4, <1>5, <1>6, <1>7, <1>8, <1>9 DEF Next, TimerStep

-----------------------------------------------------------------------------
(* The flags of the endpoints.                                             *)

LEMMA TypeEpsStep ==
    ASSUME ListInv, TypeRest, [Next]_vars
    PROVE  TypeEps'
<1> USE DEF TypeRest, TypeEps
<1>0. ASSUME NEW es, return_urb(es), setup_stage' \in BOOLEAN, halted' \subseteq Eps,
             wedged' = wedged
      PROVE  TypeEps'
  BY <1>0 DEF return_urb, gadgvars
<1>1. CASE HostStep
  BY <1>1 DEF HostStep, dummy_urb_enqueue, dummy_urb_dequeue, dummy_bus_suspend,
     dummy_bus_resume, epvars, gadgvars
<1>2. CASE GadgetStep
  <2>1. ASSUME NEW S \in SUBSET Eps, Nuke(S)
        PROVE  nuking' \subseteq Eps
    BY <2>1 DEF Nuke
  <2>2. CASE LinkDown
    <3>1. UNCHANGED <<epvars, enabled>> /\ link' = FALSE /\ ready' \in BOOLEAN /\ (nuking' = nuking \/ Nuke(Eps))
      BY <2>2 DEF LinkDown
    <3> QED BY <2>1, <3>1 DEF epvars
  <2>3. CASE LinkUp \/ ReadyChange
    BY <2>3 DEF LinkUp, ReadyChange, epvars
  <2>4. CASE NukeResume
    BY <2>1, <2>4 DEF NukeResume, epvars
  <2>5. ASSUME NEW e \in DataEps, dummy_enable(e)
        PROVE  TypeEps'
    BY <2>5 DEF dummy_enable
  <2>6. ASSUME NEW e \in DataEps, dummy_disable(e)
        PROVE  TypeEps'
    <3>1. {e} \in SUBSET Eps /\ Nuke({e}) /\ enabled' = enabled \ {e} /\ UNCHANGED <<epvars, link, ready>>
      BY <2>6 DEF dummy_disable, Eps
    <3> QED BY <2>1, <3>1 DEF epvars
  <2>7. ASSUME NEW e, NEW r, dummy_queue(e, r) \/ dummy_dequeue(e, r)
        PROVE  TypeEps'
    BY <2>7 DEF dummy_queue, dummy_dequeue, epvars, gadgvars
  <2>8. CASE QueueAdd
    BY <2>8 DEF QueueAdd, epvars
  <2>9. ASSUME NEW e \in Eps, NEW v \in BOOLEAN, NEW w \in BOOLEAN, w => e \in DataEps,
               dummy_set_halt_and_wedge(e, v, w)
        PROVE  TypeEps'
    <3>1. UNCHANGED <<already_seen, setup_stage, link, ready, enabled, nuking>>
      BY <2>9 DEF dummy_set_halt_and_wedge, gadgvars
    <3>2. halted' \subseteq halted \cup {e} /\ wedged' \subseteq DataEps
      BY <2>9 DEF dummy_set_halt_and_wedge
    <3> QED BY <2>9, <3>1, <3>2
  <2>10. DataEps \subseteq Eps
    BY DEF Eps
  <2> QED BY <1>2, <2>2, <2>3, <2>4, <2>5, <2>6, <2>7, <2>8, <2>9, <2>10 DEF GadgetStep
<1>3. CASE UNCHANGED vars
  BY <1>3 DEF vars, epvars, gadgvars
<1>4. CASE TimerFire \/ TimerNoUrbs \/ TimerEnd
  <2>1. UNCHANGED epvars /\ UNCHANGED gadgvars
    BY <1>4 DEF TimerFire, TimerNoUrbs, TimerEnd
  <2> QED BY <2>1 DEF epvars, gadgvars
<1>5. CASE TimerBegin \/ StaleReturn \/ UrbReturn \/ SetupReturn \/ ReqReturn
  <2>1. /\ UNCHANGED <<halted, wedged, setup_stage>> /\ UNCHANGED gadgvars
        /\ already_seen' \subseteq already_seen
    BY <1>5 DEF TimerBegin, StaleReturn, UrbReturn, SetupReturn, ReqReturn, epvars
  <2> QED BY <2>1 DEF gadgvars
<1>6. CASE Scan
  <2>0. AtUrb => EpOf[cur] \in Eps
    BY CurEp
  <2>1. CASE ScanUnlinked \/ ScanNoEp
    BY <1>0, <2>1 DEF ScanUnlinked, ScanNoEp
  <2>2. CASE ScanHalted
    <3>1. setup_stage' \in BOOLEAN /\ return_urb({EpOf[cur]}) /\ UNCHANGED <<halted, wedged>>
      BY <2>2, Zenon DEF ScanHalted
    <3> QED BY <1>0, <3>1
  <2>3. CASE handle_control_request
    <3>1. setup_stage' \in BOOLEAN /\ return_urb({0}) /\ wedged' = wedged
      BY <2>3 DEF handle_control_request
    <3>2. halted' \subseteq halted \cup enabled
      BY <2>3 DEF handle_control_request, SetHalt, ClearHalt
    <3> QED BY <1>0, <3>1, <3>2 DEF Eps
  <2>4. CASE ScanSkip
    BY <2>4 DEF ScanSkip, epvars, gadgvars
  <2>5. CASE ScanStale \/ ScanSetup
    <3>1. /\ setup_stage' \in BOOLEAN /\ UNCHANGED gadgvars /\ wedged' = wedged
          /\ halted' \subseteq halted /\ already_seen' = already_seen \cup {0}
      BY <2>5 DEF ScanStale, ScanSetup
    <3> QED BY <3>1 DEF gadgvars, Eps
  <2>6. CASE ScanData
    <3>1. /\ UNCHANGED <<halted, wedged, setup_stage>> /\ UNCHANGED gadgvars
          /\ already_seen' = already_seen \cup {EpOf[cur]} /\ AtUrb
      BY <2>6 DEF ScanData, Served, InFrame
    <3> QED BY <2>0, <3>1 DEF gadgvars
  <2> QED BY <1>6, <2>1, <2>2, <2>3, <2>4, <2>5, <2>6 DEF Scan
<1>7. CASE Xfer
  <2>1. CASE XferUrbFull
    <3>1. setup_stage' \in BOOLEAN /\ return_urb({EpOf[cur]}) /\ UNCHANGED <<halted, wedged>>
      BY <2>1, Zenon DEF XferUrbFull
    <3> QED BY <1>0, <3>1
  <2>2. CASE XferNak \/ XferShort \/ XferRequestFull \/ XferRescan \/ XferExhausted
    <3>1. UNCHANGED epvars /\ UNCHANGED gadgvars
      BY <2>2 DEF XferNak, XferShort, XferRequestFull, XferRescan, XferExhausted,
         XferRequestDone, Continue
    <3> QED BY <3>1 DEF epvars, gadgvars
  <2> QED BY <1>7, <2>1, <2>2 DEF Xfer
<1>8. CASE SetupStall
  BY <1>0, <1>8 DEF SetupStall
<1>9. CASE ReqReturnDone
  <2>1. setup_stage' \in BOOLEAN /\ return_urb({EpOf[cur]}) /\ UNCHANGED <<halted, wedged>>
    BY <1>9, Zenon DEF ReqReturnDone
  <2> QED BY <1>0, <2>1
<1> QED BY <1>1, <1>2, <1>3, <1>4, <1>5, <1>6, <1>7, <1>8, <1>9 DEF Next, TimerStep

-----------------------------------------------------------------------------
(* The endpoint queues.                                                    *)

\* What dummy_queue() has checked stays true until it adds the request: nobody else adds it.
QueueInv ==
    /\ queue \in [Eps -> Seq(AllReqs)] /\ adding \subseteq Eps \X Reqs
    /\ \A a \in adding : a[2] \notin Queued
    /\ OneQueue

\* A request leaves a queue in which it was once.
LEMMA QueueRemoved ==
    ASSUME NEW s \in Seq(AllReqs), DistinctIn(s), NEW k \in 1 .. Len(s)
    PROVE  /\ RemoveAt(s, k) \in Seq(AllReqs) /\ DistinctIn(RemoveAt(s, k))
           /\ Range(RemoveAt(s, k)) \subseteq Range(s)
<1> DEFINE r == RemoveAt(s, k)
           f(x) == IF x < k THEN x ELSE x + 1
<1>1. k \in Int /\ Len(s) \in Nat /\ 1 <= k /\ k <= Len(s)
  OBVIOUS
<1>2. /\ r \in Seq(AllReqs) /\ Len(r) = Len(s) - 1
      /\ \A j \in 1 .. Len(r) : r[j] = s[f(j)]
  BY RemoveAtElements
<1> HIDE DEF r
<1>3. \A j \in 1 .. Len(r) : f(j) \in 1 .. Len(s)
  BY <1>1, <1>2
<1>4. \A i, j \in 1 .. Len(r) : f(i) = f(j) => i = j
  BY <1>1, <1>2
<1>5. DistinctIn(r)
  BY <1>2, <1>3, <1>4 DEF DistinctIn
<1>6. Range(r) \subseteq Range(s)
  <2> HIDE DEF f
  <2> QED BY <1>2, <1>3 DEF Range
<1> QED BY <1>2, <1>5, <1>6 DEF r

LEMMA QueueTail ==
    ASSUME NEW s \in Seq(AllReqs), DistinctIn(s), s # <<>>
    PROVE  /\ Tail(s) \in Seq(AllReqs) /\ DistinctIn(Tail(s))
           /\ Range(Tail(s)) \subseteq Range(s)
<1>1. /\ Tail(s) \in Seq(AllReqs) /\ Len(Tail(s)) = Len(s) - 1 /\ Len(s) \in Nat
      /\ \A j \in 1 .. Len(Tail(s)) : Tail(s)[j] = s[j + 1] /\ j + 1 \in 1 .. Len(s)
  BY HeadTailProperties
<1>2. DistinctIn(Tail(s))
  BY <1>1 DEF DistinctIn
<1>3. Range(Tail(s)) \subseteq Range(s)
  BY <1>1 DEF Range
<1> QED BY <1>1, <1>2, <1>3

\* Whether the requests of a typed queue are distinct.
LEMMA QueueDistinct ==
    ASSUME QueueInv, NEW e \in Eps
    PROVE  queue[e] \in Seq(AllReqs) /\ DistinctIn(queue[e]) /\ Range(queue[e]) \subseteq Queued
BY DEF QueueInv, OneQueue, DistinctIn, Queued

\* One queue changes to t, of which nothing is on another queue or about to be added.
LEMMA QueueChange ==
    ASSUME QueueInv, NEW e \in Eps, NEW t \in Seq(AllReqs), DistinctIn(t),
           queue' = [queue EXCEPT ![e] = t], adding' \subseteq adding,
           \A d \in Eps : d # e => Range(t) \cap Range(queue[d]) = {},
           \A a \in adding' : a[2] \notin Range(t)
    PROVE  QueueInv'
<1> USE DEF QueueInv
<1>1. /\ queue' \in [Eps -> Seq(AllReqs)]
      /\ queue'[e] = t /\ \A d \in Eps : d # e => queue'[d] = queue[d]
  OBVIOUS
<1>2. OneQueue'
  <2>1. \A d \in Eps : DistinctIn(queue'[d])
    BY <1>1, QueueDistinct
  <2>2. \A c, d \in Eps : c # d => Range(queue'[c]) \cap Range(queue'[d]) = {}
    BY <1>1 DEF OneQueue
  <2>3. ASSUME NEW d \in Eps, NEW i \in DOMAIN queue'[d], NEW j \in DOMAIN queue'[d],
               queue'[d][i] = queue'[d][j]
        PROVE  i = j
    <3>1. DOMAIN queue'[d] = 1 .. Len(queue'[d])
      BY <1>1
    <3> QED BY <2>1, <2>3, <3>1 DEF DistinctIn
  <2> QED BY <2>2, <2>3 DEF OneQueue
<1>3. \A a \in adding' : a[2] \notin Queued'
  BY <1>1 DEF Queued
<1> QED BY <1>1, <1>2, <1>3

LEMMA QueueShrinks ==
    ASSUME QueueInv, NEW e \in Eps, NEW t \in Seq(AllReqs), DistinctIn(t),
           Range(t) \subseteq Range(queue[e]), queue' = [queue EXCEPT ![e] = t], adding' = adding
    PROVE  QueueInv'
<1>1. \A d \in Eps : d # e => Range(t) \cap Range(queue[d]) = {}
  BY DEF QueueInv, OneQueue
<1>2. \A a \in adding' : a[2] \notin Range(t)
  BY QueueDistinct DEF QueueInv
<1> QED BY <1>1, <1>2, QueueChange

LEMMA RemoveStep ==
    ASSUME QueueInv, NEW e \in Eps, NEW k \in 1 .. Len(queue[e]),
           queue' = [queue EXCEPT ![e] = RemoveAt(@, k)], adding' = adding
    PROVE  QueueInv'
BY QueueDistinct, QueueRemoved, QueueShrinks

LEMMA TailStep ==
    ASSUME QueueInv, NEW e \in Eps, queue[e] # <<>>,
           queue' = [queue EXCEPT ![e] = Tail(@)], adding' = adding
    PROVE  QueueInv'
BY QueueDistinct, QueueTail, QueueShrinks

\* nuke() takes the first request of one queue, or nothing.
LEMMA NukeStep ==
    ASSUME QueueInv, NEW S \in SUBSET Eps, Nuke(S), adding' = adding
    PROVE  QueueInv'
<1>1. CASE queue' = queue
  BY <1>1 DEF QueueInv, OneQueue, Queued
<1>2. CASE \E e \in S : queue[e] # <<>> /\ queue' = [queue EXCEPT ![e] = Tail(@)]
  BY <1>2, TailStep
<1> QED BY <1>1, <1>2 DEF Nuke

\* A request that is on no queue, nor about to be added to one, is put at the end of one.
LEMMA AppendStep ==
    ASSUME QueueInv, NEW e \in Eps, NEW r \in AllReqs, r \notin Queued,
           queue' = [queue EXCEPT ![e] = Append(@, r)], adding' = {}
    PROVE  QueueInv'
<1> DEFINE s == queue[e]
           t == Append(s, r)
<1>1. s \in Seq(AllReqs) /\ DistinctIn(s) /\ r \notin Range(s)
  BY QueueDistinct
<1>2. /\ t \in Seq(AllReqs) /\ Len(t) = Len(s) + 1 /\ Len(s) \in Nat
      /\ t[Len(s) + 1] = r /\ \A i \in 1 .. Len(s) : t[i] = s[i]
  BY <1>1, AppendProperties
<1>3. \A i \in 1 .. Len(s) : s[i] # r
  BY <1>1 DEF Range
<1> HIDE DEF s, t
<1>4. \A i \in 1 .. Len(t) : i \in 1 .. Len(s) \/ i = Len(s) + 1
  BY <1>2
<1>5. DistinctIn(t)
  BY <1>1, <1>2, <1>3, <1>4 DEF DistinctIn
<1>6. Range(t) \subseteq Range(s) \cup {r}
  BY <1>1, <1>2, <1>4 DEF Range
<1>7. \A d \in Eps : d # e => Range(t) \cap Range(queue[d]) = {}
  BY <1>6, QueueDistinct DEF s, QueueInv, OneQueue
<1>8. queue' = [queue EXCEPT ![e] = t]
  BY DEF s, t
<1> QED BY <1>2, <1>5, <1>7, <1>8, QueueChange

\* What no step but those of the queues does.
LEMMA QueueQuiet ==
    ASSUME QueueInv, UNCHANGED <<queue, adding>>
    PROVE  QueueInv'
BY DEF QueueInv, OneQueue, Queued

LEMMA QueueInvStep == ListInv /\ TypeRest /\ QueueInv /\ [Next]_vars => QueueInv'
<1> SUFFICES ASSUME ListInv, TypeRest, QueueInv, [Next]_vars
             PROVE  QueueInv'
  OBVIOUS
<1>1. CASE HostStep
  BY <1>1, QueueQuiet DEF HostStep, dummy_urb_enqueue, dummy_urb_dequeue, dummy_bus_suspend,
     dummy_bus_resume, gadgvars
<1>2. CASE GadgetStep
  <2>1. CASE LinkDown \/ LinkUp \/ ReadyChange \/ NukeResume
    <3>1. adding' = adding /\ (queue' = queue \/ Nuke(Eps) \/ Nuke(nuking))
      BY <2>1 DEF LinkDown, LinkUp, ReadyChange, NukeResume
    <3> QED BY <3>1, QueueQuiet, NukeStep DEF TypeRest, TypeEps
  <2>2. ASSUME NEW e \in DataEps, dummy_enable(e) \/ dummy_disable(e)
        PROVE  QueueInv'
    <3>1. CASE dummy_enable(e)
      BY <3>1, QueueQuiet DEF dummy_enable
    <3>2. CASE dummy_disable(e)
      <4>1. adding' = adding /\ Nuke({e}) /\ {e} \in SUBSET Eps
        BY <3>2 DEF dummy_disable, Eps
      <4> QED BY <4>1, NukeStep
    <3> QED BY <2>2, <3>1, <3>2
  <2>3. ASSUME NEW e \in Eps, NEW r \in Reqs, dummy_queue(e, r)
        PROVE  QueueInv'
    BY <2>3 DEF dummy_queue, QueueInv, OneQueue, Queued
  <2>4. ASSUME NEW e \in Eps, NEW r \in Reqs, dummy_dequeue(e, r)
        PROVE  QueueInv'
    <3>1. PICK k \in DOMAIN queue[e] : queue' = [queue EXCEPT ![e] = RemoveAt(@, k)]
      BY <2>4 DEF dummy_dequeue
    <3>2. k \in 1 .. Len(queue[e]) /\ adding' = adding
      BY <2>4, QueueDistinct DEF dummy_dequeue, gadgvars
    <3> QED BY <3>1, <3>2, RemoveStep
  <2>5. CASE QueueAdd
    <3>1. PICK a \in adding :
            /\ \/ queue' = [queue EXCEPT ![a[1]] = Append(@, a[2])]
               \/ /\ a[1] \in InEps \cap enabled /\ FifoFree(a[1])
                  /\ queue' = [queue EXCEPT ![a[1]] = Append(@, Fifo)]
            /\ adding' = {}
      BY <2>5 DEF QueueAdd
    <3>2. a[1] \in Eps /\ a[2] \in AllReqs /\ a[2] \notin Queued /\ Fifo \in AllReqs
      BY DEF QueueInv, AllReqs
    <3>3. CASE queue' = [queue EXCEPT ![a[1]] = Append(@, a[2])]
      BY <3>1, <3>2, <3>3, AppendStep
    <3>4. CASE FifoFree(a[1]) /\ queue' = [queue EXCEPT ![a[1]] = Append(@, Fifo)]
      BY <3>1, <3>2, <3>4, AppendStep DEF FifoFree
    <3> QED BY <3>1, <3>3, <3>4
  <2>6. ASSUME NEW e, NEW v, NEW w, dummy_set_halt_and_wedge(e, v, w)
        PROVE  QueueInv'
    BY <2>6, QueueQuiet DEF dummy_set_halt_and_wedge, gadgvars
  <2> QED BY <1>2, <2>1, <2>2, <2>3, <2>4, <2>5, <2>6 DEF GadgetStep
<1>3. CASE UNCHANGED vars
  BY <1>3, QueueQuiet DEF vars, gadgvars
<1>4. CASE TimerFire \/ TimerBegin \/ TimerNoUrbs \/ TimerEnd
  BY <1>4, QueueQuiet DEF TimerFire, TimerBegin, TimerNoUrbs, TimerEnd, gadgvars
<1>5. CASE Scan
  <2>1. CASE ScanStale
    <3>1. /\ queue[0] # <<>> /\ queue' = [queue EXCEPT ![0] = Tail(@)] /\ adding' = adding
          /\ 0 \in Eps
      BY <2>1 DEF ScanStale, gadgvars, Eps
    <3> QED BY <3>1, TailStep
  <2>2. CASE ScanUnlinked \/ ScanNoEp \/ ScanSkip \/ ScanHalted \/ handle_control_request
             \/ ScanSetup \/ ScanData
    <3>1. UNCHANGED <<queue, adding>>
      BY <2>2 DEF ScanUnlinked, ScanNoEp, ScanSkip, ScanHalted, handle_control_request,
         ScanSetup, ScanData, return_urb, gadgvars
    <3> QED BY <3>1, QueueQuiet
  <2> QED BY <1>5, <2>1, <2>2 DEF Scan
<1>6. CASE Xfer
  <2>0. EpOf[cur] \in Eps
    BY <1>6, CurEp DEF Xfer, XferNak, XferShort, XferRequestFull, XferUrbFull, XferRescan,
       XferExhausted, Serving
  <2>1. ASSUME NEW i \in 1 .. Len(queue[EpOf[cur]]), NEW used, NEW urbdone,
               XferRequestDone(i, used, urbdone)
        PROVE  QueueInv'
    <3>1. queue' = [queue EXCEPT ![EpOf[cur]] = RemoveAt(@, i)] /\ adding' = adding
      BY <2>1 DEF XferRequestDone, gadgvars
    <3> QED BY <2>0, <3>1, RemoveStep
  <2>2. queue[EpOf[cur]] # <<>> => 1 \in 1 .. Len(queue[EpOf[cur]])
    BY <2>0, QueueDistinct
  <2>3. Len(queue[EpOf[cur]]) > 1 => 2 \in 1 .. Len(queue[EpOf[cur]])
    BY <2>0, QueueDistinct
  <2>4. CASE XferShort \/ XferRequestFull
    BY <2>1, <2>2, <2>4 DEF XferShort, XferRequestFull
  <2>5. CASE XferExhausted
    <3>1. CASE Len(queue[EpOf[cur]]) > 1 /\ XferRequestDone(2, limit, TRUE)
      BY <2>1, <2>3, <3>1
    <3>2. CASE Continue /\ queue' = queue
      BY <3>2, QueueQuiet DEF Continue, gadgvars
    <3> QED BY <2>5, <3>1, <3>2 DEF XferExhausted
  <2>6. CASE XferNak \/ XferUrbFull \/ XferRescan
    BY <2>6, QueueQuiet DEF XferNak, XferUrbFull, XferRescan, Continue, return_urb, gadgvars
  <2> QED BY <1>6, <2>4, <2>5, <2>6 DEF Xfer
<1>7. CASE StaleReturn \/ SetupReturn \/ SetupStall \/ ReqReturn \/ ReqReturnDone \/ UrbReturn
  BY <1>7, QueueQuiet DEF StaleReturn, SetupReturn, SetupStall, ReqReturn, ReqReturnDone,
     UrbReturn, return_urb, gadgvars
<1> QED BY <1>1, <1>2, <1>3, <1>4, <1>5, <1>6, <1>7 DEF Next, TimerStep

-----------------------------------------------------------------------------
(* The theorems.                                                           *)

UrbInv == ListInv /\ TypeRest /\ SetupInv /\ QueueInv

LEMMA UrbInvInit == Init => UrbInv
<1> SUFFICES ASSUME Init PROVE UrbInv
  OBVIOUS
<1>1. ListInv
  BY ListInvInit
<1>2. TypeHost
  BY DEF Init, TypeHost
<1>3. TypeEps
  BY DEF Init, TypeEps
<1>4. TypeBudget
  <2>1. total = 0 /\ limit = 0 /\ finished \in BOOLEAN
    BY DEF Init
  <2> QED BY <2>1 DEF TypeBudget
<1>5. SetupInv
  <2>1. Listed = {} /\ cur = NULL /\ tpc = "idle" /\ ~setup_stage /\ Len(urbp_list) = 0
    BY DEF Init, Listed, Range
  <2>2. new = {} /\ did_setup = {}
    BY DEF Init
  <2>3. Marks /\ SetupKnown /\ StageFresh
    BY <2>1, <2>2 DEF Marks, SetupKnown, StageFresh
  <2>4. LaterAreNew
    BY <2>1 DEF LaterAreNew
  <2>5. SeenAhead /\ ServedCtrl
    BY <2>1 DEF SeenAhead, ServedCtrl, Serving
  <2> QED BY <2>3, <2>4, <2>5 DEF SetupInv
<1>6. QueueInv
  <2>1. queue = [e \in Eps |-> <<>>] /\ adding = {}
    BY DEF Init
  <2>2. \A e \in Eps : queue[e] \in Seq(AllReqs) /\ DOMAIN queue[e] = {} /\ Range(queue[e]) = {}
    BY <2>1 DEF Range
  <2> QED BY <2>1, <2>2 DEF QueueInv, OneQueue
<1> QED BY <1>1, <1>2, <1>3, <1>4, <1>5, <1>6 DEF UrbInv, TypeRest

LEMMA UrbInvStep == UrbInv /\ [Next]_vars => UrbInv'
BY ListInvStep, TypeHostStep, TypeEpsStep, TypeBudgetStep, SetupInvStep, QueueInvStep
   DEF UrbInv, TypeRest

LEMMA UrbInvariant == Spec => []UrbInv
BY UrbInvInit, UrbInvStep, PTL DEF Spec

\* Every variable of the transfer engine keeps its type: the cursors of dummy_timer() are
\* URBs or NULL, and the queues hold requests, in whatever order the callers come.
THEOREM TypeCorrect == Spec => []TypeOK
<1>1. UrbInv => TypeOK
  BY DEF UrbInv, ListInv, TypeList, TypeRest, TypeHost, TypeEps, TypeBudget, QueueInv, TypeOK
<1> QED BY <1>1, UrbInvariant, PTL

\* The data stage of a control URB follows its own SETUP: setup_stage, which all control
\* URBs share, is never taken for another URB's, however the loop of dummy_timer() restarts.
THEOREM DataFollowsSetup == Spec => []DataAfterSetup
<1>1. UrbInv => DataAfterSetup
  BY DEF UrbInv, SetupInv, ServedCtrl, DataAfterSetup, Serving
<1> QED BY <1>1, UrbInvariant, PTL

\* The SETUP of a control URB is handled once, by handle_control_request() or by the driver.
THEOREM SetupHandledOnce == Spec => SetupOnce
<1>1. UrbInv /\ [Next]_vars => [ScanSetup \/ handle_control_request => cur \notin did_setup]_vars
  BY TakeSetupFresh DEF UrbInv
<1> QED BY <1>1, UrbInvariant, PTL DEF Spec, SetupOnce

\* A request is on one endpoint queue at most, and once: what dummy_queue() has checked before
\* it takes the lock still holds when it adds the request, and the FIFO request is added once.
THEOREM QueuesAreDisjoint == Spec => []OneQueue
<1>1. UrbInv => OneQueue
  BY DEF UrbInv, QueueInv
<1> QED BY <1>1, UrbInvariant, PTL
=============================================================================
