------------------------------- MODULE UsbTest -------------------------------
(***************************************************************************)
(* The host side of the fuzzer's traffic: the tests of usbtest.c that keep *)
(* URBs in flight (test_queue, test_ctrl_queue, host_ctr_fuzz, unlink1,    *)
(* unlink_queued, simple_io, perform_sglist), started by usbtest_ioctl().  *)
(* A test runs in the thread of its caller; the completion handlers run    *)
(* one at a time in the timer function of the emulated host controller,    *)
(* on another CPU.  Both use the test's context, which is on the caller's  *)
(* stack.  Tests made of synchronous control transfers only (ch9, halt,    *)
(* toggle, ctrl_out) have no URB of their own in flight and are left out.  *)
(***************************************************************************)
EXTENDS Integers, Sequences, FiniteSets, SequencesExt

CONSTANTS
    Devices,    \* sequences of altsettings, each a set of endpoint types
    Seen,       \* the types the driver's entry for a device takes (info->intr, info->iso)
    Cases,      \* test numbers (0 .. 29) that callers ask for
    FzKinds,    \* tests that callers ask for with param->is_fz
    MaxQueue,   \* bound on param->sglen
    MaxIter,    \* bound on param->iterations
    UMax,       \* 2^w for an unsigned counter of w bits
    NumSubcases \* NUM_SUBCASES, 16 in the code

ASSUME SizesAssumption ==
    /\ MaxQueue \in Nat \ {0} /\ MaxIter \in Nat /\ UMax \in Nat \ {0} /\ NumSubcases \in Nat \ {0}
    /\ Cases \subseteq 0 .. 29 /\ FzKinds \subseteq {"simple", "queue", "ctr_fuzz"}

Urbs == 1 .. MaxQueue

VARIABLES
    bound, pipes,       \* usbtest_probe() has bound the device; its endpoints
    test,               \* the kind of the latest test, "none" before the first
    tpc,                \* where the calling thread is
    sglen, iterations,  \* the parameters of the test
    left, i,            \* iterations left; URBs submitted, or round of unlink_simple()
    ctx,                \* the context shared with the completion handlers
    victims,            \* URBs that unlink_queued() has still to unlink
    timer,              \* the timer of perform_sglist() is armed
    reject,             \* usb_kill_urb() refuses resubmission
    result,             \* what the test returns
    flight, unlinked,   \* URBs at the host controller, in order; those cancelled
    cur, cst, cpc,      \* URB being completed, its status, where its handler is
    ndone, lost         \* history: completions; a resubmission has failed

device == <<bound, pipes>>
params == <<test, sglen, iterations>>
hcd == <<flight, unlinked, cur, cst, cpc>>
history == <<ndone, lost>>
vars == <<device, params, tpc, left, i, ctx, victims, timer, reject, result, hcd, history>>

Status == {"ok", "enomem", "error", "epipe", "proto", "remoteio", "edom",
           "reset", "noent", "eperm"}
Kinds == {"simple", "sglist", "ctrl", "unlink1", "queue", "unlink_queued", "ctr_fuzz"}

Context == [count : Int, pending : Int, status : Status, last : Int,
            errors : BOOLEAN, submit_error : BOOLEAN, done : BOOLEAN]

TypeTest ==
    /\ bound \in BOOLEAN /\ test \in Kinds \cup {"none"}
    /\ tpc \in {"idle", "submit", "armed", "check", "wait", "try", "killing", "unlink",
               "return"}
    /\ sglen \in 0 .. MaxQueue /\ iterations \in 0 .. MaxIter
    /\ left \in 0 .. MaxIter /\ i \in 0 .. MaxQueue
    /\ victims \subseteq Int /\ timer \in BOOLEAN /\ reject \in BOOLEAN /\ result \in Status

TypeHcd ==
    /\ flight \in Seq(Urbs) /\ unlinked \subseteq Urbs
    /\ cur \in Urbs /\ cst \in Status /\ cpc \in {"none", "enter", "leave", "return"}
    /\ ndone \in Nat /\ lost \in BOOLEAN

TypeOK == TypeTest /\ TypeHcd /\ ctx \in Context

NewContext == [count |-> 0, pending |-> 0, status |-> "ok", last |-> -1,
               errors |-> FALSE, submit_error |-> FALSE, done |-> FALSE]

Init ==
    /\ bound = FALSE /\ pipes = {}
    /\ test = "none" /\ tpc = "idle" /\ sglen = 0 /\ iterations = 0 /\ left = 0 /\ i = 0
    /\ ctx = NewContext /\ victims = {} /\ timer = FALSE /\ reject = FALSE /\ result = "ok"
    /\ flight = <<>> /\ unlinked = {} /\ cur = 1 /\ cst = "ok" /\ cpc = "none"
    /\ ndone = 0 /\ lost = FALSE

----------------------------------------------------------------------------
(* Binding.                                                                *)

\* An altsetting is of use with both bulk endpoints or any other pipe.
Usable(alt) ==
    {"bulk_in", "bulk_out"} \subseteq alt \/ alt \cap {"iso_in", "iso_out", "int_in", "int_out"} # {}

\* The first usable altsetting, as get_endpoints() takes it; with a fixed one
\* (override_alt, or the fix_alt of fz_get_endpoints()) that or none.
get_endpoints(alts, seen, fix) ==
    LET taken == [k \in DOMAIN alts |-> alts[k] \cap seen]
        candidates == {k \in DOMAIN alts : Usable(taken[k]) /\ (fix = 0 \/ fix = k)}
    IN  IF candidates = {} THEN {}
        ELSE taken[CHOOSE k \in candidates : \A l \in candidates : k <= l]

\* The endpoints are searched for, or named by the driver's entry for the device.
\* Allocation or usb_set_interface() may fail: the device stays unbound.
usbtest_probe ==
    /\ ~bound /\ bound' = TRUE
    /\ \/ \E alts \in Devices, seen \in Seen : \E fix \in 0 .. Len(alts) + 1 :
              pipes' = get_endpoints(alts, seen, fix)
       \/ pipes' \in SUBSET {"bulk_in", "bulk_out"}
    /\ UNCHANGED <<params, tpc, left, i, ctx, victims, timer, reject, result, hcd, history>>

\* usbfs holds the device lock during an ioctl, so that a disconnect waits for it.
usbtest_disconnect ==
    /\ bound /\ tpc = "idle"
    /\ bound' = FALSE /\ pipes' = {}
    /\ UNCHANGED <<params, tpc, left, i, ctx, victims, timer, reject, result, hcd, history>>

----------------------------------------------------------------------------
(* Starting a test.                                                        *)

SimpleCases == 1 .. 4 \cup 17 .. 20 \cup {25, 26}
SglistCases == 5 .. 8
QueueCases == {15, 16, 22, 23, 27, 28}

KindOf(n) ==
    CASE n \in SimpleCases -> "simple"
      [] n \in SglistCases -> "sglist"
      [] n = 10 -> "ctrl"
      [] n \in {11, 12} -> "unlink1"
      [] n \in QueueCases -> "queue"
      [] n = 24 -> "unlink_queued"
      [] OTHER -> "none"      \* no URB of its own in flight

\* The pipe a case needs and the least sglen it accepts; else -EOPNOTSUPP.
Supported(n, depth) ==
    /\ n \in {1, 3, 5, 7, 12, 17, 19, 24, 27} => "bulk_out" \in pipes
    /\ n \in {2, 4, 6, 8, 11, 18, 20, 28} => "bulk_in" \in pipes
    /\ n \in {15, 22} => "iso_out" \in pipes
    /\ n \in {16, 23} => "iso_in" \in pipes
    /\ n = 25 => "int_out" \in pipes
    /\ n = 26 => "int_in" \in pipes
    /\ n \in SglistCases \cup QueueCases \cup {10} => depth > 0
    /\ n = 24 => depth >= 4

\* The control and the packet queue refuse what their counters cannot hold.
CountFits(kind, depth, iters) ==
    kind \in {"ctrl", "queue"} => depth > 0 /\ depth * iters < UMax

\* What each test puts into its context before it submits.
FirstContext(kind, depth, iters) ==
    CASE kind \in {"ctrl", "queue"} -> [NewContext EXCEPT !.count = depth * iters]
      [] kind = "ctr_fuzz" -> [NewContext EXCEPT !.count = iters]
      [] kind = "unlink_queued" -> [NewContext EXCEPT !.pending = 1]
      [] OTHER -> NewContext

\* The URBs of an earlier test are out of the way, and the last handler of it has
\* done its work; what happens when a test has returned too early and another one
\* starts is not followed.
Start(kind, depth, iters) ==
    /\ bound /\ tpc = "idle" /\ flight = <<>> /\ cpc \in {"none", "return"}
    /\ test' = kind /\ tpc' = "submit"
    /\ sglen' = (IF kind \in {"ctrl", "queue", "unlink_queued"} THEN depth ELSE 1)
    /\ iterations' = iters /\ left' = iters /\ i' = 0
    /\ ctx' = FirstContext(kind, depth, iters)
    /\ victims' = {} /\ result' = "ok" /\ ndone' = 0 /\ lost' = FALSE
    /\ UNCHANGED <<device, timer, reject, hcd>>

usbtest_do_ioctl ==
    \E n \in Cases, depth \in 0 .. MaxQueue, iters \in 1 .. MaxIter :
        /\ KindOf(n) # "none" /\ Supported(n, depth) /\ CountFits(KindOf(n), depth, iters)
        /\ Start(KindOf(n), depth, iters)

\* This path comes before the checks of the parameters, and looks at no pipe.
\* Several flags in one call run their tests one after the other, whatever each
\* returns: as several calls here.  is_set_alt calls usb_set_interface() only; the
\* pipes that the driver remembers stay.
fz_ioctl ==
    \E kind \in FzKinds, depth \in 0 .. MaxQueue, iters \in 0 .. MaxIter :
        /\ CountFits(kind, depth, iters)
        /\ Start(kind, depth, iters)

\* End of the test: everything in its context is gone.
Return ==
    /\ tpc = "return" /\ tpc' = "idle"
    /\ UNCHANGED <<device, params, left, i, ctx, victims, timer, reject, result, hcd, history>>

Leave(r) == tpc' = "return" /\ result' = r

----------------------------------------------------------------------------
(* The host controller: at one endpoint only the oldest URB is served,     *)
(* cancelled ones are given back wherever they are.  A device may NAK for  *)
(* ever, so that an URB need not complete unless it is cancelled.  A       *)
(* handler ends (cpc = "return") when it has counted its URB and called    *)
(* complete(); what remains is to release the lock, and to return.         *)

UnlinkStatus == IF test = "simple" \/ (test = "unlink1" /\ i = 1) THEN "noent" ELSE "reset"

Position(u) == CHOOSE k \in DOMAIN flight : flight[k] = u

HcdGiveback(u) ==
    /\ cpc = "none" /\ flight # <<>>
    /\ u \in unlinked \cap Range(flight) \/ u = Head(flight)
    /\ flight' = RemoveAt(flight, Position(u))
    /\ unlinked' = unlinked \ {u}
    /\ cur' = u /\ cpc' = "enter"
    /\ cst' \in (IF u \in unlinked THEN {UnlinkStatus} ELSE {"ok", "epipe", "proto"})
    /\ UNCHANGED <<device, params, tpc, left, i, ctx, victims, timer, reject, result, history>>

\* usb_unlink_urb() and usb_kill_urb() act on URBs that are at the controller.
Cancel(us) == unlinked' = unlinked \cup (us \cap Range(flight))

HandlerReturn ==
    /\ cpc = "return" /\ cpc' = "none"
    /\ UNCHANGED <<device, params, tpc, left, i, ctx, victims, timer, reject, result, flight,
                   unlinked, cur, cst, history>>

\* complete() once the last URB is counted.
CompleteIf(c, last) == IF last THEN [c EXCEPT !.done = TRUE] ELSE c

SubmitOk(u) == ~reject /\ flight' = Append(flight, u)

\* What the handlers have in common: one URB is completed, and nothing but the
\* context and the controller changes.
InHandler(kind, from) ==
    /\ test \in kind /\ cpc = from
    /\ UNCHANGED <<device, params, tpc, left, i, victims, timer, reject, result, cur>>

\* Broken variant: one URB too many.
LoopOr_OneMore(next) == IF i = sglen THEN next ELSE "submit"

\* A submission loop goes on until all URBs are out.
LoopOr(next) == IF i + 1 = sglen THEN next ELSE "submit"

\* The submission loops of test_queue() and test_ctrl_queue() hold the lock of
\* the context, which their handlers take first.
LockFree == tpc # "submit"

----------------------------------------------------------------------------
(* test_queue(): a ring of URBs, for isochronous and bulk traffic.         *)

QueueSubmit ==
    /\ test = "queue" /\ tpc = "submit"
    /\ \/ /\ SubmitOk(i + 1)
          /\ i' = i + 1 /\ ctx' = [ctx EXCEPT !.pending = @ + 1]
          /\ tpc' = LoopOr("wait")
          /\ UNCHANGED result
       \/ /\ i = 0 /\ Leave("error")
          /\ ctx' = [ctx EXCEPT !.pending = @ + 1]
          /\ UNCHANGED <<i, flight>>
       \/ /\ i > 0 /\ tpc' = "wait"
          /\ ctx' = [ctx EXCEPT !.submit_error = TRUE, !.status = "error"]
          /\ UNCHANGED <<i, flight, result>>
    /\ UNCHANGED <<device, params, left, victims, timer, reject, unlinked, cur, cst, cpc,
                   history>>

\* Broken variant: compares with the number that includes the URB at hand.
Wanted_TooFew(count, pending) == count > pending

\* More URBs are wanted than are still in flight; the counters are unsigned.
Wanted(count, pending) == count > (pending - 1) % UMax

complicated_callback ==
    /\ InHandler({"queue"}, "enter") /\ LockFree
    /\ cpc' = "return" /\ ndone' = ndone + 1
    /\ LET errors == IF cst # "ok" THEN TRUE ELSE ctx.errors
           c == [ctx EXCEPT !.count = (@ - 1) % UMax, !.errors = errors]
           Drop(x) == CompleteIf([x EXCEPT !.pending = @ - 1], x.pending = 1)
           again == cst = "ok" /\ Wanted(c.count, c.pending) /\ ~c.submit_error
       IN  \/ again /\ SubmitOk(cur) /\ ctx' = c /\ UNCHANGED lost
           \/ /\ again /\ ctx' = Drop([c EXCEPT !.submit_error = TRUE])
              /\ lost' = TRUE /\ UNCHANGED flight
           \/ ~again /\ ctx' = Drop(c) /\ UNCHANGED <<flight, lost>>
    /\ UNCHANGED <<unlinked, cst>>

\* Fewer than ten packets: the limit of 10 % for isochronous ones is no error.
QueueReturn ==
    /\ test = "queue" /\ tpc = "wait" /\ ctx.done
    /\ Leave(IF ctx.status # "ok" THEN ctx.status
             ELSE IF ctx.submit_error \/ ctx.errors THEN "error" ELSE "ok")
    /\ UNCHANGED <<device, params, left, i, ctx, victims, timer, reject, hcd, history>>

----------------------------------------------------------------------------
(* test_ctrl_queue() and host_ctr_fuzz(): queued control requests.         *)

CtrlSubmit ==
    /\ test \in {"ctrl", "ctr_fuzz"} /\ tpc = "submit"
    /\ \/ /\ SubmitOk(i + 1)
          /\ i' = i + 1
          /\ ctx' = [ctx EXCEPT !.pending = @ + 1, !.status = "ok"]
          /\ tpc' = LoopOr("check")
       \/ /\ ctx' = [ctx EXCEPT !.count = ctx.pending, !.status = "error"]
          /\ tpc' = "check" /\ UNCHANGED <<i, flight>>
    /\ UNCHANGED <<device, params, left, victims, timer, reject, result, unlinked, cur, cst,
                   cpc, history>>

\* Waits if it reads a pending URB; the read is not under the lock.
CtrlCheck ==
    /\ test \in {"ctrl", "ctr_fuzz"} /\ tpc = "check"
    /\ IF ctx.pending > 0 THEN tpc' = "wait" /\ UNCHANGED result ELSE Leave(ctx.status)
    /\ UNCHANGED <<device, params, left, i, ctx, victims, timer, reject, hcd, history>>

CtrlReturn ==
    /\ test \in {"ctrl", "ctr_fuzz"} /\ tpc = "wait" /\ ctx.done
    /\ Leave(ctx.status)
    /\ UNCHANGED <<device, params, left, i, ctx, victims, timer, reject, hcd, history>>

\* The subcases by number, with the fault each allows; where a fault is required
\* (a negative "expected") its absence is only logged.
Allowed(number) ==
    CASE number \in {2, 5, 7, 8, 11, 15} -> {"ok", "epipe"}
      [] number \in {10, 13, 14} -> {"ok", "remoteio"}
      [] number = 12 -> {"ok", "remoteio", "epipe"}
      [] OTHER -> {"ok"}

\* Broken variant: the first subcase has to follow the last one, too.
CtrlStatus_First(number) ==
    IF number - ctx.last # 1 THEN "edom"
    ELSE IF cst \in Allowed(number) THEN "ok" ELSE cst

\* What the handler makes of the URB's status.
CtrlStatus(number) ==
    IF number > 0 /\ number - ctx.last # 1 THEN "edom"
    ELSE IF cst \in Allowed(number) THEN "ok" ELSE cst

\* Broken variant: the error is only recorded.
ToCancel_None(st, number) == {}

\* The first error cancels what is pending, but for one: the loop leaves out the URB
\* with the number of the subcase, which is the one at hand in the first round of
\* subcases only.
ToCancel(st, number) ==
    IF st # "ok" /\ ctx.status = "ok" THEN Urbs \ {number + 1} ELSE {}

\* ctrl_complete() up to the resubmission.
ctrl_complete ==
    /\ InHandler({"ctrl"}, "enter") /\ LockFree
    /\ LET number == (cur - 1) % NumSubcases
           st == CtrlStatus(number)
       IN  /\ ctx' = [ctx EXCEPT !.count = @ - 1, !.pending = @ - 1, !.last = number,
                                 !.status = IF @ = "ok" THEN st ELSE @]
           /\ cst' = st
           /\ Cancel(ToCancel(st, number))
    /\ cpc' = "leave" /\ ndone' = ndone + 1
    /\ UNCHANGED <<flight, lost>>

\* The rest, still under the lock: resubmit or drop the URB, and complete().
CtrlResubmit ==
    /\ InHandler({"ctrl"}, "leave")
    /\ cpc' = "return"
    /\ LET again == cst = "ok" /\ ctx.pending < ctx.count
           Done(p) == CompleteIf([ctx EXCEPT !.pending = p], p = 0)
       IN  \/ again /\ SubmitOk(cur) /\ ctx' = Done(ctx.pending + 1) /\ UNCHANGED lost
           \/ again /\ ctx' = Done(ctx.pending) /\ lost' = TRUE /\ UNCHANGED flight
           \/ ~again /\ ctx' = Done(ctx.pending) /\ UNCHANGED <<flight, lost>>
    /\ UNCHANGED <<unlinked, cst, ndone>>

\* FuzzUSB's own handler gives up the lock before it looks at the counter.
empty_complete ==
    /\ InHandler({"ctr_fuzz"}, "enter") /\ LockFree
    /\ ctx' = [ctx EXCEPT !.count = (@ - 1) % UMax, !.pending = @ - 1]
    /\ cpc' = "leave" /\ ndone' = ndone + 1
    /\ UNCHANGED <<flight, unlinked, cst, lost>>

EmptyCompleteSignal ==
    /\ InHandler({"ctr_fuzz"}, "leave")
    /\ ctx' = CompleteIf(ctx, ctx.pending = 0)
    /\ cpc' = "return"
    /\ UNCHANGED <<flight, unlinked, cst, history>>

----------------------------------------------------------------------------
(* unlink1(): a URB that resubmits itself is cancelled, first with         *)
(* usb_unlink_urb() (round 0), then with usb_kill_urb() (round 1).         *)

UnlinkSubmit ==
    /\ test = "unlink1" /\ tpc = "submit"
    /\ \/ SubmitOk(1) /\ tpc' = "try" /\ ctx' = NewContext /\ UNCHANGED result
       \/ Leave("error") /\ UNCHANGED <<flight, ctx>>
    /\ UNCHANGED <<device, params, left, i, victims, timer, reject, unlinked, cur, cst, cpc,
                   history>>

\* Tries again while the URB is being completed and not resubmitted.  The emulated
\* controller gives none of the errors for which the loop ends the test.
UnlinkAsync ==
    /\ test = "unlink1" /\ tpc = "try" /\ i = 0
    /\ ctx.done \/ 1 \in Range(flight)
    /\ Cancel(IF ctx.done THEN {} ELSE {1})
    /\ tpc' = "wait"
    /\ UNCHANGED <<device, params, left, i, ctx, victims, timer, reject, result, flight, cur,
                   cst, cpc, history>>

\* Start of usb_kill_urb(), for round 1 and for the timeout of simple_io().
Kill ==
    /\ reject' = TRUE /\ Cancel({1})
    /\ tpc' = "killing"
    /\ UNCHANGED <<device, params, left, i, ctx, victims, timer, result, flight, cur, cst, cpc,
                   history>>

UnlinkSync == test = "unlink1" /\ tpc = "try" /\ i = 1 /\ Kill

\* usb_kill_urb() returns when the URB is idle and its handler has returned.
KillDone ==
    /\ tpc = "killing" /\ flight = <<>> /\ cpc = "none"
    /\ reject' = FALSE /\ tpc' = "wait"
    /\ UNCHANGED <<device, params, left, i, ctx, victims, timer, result, hcd, history>>

unlink1_callback ==
    /\ InHandler({"unlink1"}, "enter")
    /\ cpc' = "return"
    /\ \/ cst = "ok" /\ SubmitOk(cur) /\ UNCHANGED ctx
       \/ /\ ctx' = [ctx EXCEPT !.done = TRUE,
                                !.status = IF cst # "ok" THEN cst
                                           ELSE IF reject THEN "eperm" ELSE "error"]
          /\ UNCHANGED flight
    /\ UNCHANGED <<unlinked, cst, history>>

\* The next round, the next iteration, or the result.
UnlinkReturn ==
    /\ test = "unlink1" /\ tpc = "wait" /\ ctx.done
    /\ LET good == ctx.status \in (IF i = 0 THEN {"reset"} ELSE {"noent", "eperm"})
       IN  \/ good /\ i = 0 /\ i' = 1 /\ tpc' = "submit" /\ UNCHANGED <<left, result>>
           \/ good /\ i = 1 /\ left > 1 /\ i' = 0 /\ left' = left - 1 /\ tpc' = "submit"
              /\ UNCHANGED result
           \/ good /\ i = 1 /\ left <= 1 /\ Leave("ok") /\ UNCHANGED <<i, left>>
           \/ ~good /\ Leave(ctx.status) /\ UNCHANGED <<i, left>>
    /\ UNCHANGED <<device, params, ctx, victims, timer, reject, hcd, history>>

----------------------------------------------------------------------------
(* unlink_queued(): two URBs are cancelled in the middle of a queue.       *)

UnlinkQueuedSubmit ==
    /\ test = "unlink_queued" /\ tpc = "submit"
    /\ \/ /\ SubmitOk(i + 1)
          /\ i' = i + 1 /\ ctx' = [ctx EXCEPT !.pending = @ + 1]
          /\ tpc' = LoopOr("unlink") /\ victims' = {sglen - 3, sglen - 1}
       \/ /\ ctx' = [ctx EXCEPT !.status = "error"]
          /\ tpc' = "unlink" /\ victims' = 1 .. i
          /\ UNCHANGED <<i, flight>>
    /\ UNCHANGED <<device, params, left, timer, reject, result, unlinked, cur, cst, cpc, history>>

UnlinkQueuedUnlink ==
    /\ test = "unlink_queued" /\ tpc = "unlink"
    /\ \E u \in victims : Cancel({u}) /\ victims' = victims \ {u}
    /\ UNCHANGED <<device, params, tpc, left, i, ctx, timer, reject, result, flight, cur, cst,
                   cpc, history>>

\* The extra count is dropped.
UnlinkQueuedDrop ==
    /\ test = "unlink_queued" /\ tpc = "unlink" /\ victims = {}
    /\ ctx' = CompleteIf([ctx EXCEPT !.pending = @ - 1], ctx.pending = 1)
    /\ tpc' = "wait"
    /\ UNCHANGED <<device, params, left, i, victims, timer, reject, result, hcd, history>>

unlink_queued_callback ==
    /\ InHandler({"unlink_queued"}, "enter")
    /\ cpc' = "return"
    /\ LET expected == cst = "ok" \/ (cst = "reset" /\ cur \in {sglen - 3, sglen - 1})
           status == IF ctx.status # "ok" \/ expected THEN ctx.status ELSE cst
       IN  ctx' = CompleteIf([ctx EXCEPT !.pending = @ - 1, !.status = status], ctx.pending = 1)
    /\ UNCHANGED <<flight, unlinked, cst, history>>

\* A good iteration is followed by the next one with a fresh context.
UnlinkQueuedReturn ==
    /\ test = "unlink_queued" /\ tpc = "wait" /\ ctx.done
    /\ IF ctx.status = "ok" /\ left > 1
       THEN /\ left' = left - 1 /\ i' = 0 /\ tpc' = "submit"
            /\ ctx' = FirstContext(test, sglen, iterations) /\ UNCHANGED result
       ELSE Leave(ctx.status) /\ UNCHANGED <<left, i, ctx>>
    /\ UNCHANGED <<device, params, victims, timer, reject, hcd, history>>

----------------------------------------------------------------------------
(* simple_io() and perform_sglist(): one transfer after the other, each    *)
(* with a timeout.  A scatter-gather request of usbcore is one URB here.   *)

OneByOne == {"simple", "sglist"}

TransferSubmit ==
    /\ test \in OneByOne /\ tpc = "submit"
    /\ \/ /\ test = "simple" /\ left > 0 /\ SubmitOk(1)
          /\ left' = left - 1 /\ ctx' = NewContext
          /\ tpc' = "wait" /\ UNCHANGED result
       \/ left > 0 /\ Leave("error") /\ UNCHANGED <<flight, left, ctx>>
       \/ left = 0 /\ Leave("ok") /\ UNCHANGED <<flight, left, ctx>>
    /\ UNCHANGED <<device, params, i, victims, timer, reject, unlinked, cur, cst, cpc, history>>

\* usb_sg_init(), and the timer, which runs before anything is submitted.
SglistArm ==
    /\ test = "sglist" /\ tpc = "submit" /\ left > 0
    /\ left' = left - 1 /\ ctx' = NewContext
    /\ timer' = TRUE /\ tpc' = "armed"
    /\ UNCHANGED <<device, params, i, victims, reject, result, hcd, history>>

\* usb_sg_wait() submits unless the request is cancelled, and waits.
SglistSubmit ==
    /\ test = "sglist" /\ tpc = "armed" /\ tpc' = "wait"
    /\ \/ ctx.status = "ok" /\ SubmitOk(1) /\ UNCHANGED ctx
       \/ /\ ctx' = [ctx EXCEPT !.done = TRUE, !.status = IF @ = "ok" THEN "error" ELSE @]
          /\ UNCHANGED flight
    /\ UNCHANGED <<device, params, left, i, victims, timer, reject, result, unlinked, cur, cst,
                   cpc, history>>

\* The status of a cancelled request is kept.
simple_callback ==
    /\ InHandler(OneByOne, "enter")
    /\ cpc' = "return"
    /\ ctx' = [ctx EXCEPT !.done = TRUE,
                          !.status = IF test = "sglist" /\ @ # "ok" THEN @ ELSE cst]
    /\ UNCHANGED <<flight, unlinked, cst, history>>

\* Broken variant: the URB is unlinked but not waited for.
SimpleTimeout_Unlink ==
    /\ test = "simple" /\ tpc = "wait" /\ ~ctx.done
    /\ Cancel({1}) /\ Leave("noent")
    /\ UNCHANGED <<device, params, left, i, ctx, victims, timer, reject, flight, cur, cst, cpc,
                   history>>

\* wait_for_completion_timeout() gives up; an answer may still come.
SimpleTimeout == test = "simple" /\ tpc = "wait" /\ ~ctx.done /\ Kill

\* Broken variant: the timer fires and cancels nothing.
sg_timeout_Idle ==
    /\ timer /\ timer' = FALSE
    /\ UNCHANGED <<device, params, tpc, left, i, ctx, victims, reject, result, hcd, history>>

\* The timer fires on its own CPU and cancels the request, if it is not complete.
sg_timeout ==
    /\ timer /\ timer' = FALSE
    /\ IF ctx.done THEN UNCHANGED <<ctx, unlinked>>
       ELSE ctx' = [ctx EXCEPT !.status = IF @ = "ok" THEN "reset" ELSE @] /\ Cancel(Urbs)
    /\ UNCHANGED <<device, params, tpc, left, i, victims, reject, result, flight, cur, cst,
                   cpc, history>>

\* An expired timer counts as a failure even if the transfer was complete; data
\* that was read may be wrong.
TransferDone ==
    /\ test \in OneByOne /\ tpc = "wait" /\ ctx.done
    /\ timer' = FALSE
    /\ LET good == ctx.status = "ok" /\ (test = "sglist" => timer)
       IN  \/ good /\ tpc' = "submit" /\ UNCHANGED result
           \/ good /\ test = "simple" /\ Leave("error")
           \/ ~good /\ Leave(IF ctx.status = "ok" THEN "error" ELSE ctx.status)
    /\ UNCHANGED <<device, params, left, i, ctx, victims, reject, hcd, history>>

----------------------------------------------------------------------------
(* Every test allocates what it needs before it submits; unlink1() does so *)
(* in each round.  test_queue() then also frees array elements that it has *)
(* not written yet: what that does is not followed.                        *)

AllocationFails ==
    /\ tpc = "submit" /\ (i = 0 \/ test = "unlink1")
    /\ test \in OneByOne => left = iterations
    /\ Leave("enomem") /\ ctx' = [ctx EXCEPT !.status = "enomem"]
    /\ UNCHANGED <<device, params, left, i, victims, timer, reject, hcd, history>>

TestStep ==
    \/ QueueSubmit \/ QueueReturn
    \/ CtrlSubmit \/ CtrlCheck \/ CtrlReturn
    \/ UnlinkSubmit \/ UnlinkAsync \/ UnlinkSync \/ KillDone \/ UnlinkReturn
    \/ UnlinkQueuedSubmit \/ UnlinkQueuedUnlink \/ UnlinkQueuedDrop \/ UnlinkQueuedReturn
    \/ TransferSubmit \/ SglistArm \/ SglistSubmit \/ SimpleTimeout \/ TransferDone
    \/ AllocationFails \/ Return

Handler ==
    \/ complicated_callback \/ ctrl_complete \/ CtrlResubmit
    \/ empty_complete \/ EmptyCompleteSignal
    \/ unlink1_callback \/ unlink_queued_callback \/ simple_callback
    \/ HandlerReturn

Next ==
    \/ usbtest_probe \/ usbtest_disconnect \/ usbtest_do_ioctl \/ fz_ioctl
    \/ TestStep \/ sg_timeout \/ Handler
    \/ \E u \in Urbs : HcdGiveback(u)

Spec == Init /\ [][Next]_vars

\* Threads and timers run, and cancelled URBs are given back; whether a device
\* answers is up to it.
FairSpec ==
    /\ Spec
    /\ WF_vars(TestStep) /\ WF_vars(sg_timeout) /\ WF_vars(Handler)
    /\ WF_vars(\E u \in unlinked : HcdGiveback(u))

----------------------------------------------------------------------------
(* Properties.                                                             *)

Waiting == {"simple", "sglist", "unlink1", "queue", "unlink_queued"}

\* URBs at the controller, and the one whose handler has not called complete() yet.
Busy == Len(flight) + (IF cpc \in {"enter", "leave"} THEN 1 ELSE 0)

BatchPhase == IF test \in Waiting /\ tpc # "idle" THEN "running" ELSE "idle"

BatchBusy == IF test \in Waiting THEN Busy ELSE 0

Batch == INSTANCE UrbBatch WITH phase <- BatchPhase, busy <- BatchBusy

\* Every test but the control queues implements UrbBatch: whatever fails, is
\* cancelled or times out, it returns only when none of its URBs is in flight and
\* the handler of the last one has counted it and called complete() (test_queue,
\* unlink1, unlink_queued, simple_io, perform_sglist).  The handler need not have
\* returned: complicated_callback() has still to release the lock of the context.
OwnsItsUrbs == Batch!Spec

\* The comment in test_ctrl_queue(): "wait for the last one to complete".
WaitsForLast == tpc = "return" => flight = <<>>

\* A queue that completes without an error or a failed submission has run every
\* iteration of every URB: the handlers neither stop early nor go on too long
\* (complicated_callback() and ctrl_complete() count down under the lock).
AllIterationsRun ==
    /\ test \in {"queue", "ctrl"} /\ ctx.done /\ iterations > 0
    /\ ctx.status = "ok" /\ ~ctx.errors /\ ~ctx.submit_error /\ ~lost
    => ndone = sglen * iterations

\* ctrl_complete() reports "completed out of order" only if an URB has fallen out
\* of the ring because it could not be resubmitted.
OrderErrorIsReal == ctx.status = "edom" => lost

\* Once the control queue has recorded an error, no URB of it is submitted again:
\* those in flight have been cancelled, or the count was cut.  The exception is a
\* queue longer than the list of subcases, of which the loop of ctrl_complete() may
\* leave out an URB: it is one of the first NumSubcases, and may go on.
NothingAfterError ==
    [][test = "ctrl" /\ tpc # "submit" /\ ctx.status # "ok" /\ Len(flight') > Len(flight)
       => sglen > NumSubcases /\ flight'[Len(flight')] \in 1 .. NumSubcases]_vars

\* A transfer with a timeout ends whatever the device does: simple_io() kills the
\* URB, the timer of perform_sglist() cancels the request, also before it is submitted.
TimedTestReturns == (test \in OneByOne /\ tpc # "idle") ~> (tpc = "idle")
=============================================================================
