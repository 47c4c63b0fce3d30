---------------------------- MODULE DummyTransfer ----------------------------
(***************************************************************************)
(* One call of transfer() in dummy_hcd.c: it copies data between an URB of *)
(* the host and the requests queued on an endpoint of the gadget, packet   *)
(* by packet, until one side is finished or the bandwidth limit is reached.*)
(* DummyUrb leaves open what an iteration of this loop does; here the      *)
(* lengths are modelled, for one URB and one endpoint, whose queue may     *)
(* hold requests of several streams.                                       *)
(***************************************************************************)
EXTENDS Integers, Sequences, SequencesExt

CONSTANTS
    NumReq,         \* the number of requests of the gadget driver
    MaxLen,         \* bound on lengths and on the limit
    MaxPkt,         \* bound on ep->ep.maxpacket
    MaxRequeue      \* how often a completion handler queues its request again

ASSUME BoundsAssumption ==
    NumReq \in Nat /\ MaxLen \in Nat /\ MaxPkt \in Nat \ {0} /\ MaxRequeue \in Nat

Reqs == 1 .. NumReq

VARIABLES
    maxpacket, to_host,
    buffer_length, actual_length,   \* of the URB
    zero_packet,                    \* URB_ZERO_PACKET in urb->transfer_flags
    length, actual, zero,           \* of each request
    same,                           \* of each request: it has the URB's stream, or the
                                    \* endpoint has no streams
    queue,                          \* ep->queue
    at,                             \* position of the loop in the queue
    limit, sent, status,
    req_status,                     \* of each request
    short,                          \* history: the last packet was a short one
    failed,                         \* history: the last packet could not be copied
    requeued,                       \* history: requests queued by completion handlers
    pc                              \* "loop", "giveback" (lock released), "done"

fixed == <<maxpacket, to_host, buffer_length, zero_packet, length, zero, same>>
vars == <<fixed, actual_length, status, actual, req_status, queue, at, limit, sent, short,
          failed, requeued, pc>>

UrbStatus == {"EINPROGRESS", "OK", "EOVERFLOW"}
ReqStatus == UrbStatus \cup {"EINVAL", "ECONNRESET"}

TypeOK ==
    /\ maxpacket \in 1 .. MaxPkt
    /\ to_host \in BOOLEAN /\ zero_packet \in BOOLEAN
    /\ zero \in [Reqs -> BOOLEAN] /\ same \in [Reqs -> BOOLEAN]
    /\ buffer_length \in Nat /\ actual_length \in Nat
    /\ length \in [Reqs -> Nat] /\ actual \in [Reqs -> Nat]
    /\ queue \in Seq(Reqs)
    /\ at \in Nat \ {0}
    /\ limit \in Nat /\ sent \in Nat
    /\ status \in UrbStatus /\ req_status \in [Reqs -> ReqStatus]
    /\ short \in BOOLEAN /\ failed \in BOOLEAN
    /\ requeued \in 0 .. MaxRequeue
    /\ pc \in {"loop", "giveback", "done"}

\* Any URB, requests and limit, as earlier calls may have left them: a request of another
\* stream, and of the URB's stream the first one, may be transferred in part; what is full
\* but not finished waits for its zero-length packet.
Init ==
    /\ maxpacket \in 1 .. MaxPkt
    /\ to_host \in BOOLEAN /\ zero_packet \in BOOLEAN
    /\ zero \in [Reqs -> BOOLEAN] /\ same \in [Reqs -> BOOLEAN]
    /\ buffer_length \in 0 .. MaxLen /\ actual_length \in 0 .. buffer_length
    /\ actual_length = buffer_length => buffer_length = 0 \/ (zero_packet /\ ~to_host)
    /\ length \in [Reqs -> 0 .. MaxLen] /\ actual \in [Reqs -> 0 .. MaxLen]
    /\ \A r \in Reqs :
          /\ actual[r] <= length[r]
          /\ actual[r] = length[r] => length[r] = 0 \/ (zero[r] /\ to_host)
          /\ same[r] /\ (\E q \in Reqs : q < r /\ same[q]) => actual[r] = 0
    /\ queue = [i \in Reqs |-> i]
    /\ at = 1
    /\ limit \in 1 .. MaxLen /\ sent = 0
    /\ status = "EINPROGRESS" /\ req_status = [r \in Reqs |-> "EINPROGRESS"]
    /\ short = FALSE /\ failed = FALSE /\ requeued = 0
    /\ pc = "loop"
-----------------------------------------------------------------------------
Least(a, b) == IF a <= b THEN a ELSE b

HostLen == buffer_length - actual_length
DevLen(r) == length[r] - actual[r]
\* Broken variant of Want: the room in the URB is not considered.
Want_DevOnly(r) == DevLen(r)
Want(r) == Least(HostLen, DevLen(r))
\* Broken variant of Chunk: the limit is not considered.
Chunk_NoLimit(r) == Want(r)
Chunk(r) == Least(Want(r), limit)

\* "not enough bandwidth left?"
NoBandwidth(r) ==
    /\ Want(r) > 0
    /\ (limit < maxpacket /\ limit < Want(r)) \/ Chunk(r) = 0

\* Broken variant of IsShort: a zero-length packet does not count.
IsShort_NotEmpty(r) == Chunk(r) \in 1 .. maxpacket - 1
IsShort(r) == Chunk(r) < maxpacket

\* "send multiple of maxpacket first, then remainder"
Bytes(r) == IF IsShort(r) THEN Chunk(r) ELSE Chunk(r) - (Chunk(r) % maxpacket)
\* Broken variant of Remainder: no rescan for the remainder.
Remainder_Never(r) == FALSE
Remainder(r) == ~IsShort(r) /\ (Chunk(r) % maxpacket) # 0

\* How the two sides end, by a short packet or after n bytes: the status of the URB and of
\* request r.
\* Broken variant of ShortEnd: equal lengths count as an overflow.
ShortEnd_OrEqual(r) ==
    IF to_host
    THEN [urb |-> IF DevLen(r) >= HostLen THEN "EOVERFLOW" ELSE "OK", req |-> "OK"]
    ELSE [urb |-> "OK", req |-> IF HostLen > DevLen(r) THEN "EOVERFLOW" ELSE "OK"]
ShortEnd(r) ==
    IF to_host
    THEN [urb |-> IF DevLen(r) > HostLen THEN "EOVERFLOW" ELSE "OK", req |-> "OK"]
    ELSE [urb |-> "OK", req |-> IF HostLen > DevLen(r) THEN "EOVERFLOW" ELSE "OK"]
\* Broken variants of FullEnd: one side is ended by the other being full.
FullEnd_UrbWithReq(r, n) ==
    LET e == IF actual[r] + n = length[r] THEN "OK" ELSE "EINPROGRESS"
    IN  [urb |-> e, req |-> e]
FullEnd_ReqWithUrb(r, n) ==
    LET e == IF actual_length + n = buffer_length THEN "OK" ELSE "EINPROGRESS"
    IN  [urb |-> e, req |-> e]
FullEnd(r, n) ==
    [urb |-> IF actual_length + n = buffer_length /\ (to_host \/ ~zero_packet)
             THEN "OK" ELSE "EINPROGRESS",
     req |-> IF actual[r] + n = length[r] /\ ~(to_host /\ zero[r])
             THEN "OK" ELSE "EINPROGRESS"]
\* A zero-length packet has to follow: the flags ask for it.
ZlpDue(r, n) ==
    \/ actual_length + n = buffer_length /\ ~to_host /\ zero_packet
    \/ actual[r] + n = length[r] /\ to_host /\ zero[r]

\* The loop goes on: after the request was finished, from the top if rescan, or with the
\* request behind r.
After(r, end, rescan) ==
    /\ status' = end.urb
    /\ req_status' = [req_status EXCEPT ![r] = end.req]
    /\ \/ /\ end.req # "EINPROGRESS"
          /\ queue' = RemoveAt(queue, at)
          /\ pc' = "giveback" /\ at' = 1
       \/ /\ end.req = "EINPROGRESS"
          /\ queue' = queue
          /\ pc' = IF end.urb = "EINPROGRESS" THEN "loop" ELSE "done"
          /\ at' = IF rescan THEN 1 ELSE at + 1

\* A request of another stream is passed over.
Skip ==
    /\ pc = "loop" /\ at <= Len(queue) /\ ~same[queue[at]]
    /\ at' = at + 1
    /\ UNCHANGED <<fixed, actual_length, status, actual, req_status, queue, limit, sent, short,
                   failed, requeued, pc>>

\* An iteration that moves the bytes of request r.
Move(r) ==
    LET n == Bytes(r)
        end == IF IsShort(r) THEN ShortEnd(r) ELSE FullEnd(r, n)
    IN  /\ ~NoBandwidth(r)
        /\ actual_length' = actual_length + n
        /\ actual' = [actual EXCEPT ![r] = @ + n]
        /\ limit' = limit - n /\ sent' = sent + n
        /\ short' = IsShort(r) /\ failed' = FALSE
        /\ After(r, end, Remainder(r) \/ (~IsShort(r) /\ ZlpDue(r, n)))
        /\ UNCHANGED <<fixed, requeued>>

\* dummy_perform_transfer() fails: the scatter-gather list ends early.  The error is the
\* request's status, unless the packet was a short one, whose end overwrites it.
MoveFails(r) ==
    LET full == FullEnd(r, 0)
    IN  /\ ~NoBandwidth(r) /\ Bytes(r) > 0
        /\ short' = IsShort(r) /\ failed' = TRUE
        /\ After(r, IF IsShort(r) THEN ShortEnd(r) ELSE [full EXCEPT !.req = "EINVAL"], TRUE)
        /\ UNCHANGED <<fixed, actual_length, actual, limit, sent, requeued>>

Iterate ==
    /\ pc = "loop" /\ at <= Len(queue) /\ same[queue[at]]
    /\ Move(queue[at]) \/ MoveFails(queue[at])

\* The device is NAKing, the list is at its end, or the bandwidth is used up.
Leave ==
    /\ pc = "loop"
    /\ at <= Len(queue) => same[queue[at]] /\ NoBandwidth(queue[at])
    /\ pc' = "done"
    /\ UNCHANGED <<fixed, actual_length, status, actual, req_status, queue, at, limit, sent,
                   short, failed, requeued>>

\* The completion handler has run; it may have queued its request r again.
GivebackReturn ==
    /\ pc = "giveback"
    /\ pc' = IF status = "EINPROGRESS" THEN "loop" ELSE "done"
    /\ \/ UNCHANGED <<queue, actual, req_status, requeued>>
       \/ \E r \in Reqs \ Range(queue) :
             /\ req_status[r] # "EINPROGRESS" /\ requeued < MaxRequeue
             /\ queue' = Append(queue, r)
             /\ actual' = [actual EXCEPT ![r] = 0]
             /\ req_status' = [req_status EXCEPT ![r] = "EINPROGRESS"]
             /\ requeued' = requeued + 1
    /\ UNCHANGED <<fixed, actual_length, status, at, limit, sent, short, failed>>

\* dummy_dequeue() of another request while the lock is released.
Dequeue(i) ==
    /\ pc = "giveback"
    /\ queue' = RemoveAt(queue, i)
    /\ req_status' = [req_status EXCEPT ![queue[i]] = "ECONNRESET"]
    /\ UNCHANGED <<fixed, actual_length, status, actual, at, limit, sent, short, failed,
                   requeued, pc>>

Next ==
    \/ Skip
    \/ Iterate
    \/ Leave
    \/ GivebackReturn
    \/ \E i \in 1 .. Len(queue) : Dequeue(i)

Spec == Init /\ [][Next]_vars
FairSpec == Spec /\ WF_vars(Skip \/ Iterate \/ Leave \/ GivebackReturn)
-----------------------------------------------------------------------------
(* Properties.                                                             *)

\* Neither the URB's buffer nor a request's is overrun, whatever the lengths.
InBounds ==
    /\ actual_length <= buffer_length
    /\ \A r \in Reqs : actual[r] <= length[r]

\* USB rule for the host: an URB ends without error only when it is full or after a short
\* packet, and with an overflow only when reading, from a device that has more than was
\* taken, and full, unless the data of that last packet could not be copied.
UrbEnd ==
    /\ status = "OK" => actual_length = buffer_length \/ short
    /\ status = "EOVERFLOW" =>
          /\ to_host /\ (actual_length = buffer_length \/ failed)
          /\ \E r \in Reqs : same[r] /\ actual[r] < length[r]

\* The same for the gadget: a request ends without error only when it is full or was cut
\* by a short packet or by the end of the URB.
ReqEnd ==
    \A r \in Reqs : req_status[r] = "OK" => actual[r] = length[r] \/ short

\* transfer() returns: each round moves data or finishes one side.  Completion handlers queue
\* no more than MaxRequeue requests meanwhile: nothing in the code bounds a handler that
\* queues a request again each time its data could not be copied.
Returns == <>(pc = "done")

\* Requests of a stream are served in their order: a request that an iteration finishes is the
\* first one of its stream, whatever was transferred of those of other streams in front of it.
\* Empty requests are the exception: they skip the bandwidth check, so that one behind a
\* request that has used up the limit ends the URB in its place.
InOrder ==
    [][pc = "loop" /\ pc' = "giveback" /\ length[queue[at]] > 0 =>
         \A i \in 1 .. at - 1 : ~same[queue[i]]]_vars
=============================================================================
