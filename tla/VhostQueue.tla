----------------------------- MODULE VhostQueue -----------------------------
(***************************************************************************)
(* One queue of the vhost-user frontend: UbiBlkBackendThread and            *)
(* handle_event of backends/vhost, over an io_uring channel, with the       *)
(* virtqueue and a driver around it.                                        *)
(*                                                                          *)
(* The guest makes each chain of Requests available once.  The driver kicks *)
(* and the device interrupts according to EVENT_IDX when it is negotiated.  *)
(* process_queue is one action per popped chain, then SubmitIo, then        *)
(* PollIo, which also signals.  Sector addresses and data are left out; a   *)
(* chain's data length is in units of a buffer segment.                     *)
(***************************************************************************)
EXTENDS UringChannel, VirtioRequest, FiniteSetsExt

CONSTANTS ChainOf,      \* the chain of each request, as the guest builds it
          DataLen,      \* what request_len computes for it
          Aligned,      \* requests whose length is a multiple of SECTOR_SIZE
          BufSize,      \* seg_count_max * seg_size_max
          Slots,        \* tuning.queue_size
          TrackedSlots, \* slots of the I/O tracker: queue_size + EXTRA_TRACKING_SLOTS
          EventIdx

VARIABLES
    avail,               \* chains the guest made available and not yet popped
    avail_idx,           \* how many it ever made available
    avail_event,         \* the device wants a kick when avail_idx passes this
    kick,                \* the kick eventfd
    used,                \* the used ring, as all that was ever put there
    used_event,          \* the guest wants an interrupt when used passes this
    signalled_used,      \* length of used at the last needs_notification
    irq,                 \* the call eventfd
    request_slots,       \* sequence of [used, len, req]
    tracker,             \* IoTracker: kind of I/O per tracked slot
    ios_pending_signal,
    phase,               \* where handle_event is
    step,                \* where process_queue is
    pq_busy              \* its local variable busy
guestVars == <<avail, avail_idx, kick, used_event, irq>>
slotVars == <<request_slots, tracker>>
threadVars == <<phase, step, pq_busy>>
vVars == <<ringVars, avail, avail_idx, avail_event, kick, used, used_event, signalled_used,
           irq, slotVars, ios_pending_signal, threadVars>>

VInit ==
    /\ RingInit
    /\ avail = <<>> /\ avail_idx = 0 /\ avail_event = 0 /\ kick = FALSE
    /\ used = <<>> /\ used_event = 0 /\ signalled_used = 0 /\ irq = FALSE
    /\ request_slots = [i \in 1 .. Slots |-> [used |-> FALSE, len |-> BufSize, req |-> NoRequest]]
    /\ tracker = [i \in 1 .. TrackedSlots |-> "none"]
    /\ ios_pending_signal = FALSE
    /\ phase = "idle" /\ step = "pop" /\ pq_busy = FALSE

-----------------------------------------------------------------------------
(* The driver in the guest.                                                *)

Returned == {u.req : u \in ToSet(used)}

GuestAdds(r) ==
    /\ r \notin ToSet(avail) \cup Returned
    /\ ~\E i \in DOMAIN request_slots : request_slots[i].used /\ request_slots[i].req = r
    /\ avail' = Append(avail, r)
    /\ avail_idx' = avail_idx + 1
    /\ kick' = (kick \/ ~EventIdx \/ avail_event = avail_idx)
    /\ UNCHANGED <<ringVars, avail_event, used, used_event, signalled_used, irq, slotVars,
                   ios_pending_signal, threadVars>>

\* The interrupt handler takes everything from the used ring and asks for an
\* interrupt for the next entry.
GuestReaps ==
    /\ irq
    /\ irq' = FALSE
    /\ used_event' = Len(used)
    /\ UNCHANGED <<ringVars, avail, avail_idx, avail_event, kick, used, signalled_used,
                   slotVars, ios_pending_signal, threadVars>>

-----------------------------------------------------------------------------
(* Slots and their tracker.                                                *)

\* Mutant of Fits: a slot in use is given away again.
FitsInUse(i, len) == request_slots[i].len >= len

Fits(i, len) == request_slots[i].len >= len /\ ~request_slots[i].used

\* get_request_slot: the first free slot that is large enough, or a new one.
get_request_slot(len) ==
    IF \E i \in DOMAIN request_slots : Fits(i, len)
      THEN Min({i \in DOMAIN request_slots : Fits(i, len)})
      ELSE Len(request_slots) + 1

SlotTaken(i, len, r) ==
    request_slots' =
        IF i \in DOMAIN request_slots
          THEN [request_slots EXCEPT ![i] = [used |-> TRUE, len |-> @.len, req |-> r]]
          ELSE Append(request_slots, [used |-> TRUE, len |-> len, req |-> r])

\* IoTracker::add_read, add_write, add_flush and clear: slots beyond the
\* tracked ones are only logged.
Track(i, kind) ==
    tracker' = [t \in DOMAIN tracker |-> IF t = i THEN kind ELSE tracker[t]]

\* Mutant of PutSlots: the slot stays in use.
PutSlotsLeaks(S) ==
    /\ UNCHANGED request_slots
    /\ tracker' = [t \in DOMAIN tracker |-> IF t \in S THEN "none" ELSE tracker[t]]

\* put_request_slot for a set of slots.
PutSlots(S) ==
    /\ request_slots' = [i \in DOMAIN request_slots |->
           LET s == request_slots[i]
           IN  IF i \in S THEN [used |-> FALSE, len |-> s.len, req |-> s.req] ELSE s]
    /\ tracker' = [t \in DOMAIN tracker |-> IF t \in S THEN "none" ELSE tracker[t]]

\* complete_io and complete_bad_chain: only the first asks for a signal.
CompleteIo(r, status) ==
    /\ used' = Append(used, [req |-> r, status |-> status])
    /\ ios_pending_signal' = TRUE
CompleteBadChain(r) ==
    /\ used' = Append(used, [req |-> r, status |-> "unwritten"])
    /\ UNCHANGED ios_pending_signal

-----------------------------------------------------------------------------
(* process_queue.                                                          *)

Running == phase \in {"poll", "armed", "last"}

Popped(r) ==
    /\ Running /\ step = "pop"
    /\ avail # <<>> /\ r = Head(avail)
    /\ avail' = Tail(avail)
    /\ pq_busy' = TRUE
    /\ UNCHANGED <<avail_idx, avail_event, kick, used_event, signalled_used, irq, phase, step>>

ProcessBadChain(r) ==
    /\ Popped(r)
    /\ Parse(ChainOf[r]).error # "none"
    /\ CompleteBadChain(r)
    /\ UNCHANGED <<ringVars, slotVars>>

\* A request that is answered at once: a length that is no multiple of the
\* sector size, an unknown type, or the device id.
ProcessAtOnce(r) ==
    /\ Popped(r)
    /\ Parse(ChainOf[r]).error = "none"
    /\ UNCHANGED <<ringVars, slotVars>>
    /\ LET type == Parse(ChainOf[r]).type IN
       \/ type \in {"In", "Out"} /\ r \notin Aligned /\ CompleteIo(r, "ioerr")
       \/ type \in {"Discard", "WriteZeroes", "Unsupported"} /\ CompleteIo(r, "unsupp")
       \/ /\ type = "GetDeviceID"
          /\ \E status \in {"ok", "ioerr"} : CompleteIo(r, status)

\* process_read, process_write and process_flush.
ProcessIo(r) ==
    /\ Popped(r)
    /\ Parse(ChainOf[r]).error = "none"
    /\ LET type == Parse(ChainOf[r]).type
           len  == IF type = "Flush" THEN 0 ELSE DataLen[r]
           id   == get_request_slot(len)
           e    == [id |-> id, req |-> r]
       IN  /\ type \in {"In", "Out", "Flush"}
           /\ type # "Flush" => r \in Aligned
           /\ SlotTaken(id, len, r)
           /\ Track(id, type)
           /\ IF type = "Flush" THEN RingAddFlush(e) ELSE RingAdd(e)
    /\ UNCHANGED <<used, ios_pending_signal>>

\* process_write when the data cannot be read from guest memory: the slot is
\* taken, the chain completed and the slot put back.
ProcessWriteFails(r) ==
    /\ Popped(r)
    /\ Parse(ChainOf[r]).error = "none" /\ Parse(ChainOf[r]).type = "Out" /\ r \in Aligned
    /\ CompleteIo(r, "ioerr")
    /\ LET id == get_request_slot(DataLen[r])
       IN  request_slots' =
             IF id \in DOMAIN request_slots
               THEN [request_slots EXCEPT ![id] = [used |-> FALSE, len |-> @.len, req |-> r]]
               ELSE Append(request_slots, [used |-> FALSE, len |-> DataLen[r], req |-> r])
    /\ UNCHANGED <<ringVars, tracker>>

SubmitIo(ok) ==
    /\ Running /\ step = "pop" /\ avail = <<>>
    /\ step' = "poll"
    /\ RingSubmit(ok)
    /\ UNCHANGED <<guestVars, avail_event, used, signalled_used, slotVars,
                   ios_pending_signal, phase, pq_busy>>

\* poll_io: a chain is completed for every answer.
PolledIds == {a.id : a \in ToSet(Polled)}
UsedByPoll ==
    [k \in 1 .. Len(Polled) |->
        [req |-> request_slots[Polled[k].id].req,
         status |-> IF Polled[k].ok THEN "ok" ELSE "ioerr"]]

\* needs_notification of the virtqueue (external): used passed used_event
\* since the last call.
NeedsNotification(before, after) ==
    before <= used_event /\ used_event < after

\* Where handle_event goes when process_queue returns busy or not.  The
\* first loop goes on for poll_timeout_us after the last busy round, so it
\* may go on when it is not busy, but not stop when it is.
AfterRound(busy) ==
    CASE phase = "poll"  -> IF busy THEN {"poll"}
                            ELSE {"poll", IF EventIdx THEN "enable" ELSE "last"}
      [] phase = "armed" -> IF busy THEN {"enable"} ELSE {"idle"}
      [] phase = "last"  -> {"idle"}

PollIo ==
    /\ Running /\ step = "poll"
    /\ RingPoll
    /\ PutSlots(PolledIds)
    /\ used' = used \o UsedByPoll
    /\ LET pending_signal == ios_pending_signal \/ Polled # <<>>
           asks == pending_signal /\ EventIdx
           needs == pending_signal /\ (~EventIdx \/ NeedsNotification(signalled_used, Len(used')))
       IN  /\ signalled_used' = IF asks THEN Len(used') ELSE signalled_used
           /\ irq' = (irq \/ needs)
           /\ ios_pending_signal' = (pending_signal /\ ~needs)
    /\ phase' \in AfterRound(pq_busy \/ ring_busy')
    /\ step' = "pop" /\ pq_busy' = FALSE
    /\ UNCHANGED <<avail, avail_idx, avail_event, kick, used_event>>

-----------------------------------------------------------------------------
(* handle_event.  The event loop consumes the kick before it calls it.      *)

HandleEvent ==
    /\ phase = "idle" /\ kick
    /\ kick' = FALSE
    /\ phase' = "poll"
    /\ UNCHANGED <<ringVars, avail, avail_idx, avail_event, used, used_event,
                   signalled_used, irq, slotVars, ios_pending_signal, step, pq_busy>>

\* Mutant of EnableNotification: the queue is not looked at again.
EnableAndSleep ==
    /\ phase = "enable"
    /\ avail_event' = avail_idx - Len(avail)
    /\ phase' = "idle"
    /\ UNCHANGED <<ringVars, guestVars, used, signalled_used, slotVars, ios_pending_signal,
                   step, pq_busy>>

\* enable_notification: the next kick is for the chain after the last popped.
EnableNotification ==
    /\ phase = "enable"
    /\ avail_event' = avail_idx - Len(avail)
    /\ phase' = "armed"
    /\ UNCHANGED <<ringVars, guestVars, used, signalled_used, slotVars, ios_pending_signal,
                   step, pq_busy>>

DeviceAnswers(e, ok) ==
    /\ KernelAnswers(e, ok)
    /\ UNCHANGED <<guestVars, avail_event, used, signalled_used, slotVars,
                   ios_pending_signal, threadVars>>

Process(r) ==
    \/ ProcessBadChain(r) \/ ProcessAtOnce(r) \/ ProcessIo(r) \/ ProcessWriteFails(r)

ThreadStep ==
    \/ \E r \in Requests : Process(r)
    \/ \E ok \in BOOLEAN : SubmitIo(ok)
    \/ PollIo \/ HandleEvent \/ EnableNotification

DeviceStep == \E e \in kernel, ok \in BOOLEAN : DeviceAnswers(e, ok)

VNext == (\E r \in Requests : GuestAdds(r)) \/ GuestReaps \/ ThreadStep \/ DeviceStep

VSpec == VInit /\ [][VNext]_vVars

-----------------------------------------------------------------------------
SlotRecord == [used : BOOLEAN, len : Nat, req : Requests \cup {NoRequest}]
UsedRecord == [req : Requests, status : {"ok", "ioerr", "unsupp", "unwritten"}]

VTypeOK ==
    /\ avail \in Seq(Requests) /\ avail_idx \in Nat /\ avail_event \in Nat
    /\ used \in Seq(UsedRecord)
    /\ used_event \in 0 .. Len(used) /\ signalled_used \in 0 .. Len(used)
    /\ request_slots \in Seq(SlotRecord)
    /\ \A i \in DOMAIN request_slots : request_slots[i].used => request_slots[i].req \in Requests
    /\ DOMAIN tracker = 1 .. TrackedSlots
    /\ phase \in {"idle", "poll", "enable", "armed", "last"} /\ step \in {"pop", "poll"}
    /\ {pq_busy, kick, irq, ios_pending_signal} \subseteq BOOLEAN

UsedSlots == {i \in DOMAIN request_slots : request_slots[i].used}

\* A chain that was popped is in one slot or was returned, once and never both:
\* get_request_slot, poll_io and put_request_slot lose and double nothing, also
\* when the submission queue is full or a submit fails.
ChainsConserved ==
    /\ \A i, j \in UsedSlots : request_slots[i].req = request_slots[j].req => i = j
    /\ \A i \in UsedSlots : request_slots[i].req \notin Returned \cup ToSet(avail)
    /\ Cardinality(UsedSlots) + Len(used) + Len(avail) = avail_idx
    /\ Cardinality(Returned) = Len(used)

\* The slot of an answer holds the request the answer is for, and holds it
\* until then: the buffer of a slot is not reused while the kernel has it.
SlotsHeldByKernel ==
    \A e \in kernel \cup ToSet(sq) \cup ToSet(Polled) :
        e.id \in UsedSlots /\ request_slots[e.id].req = e.req

\* The tracker shows exactly the slots in use, except those it has no room for.
TrackerMatchesSlots ==
    \A t \in DOMAIN tracker :
        tracker[t] = IF t \in UsedSlots THEN Parse(ChainOf[request_slots[t].req]).type
                                        ELSE "none"

\* The thread sleeps only when nothing is left to do or a kick will wake it.
NoLostKick ==
    phase = "idle" => kick \/ (avail = <<>> /\ UsedSlots = {})

\* The guest has been told of every completed request it asked to be told of.
\* Chains that cannot be parsed are not signalled (complete_bad_chain).
Told == irq \/ \A k \in used_event + 1 .. Len(used) : used[k].status = "unwritten"

\* When the thread sleeps, a completed request has been or will be seen by the
\* guest.
NoLostInterrupt == phase = "idle" => Told

-----------------------------------------------------------------------------
(* The queue as an owner of the ring.                                      *)

SlotOf == [i \in Ids |-> IF i \in UsedSlots THEN request_slots[i].req ELSE NoRequest]
Taken  == Returned \cup {request_slots[i].req : i \in UsedSlots}

Owner == INSTANCE UringOwner WITH
    slot <- SlotOf, issued <- Taken, answered <- Returned, GivesUp <- FALSE

\* The thread uses the channel as bdev_uring.rs asks its owners to: a slot is
\* given to a new request only when the channel has answered for the last one,
\* and a chain is answered by the channel or by the thread, never by both.
KeepsRingContract == Owner!USpec

-----------------------------------------------------------------------------
(* The inductive invariant behind these properties.                        *)

\* The chains the guest has made available.
Known == ToSet(avail) \cup Taken

\* Each is in one place, and there is a slot for each id that is used.
ChainsOnce ==
    /\ \A j, k \in DOMAIN avail : avail[j] = avail[k] => j = k
    /\ \A j, k \in DOMAIN used : used[j].req = used[k].req => j = k
    /\ \A j \in DOMAIN avail : avail[j] \notin Taken
    /\ \A i \in UsedSlots : request_slots[i].req \notin Returned
    /\ Cardinality(UsedSlots) + Len(used) + Len(avail) = avail_idx
    /\ Cardinality(Known) = avail_idx
    /\ Len(request_slots) + Len(avail) <= Slots + avail_idx

\* With EVENT_IDX, a kick is due for the chain after those that were available
\* when the thread last looked; while it looks again it either finds that chain
\* or is still to be kicked for it.  Without, every chain comes with a kick.
KickDue ==
    /\ avail_event + Len(avail) <= avail_idx
    /\ Running \/ (step = "pop" /\ ~pq_busy)
    /\ EventIdx /\ phase = "armed" =>
          kick \/ avail_event = avail_idx \/ pq_busy \/ (step = "pop" /\ avail # <<>>)
    /\ EventIdx /\ phase = "idle" => kick \/ avail_event = avail_idx
    /\ EventIdx => phase # "last"
    /\ ~EventIdx => phase \notin {"enable", "armed"}
    /\ ~EventIdx /\ Running /\ step = "poll" /\ avail # <<>> => kick
    /\ ~EventIdx /\ phase = "last" => kick \/ (avail = <<>> /\ UsedSlots = {} /\ ~pq_busy)
    /\ NoLostKick

\* A completed request the guest is not told of is remembered by the thread,
\* and since the last round by what the round completes.
InterruptDue ==
    /\ Told \/ ios_pending_signal
    /\ Told \/ pq_busy
    /\ EventIdx /\ signalled_used > used_event => irq

VInv ==
    /\ VTypeOK
    /\ Owner!UInv
    /\ ChainsOnce
    /\ TrackerMatchesSlots
    /\ KickDue
    /\ InterruptDue
=============================================================================
