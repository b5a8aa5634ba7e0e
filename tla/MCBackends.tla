---------------------------- MODULE MCBackends ----------------------------
(*****************************************************************************)
(* The frontends, their queues and what they run on, side by side: part says *)
(* which component this behaviour is about, the variables it does not have are *)
(* 0.  Data-path parts, for safety:                                          *)
(*   virtio       Request::parse of every chain of up to four descriptors;   *)
(*   vhost        a vhost queue: one slot, one entry in the ring, two tracked *)
(*                slots, EVENT_IDX, one failed or short submit;              *)
(*   ublk_fault   a ublk queue with a failed submit and an oversized request; *)
(*   uring        an io_uring channel: three ids over a queue of two entries; *)
(*   crypt        an encrypting channel;                                     *)
(*   tracking     the I/O tracker and its RPC reader: one tracked slot, one  *)
(*                beyond it.                                                 *)
(* Parts with threads that must get on:                                      *)
(*   vhost_live   no EVENT_IDX, no failed submits;                           *)
(*   ublk         two tags, no failed submits;                               *)
(*   device       serve_ublk, its Ctrl-C handler and its link;               *)
(*   loop         run_backend_loop, the worker and the RPC listener.         *)
(*****************************************************************************)
EXTENDS Integers, Sequences, FiniteSets, TLAPS

CONSTANTS
    Parts,
    MaxDescriptors,                   \* bound: descriptors of a chain to parse
    read, write, flush, getid, none,  \* kinds of request, and no request
    Chains, QueueSlots, TrackedSlots, \* of a vhost queue; of the tracker, QueueSlots
    Commands, Oversized, Tags,        \* of a ublk queue
    Ids, Requests,                    \* of a channel
    Narrow, Wide,                     \* entries of a submission queue
    Buffers, SectorCount              \* of an encrypting channel

ASSUME BackendsAssumption ==
    /\ none \notin Chains \cup Commands \cup Requests
    /\ IsFiniteSet(Chains)
    /\ {QueueSlots, TrackedSlots, Narrow, Wide, SectorCount, MaxDescriptors} \subseteq Nat

VARIABLES
    part,
    chain, parsed,
    sq, pending, submissions, completions, finished_requests, kernel, cq, faults,
    avail, avail_idx, avail_event, kick, used, used_event, signalled_used, irq,
    request_slots, ios_pending_signal, phase, pq_busy,
    tracker, step,
    tag_req, fetched, batch, pending_requests, inflight_requests, done, queued,
    slot, issued, answered,
    sync, disk, buf, inflight, finished, read_requests, owned, plain, ops,
    mem, todo, live, ios, view, loads, entry, response, seen,
    requests,
    main, handler, device, queue, link, made,
    pc, conf, env, worker, startup, io, files, listener, serves, runs

-----------------------------------------------------------------------------
Descr(w) == [write_only |-> w, len |-> 1, mapped |-> TRUE]
Chain(type, desc) == [type |-> type, sector |-> 0, desc |-> desc]
ChainOf ==
    [r \in Chains |->
        CASE r = read  -> Chain("In",    <<Descr(FALSE), Descr(TRUE), Descr(TRUE)>>)
          [] r = write -> Chain("Out",   <<Descr(FALSE), Descr(FALSE), Descr(TRUE)>>)
          [] r = flush -> Chain("Flush", <<Descr(FALSE), Descr(TRUE)>>)
          [] r = getid -> Chain("GetDeviceID", <<Descr(FALSE), Descr(TRUE), Descr(TRUE)>>)
          [] OTHER     -> Chain("In",    <<Descr(FALSE), Descr(FALSE)>>)]
DataLen == [r \in Chains |-> CASE r = write -> 2 [] r = flush -> 0 [] OTHER -> 1]
SlotIds == 1 .. QueueSlots + Cardinality(Chains)
OpOf == [r \in Commands |->
            CASE r = read -> "Read" [] r = write -> "Write"
              [] r = flush -> "Flush" [] OTHER -> "Unsupported"]

V == INSTANCE VhostQueueProofs WITH
    Ids <- SlotIds, Requests <- Chains, NoRequest <- none, QueueSize <- Narrow,
    SyncIo <- FALSE, Slots <- QueueSlots, MaxFaults <- 1,
    Aligned <- Chains, BufSize <- 1, EventIdx <- TRUE
VL == INSTANCE VhostQueue WITH
    Ids <- SlotIds, Requests <- Chains, NoRequest <- none, QueueSize <- Narrow,
    SyncIo <- FALSE, Slots <- QueueSlots, MaxFaults <- 0,
    Aligned <- Chains, BufSize <- 1, EventIdx <- FALSE
Q == INSTANCE UblkQueueProofs WITH
    Ids <- Tags, Requests <- Commands, NoRequest <- none, QueueSize <- Narrow,
    SyncIo <- FALSE, MaxFaults <- 0, Oversized <- {}
QF == INSTANCE UblkQueueProofs WITH
    Ids <- Tags, Requests <- Commands, NoRequest <- none, QueueSize <- Wide,
    SyncIo <- FALSE, MaxFaults <- 2
U == INSTANCE UringOwnerProofs WITH
    NoRequest <- none, QueueSize <- Wide, SyncIo <- TRUE, MaxFaults <- 2, GivesUp <- FALSE
C == INSTANCE CryptChannelProofs WITH Ids <- Buffers, MaxOps <- 3
T == INSTANCE IoTrackingProofs WITH
    SlotCount <- QueueSlots, RequestSlots <- 0 .. QueueSlots, MaxIos <- 3, MaxRequests <- 2
D == INSTANCE UblkDevice WITH
    Symlink <- TRUE, Queues <- 2
B == INSTANCE BackendLoop WITH
    MaxFetches <- 2, MaxRuns <- 2, MaxServes <- 2

-----------------------------------------------------------------------------
Unparsed == [error |-> "unparsed"]
PInit == chain \in (UNION {V!Chain(n) : n \in 0 .. MaxDescriptors}) /\ parsed = Unparsed
PNext == parsed = Unparsed /\ parsed' = V!Parse(chain) /\ UNCHANGED chain

VirtioVars == <<chain, parsed>>
RingVars ==
    <<sq, pending, submissions, completions, finished_requests, kernel, cq, faults>>
VhostVars ==
    <<avail, avail_idx, avail_event, kick, used, used_event, signalled_used, irq,
    request_slots, ios_pending_signal, phase, pq_busy>>
QueueVars == <<tracker, step>>
UblkVars ==
    <<tag_req, fetched, batch, pending_requests, inflight_requests, done, queued>>
OwnerVars == <<slot, issued, answered>>
CryptVars ==
    <<sync, disk, buf, inflight, finished, read_requests, owned, plain, ops>>
TrackingVars ==
    <<mem, todo, live, ios, view, loads, entry, response, seen>>
ChannelVars == <<requests>>
DeviceVars ==
    <<main, handler, device, queue, link, made>>
LoopVars ==
    <<pc, conf, env, worker, startup, io, files, listener, serves, runs>>

NoVirtio == chain = 0 /\ parsed = 0
NoRing ==
    /\ sq = 0 /\ pending = 0 /\ submissions = 0 /\ completions = 0
    /\ finished_requests = 0 /\ kernel = 0 /\ cq = 0 /\ faults = 0
NoVhost ==
    /\ avail = 0 /\ avail_idx = 0 /\ avail_event = 0 /\ kick = 0 /\ used = 0
    /\ used_event = 0 /\ signalled_used = 0 /\ irq = 0 /\ request_slots = 0
    /\ ios_pending_signal = 0 /\ phase = 0 /\ pq_busy = 0
NoQueue == tracker = 0 /\ step = 0
NoUblk ==
    /\ tag_req = 0 /\ fetched = 0 /\ batch = 0 /\ pending_requests = 0
    /\ inflight_requests = 0 /\ done = 0 /\ queued = 0
NoOwner ==
    /\ slot = 0 /\ issued = 0 /\ answered = 0
NoCrypt ==
    /\ sync = 0 /\ disk = 0 /\ buf = 0 /\ inflight = 0 /\ finished = 0
    /\ read_requests = 0 /\ owned = 0 /\ plain = 0 /\ ops = 0
NoTracking ==
    /\ mem = 0 /\ todo = 0 /\ live = 0 /\ ios = 0 /\ view = 0 /\ loads = 0 /\ entry = 0
    /\ response = 0 /\ seen = 0
NoChannel == requests = 0
NoDevice ==
    /\ main = 0 /\ handler = 0 /\ device = 0 /\ queue = 0 /\ link = 0 /\ made = 0
NoLoop ==
    /\ pc = 0 /\ conf = 0 /\ env = 0 /\ worker = 0 /\ startup = 0 /\ io = 0 /\ files = 0
    /\ listener = 0 /\ serves = 0 /\ runs = 0

Init ==
    /\ part \in Parts
    /\ \/ part = "virtio" /\ PInit
       \/ part = "vhost" /\ V!VInit
       \/ part = "vhost_live" /\ VL!VInit
       \/ part = "ublk" /\ Q!QInit
       \/ part = "ublk_fault" /\ QF!QInit
       \/ part = "uring" /\ U!UInit
       \/ part = "crypt" /\ C!CInit
       \/ part = "tracking" /\ T!IInit
       \/ part = "device" /\ D!UInit
       \/ part = "loop" /\ B!BInit
    /\ IF part = "virtio" THEN TRUE ELSE NoVirtio
    /\ IF part \in {"vhost", "vhost_live", "ublk", "ublk_fault", "uring"} THEN TRUE ELSE NoRing
    /\ IF part \in {"vhost", "vhost_live"} THEN TRUE ELSE NoVhost
    /\ IF part \in {"vhost", "vhost_live", "ublk", "ublk_fault"} THEN TRUE ELSE NoQueue
    /\ IF part \in {"ublk", "ublk_fault"} THEN TRUE ELSE NoUblk
    /\ IF part = "uring" THEN TRUE ELSE NoOwner
    /\ IF part = "crypt" THEN TRUE ELSE NoCrypt
    /\ IF part = "tracking" THEN TRUE ELSE NoTracking
    /\ IF part \in {"tracking", "loop"} THEN TRUE ELSE NoChannel
    /\ IF part = "device" THEN TRUE ELSE NoDevice
    /\ IF part = "loop" THEN TRUE ELSE NoLoop

Next ==
    /\ UNCHANGED part
    /\ \/ part = "virtio" /\ PNext
       \/ part = "vhost" /\ V!VNext
       \/ part = "vhost_live" /\ VL!VNext
       \/ part = "ublk" /\ Q!QNext
       \/ part = "ublk_fault" /\ QF!QNext
       \/ part = "uring" /\ U!UNext
       \/ part = "crypt" /\ C!CNext
       \/ part = "tracking" /\ T!INext
       \/ part = "device" /\ D!UNext
       \/ part = "loop" /\ B!BNext
    /\ IF part = "virtio" THEN TRUE ELSE UNCHANGED VirtioVars
    /\ IF part \in {"vhost", "vhost_live", "ublk", "ublk_fault", "uring"} THEN TRUE ELSE UNCHANGED RingVars
    /\ IF part \in {"vhost", "vhost_live"} THEN TRUE ELSE UNCHANGED VhostVars
    /\ IF part \in {"vhost", "vhost_live", "ublk", "ublk_fault"} THEN TRUE ELSE UNCHANGED QueueVars
    /\ IF part \in {"ublk", "ublk_fault"} THEN TRUE ELSE UNCHANGED UblkVars
    /\ IF part = "uring" THEN TRUE ELSE UNCHANGED OwnerVars
    /\ IF part = "crypt" THEN TRUE ELSE UNCHANGED CryptVars
    /\ IF part = "tracking" THEN TRUE ELSE UNCHANGED TrackingVars
    /\ IF part \in {"tracking", "loop"} THEN TRUE ELSE UNCHANGED ChannelVars
    /\ IF part = "device" THEN TRUE ELSE UNCHANGED DeviceVars
    /\ IF part = "loop" THEN TRUE ELSE UNCHANGED LoopVars

vars ==
    <<part, VirtioVars, RingVars, VhostVars, QueueVars, UblkVars, OwnerVars, CryptVars,
    TrackingVars, ChannelVars, DeviceVars, LoopVars>>
Spec == Init /\ [][Next]_vars

\* The fairness of VLiveSpec, QLiveSpec, USpec and BSpec: threads run, the
\* disk answers, the guest reaps.
FairSpec ==
    /\ Spec
    /\ WF_(VL!vVars)(part = "vhost_live" /\ VL!ThreadStep)
    /\ WF_(VL!vVars)(part = "vhost_live" /\ VL!DeviceStep)
    /\ WF_(VL!vVars)(part = "vhost_live" /\ VL!GuestReaps)
    /\ WF_(Q!qVars)(part = "ublk" /\ Q!QueueStep)
    /\ WF_(Q!qVars)(part = "ublk" /\ Q!DeviceStep)
    /\ WF_(D!vars)(part = "device" /\ D!MainStep)
    /\ WF_(D!vars)(part = "device" /\ D!HandlerStep)
    /\ WF_(D!vars)(part = "device" /\ D!QueueStep)
    /\ WF_(B!vars)(part = "loop" /\ B!MainStep)
    /\ WF_(B!vars)(part = "loop" /\ B!WorkerStep)

-----------------------------------------------------------------------------
(* The data path.                                                          *)

\* parse accepts exactly the well-formed chains, and a request it returns has
\* every descriptor between header and status as data, in order, and the last
\* descriptor as status: the handlers of the requests rely on this alone.
ParseIsExact ==
    part = "virtio" /\ parsed # Unparsed =>
        /\ parsed.error = "none" <=> V!WellFormed(chain)
        /\ parsed.error = "none" =>
             /\ parsed.data = [j \in 1 .. Len(chain.desc) - 2 |-> chain.desc[j + 1].len]
             /\ parsed.status = Len(chain.desc) /\ parsed.type = chain.type

\* A chain popped from the vhost queue is in one slot or was returned, once
\* and never both; a slot keeps its request, and so its buffer, until the
\* kernel has answered for it; and the tracker shows exactly the slots in use
\* that it has room for: with a full submission queue and a failed submit too.
VhostQueueSound ==
    part = "vhost" => /\ V!VTypeOK /\ V!ChainsConserved
                      /\ V!SlotsHeldByKernel
                      /\ V!TrackerMatchesSlots

\* With EVENT_IDX the vhost thread sleeps only when nothing is left to do or a
\* kick is pending, and the guest then has or will get the interrupt for every
\* completed request it asked to be told of.
NoLostWakeup == part = "vhost" => V!NoLostKick /\ V!NoLostInterrupt

\* An id in use has exactly one entry or answer in the io_uring channel, that of
\* the request it now stands for, and busy() is true exactly while one is
\* unanswered; no ublk command is completed
\* twice, and no tag without a command: whatever submits fail or fall short.
\* While none fails, what the kernel works on is the request that its tag stands
\* for (the contract of bdev_uring.rs: a slot is not reused until its
\* completion), and the tracker shows exactly the requests in flight.
AnsweredOnce ==
    /\ part = "uring" => U!UInv /\ U!OneAnswerEach /\ U!AnswersOwned /\ U!BusyWhileOpen
    /\ part = "ublk_fault" => QF!QInv
    /\ part = "ublk" => Q!EntriesOwned /\ Q!QRingInv

\* A vhost queue, whatever submits fail, and a ublk queue, while none fails, are
\* owners of the ring as bdev_uring.rs asks for: each step of theirs is one of
\* UringOwner, which reuses an id only after the channel has answered for it, or
\* leaves the ring alone.
ContractKept ==
    /\ part = "vhost" => V!Owner!UInit
    /\ part = "ublk" => Q!Owner!UInit
    /\ [][part = "vhost" => UNCHANGED V!Owner!uVars \/ V!Owner!UNext]_vars
    /\ [][part = "ublk" => UNCHANGED Q!Owner!uVars \/ Q!Owner!UNext]_vars

\* Through the encrypting channel every sector of the disk holds its last
\* value, encrypted once and for its own sector number, and the buffer of an
\* answered read holds in the clear what the sectors held.  CInv is the
\* inductive invariant that CryptChannelProofs derives both from.
EncryptedOnce == part = "crypt" => C!CInv /\ C!DiskEncryptedOnce /\ C!ReadsInTheClear

\* A "queues" answer never shows an I/O with the offset or length of one that
\* used the slot before it, and a client that was shown an I/O finds it, and
\* what came before it on its queue, in the totals of a later "stats" answer:
\* whatever the memory order permits.
RpcTellsTheTruth == part = "tracking" => T!EntriesNotStale /\ T!StatsIncludeSeen

-----------------------------------------------------------------------------
(* Threads that must get on.                                               *)

Outstanding(t) == part = "ublk" /\ tag_req[t] # none

\* When serve_ublk has returned after run_target no link of this process is
\* left, in whatever order Ctrl-C, the announcement and the removals came, and
\* when run_backend_loop has returned no background worker is.  In between, a
\* client of a device with metadata is served only after the worker has
\* reported that it could be built, and a live RPC socket file has a thread
\* behind it; and nothing is removed that is not a symbolic link.
ProcessCleansUp ==
    /\ [](part = "device" => D!LinkGone)
    /\ [](part = "loop" => B!NoWorkerLeft /\ B!ServedWithWorker /\ B!RpcSocketAnswers)
    /\ [][part = "device" /\ (handler' # handler \/ main = "unlink") /\ link' # link
            => link = "link"]_vars

At(l) == part = "loop" /\ pc = l

\* Nobody waits for ever.  Every chain that the guest makes available to a vhost
\* queue is returned, and every ublk command is completed; the wait for the
\* worker's report ends whatever the worker does (fails to build or panics), the
\* join of the worker ends with requests queued before Shutdown too, and once
\* the kernel device is deleted serve_ublk returns.
BackendGetsOn ==
    /\ \A r \in Chains :
        (part = "vhost_live" /\ \E i \in DOMAIN avail : avail[i] = r)
            ~> (part = "vhost_live" /\ r \in VL!Returned)
    /\ \A t \in Tags : Outstanding(t) ~> ~Outstanding(t)
    /\ At("recv_startup") ~> ~At("recv_startup")
    /\ At("exit_join") ~> At("ended")
    /\ (part = "device" /\ device = "deleted")
        ~> (part = "device" /\ main \in {"failed", "ended"})

-----------------------------------------------------------------------------
(* What the data-path run checks, for every number of chains, slots, tags,  *)
(* commands, ids, ring entries, sectors and descriptors.  Each part's       *)
(* invariant comes from the proofs of its component.                        *)

\* A step of a part is a step of its component.
LEMMA PartSteps ==
    ASSUME [Next]_vars
    PROVE  /\ part' = part
           /\ part = "virtio" => PNext \/ UNCHANGED <<chain, parsed>>
           /\ part = "vhost" => [V!VNext]_(V!vVars)
           /\ part = "ublk" => [Q!QNext]_(Q!qVars)
           /\ part = "ublk_fault" => [QF!QNext]_(QF!qVars)
           /\ part = "uring" => [U!UNext]_(U!uVars)
           /\ part = "crypt" => [C!CNext]_(C!vars)
           /\ part = "tracking" => [T!INext]_(T!vars)
<1>1. CASE Next
  BY <1>1 DEF Next
<1>2. CASE UNCHANGED vars
  <2>1. UNCHANGED <<part, chain, parsed>>
    BY <1>2 DEF vars, VirtioVars
  <2>2. UNCHANGED V!vVars
    BY <1>2 DEF vars, RingVars, VhostVars, QueueVars,
                V!vVars, V!ringVars, V!slotVars, V!threadVars
  <2>3. UNCHANGED Q!qVars /\ UNCHANGED QF!qVars
    BY <1>2 DEF vars, RingVars, UblkVars, QueueVars,
                Q!qVars, Q!ringVars, Q!driverVars, QF!qVars, QF!ringVars, QF!driverVars
  <2>4. UNCHANGED U!uVars
    BY <1>2 DEF vars, RingVars, OwnerVars, U!uVars, U!ringVars, U!ownerVars
  <2>5. UNCHANGED C!vars
    BY <1>2 DEF vars, CryptVars, C!vars
  <2>6. UNCHANGED T!vars
    BY <1>2 DEF vars, TrackingVars, ChannelVars, T!vars
  <2> QED BY <2>1, <2>2, <2>3, <2>4, <2>5, <2>6
<1> QED BY <1>1, <1>2

LEMMA VhostAssumption == V!QueueAssumption
<1>1. none \notin Chains /\ IsFiniteSet(Chains) /\ Narrow \in Nat /\ QueueSlots \in Nat
      /\ TrackedSlots \in Nat
  BY BackendsAssumption
<1>2. DataLen \in [Chains -> Nat]
  BY DEF DataLen
<1> QED BY <1>1, <1>2 DEF V!QueueAssumption, SlotIds, V!IsFiniteSet, V!Cardinality, IsFiniteSet, Cardinality

LEMMA CommandAssumption == Q!UblkAssumption /\ QF!UblkAssumption
<1>1. none \notin Commands /\ Narrow \in Nat /\ Wide \in Nat
  BY BackendsAssumption
<1>2. OpOf \in [Commands -> Q!UblkOp] /\ Q!UblkOp = QF!UblkOp
  BY DEF OpOf, Q!UblkOp, QF!UblkOp
<1> QED BY <1>1, <1>2 DEF Q!UblkAssumption, QF!UblkAssumption

VhostInv == part = "vhost" => V!VInv

LEMMA VhostStays == Spec => []VhostInv
<1>1. Init => VhostInv
  BY VhostAssumption, V!InitKeeps DEF Init, VhostInv
<1>2. VhostInv /\ [Next]_vars => VhostInv'
  <2> SUFFICES ASSUME VhostInv, [Next]_vars, part' = "vhost" PROVE V!VInv'
    BY DEF VhostInv
  <2> QED BY VhostAssumption, PartSteps, V!NextKeeps DEF VhostInv
<1> QED BY <1>1, <1>2, PTL DEF Spec

\* get_request_slot, poll_io and put_request_slot of a vhost queue: no chain is
\* lost or returned twice, and no slot is given away while the kernel has it.
THEOREM VhostSound == Spec => []VhostQueueSound
<1>1. VhostInv => VhostQueueSound
  BY VhostAssumption, V!InvChains DEF VhostInv, VhostQueueSound, V!VInv
<1> QED BY <1>1, VhostStays, PTL

\* handle_event of a vhost queue loses no kick and no interrupt.
THEOREM VhostWakes == Spec => []NoLostWakeup
<1>1. VhostInv => NoLostWakeup
  BY V!InvWakeups DEF VhostInv, NoLostWakeup
<1> QED BY <1>1, VhostStays, PTL

RingInv ==
    /\ part = "uring" => U!UInv
    /\ part = "ublk_fault" => QF!QInv
    /\ part = "ublk" => Q!QRingInv

LEMMA RingStays == Spec => []RingInv
<1>1. U!Contract
  BY BackendsAssumption DEF U!Contract
<1>2. Init => RingInv
  BY <1>1, CommandAssumption, U!UInitInv, QF!QInitInv, Q!QRingInit DEF Init, RingInv
<1>3. RingInv /\ [Next]_vars => RingInv'
  <2> SUFFICES ASSUME RingInv, [Next]_vars PROVE RingInv'
    OBVIOUS
  <2>1. ASSUME part' = "uring" PROVE U!UInv'
    BY <1>1, <2>1, PartSteps, U!UNextInv DEF RingInv
  <2>2. ASSUME part' = "ublk_fault" PROVE QF!QInv'
    BY <2>2, CommandAssumption, PartSteps, QF!QNextInv DEF RingInv
  <2>3. ASSUME part' = "ublk" PROVE Q!QRingInv'
    <3>1. Q!QRingInv /\ [Q!QNext]_(Q!qVars) /\ ~Q!Submit(FALSE)
      BY <2>3, PartSteps, Q!NoFaults DEF RingInv
    <3> QED BY <3>1, CommandAssumption, Q!QRingNext
  <2> QED BY <2>1, <2>2, <2>3 DEF RingInv
<1> QED BY <1>2, <1>3, PTL DEF Spec

\* The channel answers exactly once for each request, to the request that asked;
\* a ublk queue completes each command once, and while no submit fails its tags,
\* its tracker and the kernel agree.
THEOREM AnswersOnce == Spec => []AnsweredOnce
<1>1. U!Contract
  BY BackendsAssumption DEF U!Contract
<1>2. RingInv => AnsweredOnce
  <2>1. U!UInv => U!OneAnswerEach /\ U!AnswersOwned /\ U!BusyWhileOpen
    BY <1>1, U!InvOneAnswer, U!InvOwned, U!InvBusy
  <2>2. Q!QRingInv => Q!EntriesOwned
    BY Q!HeldByTags DEF Q!EntriesOwned
  <2> QED BY <2>1, <2>2 DEF RingInv, AnsweredOnce
<1> QED BY <1>2, RingStays, PTL

\* Both kinds of queue keep the contract of bdev_uring.rs.
THEOREM BothKeepContract == Spec => ContractKept
<1>1. Init => /\ part = "vhost" => V!Owner!UInit
              /\ part = "ublk" => Q!Owner!UInit
  BY VhostAssumption, CommandAssumption, V!InitKeeps, Q!QRingInit DEF Init
<1>2. VhostInv /\ RingInv /\ [Next]_vars
        => /\ [part = "vhost" => UNCHANGED V!Owner!uVars \/ V!Owner!UNext]_vars
           /\ [part = "ublk" => UNCHANGED Q!Owner!uVars \/ Q!Owner!UNext]_vars
  <2> SUFFICES ASSUME VhostInv, RingInv, [Next]_vars
               PROVE  /\ part = "vhost" => UNCHANGED V!Owner!uVars \/ V!Owner!UNext
                      /\ part = "ublk" => UNCHANGED Q!Owner!uVars \/ Q!Owner!UNext
    OBVIOUS
  <2>1. ASSUME part = "vhost" PROVE [V!Owner!UNext]_(V!Owner!uVars)
    BY <2>1, VhostAssumption, PartSteps, V!NextKeeps DEF VhostInv
  <2>2. ASSUME part = "ublk" PROVE [Q!Owner!UNext]_(Q!Owner!uVars)
    <3>1. Q!QRingInv /\ [Q!QNext]_(Q!qVars) /\ ~Q!Submit(FALSE)
      BY <2>2, PartSteps, Q!NoFaults DEF RingInv
    <3> QED BY <3>1, CommandAssumption, Q!QRingNext
  <2> QED BY <2>1, <2>2
<1> QED BY <1>1, <1>2, VhostStays, RingStays, PTL DEF Spec, ContractKept

\* Every sector of the disk is encrypted once, for its own number, and reads
\* return it in the clear.
THEOREM EncryptsOnce == Spec => []EncryptedOnce
<1> DEFINE Inv == part = "crypt" => C!CInv
<1>1. SectorCount \in Nat
  BY BackendsAssumption
<1>2. Init => Inv
  BY <1>1, C!CInitInv DEF Init
<1>3. Inv /\ [Next]_vars => Inv'
  BY <1>1, PartSteps, C!CNextInv
<1>4. Inv => EncryptedOnce
  BY DEF EncryptedOnce, C!CInv
<1> QED BY <1>2, <1>3, <1>4, PTL DEF Spec

\* What the RPC thread tells of the I/Os in flight and of the totals is whole and
\* complete under every outcome that the orderings of io_tracking.rs permit.
THEOREM RpcTruthful == Spec => []RpcTellsTheTruth
<1> DEFINE Inv == part = "tracking" => T!IInv
<1>1. T!TrackerAssumption
  BY BackendsAssumption DEF T!TrackerAssumption
<1>2. Init => Inv
  BY <1>1, T!InitTracked DEF Init
<1>3. Inv /\ [Next]_vars => Inv'
  BY <1>1, PartSteps, T!NextKeeps
<1>4. Inv => RpcTellsTheTruth
  BY T!StatsComplete DEF RpcTellsTheTruth, T!IInv
<1> QED BY <1>2, <1>3, <1>4, PTL DEF Spec

\* parse is exact for chains of any number of descriptors: it accepts the
\* well-formed ones and no other, and returns their data and their status.
THEOREM ParsesExactly == Spec => []ParseIsExact
<1> DEFINE Inv == part = "virtio" =>
                    /\ \E n \in Nat : chain \in V!Chain(n)
                    /\ parsed = Unparsed \/ parsed = V!Parse(chain)
<1>1. Init => Inv
  BY BackendsAssumption DEF Init, PInit
<1>2. Inv /\ [Next]_vars => Inv'
  BY PartSteps DEF PNext
<1>3. Inv => ParseIsExact
  BY V!ParseExact DEF ParseIsExact
<1> QED BY <1>1, <1>2, <1>3, PTL DEF Spec

=============================================================================
