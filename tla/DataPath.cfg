SPECIFICATION Spec
CONSTANTS
    Parts = {"virtio", "vhost", "ublk", "ublk_fault", "uring", "crypt", "tracking"}
    MaxDescriptors = 4  read = read  write = write  flush = flush  getid = getid  none = none
    Chains = {read, write, flush, bad}  QueueSlots = 1  TrackedSlots = 2
    Commands = {read, write, flush, discard}  Oversized = {write}  Tags = {t1, t2}
    Ids = {i1, i2, i3}  Requests = {q1, q2, q3, q4}  Narrow = 1  Wide = 2
    Buffers = {a, b}  SectorCount = 2
INVARIANTS ParseIsExact VhostQueueSound NoLostWakeup AnsweredOnce EncryptedOnce RpcTellsTheTruth
PROPERTIES ContractKept
\* The guest issues finitely many requests and then everything rests.
CHECK_DEADLOCK FALSE
