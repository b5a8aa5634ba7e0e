SPECIFICATION FairSpec
CONSTANTS
    Parts = {"vhost_live", "ublk", "device", "loop"}
    MaxDescriptors = 0  read = read  write = write  flush = flush  getid = getid  none = none
    Chains = {read, flush, getid}  QueueSlots = 1  TrackedSlots = 2
    Commands = {read, write, discard}  Oversized = {}  Tags = {t1, t2}
    Ids = {}  Requests = {}  Narrow = 1  Wide = 2  Buffers = {}  SectorCount = 0
PROPERTIES  BackendGetsOn
\* Requests are finitely many, and a process ends.
CHECK_DEADLOCK FALSE
