------------------------------ MODULE Archiver ------------------------------
(***************************************************************************)
(* StripeArchiver and the archive command: the stripes of a stopped device *)
(* go to an object store, then metadata.json, then stripe-mapping, which   *)
(* makes the archive.  Runs follow one another on one target, are killed,  *)
(* or end in an error; between two runs the guest may write.               *)
(*                                                                         *)
(* The content of a stripe is <<head, tail>>: the last stripe of a source  *)
(* may have no tail.  Compression and encryption are symbolic: an object   *)
(* is its content with the key and the stripe it was encrypted for.  A     *)
(* run's number stands for its random HMAC key and cipher key.             *)
(***************************************************************************)
EXTENDS ArchiveStore

CONSTANTS
    StripeCount,
    Concurrency,    \* 4 in the command
    Encrypt,        \* --encrypt
    Short,          \* the stripes the source ends in the middle of
    MaxRuns,        \* bound on the runs of the command
    MaxFaults       \* bound on failed reads and uploads

VARIABLES
    headers, disk, source,      \* the device and its stripe source
    run,                        \* the number of the run
    pc,                         \* off, loop, drain, meta, meta_wait, map, map_wait, ok, err
    next_stripe_id,
    buffer, available,          \* the buffer pool: contents, free ids in order
    stripe_fetch_buffers,       \* stripe -> buffer of its fetch
    reading,                    \* stripe -> "sent", "ok" or "err"
    stripe_hashes, seen_object_keys, inflight_puts,
    want,                       \* run -> what the device held
    faults

device    == <<headers, disk, source>>
fetchVars == <<buffer, available, stripe_fetch_buffers, reading>>
archVars  == <<run, pc, next_stripe_id, fetchVars, stripe_hashes, seen_object_keys,
               inflight_puts, want>>
vars      == <<storeVars, bucket, device, archVars, faults>>

Stripes == 0 .. StripeCount - 1
Zero    == <<0, 0>>
Full    == <<1, 1>>

stripe_written(s)          == "WRITTEN" \in headers[s]
stripe_fetched(s)          == "FETCHED" \in headers[s]
stripe_exists_in_source(s) == "HAS_SOURCE" \in headers[s]

\* What the guest finds in a stripe; the lazy device copies a stripe before it
\* writes it, so that a written stripe with a source is a fetched one.
Visible(s) == IF stripe_exists_in_source(s) /\ ~stripe_fetched(s) THEN source[s] ELSE disk[s]

AInit ==
    /\ headers \in [Stripes -> {{}, {"WRITTEN"}, {"HAS_SOURCE"}, {"HAS_SOURCE", "FETCHED"},
                                {"HAS_SOURCE", "FETCHED", "WRITTEN"}}]
    /\ disk \in [Stripes -> {Zero, Full}] /\ source \in [Stripes -> {Zero, Full}]
    /\ \A s \in Stripes : /\ ~stripe_written(s) /\ ~stripe_fetched(s) => disk[s] = Zero
                          /\ ~stripe_exists_in_source(s) => source[s] = Zero
    /\ StoreFresh /\ bucket = <<>> /\ run = 0 /\ pc = "off" /\ next_stripe_id = 0
    /\ buffer = [b \in 1 .. Concurrency |-> Zero] /\ available = <<>>
    /\ stripe_fetch_buffers = <<>> /\ reading = <<>> /\ stripe_hashes = <<>>
    /\ seen_object_keys = {} /\ inflight_puts = 0 /\ want = <<>> /\ faults = 0

Fault(wrong) == /\ wrong => faults < MaxFaults
                /\ faults' = IF wrong THEN faults + 1 ELSE faults

\* StripeArchiver::new, in a process of its own.
Begin ==
    /\ pc = "off" \/ (pc \in {"ok", "err"} /\ request_tx = "gone" /\ Joined)
    /\ run < MaxRuns /\ run' = run + 1 /\ pc' = "loop" /\ next_stripe_id' = 0
    /\ StoreReopen
    /\ buffer' = [b \in 1 .. Concurrency |-> Zero]
    /\ available' = [b \in 1 .. Concurrency |-> b]
    /\ stripe_fetch_buffers' = <<>> /\ reading' = <<>> /\ stripe_hashes' = <<>>
    /\ seen_object_keys' = {} /\ inflight_puts' = 0
    /\ want' = Append(want, [s \in Stripes |-> Visible(s)])
    /\ UNCHANGED <<bucket, device, faults>>

-----------------------------------------------------------------------------
(* archive_all_inner: one loop until the last stripe is started, a second  *)
(* one until everything is uploaded.                                       *)

stripe_should_be_archived(s) == stripe_written(s) \/ stripe_exists_in_source(s)

Skip ==
    /\ pc = "loop" /\ next_stripe_id < StripeCount
    /\ ~stripe_should_be_archived(next_stripe_id)
    /\ next_stripe_id' = next_stripe_id + 1
    /\ UNCHANGED <<storeVars, bucket, device, run, pc, fetchVars, stripe_hashes,
                   seen_object_keys, inflight_puts, want, faults>>

\* maybe_start_next_stripe and start_fetch_stripe; a failed submit is a
\* fetch that fails.
StartStripe ==
    LET s == next_stripe_id
    IN  /\ pc = "loop" /\ s < StripeCount /\ stripe_should_be_archived(s)
        /\ available # <<>> /\ available' = Tail(available)
        /\ stripe_fetch_buffers' = (s :> Head(available)) @@ stripe_fetch_buffers
        /\ reading' = (s :> "sent") @@ reading
        /\ next_stripe_id' = s + 1
        /\ UNCHANGED <<storeVars, bucket, device, run, pc, buffer, stripe_hashes,
                       seen_object_keys, inflight_puts, want, faults>>

\* Mutant of ReadFrom: the source whenever there is one.
ReadFromSource(s) == IF stripe_exists_in_source(s) THEN "source" ELSE "disk"

ReadFrom(s) == IF stripe_written(s) \/ stripe_fetched(s) THEN "disk" ELSE "source"

\* A read fills the buffer; of a short stripe the source has no tail.
Filled(s, old) ==
    IF ReadFrom(s) = "disk" THEN disk[s]
    ELSE IF s \in Short THEN <<source[s][1], old[2]>> ELSE source[s]

ReadDone(s) ==
    /\ s \in DOMAIN reading /\ reading[s] = "sent"
    /\ \E ok \in BOOLEAN :
          /\ Fault(~ok) /\ reading' = [reading EXCEPT ![s] = IF ok THEN "ok" ELSE "err"]
          /\ buffer' = IF ok THEN [buffer EXCEPT ![stripe_fetch_buffers[s]] = Filled(s, @)]
                       ELSE buffer
    /\ pc \in {"loop", "drain"}
    /\ UNCHANGED <<storeVars, bucket, device, run, pc, next_stripe_id, available,
                   stripe_fetch_buffers, stripe_hashes, seen_object_keys, inflight_puts, want>>

\* compress, maybe_encrypt and the hash that names the object.
Object(s, content) == [content |-> content, enc |-> IF Encrypt THEN <<run, s>> ELSE <<>>]
object_key(o) == <<"data", o>>

\* Mutant of Release: the buffer of a zero stripe is not given back.
ReleaseUnlessZero(s, content) ==
    /\ stripe_fetch_buffers' = Restrict(stripe_fetch_buffers, DOMAIN stripe_fetch_buffers \ {s})
    /\ reading' = Restrict(reading, DOMAIN reading \ {s})
    /\ available' = IF content = Zero THEN available
                    ELSE Append(available, stripe_fetch_buffers[s])

Release(s, content) ==
    /\ stripe_fetch_buffers' = Restrict(stripe_fetch_buffers, DOMAIN stripe_fetch_buffers \ {s})
    /\ reading' = Restrict(reading, DOMAIN reading \ {s})
    /\ available' = Append(available, stripe_fetch_buffers[s])

Upload(s, content, ok) ==
    LET o == Object(s, content)
    IN  /\ stripe_hashes' = (s :> <<"some", o>>) @@ stripe_hashes
        /\ seen_object_keys' = seen_object_keys \cup {object_key(o)}
        /\ IF object_key(o) \in seen_object_keys
           THEN UNCHANGED <<storeVars, bucket, inflight_puts>>
           ELSE StartPut(object_key(o), o, ok) /\ inflight_puts' = inflight_puts + 1

\* poll_fetches and start_upload_stripe.
PollFetch(s) ==
    /\ pc \in {"loop", "drain"} /\ s \in DOMAIN reading
    /\ \/ /\ reading[s] = "err" /\ pc' = "err"
          /\ UNCHANGED <<storeVars, bucket, fetchVars, stripe_hashes, seen_object_keys,
                         inflight_puts, faults>>
       \/ /\ reading[s] = "ok"
          /\ LET content == buffer[stripe_fetch_buffers[s]]
             IN  /\ Release(s, content)
                 /\ IF content = Zero
                    THEN /\ stripe_hashes' = (s :> <<"zero">>) @@ stripe_hashes
                         /\ UNCHANGED <<storeVars, bucket, seen_object_keys, inflight_puts,
                                        faults>>
                    ELSE \E ok \in BOOLEAN : Upload(s, content, ok) /\ Fault(~ok)
          /\ UNCHANGED <<pc, buffer>>
    /\ UNCHANGED <<device, run, next_stripe_id, want>>

\* poll_uploads, by both loops.
PollUploads ==
    /\ pc \in {"loop", "drain"} /\ AllPuts # <<>> /\ PollPuts
    /\ IF (\E i \in DOMAIN AllPuts : ~AllPuts[i].ok) \/ Len(AllPuts) > inflight_puts
       THEN pc' = "err" /\ UNCHANGED inflight_puts
       ELSE inflight_puts' = inflight_puts - Len(AllPuts) /\ UNCHANGED pc
    /\ UNCHANGED <<bucket, device, run, next_stripe_id, fetchVars, stripe_hashes,
                   seen_object_keys, want, faults>>

\* The ends of the two loops.
NextPhase ==
    /\ \/ pc = "loop" /\ next_stripe_id = StripeCount /\ pc' = "drain"
       \/ pc = "drain" /\ DOMAIN stripe_fetch_buffers = {} /\ inflight_puts = 0 /\ pc' = "meta"
    /\ UNCHANGED <<storeVars, bucket, device, run, next_stripe_id, fetchVars, stripe_hashes,
                   seen_object_keys, inflight_puts, want, faults>>

-----------------------------------------------------------------------------
(* put_metadata and put_stripe_mapping, through ArchiveStore::put_object.  *)

Metadata == [hmac_key |-> run, encryption_key |-> IF Encrypt THEN run ELSE 0]
Mapping  == [hmac_key |-> run, map |-> stripe_hashes]

ManifestPart(phase) ==
    IF phase = "meta" THEN <<<<"metadata.json">>, Metadata>>
    ELSE <<<<"stripe-mapping">>, Mapping>>

PutManifest ==
    /\ pc \in {"meta", "map"}
    /\ \E ok \in BOOLEAN :
          /\ StartPut(ManifestPart(pc)[1], ManifestPart(pc)[2], ok) /\ Fault(~ok)
    /\ pc' = IF pc = "meta" THEN "meta_wait" ELSE "map_wait"
    /\ UNCHANGED <<device, run, next_stripe_id, fetchVars, stripe_hashes, seen_object_keys,
                   inflight_puts, want>>

ManifestResult(name) ==
    LET mine == SelectSeq(AllPuts, LAMBDA a : a.name = name)
    IN  IF mine = <<>> THEN "wait" ELSE IF mine[1].ok THEN "ok" ELSE "err"

\* The first answer with the name of the object is the result; the others of
\* the same poll are lost.
PollManifest ==
    /\ pc \in {"meta_wait", "map_wait"} /\ AllPuts # <<>> /\ PollPuts
    /\ LET result == ManifestResult(ManifestPart(IF pc = "meta_wait" THEN "meta" ELSE "map")[1])
       IN  pc' = IF result = "wait" THEN pc ELSE IF result = "err" THEN "err"
                 ELSE IF pc = "meta_wait" THEN "map" ELSE "ok"
    /\ UNCHANGED <<bucket, device, run, next_stripe_id, fetchVars, stripe_hashes,
                   seen_object_keys, inflight_puts, want, faults>>

\* 30 seconds without an answer.
ManifestTimeout ==
    /\ pc \in {"meta_wait", "map_wait"} /\ Fault(TRUE) /\ pc' = "err"
    /\ UNCHANGED <<storeVars, bucket, device, run, next_stripe_id, fetchVars, stripe_hashes,
                   seen_object_keys, inflight_puts, want>>

-----------------------------------------------------------------------------
(* The end of a run, and what happens to its target and its device.        *)

\* The archiver is dropped, and with it the store.
Exit ==
    /\ pc \in {"ok", "err"} /\ request_tx = "open" /\ DropStore
    /\ UNCHANGED <<device, archVars, faults>>

Running == pc \notin {"off", "ok", "err"}

Kill ==
    /\ pc # "off" /\ (Running \/ ~Joined)
    /\ pc' = "off" /\ StoreReopen /\ UNCHANGED bucket
    /\ UNCHANGED <<device, run, next_stripe_id, fetchVars, stripe_hashes, seen_object_keys,
                   inflight_puts, want, faults>>

\* Killed in the middle of fs::write.
KillInWrite ==
    /\ FileSystem /\ pc' = "off" /\ StoreReopen
    /\ \/ pc \in {"meta", "map"} /\ Store(ManifestPart(pc)[1], Torn)
       \/ \E s \in DOMAIN reading :
             /\ pc \in {"loop", "drain"} /\ reading[s] = "ok"
             /\ LET content == buffer[stripe_fetch_buffers[s]]
                IN  /\ content # Zero
                    /\ Store(object_key(Object(s, content)), Torn)
    /\ UNCHANGED <<device, run, next_stripe_id, fetchVars, stripe_hashes, seen_object_keys,
                   inflight_puts, want, faults>>

\* The device is started, written and stopped between two runs.
GuestWrites(s) ==
    /\ ~Running /\ run \in 1 .. MaxRuns - 1
    /\ disk' = [disk EXCEPT ![s] = Full]
    /\ headers' = [headers EXCEPT ![s] = @ \cup {"WRITTEN"} \cup
                     (IF stripe_exists_in_source(s) THEN {"FETCHED"} ELSE {})]
    /\ UNCHANGED <<source, storeVars, bucket, archVars, faults>>

StoreStep ==
    /\ \E w \in Workers :
          \/ (WorkerStarts(w, TRUE) \/ WorkerTakes(w) \/ WorkerEnds(w)) /\ UNCHANGED faults
          \/ \E ok, stored \in BOOLEAN : WorkerAnswers(w, ok, stored) /\ Fault(~ok)
    /\ UNCHANGED <<device, archVars>>

ArchiverStep ==
    \/ Skip \/ StartStripe \/ PollUploads \/ NextPhase
    \/ \E s \in Stripes : ReadDone(s) \/ PollFetch(s)
    \/ PutManifest \/ PollManifest \/ ManifestTimeout \/ Exit

ANext == Begin \/ ArchiverStep \/ StoreStep \/ Kill \/ KillInWrite
         \/ \E s \in Stripes : GuestWrites(s)

-----------------------------------------------------------------------------
(* What ArchiveStripeSource makes of the target: it opens when both parts  *)
(* of the manifest are whole and the HMAC key of one verifies the other.   *)

Intact(name) == name \in DOMAIN bucket /\ bucket[name] # Torn
Openable ==
    /\ Intact(<<"metadata.json">>) /\ Intact(<<"stripe-mapping">>)
    /\ bucket[<<"metadata.json">>].hmac_key = bucket[<<"stripe-mapping">>].hmac_key

Archived == bucket[<<"stripe-mapping">>].map
ArchivedObject(s) == s \in DOMAIN Archived /\ Archived[s][1] = "some"

\* A target that opens is complete, whenever it is looked at and however often
\* the command was killed, failed or run again on it: every object the mapping
\* names is there, whole, and encrypted with the key of metadata.json.
OpensOnlyComplete ==
    Openable => \A s \in Stripes : ArchivedObject(s) =>
        /\ Intact(object_key(Archived[s][2]))
        /\ Archived[s][2].enc # <<>> =>
              Archived[s][2].enc = <<bucket[<<"metadata.json">>].encryption_key, s>>

\* What it restores is what the guest saw when the run began, the stripes
\* that are not in the mapping as zeroes; of the stripe in which the source
\* ends, the part the source has.
RestoresTheDevice ==
    Openable =>
        LET seen == want[bucket[<<"metadata.json">>].hmac_key]
        IN  \A s \in Stripes :
              LET got == IF ArchivedObject(s) THEN Archived[s][2].content ELSE Zero
              IN  got[1] = seen[s][1] /\ (s \notin Short => got[2] = seen[s][2])

\* A run that reports success has made an archive that opens, its own.
SuccessOpens ==
    pc = "ok" => Openable /\ bucket[<<"metadata.json">>].hmac_key = run

\* No answer to an upload is left when put_object starts polling for its own
\* object and throws the others away.
UploadsAwaited ==
    pc \in {"meta", "map"} =>
        AllPuts = <<>> /\ requests = <<>> /\ \A w \in Workers : worker[w][1] # "busy"
=============================================================================
