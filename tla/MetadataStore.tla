---------------------------- MODULE MetadataStore ----------------------------
(***************************************************************************)
(* init-metadata and the load at the start of a backend: init_metadata and *)
(* ensure_metadata_file (backends/common/mod.rs), save_to_bdev and         *)
(* load_from_bdev (metadata/save.rs, metadata/load.rs) over a channel that *)
(* wait_for_completion watches, with power failures at any point.          *)
(*                                                                         *)
(* The file has two images: what a read returns now, and what a power      *)
(* failure leaves.  A write reaches the durable image sector by sector,    *)
(* whenever; a sync or a completed flush makes the two equal.              *)
(***************************************************************************)
EXTENDS MetadataLayout, FiniteSets

CONSTANTS
    StripeCount,    \* stripes of the disk
    Source,         \* stripes for which the stripe source has data
    Shift,          \* --stripe-sector-count-shift
    OldImages,      \* what may be at metadata_path before
    MaxCrashes, MaxInits

VARIABLES
    pc,         \* where init_metadata is; "idle" before and after
    result,     \* what the last init_metadata returned: none, ok, err
    now,        \* the file: [exists, image]
    durable,    \* ... what is left of it after a power failure
    created,    \* ensure_metadata_file made the file
    request,    \* the channel: none, or the write or flush in flight
    loaded,     \* what the last load_from_bdev returned
    crashes, inits,
    fresh,      \* history: the file held no metadata before the first init
    lone        \* history: an earlier init made the file, failed, and has not
                \* synced its directory

vars == <<pc, result, now, durable, created, request, loaded, crashes, inits, fresh, lone>>
history == <<crashes, inits, fresh, lone>>

Meta     == NewMetadata(Shift, StripeCount, Source)
NoFile   == [exists |-> FALSE, image |-> <<>>]
NotYet   == [ok |-> FALSE, why |-> "not loaded"]

SInit ==
    /\ pc = "idle" /\ result = "none" /\ request = "none" /\ loaded = NotYet
    /\ crashes = 0 /\ inits = 0 /\ created = FALSE /\ lone = FALSE
    /\ \/ now = NoFile
       \/ \E i \in OldImages : now = [exists |-> TRUE, image |-> i]
    /\ durable = now
    /\ fresh = \A i \in 1 .. Len(now.image) : ~now.image[i].crc

fileVars == <<now, durable, created>>
Return(r) == pc' = "idle" /\ result' = r

-----------------------------------------------------------------------------
(* init_metadata.  Every step may fail and return its error.               *)

\* The range check of the command, the disk and the stripe source.
InitStart ==
    /\ pc = "idle" /\ inits < MaxInits /\ inits' = inits + 1
    /\ IF Shift \in 6 .. 16 THEN pc' = "open" /\ result' = "none" ELSE Return("err")
    /\ loaded' = NotYet
    /\ UNCHANGED <<fileVars, request, crashes, fresh, lone>>

\* create_new, or open what exists; its permissions are not modelled.
Open ==
    /\ pc = "open" /\ pc' = "resize" /\ result' = result
    /\ created' = ~now.exists
    /\ now' = [now EXCEPT !.exists = TRUE]
    /\ lone' = (now.exists /\ ~durable.exists)
    /\ UNCHANGED <<durable, request, loaded, crashes, inits, fresh>>

\* set_len, only to make the file larger.
Resize ==
    /\ pc = "resize" /\ pc' = "sync" /\ result' = result
    /\ now' = [now EXCEPT !.image =
         [i \in 1 .. (IF Len(@) < MetadataSectors(Meta) THEN MetadataSectors(Meta) ELSE Len(@))
            |-> IF i <= Len(@) THEN @[i] ELSE Zero]]
    /\ UNCHANGED <<durable, created, request, loaded, history>>

\* sync_all of the file: everything but the entry in its directory.
SyncFile ==
    /\ pc = "sync" /\ pc' = (IF created THEN "sync_parent" ELSE "write") /\ result' = result
    /\ durable' = [now EXCEPT !.exists = durable.exists]
    /\ UNCHANGED <<now, created, request, loaded, history>>

\* Mutant of SyncParent: the directory is not synced.
SyncParentSkipped ==
    /\ pc = "sync_parent" /\ pc' = "write" /\ result' = result
    /\ UNCHANGED <<fileVars, request, loaded, history>>

SyncParent ==
    /\ pc = "sync_parent" /\ pc' = "write" /\ result' = result
    /\ durable' = [durable EXCEPT !.exists = TRUE]
    /\ UNCHANGED <<now, created, request, loaded, history>>

\* save_to_bdev: a buffer of the whole device, zero after the metadata.
SavedImage ==
    [i \in 1 .. Len(now.image) |->
       IF i <= MetadataSectors(Meta) THEN WriteToBuf(Meta)[i] ELSE Zero]

Write ==
    /\ pc = "write" /\ request = "none"
    /\ IF MetadataSectors(Meta) > Len(now.image) THEN Return("err") /\ request' = request
       ELSE pc' = "wait_write" /\ request' = "write" /\ result' = result
    /\ UNCHANGED <<fileVars, loaded, history>>

\* The device works: a write in flight shows up sector by sector, and what has
\* been written becomes durable sector by sector.
DeviceWrites(i) ==
    /\ request = "write" /\ i \in 1 .. Len(now.image) /\ now.image[i] # SavedImage[i]
    /\ now' = [now EXCEPT !.image[i] = SavedImage[i]]
    /\ UNCHANGED <<pc, result, durable, created, request, loaded, history>>

DeviceSpills(i) ==
    /\ i \in 1 .. Len(durable.image) /\ durable.image[i] # now.image[i]
    /\ durable' = [durable EXCEPT !.image[i] = now.image[i]]
    /\ UNCHANGED <<pc, result, now, created, request, loaded, history>>

\* wait_for_completion: the answer for its id, or the timeout, after which the
\* request is abandoned although the device may still work on it.
WaitWrite ==
    /\ pc = "wait_write"
    /\ \/ now.image = SavedImage /\ pc' = "flush" /\ result' = result /\ request' = "none"
       \/ Return("err") /\ request' \in {"none", request}
    /\ UNCHANGED <<fileVars, loaded, history>>

Flush ==
    /\ pc = "flush" /\ pc' = "wait_flush" /\ request' = "flush" /\ result' = result
    /\ UNCHANGED <<fileVars, loaded, history>>

WaitFlush ==
    /\ pc = "wait_flush" /\ request' = "none"
    /\ \/ Return("ok") /\ durable' = [now EXCEPT !.exists = durable.exists]
       \/ Return("err") /\ durable' = durable
    /\ UNCHANGED <<now, created, loaded, history>>

\* Any of the calls fails.
StepFails ==
    /\ pc \in {"open", "resize", "sync", "sync_parent", "write", "flush"}
    /\ Return("err")
    /\ UNCHANGED <<fileVars, request, loaded, history>>

-----------------------------------------------------------------------------
\* load_from_bdev at the start of a backend.
Load ==
    /\ pc = "idle" /\ now.exists /\ loaded = NotYet
    /\ loaded' = FromBytes(now.image)
    /\ UNCHANGED <<pc, result, fileVars, request, history>>

PowerFailure ==
    /\ crashes < MaxCrashes /\ crashes' = crashes + 1
    /\ now' = IF durable.exists THEN durable ELSE NoFile
    /\ durable' = now'
    /\ pc' = "idle" /\ request' = "none" /\ loaded' = NotYet
    /\ UNCHANGED <<result, created, inits, fresh, lone>>

SNext ==
    \/ InitStart \/ Open \/ Resize \/ SyncFile \/ SyncParent \/ Write
    \/ WaitWrite \/ Flush \/ WaitFlush \/ StepFails \/ Load \/ PowerFailure
    \/ \E i \in 1 .. Len(now.image) : DeviceWrites(i) \/ DeviceSpills(i)

SSpec == SInit /\ [][SNext]_vars

-----------------------------------------------------------------------------
\* Once init-metadata has returned without an error the backend finds the
\* file, and loads exactly what was written, also after a power failure.  The
\* entry in the directory is the exception: a second init-metadata takes over
\* the file of one that failed before it synced the directory.
SavedIsDurable ==
    /\ result = "ok" /\ ~lone => durable.exists
    /\ result = "ok" /\ loaded # NotYet => loaded = Loaded(Meta)

\* On a path that held no metadata a load that succeeds returns all of the new
\* metadata: a save that was cut short at any sector is refused.
NoPartialMetadata == fresh /\ loaded.ok => loaded = Loaded(Meta)
=============================================================================
