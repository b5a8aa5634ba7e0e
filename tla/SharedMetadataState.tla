---------------------------- MODULE SharedMetadataState ----------------------------
(***************************************************************************)
(* The stripe headers of a lazily fetched disk and the atomics that the    *)
(* I/O threads read: UbiMetadata (metadata/types.rs) and                   *)
(* SharedMetadataState (metadata/shared_state.rs).                         *)
(*                                                                         *)
(* A header byte is the set of its flag bits.  The vector of headers is a  *)
(* function from stripes to headers.  The magic, the version and the CRC   *)
(* of a sector are left out: nothing here depends on them.                 *)
(***************************************************************************)
EXTENDS Naturals, FiniteSets

CONSTANTS
    StripeCount,        \* metadata.stripe_count()
    HeadersPerSector,   \* STRIPE_HEADERS_PER_SECTOR, 508 in the code
    SourceStripes       \* the stripes for which stripe_source.has_stripe holds

FETCHED    == "FETCHED"
WRITTEN    == "WRITTEN"
HAS_SOURCE == "HAS_SOURCE"

Flags   == {FETCHED, WRITTEN, HAS_SOURCE}
Stripes == 0 .. (StripeCount - 1)

ASSUME StripeAssumption ==
    /\ StripeCount \in Nat \ {0}
    /\ HeadersPerSector \in Nat \ {0}
    /\ SourceStripes \subseteq Stripes

\* stripe_id_to_sector: sector 0 of the metadata device is its own header.
SectorOf(stripe_id) == (stripe_id \div HeadersPerSector) + 1

Sectors == {SectorOf(s) : s \in Stripes}

\* new_from_stripe_source: what init-metadata writes on a fresh device.
FreshHeaders ==
    [s \in Stripes |-> IF s \in SourceStripes THEN {HAS_SOURCE} ELSE {}]

-----------------------------------------------------------------------------
VARIABLES
    stripe_fetch_states,    \* per stripe: NotFetched, Fetched, Failed, NoSource
    stripe_write_states,    \* per stripe: NotWritten, Written
    fetched_stripes_count,
    source_stripes_count

sharedVars == <<stripe_fetch_states, stripe_write_states,
                fetched_stripes_count, source_stripes_count>>

NotFetched == "NotFetched"
Fetched    == "Fetched"
Failed     == "Failed"
NoSource   == "NoSource"
NotWritten == "NotWritten"
Written    == "Written"

FetchStates == {NotFetched, Fetched, Failed, NoSource}
WriteStates == {NotWritten, Written}

\* SharedMetadataState::new: what the atomics hold after loading `headers`.
LoadedFetchStates(headers) ==
    [s \in Stripes |-> IF HAS_SOURCE \notin headers[s] THEN NoSource
                       ELSE IF FETCHED \in headers[s] THEN Fetched ELSE NotFetched]

LoadedWriteStates(headers) ==
    [s \in Stripes |-> IF WRITTEN \in headers[s] THEN Written ELSE NotWritten]

CountWith(headers, flag) == Cardinality({s \in Stripes : flag \in headers[s]})

SharedInit(headers) ==
    /\ stripe_fetch_states   = LoadedFetchStates(headers)
    /\ stripe_write_states   = LoadedWriteStates(headers)
    /\ fetched_stripes_count = CountWith(headers, FETCHED)
    /\ source_stripes_count  = CountWith(headers, HAS_SOURCE)

SharedLoad(headers) ==
    /\ stripe_fetch_states'   = LoadedFetchStates(headers)
    /\ stripe_write_states'   = LoadedWriteStates(headers)
    /\ fetched_stripes_count' = CountWith(headers, FETCHED)
    /\ source_stripes_count'  = CountWith(headers, HAS_SOURCE)

stripe_fetched_if_needed(s) == stripe_fetch_states[s] \in {Fetched, NoSource}
stripe_written(s)           == stripe_write_states[s] = Written

\* Mutant of NewlyFetched: without the test of the previous state.
NewlyFetchedAlways(S, header) == {s \in S : FETCHED \in header[s]}

\* The stripes whose swap to Fetched finds another value than Fetched or
\* NoSource: each of them adds one to fetched_stripes_count.
NewlyFetched(S, header) ==
    {s \in S : FETCHED \in header[s] /\ ~stripe_fetched_if_needed(s)}

\* set_stripe_header, called once for every stripe of S.
SetStripeHeaders(S, header) ==
    /\ stripe_fetch_states' =
         [s \in Stripes |-> IF s \in S /\ FETCHED \in header[s]
                            THEN Fetched ELSE stripe_fetch_states[s]]
    /\ stripe_write_states' =
         [s \in Stripes |-> IF s \in S /\ WRITTEN \in header[s]
                            THEN Written ELSE stripe_write_states[s]]
    /\ fetched_stripes_count' =
         fetched_stripes_count + Cardinality(NewlyFetched(S, header))
    /\ UNCHANGED source_stripes_count

\* set_stripe_failed.
SetStripeFailed(s) ==
    /\ stripe_fetch_states' = [stripe_fetch_states EXCEPT ![s] = Failed]
    /\ UNCHANGED <<stripe_write_states, fetched_stripes_count, source_stripes_count>>

SharedTypeOK ==
    /\ stripe_fetch_states \in [Stripes -> FetchStates]
    /\ stripe_write_states \in [Stripes -> WriteStates]
    /\ fetched_stripes_count \in Nat
    /\ source_stripes_count \in Nat

\* The counters agree with the per-stripe states: the status report and
\* disconnect_from_source_if_all_fetched rely on them.
CountersExact ==
    /\ fetched_stripes_count =
         Cardinality({s \in Stripes : stripe_fetch_states[s] = Fetched})
    /\ source_stripes_count =
         Cardinality({s \in Stripes : stripe_fetch_states[s] # NoSource})

\* Exactly the stripes outside the source are published as NoSource: without
\* this a stripe could turn from NoSource to Fetched without being counted.
NoSourceExact ==
    \A s \in Stripes : stripe_fetch_states[s] = NoSource <=> s \notin SourceStripes
=============================================================================
