--------------------------- MODULE SecretResolution ---------------------------
(***************************************************************************)
(* config/v2/secrets.rs: resolve_secrets.  The definitions are scanned in  *)
(* the order of a hash map, again and again: a secret whose KEK is not     *)
(* resolved yet waits for a later pass, and a pass that resolves nothing   *)
(* ends in "circular secret references detected".                          *)
(*                                                                         *)
(* A definition is [source, present, readable, encoding, trailing, data,   *)
(* encrypted_by]: where the bytes come from ("pipe" and "regular" are both *)
(* source.file), whether it can be opened, whether its base64 is well      *)
(* formed, its trailing white space, the decoded bytes of KeyWrap, and the *)
(* name of the KEK or NoRef.  aad and data name secrets as one-tuples.     *)
(***************************************************************************)
EXTENDS KeyWrap, FiniteSets

CONSTANTS
    Names,          \* the names of secrets
    Definitions,    \* the definitions a name may have
    DangerZones     \* the danger zones of the configuration

NoRef == ""
MAX_SECRET_BYTES == 8192

VARIABLES
    defs,           \* the definitions: a function from some of the names
    danger_zone,    \* DangerZone
    phase,          \* "refs", "scan", "done" or "failed"
    pass,           \* remaining_defs: the names the current pass started with
    remaining,      \* the names of pass not scanned yet
    updated,        \* names the current pass keeps for the next
    resolved,       \* name -> bytes
    reads           \* how often the source of each name was opened

svars == <<defs, danger_zone, phase, pass, remaining, updated, resolved, reads>>

-----------------------------------------------------------------------------
(* Loading one source.                                                     *)

Permitted(def, dz) ==
    CASE def.source = "regular" -> dz.enabled /\ dz.allow_secret_over_regular_file
      [] def.source = "inline"  -> def.encrypted_by # NoRef \/ (dz.enabled /\ dz.allow_inline_plaintext_secrets)
      [] def.source = "env"     -> dz.enabled /\ dz.allow_env_secrets
      [] OTHER                  -> TRUE

DivCeil(a, b) == (a + b - 1) \div b
Encoded(len) == DivCeil(len, 3) * 4
Smaller(a, b) == IF a < b THEN a ELSE b

\* take(max_bytes + 1) of load_file_source; the other sources are read whole.
ReadLimit(source) ==
    IF source \in {"pipe", "regular"} THEN DivCeil(MAX_SECRET_BYTES, 3) * 4 + 4 + 1 ELSE 1000000

Cut(data, len) == IF len = data.len THEN data ELSE Bytes(<<"cut", data.v>>, len)

\* decode of what was read: base64 has trailing white space trimmed and is refused
\* when its length is not a multiple of four.
LoadDecoded(def) ==
    LET size == IF def.encoding = "base64" THEN Encoded(def.data.len) + def.trailing ELSE def.data.len
        n    == Smaller(size, ReadLimit(def.source))
        body == Smaller(n, Encoded(def.data.len))
    IN  CASE def.encoding = "plaintext"         -> Cut(def.data, n)
          [] ~def.readable \/ body % 4 # 0      -> Err
          [] OTHER -> Cut(def.data, IF body = Encoded(def.data.len) THEN def.data.len ELSE (body \div 4) * 3)

validate_secret_length(bytes) == IF bytes = Err \/ bytes.len > MAX_SECRET_BYTES THEN Err ELSE bytes

\* maybe_resolve_secret once the KEK is there; kek is Absent when there is none.
Resolve(name, def, kek, dz) ==
    LET bytes == IF def.present /\ Permitted(def, dz) THEN validate_secret_length(LoadDecoded(def)) ELSE Err
    IN  IF bytes = Err \/ kek = Absent THEN bytes ELSE aes256gcm_decrypt(kek, <<name>>, bytes)

-----------------------------------------------------------------------------
(* resolve_secrets.                                                        *)

SInit ==
    /\ \E N \in SUBSET Names : defs \in [N -> Definitions]
    /\ danger_zone \in DangerZones
    /\ phase = "refs" /\ pass = DOMAIN defs /\ remaining = pass /\ updated = {}
    /\ resolved = <<>> /\ reads = [n \in DOMAIN defs |-> 0]

HasRef(n) == defs[n].encrypted_by # NoRef
Complete == DOMAIN resolved = DOMAIN defs

CheckRefs ==
    /\ phase = "refs"
    /\ phase' = IF \E n \in DOMAIN defs : HasRef(n) /\ defs[n].encrypted_by \notin DOMAIN defs
                THEN "failed" ELSE IF Complete THEN "done" ELSE "scan"
    /\ UNCHANGED <<defs, danger_zone, pass, remaining, updated, resolved, reads>>

Waits(n) == HasRef(n) /\ defs[n].encrypted_by \notin DOMAIN resolved

Wait(n) ==
    /\ phase = "scan" /\ n \in remaining /\ Waits(n)
    /\ remaining' = remaining \ {n} /\ updated' = updated \union {n}
    /\ UNCHANGED <<defs, danger_zone, phase, pass, resolved, reads>>

ResolveOne(n) ==
    /\ phase = "scan" /\ n \in remaining /\ ~Waits(n)
    /\ LET bytes == Resolve(n, defs[n], IF HasRef(n) THEN resolved[defs[n].encrypted_by] ELSE Absent, danger_zone)
       IN  /\ remaining' = remaining \ {n}
           /\ reads' = [reads EXCEPT ![n] = @ + 1]
           /\ phase' = IF bytes = Err THEN "failed" ELSE phase
           /\ resolved' = IF bytes = Err THEN resolved
                          ELSE [m \in DOMAIN resolved \union {n} |-> IF m = n THEN bytes ELSE resolved[m]]
    /\ UNCHANGED <<defs, danger_zone, pass, updated>>

\* Mutant of NoProgress: any secret left over is an error.
StuckWhenAnyLeft(kept) == kept # {}

NoProgress(kept) == Cardinality(kept) = Cardinality(pass)

EndPass ==
    /\ phase = "scan" /\ remaining = {}
    /\ phase' = IF NoProgress(updated) THEN "failed" ELSE IF Complete THEN "done" ELSE "scan"
    /\ pass' = updated /\ remaining' = updated /\ updated' = {}
    /\ UNCHANGED <<defs, danger_zone, resolved, reads>>

SNext == CheckRefs \/ (\E n \in Names : Wait(n) \/ ResolveOne(n)) \/ EndPass

\* The loader is a sequential program that runs until it returns.
SSpec == SInit /\ [][SNext]_svars /\ WF_svars(SNext)

-----------------------------------------------------------------------------
(* What the definitions mean, without an order: a secret opened through at *)
(* most d KEKs.                                                            *)
Meaning[d \in 0 .. Cardinality(Names)] ==
    [n \in DOMAIN defs |->
        LET kek == IF d = 0 \/ defs[n].encrypted_by \notin DOMAIN defs THEN Err
                   ELSE Meaning[d - 1][defs[n].encrypted_by]
        IN  IF ~HasRef(n) THEN Resolve(n, defs[n], Absent, danger_zone)
            ELSE IF kek = Err THEN Err ELSE Resolve(n, defs[n], kek, danger_zone)]

(* resolve_secrets succeeds exactly when every secret has a meaning, and   *)
(* then yields it, in whatever order the hash map is scanned: a chain of   *)
(* KEKs is no cycle, a cycle and a missing KEK are no chain.               *)
OutcomeIndependentOfOrder ==
    LET m == Meaning[Cardinality(Names)]
    IN  /\ phase = "done"   => resolved = m
        /\ phase = "failed" => \E n \in DOMAIN defs : m[n] = Err

(* A source is opened at most once over all passes: a named pipe delivers  *)
(* its secret to the first reader only.                                    *)
ReadOnce == \A n \in DOMAIN defs : reads[n] <= 1

(* A secret is never a silently truncated one: what load_file_source leaves*)
(* unread, base64 decoding or the length check rejects.                    *)
NeverTruncated == \A n \in DOMAIN resolved : resolved[n].v[1] # "cut"

(* A ciphertext resolves in one slot only: its secret's name is its AAD.   *)
BoundToSlot ==
    \A m, n \in DOMAIN resolved :
        m # n /\ HasRef(m) /\ HasRef(n) => defs[m].data # defs[n].data

(* With danger_zone.enabled false no secret came from the environment, a   *)
(* regular file or plaintext in the configuration, whatever the flags say. *)
MasterSwitch ==
    phase = "done" /\ ~danger_zone.enabled =>
        \A n \in DOMAIN defs : defs[n].source = "pipe" \/ (defs[n].source = "inline" /\ HasRef(n))
=============================================================================
