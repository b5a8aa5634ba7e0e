---------------------------- MODULE ConfigIncludes ----------------------------
(***************************************************************************)
(* config/v2/includes.rs and load_merged of load.rs: the root file and the *)
(* files it includes, merged into one table.  A TOML value is a leaf       *)
(* <<"leaf", id>> or a table <<"table", f>> with f from keys to values; an *)
(* include entry is [file, optional, form], form saying what               *)
(* validate_include_path sees in its path; a file is [state, table].       *)
(***************************************************************************)
EXTENDS Naturals, Sequences

CONSTANTS
    Tables,         \* tables a file may hold (functions from keys to values)
    Files,          \* names of files that may be included
    Includes,       \* the include arrays a root file may have
    Allowed         \* allowed_top_level_keys

VARIABLES
    root,           \* the table of the root file, without its include key
    entries,        \* its include array
    files,          \* what each included file is: [state, table]
    next,           \* 0: the array is not parsed yet; otherwise the next entry
    table,          \* root_table, merged so far
    phase           \* "merge", "done" or "failed"

ivars == <<root, entries, files, next, table, phase>>

MergeError == <<"error">>
IsTable(v) == v[1] = "table"

\* Mutant of Clash: a key given twice with the same value is no clash.
ClashWhenDifferent(a, b) == IF a = b THEN a ELSE MergeError

\* (Some(_), _): a duplicate key or a type mismatch.
Clash(a, b) == MergeError

\* (Some(Table), Table): the recursion.
Nested(a, b, merged) == merged

RECURSIVE merge_tables(_, _)
merge_tables(base, addition) ==
    LET Value(k) ==
            IF k \notin DOMAIN addition THEN base[k]
            ELSE IF k \notin DOMAIN base THEN addition[k]
            ELSE IF IsTable(base[k]) /\ IsTable(addition[k])
                 THEN Nested(base[k], addition[k], merge_tables(base[k][2], addition[k][2]))
                 ELSE Clash(base[k], addition[k])
        merged == [k \in DOMAIN base \union DOMAIN addition |-> Value(k)]
    IN  IF \E k \in DOMAIN merged : merged[k] = MergeError THEN MergeError ELSE <<"table", merged>>

validate_include_path(entry) == entry.form \notin {"empty", "absolute", "parent"}

validate_top_level_keys(t) == DOMAIN t \subseteq Allowed

IInit ==
    /\ root \in {t \in Tables : "include" \notin DOMAIN t} /\ entries \in Includes
    /\ files \in [Files -> [state : {"missing", "unreadable", "malformed"}, table : {<<>>}]
                           \union [state : {"ok"}, table : Tables]]
    /\ next = 0 /\ table = root /\ phase = "merge"

\* parse_include_array: every path is validated before the first file is read.
ParseIncludes ==
    /\ phase = "merge" /\ next = 0
    /\ IF \A i \in 1 .. Len(entries) : validate_include_path(entries[i])
       THEN next' = 1 /\ UNCHANGED phase
       ELSE phase' = "failed" /\ UNCHANGED next
    /\ UNCHANGED <<root, entries, files, table>>

Skipped(entry) == entry.optional /\ files[entry.file].state = "missing"

\* One turn of the loop of resolve_includes.
Include ==
    /\ phase = "merge" /\ next \in 1 .. Len(entries)
    /\ LET entry == entries[next]
           file  == files[entry.file]
           merged == merge_tables(table, file.table)
       IN  IF Skipped(entry) THEN next' = next + 1 /\ UNCHANGED <<table, phase>>
           ELSE IF file.state # "ok" \/ "include" \in DOMAIN file.table \/ merged = MergeError
                THEN phase' = "failed" /\ UNCHANGED <<next, table>>
                ELSE next' = next + 1 /\ table' = merged[2] /\ UNCHANGED phase
    /\ UNCHANGED <<root, entries, files>>

\* load_merged after the loop.
CheckKeys ==
    /\ phase = "merge" /\ next = Len(entries) + 1
    /\ phase' = IF validate_top_level_keys(table) THEN "done" ELSE "failed"
    /\ UNCHANGED <<root, entries, files, next, table>>

INext == ParseIncludes \/ Include \/ CheckKeys
ISpec == IInit /\ [][INext]_ivars

-----------------------------------------------------------------------------
(* The nodes of a tree: every path with its leaf, or "table".              *)
RECURSIVE Nodes(_)
Nodes(t) ==
    UNION {{<<<<k>>, IF IsTable(t[k]) THEN <<"table">> ELSE t[k]>>}
           \union (IF IsTable(t[k]) THEN {<<<<k>> \o n[1], n[2]>> : n \in Nodes(t[k][2])} ELSE {}) :
           k \in DOMAIN t}

\* The trees that make up the configuration: the root and the files that are there.
Present == {i \in 1 .. Len(entries) : ~(entries[i].optional /\ files[entries[i].file].state = "missing")}
Part(i) == IF i = 0 THEN root ELSE files[entries[i].file].table
Sources == {0} \union Present

\* Two parts give the same path and are not both tables there.
Conflict(i, j) ==
    \E m \in Nodes(Part(i)), n \in Nodes(Part(j)) : m[1] = n[1] /\ ~(m[2] = <<"table">> /\ n[2] = <<"table">>)

Acceptable ==
    /\ \A i \in 1 .. Len(entries) : entries[i].form = "relative"
    /\ \A i \in Present : files[entries[i].file].state = "ok" /\ "include" \notin DOMAIN Part(i)
    /\ \A i, j \in Sources : i # j => ~Conflict(i, j)
    /\ \A i \in Sources : DOMAIN Part(i) \subseteq Allowed

(* A configuration loads exactly when every file that must be there is,    *)
(* none includes another, no two files give the same key path and no       *)
(* section is unknown, in whatever order the files are listed.             *)
LoadsWhenAcceptable ==
    (phase = "done" => Acceptable) /\ (phase = "failed" => ~Acceptable)

(* The merged table is the union of its parts: no key is lost, overwritten *)
(* or invented, at any depth (merge_tables).                               *)
MergedIsUnion ==
    phase = "done" => Nodes(table) = UNION {Nodes(Part(i)) : i \in Sources}
=============================================================================
