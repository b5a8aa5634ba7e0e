---------------------------- MODULE VirtioRequest ----------------------------
(***************************************************************************)
(* Request::parse of backends/vhost/request.rs.  A descriptor chain is a    *)
(* sequence of descriptors; the first holds the header.  Addresses are      *)
(* reduced to whether they lie in guest memory.                             *)
(***************************************************************************)
EXTENDS Integers, Sequences

RequestTypes == {"In", "Out", "Flush", "GetDeviceID", "Discard", "WriteZeroes", "Unsupported"}

Desc == [write_only : BOOLEAN, len : {0, 1}, mapped : BOOLEAN]
Chain(n) == [type : RequestTypes, sector : {0, 1}, desc : [1 .. n -> Desc]]

Bad(e) == [error |-> e]
Good(c, data, status) ==
    [error |-> "none", type |-> c.type, sector |-> c.sector, data |-> data, status |-> status]

check_status_desc(d) ==
    IF ~d.write_only THEN "UnexpectedReadOnlyDescriptor"
    ELSE IF d.len < 1 THEN "DescriptorLengthTooSmall"
    ELSE IF ~d.mapped THEN "GuestMemory" ELSE "none"

check_data_desc(d, type) ==
    IF ~d.write_only /\ type = "In" THEN "UnexpectedReadOnlyDescriptor" ELSE "none"

\* Mutant of Walk: the last data descriptor of a read is not checked.
WalkSkipsLast(c, n) ==
    LET wrong == {i \in 2 .. n - 2 : check_data_desc(c.desc[i], c.type) # "none"}
        first == CHOOSE i \in wrong : \A j \in wrong : i <= j
        status == check_status_desc(c.desc[n])
    IN  IF wrong # {} THEN Bad(check_data_desc(c.desc[first], c.type))
        ELSE IF status # "none" THEN Bad(status)
        ELSE Good(c, [j \in 1 .. n - 2 |-> c.desc[j + 1].len], n)

\* The loop of parse: it ends at the first descriptor after the header that is
\* refused; the last is the status, and those before it are data.
Walk(c, n) ==
    LET wrong == {i \in 2 .. n - 1 : check_data_desc(c.desc[i], c.type) # "none"}
        first == CHOOSE i \in wrong : \A j \in wrong : i <= j
        status == check_status_desc(c.desc[n])
    IN  IF wrong # {} THEN Bad(check_data_desc(c.desc[first], c.type))
        ELSE IF status # "none" THEN Bad(status)
        ELSE Good(c, [j \in 1 .. n - 2 |-> c.desc[j + 1].len], n)

Parse(c) ==
    LET n == Len(c.desc)
    IN  IF n = 0 THEN Bad("DescriptorChainTooShort")
        ELSE IF c.desc[1].write_only THEN Bad("UnexpectedWriteOnlyDescriptor")
        ELSE IF ~c.desc[1].mapped THEN Bad("GuestMemory")
        ELSE IF c.type = "Flush" /\ c.sector # 0 THEN Bad("InvalidFlushSector")
        ELSE IF n = 1 THEN Bad("DescriptorChainTooShort")
        ELSE Walk(c, n)

-----------------------------------------------------------------------------
\* The shape that virtio asks for, as the comment of Request::parse puts it:
\* one readable header, data, one writable status, and a read writes its data.
WellFormed(c) ==
    LET n == Len(c.desc) IN
    /\ n >= 2
    /\ ~c.desc[1].write_only /\ c.desc[1].mapped
    /\ c.desc[n].write_only /\ c.desc[n].len >= 1 /\ c.desc[n].mapped
    /\ c.type = "In" => \A i \in 2 .. n : c.desc[i].write_only
    /\ c.type = "Flush" => c.sector = 0

=============================================================================
