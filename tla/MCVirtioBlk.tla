---------------------------- MODULE MCVirtioBlk ----------------------------
(* Instances of VirtioBlk for TLC.                                         *)
EXTENDS VirtioBlk

Seg(len, ok) == [len |-> len, ok |-> ok]
Req(type, sector, segs, hdr) ==
    [type |-> type, sector |-> sector, segs |-> segs, hdr |-> hdr]

\* On a disk of three sectors: a write of two segments, one that leaves the
\* disk, or a read whose first buffer is not in memory; then an overlapping
\* write whose first buffer is not in memory, or a read; then a chain without
\* a readable header, an unknown type or a flush; then a read of the disk.
First  == {Req("OUT", 0, <<Seg(1, TRUE), Seg(1, TRUE)>>, TRUE),
           Req("OUT", 2, <<Seg(1, TRUE), Seg(1, TRUE)>>, TRUE),
           Req("IN", 0, <<Seg(1, FALSE), Seg(1, TRUE)>>, TRUE)}
Second == {Req("OUT", 0, <<Seg(1, FALSE), Seg(1, TRUE)>>, TRUE),
           Req("IN", 1, <<Seg(2, TRUE)>>, TRUE)}
Third  == {Req("OUT", 0, <<Seg(1, TRUE)>>, FALSE),
           Req("OTHER", 0, <<Seg(1, TRUE)>>, TRUE),
           Req("FLUSH", 0, <<>>, TRUE)}
Fourth == {Req("IN", 0, <<Seg(3, TRUE)>>, TRUE)}

Kinds == <<First, Second, Third, Fourth>>
=============================================================================
