---------------------------- MODULE MC_TlmMemory ----------------------------
(***************************************************************************)
(* Instances of TlmMemory: 8 bytes in four decode units of 2 bytes;      *)
(* haddr 0 and hmask 2 select units 0 and 1 (bytes 0..3), so an access    *)
(* starting at bytes 4..7 gets an address error, while a dword at 0 runs  *)
(* on into them.  A DMI-capable target may grant [2, 3] or [0, 3].       *)
(***************************************************************************)
EXTENDS TlmMemory

MC_MemAddrs == 0..7
MC_Bytes == {0, 1}
MC_PAGE == 2
MC_HADDR == 0
MC_HMASK == 2
MC_BigEndianHost == FALSE
MC_DmiRegions == {[start |-> 2, end |-> 3], [start |-> 0, end |-> 3]}
\* Only the region that does not start at 0: an access below it is possible.
MC_DmiHighRegion == {[start |-> 2, end |-> 3]}
\* Values whose bytes differ, so that a byte-order mistake shows.
MC_WriteValues ==
    [w \in Widths |->
        CASE w = 1 -> {<<1>>}
          [] w = 2 -> {<<0, 1>>}
          [] w = 4 -> {<<1, 0, 0, 0>>}
          [] w = 8 -> {<<0, 0, 0, 0, 1, 0, 0, 0>>}]
MC_LoadAddrs == {0}

=============================================================================
