CONSTANTS
    MemAddrs <- MC_MemAddrs
    Bytes <- MC_Bytes
    PAGE <- MC_PAGE
    HADDR <- MC_HADDR
    HMASK <- MC_HMASK
    LITTLE_ENDIAN_BO <- MC_BigEndianHost
    DmiRegions <- MC_DmiHighRegion
    WriteValues <- MC_WriteValues
    LoadAddrs <- MC_LoadAddrs
SPECIFICATION Spec
\* SC_REPORT_ERROR terminates the simulator, so the system really stops.
CHECK_DEADLOCK FALSE
INVARIANT
    DmiAccessInBounds
