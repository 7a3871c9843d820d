------------------------------ MODULE TlmMemory ------------------------------
(***************************************************************************)
(* The LEON3 instruction-set simulator's TLM memory port, TLMMemory of    *)
(* src/models/extern/LEON3/simulatorSources/funcLT/externalPorts.cpp,     *)
(* with the AHB test memory (AhbMem) as the target behind its socket.     *)
(*                                                                         *)
(* A CPU value is a sequence of bytes, least significant byte first; the  *)
(* target memory holds bytes in address order.  memcpy between the two   *)
(* depends on the host byte order, and the #ifdef LITTLE_ENDIAN_BO blocks *)
(* turn the value round.  The quantum keeper only annotates time and is   *)
(* left out; so is the debugger's notifyAddress.                          *)
(*                                                                         *)
(* The target may grant DMI after a b_transport.  AHBMem itself never     *)
(* does ("DMI ... fields are ignored"); DmiRegions stands for a DMI-      *)
(* capable target in front of the same storage.  A DMI pointer points     *)
(* into that storage, so the byte at address a is mem[a].                 *)
(***************************************************************************)
EXTENDS AhbMem, SequencesExt

CONSTANTS
    LITTLE_ENDIAN_BO,   \* TRUE when the host is little endian and the macro is set
    DmiRegions,         \* regions [start, end] a target may grant
    WriteValues,        \* WriteValues[w]: the w-byte values the CPU stores
    LoadAddrs           \* addresses the loader writes with writeByteDBG

ASSUME /\ LITTLE_ENDIAN_BO \in BOOLEAN
       /\ \A r \in DmiRegions : r.start <= r.end /\ r.start..r.end \subseteq MemAddrs

VARIABLES
    dmi_ptr_valid,  \* this->dmi_ptr_valid
    dmi_data,       \* the region of this->dmi_data
    halted,         \* SC_REPORT_ERROR was raised: it throws out of a throw()
                    \* function, which terminates the simulator
    last            \* history: the access the last step completed, if any

vars == <<mem, dmi_ptr_valid, dmi_data, halted, last>>

Widths == {1, 2, 4, 8}

\* The accesses the ISS issues are naturally aligned (it traps the others).
CpuAddrs(w) == {a \in MemAddrs : a % w = 0 /\ a + w - 1 \in MemAddrs}

\* dmi_data.init(): start 0; the end is never read while the pointer is invalid.
DmiReset == [start |-> 0, end |-> 0]

NoAccess == [op |-> "none", path |-> "none", addr |-> 0, data |-> <<>>]

Zeros(w) == [i \in 1..w |-> 0]

(***************************************************************************)
(* Conversions.                                                           *)
(***************************************************************************)

\* memcpy between a host integer and the bytes behind a pointer: on a
\* little-endian host the least significant byte is at the lowest address.
HostValue(bytes) == IF LITTLE_ENDIAN_BO THEN bytes ELSE Reverse(bytes)

\* #ifdef LITTLE_ENDIAN_BO swapEndianess(datum): reverse a half or a word.
SwapEndianess(v) == IF LITTLE_ENDIAN_BO THEN Reverse(v) ELSE v

\* The dword conversion: each 32-bit half is swapped on its own,
\* datum1 | (datum2 << 32).
SwapDword(v) ==
    IF LITTLE_ENDIAN_BO
      THEN Reverse(SubSeq(v, 1, 4)) \o Reverse(SubSeq(v, 5, 8))
      ELSE v

NoSwap(v) == v

\* The conversion each width applies, the same way in both directions.
Convert(w, v) ==
    CASE w = 8 -> SwapDword(v)
      [] w \in {2, 4} -> SwapEndianess(v)
      [] w = 1 -> NoSwap(v)

(***************************************************************************)
(* The DMI path.                                                          *)
(***************************************************************************)

\* The bounds test before a DMI memcpy:
\* address + dmi_data.get_start_address() > dmi_data.get_end_address().
DmiOutOfBounds(address) == address + dmi_data.start > dmi_data.end

\* get_dmi_ptr() points at the byte of the region's start address.
DmiBase == dmi_data.start

\* Where memcpy goes: get_dmi_ptr() - get_start_address() + address.
DmiIndexNoOffset(address) == DmiBase + address
DmiIndex(address) == DmiBase - dmi_data.start + address

\* After a b_transport: if the target allowed DMI, dmi_data.init() and
\* dmi_ptr_valid = get_direct_mem_ptr(trans, dmi_data), which fills in a
\* region that holds the address or refuses.
DmiGrantIgnoresResult(address) ==
    \/ UNCHANGED <<dmi_ptr_valid, dmi_data>>
    \/ /\ DmiRegions # {}
       /\ \E g \in {DmiReset} \cup {r \in DmiRegions : address \in r.start..r.end} :
            /\ dmi_data' = g
            /\ dmi_ptr_valid' = TRUE

DmiGrant(address) ==
    \/ UNCHANGED <<dmi_ptr_valid, dmi_data>>
    \/ /\ DmiRegions # {}
       /\ \E g \in {DmiReset} \cup {r \in DmiRegions : address \in r.start..r.end} :
            /\ dmi_data' = g
            /\ dmi_ptr_valid' = (g # DmiReset)

\* SC_REPORT_ERROR: the exception leaves a throw() function.
ReportError ==
    /\ halted' = TRUE
    /\ UNCHANGED <<mem, dmi_ptr_valid, dmi_data, last>>

(***************************************************************************)
(* Accesses.  Read and Write are the common body of read_dword/half/byte  *)
(* and write_dword/half/byte; Convert gives the conversion of each width. *)
(***************************************************************************)
Read(address, w) ==
    /\ ~halted
    /\ IF dmi_ptr_valid
         THEN IF DmiOutOfBounds(address)
                THEN ReportError
                ELSE /\ last' = [op |-> "read", path |-> "dmi", addr |-> address,
                                 data |-> Convert(w, HostValue(Load(mem, DmiIndex(address), w)))]
                     /\ UNCHANGED <<mem, dmi_ptr_valid, dmi_data, halted>>
         ELSE LET r == ExecFunc(mem, "read", address, Zeros(w)) IN
              IF r.status # "OK"
                THEN ReportError
                ELSE /\ last' = [op |-> "read", path |-> "bus", addr |-> address,
                                 data |-> Convert(w, HostValue(r.data))]
                     /\ DmiGrant(address)
                     /\ UNCHANGED <<mem, halted>>

Write(address, v) ==
    LET bytes == HostValue(Convert(Len(v), v))
        done(path) == last' = [op |-> "write", path |-> path, addr |-> address, data |-> v]
    IN
    /\ ~halted
    /\ IF dmi_ptr_valid
         THEN IF DmiOutOfBounds(address)
                THEN ReportError
                ELSE /\ mem' = Store(mem, DmiIndex(address), bytes)
                     /\ done("dmi")
                     /\ UNCHANGED <<dmi_ptr_valid, dmi_data, halted>>
         ELSE LET r == ExecFunc(mem, "write", address, bytes) IN
              IF r.status # "OK"
                THEN ReportError
                ELSE /\ mem' = r.mem
                     /\ done("bus")
                     /\ DmiGrant(address)
                     /\ UNCHANGED halted

ReadDword(address) == Read(address, 8)
ReadHalf(address) == Read(address, 2)
ReadByte(address) == Read(address, 1)

WriteDword(address, v) == Write(address, v)
WriteHalf(address, v) == Write(address, v)
WriteByte(address, v) == Write(address, v)

(***************************************************************************)
(* Debug accesses: transport_dbg, with no DMI, no response check and no   *)
(* time.  A target transfers nothing for an address it does not decode,  *)
(* so a failed debug read returns the initial datum 0.                   *)
(***************************************************************************)
DbgRead(address, w) ==
    LET r == ExecFunc(mem, "read", address, Zeros(w)) IN
    /\ ~halted
    /\ last' = [op |-> "read", path |-> "dbg", addr |-> address,
                data |-> Convert(w, HostValue(r.data))]
    /\ UNCHANGED <<mem, dmi_ptr_valid, dmi_data, halted>>

DbgWrite(address, v) ==
    LET r == ExecFunc(mem, "write", address, HostValue(Convert(Len(v), v))) IN
    /\ ~halted
    /\ mem' = r.mem
    /\ last' = [op |-> "write", path |-> "dbg", addr |-> address, data |-> v]
    /\ UNCHANGED <<dmi_ptr_valid, dmi_data, halted>>

ReadDwordDbg(address) == DbgRead(address, 8)
ReadWordDbg(address) == DbgRead(address, 4)
ReadHalfDbg(address) == DbgRead(address, 2)
ReadByteDbg(address) == DbgRead(address, 1)

WriteDwordDbg(address, v) == DbgWrite(address, v)
WriteWordDbg(address, v) == DbgWrite(address, v)
WriteHalfDbg(address, v) == DbgWrite(address, v)
WriteByteDbg(address, v) == DbgWrite(address, v)

(***************************************************************************)
(* The target's own operations.                                           *)
(***************************************************************************)
MemReset ==
    /\ ~halted
    /\ Dorst
    /\ last' = NoAccess
    /\ UNCHANGED <<dmi_ptr_valid, dmi_data, halted>>

MemWriteByteDBG(address, byte) ==
    /\ ~halted
    /\ WriteByteDBG(address, byte)
    /\ last' = NoAccess
    /\ UNCHANGED <<dmi_ptr_valid, dmi_data, halted>>

\* The constructor: debugger = NULL, dmi_ptr_valid = false.
Init ==
    /\ MemInit
    /\ dmi_ptr_valid = FALSE
    /\ dmi_data = DmiReset
    /\ halted = FALSE
    /\ last = NoAccess

Next ==
    \/ \E a \in CpuAddrs(8) : ReadDword(a)
    \/ \E a \in CpuAddrs(2) : ReadHalf(a)
    \/ \E a \in CpuAddrs(1) : ReadByte(a)
    \/ \E a \in CpuAddrs(8), v \in WriteValues[8] : WriteDword(a, v)
    \/ \E a \in CpuAddrs(2), v \in WriteValues[2] : WriteHalf(a, v)
    \/ \E a \in CpuAddrs(1), v \in WriteValues[1] : WriteByte(a, v)
    \/ \E a \in CpuAddrs(8) : ReadDwordDbg(a)
    \/ \E a \in CpuAddrs(4) : ReadWordDbg(a)
    \/ \E a \in CpuAddrs(2) : ReadHalfDbg(a)
    \/ \E a \in CpuAddrs(1) : ReadByteDbg(a)
    \/ \E a \in CpuAddrs(8), v \in WriteValues[8] : WriteDwordDbg(a, v)
    \/ \E a \in CpuAddrs(4), v \in WriteValues[4] : WriteWordDbg(a, v)
    \/ \E a \in CpuAddrs(2), v \in WriteValues[2] : WriteHalfDbg(a, v)
    \/ \E a \in CpuAddrs(1), v \in WriteValues[1] : WriteByteDbg(a, v)
    \/ MemReset
    \/ \E a \in LoadAddrs, b \in Bytes : MemWriteByteDBG(a, b)

Spec == Init /\ [][Next]_vars

(***************************************************************************)
(* Properties.                                                            *)
(***************************************************************************)

TypeOK ==
    /\ mem \in [MemAddrs -> Bytes]
    /\ dmi_ptr_valid \in BOOLEAN
    /\ dmi_data \in [start : MemAddrs, end : MemAddrs]
    /\ dmi_ptr_valid => dmi_data \in DmiRegions
    /\ halted \in BOOLEAN
    /\ last.op \in {"none", "read", "write"}
    /\ last.path \in {"none", "dmi", "bus", "dbg"}

(***************************************************************************)
(* Refinement: the port with its target implements CpuMemory.  The        *)
(* target's bytes are the memory cells, the completed access is `last`    *)
(* without the path it took (a debug access is still told apart), and an  *)
(* error report stops the simulation.                                     *)
(***************************************************************************)
AbsMem == INSTANCE CpuMemory WITH
    cells <- mem,
    done <- [op |-> last.op, debug |-> last.path = "dbg",
             addr |-> last.addr, data |-> last.data],
    stopped <- halted,
    Values <- UNION {WriteValues[w] : w \in Widths},
    Decoded <- {a \in MemAddrs : SlaveSelected(a)}

\* Every access of the port, whatever mix of widths and of DMI, b_transport
\* and transport_dbg paths, behaves as an access of a big-endian memory:
\* reads (read_dword/half/byte and the _dbg reads) return the value whose
\* most significant byte is at the lowest address, writes store values the
\* same way round in the target's bytes, so the conversions and the DMI
\* address arithmetic agree with the target's byte order.
ImplementsCpuMemory == AbsMem!Spec

\* Every byte a DMI memcpy touches lies inside the region the target
\* granted (the bounds test before each memcpy of read_*/write_*).
DmiAccessInBounds ==
    last.path = "dmi" =>
        last.addr..(last.addr + Len(last.data) - 1) \subseteq dmi_data.start..dmi_data.end

=============================================================================
