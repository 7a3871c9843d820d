------------------------------- MODULE AhbMem -------------------------------
(***************************************************************************)
(* The AHB test memory of src/models/ahbmem/ahbmem.cpp.                    *)
(*                                                                         *)
(* The memory is a std::map from address to byte.  A missing key reads as *)
(* 0 (operator[] inserts it), so the map is modelled as a total function   *)
(* that starts, and is reset to, all zeros.  The slave decodes the upper   *)
(* address bits (addr >> 20) against haddr/hmask; the model scales the     *)
(* 1 MB decode unit down to PAGE bytes.  Delays and the byte counters are  *)
(* telemetry and are left out.                                             *)
(***************************************************************************)
EXTENDS Integers, Sequences, Bitwise

CONSTANTS
    MemAddrs,   \* the byte addresses of the model, 0..n
    Bytes,      \* the byte values
    PAGE,       \* bytes per decode unit (stands for 2^20)
    HADDR,      \* AMBA AHB address (12 bit in the code)
    HMASK       \* AMBA AHB address mask (12 bit in the code)

ASSUME /\ MemAddrs \subseteq Nat
       /\ PAGE \in Nat \ {0}
       /\ HADDR \in Nat /\ HMASK \in Nat

VARIABLE mem

\* The slave select condition of exec_func:
\* !((mhaddr ^ (trans.get_address() >> 20)) & mhmask).
SlaveSelected(addr) == ((HADDR ^^ (addr \div PAGE)) & HMASK) = 0

\* The read loop: byte i of the data buffer is mem[address + i]; an
\* address the map has no key for reads 0.
Load(m, addr, len) ==
    [i \in 1..len |-> IF addr + i - 1 \in DOMAIN m THEN m[addr + i - 1] ELSE 0]

\* The write loop: mem[address + i] = data[i] for every byte of the buffer.
Store(m, addr, data) ==
    [a \in DOMAIN m |-> IF a - addr \in 0..(Len(data) - 1)
                          THEN data[a - addr + 1] ELSE m[a]]

(***************************************************************************)
(* exec_func on a transaction (cmd, addr, data): the response status, the *)
(* memory after it and the data buffer after it.  A transaction that is   *)
(* selected but runs past the slave region is only warned about and is    *)
(* executed anyhow, so the region end is not tested here.                 *)
(***************************************************************************)
ExecFunc(m, cmd, addr, data) ==
    CASE ~SlaveSelected(addr) ->
             [status |-> "ADDRESS_ERROR", mem |-> m, data |-> data]
      [] cmd = "write" ->
             [status |-> "OK", mem |-> Store(m, addr, data), data |-> data]
      [] cmd = "read" ->
             [status |-> "OK", mem |-> m, data |-> Load(m, addr, Len(data))]

MemInit == mem = [a \in MemAddrs |-> 0]

\* dorst: mem.clear(), after which every address reads 0.
Dorst == mem' = [a \in MemAddrs |-> 0]

\* writeByteDBG: mem[address] = byte, with no address check.
WriteByteDBG(address, byte) == mem' = [mem EXCEPT ![address] = byte]

=============================================================================
