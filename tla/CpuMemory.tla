------------------------------ MODULE CpuMemory ------------------------------
(***************************************************************************)
(* What the LEON3 simulator's memory port promises the processor: a       *)
(* byte-addressed memory in SPARC (big-endian) order.  A read of w bytes  *)
(* at a returns the value whose most significant byte is the byte at a;  *)
(* a write stores a value the same way round.  A value is a sequence of   *)
(* bytes, least significant first, as in TlmMemory.                       *)
(*                                                                         *)
(* The target decodes an access by its first address.  An ordinary access *)
(* to an address the target does not decode is an error; a debug access  *)
(* to one transfers nothing: a debug read returns zero and a debug write  *)
(* is dropped.  Any access may instead stop the simulation with an error  *)
(* report; nothing completes after that.  Outside the processor, the      *)
(* memory may be cleared (reset) and a byte may be loaded into it.        *)
(***************************************************************************)
EXTENDS Integers, Sequences, SequencesExt

CONSTANTS
    MemAddrs,   \* the byte addresses
    Bytes,      \* the byte values
    Widths,     \* access widths in bytes
    Values,     \* values the processor writes
    Decoded,    \* addresses at which the target accepts an access
    LoadAddrs   \* addresses the loader writes

VARIABLES
    cells,      \* the memory, one byte per address
    done,       \* the access completed by the last step, if any
    stopped     \* an error report stopped the simulation

avars == <<cells, done, stopped>>

None == [op |-> "none", debug |-> FALSE, addr |-> 0, data |-> <<>>]

Cleared == [a \in MemAddrs |-> 0]

\* The value at a of width w, most significant byte at a.
ValueAt(a, w) == Reverse([i \in 1..w |-> cells[a + i - 1]])

\* cells with value v stored at a, most significant byte at a.
StoreValue(a, v) ==
    [x \in MemAddrs |-> IF x - a \in 0..(Len(v) - 1)
                          THEN Reverse(v)[x - a + 1] ELSE cells[x]]

Fits(a, w) == a + w - 1 \in MemAddrs

Init ==
    /\ cells = Cleared
    /\ done = None
    /\ stopped = FALSE

Read(a, w, debug) ==
    /\ ~stopped
    /\ Fits(a, w)
    /\ debug \/ a \in Decoded
    /\ done' = [op |-> "read", debug |-> debug, addr |-> a,
                data |-> IF a \in Decoded THEN ValueAt(a, w)
                         ELSE [i \in 1..w |-> 0]]
    /\ UNCHANGED <<cells, stopped>>

Write(a, v, debug) ==
    /\ ~stopped
    /\ Fits(a, Len(v))
    /\ debug \/ a \in Decoded
    /\ done' = [op |-> "write", debug |-> debug, addr |-> a, data |-> v]
    /\ cells' = IF a \in Decoded THEN StoreValue(a, v) ELSE cells
    /\ stopped' = FALSE

Fail ==
    /\ ~stopped
    /\ stopped' = TRUE
    /\ UNCHANGED <<cells, done>>

Clear ==
    /\ ~stopped
    /\ cells' = Cleared
    /\ done' = None
    /\ stopped' = FALSE

Load(a, b) ==
    /\ ~stopped
    /\ cells' = [cells EXCEPT ![a] = b]
    /\ done' = None
    /\ stopped' = FALSE

Next ==
    \/ \E a \in MemAddrs, w \in Widths, debug \in BOOLEAN : Read(a, w, debug)
    \/ \E a \in MemAddrs, v \in Values, debug \in BOOLEAN : Write(a, v, debug)
    \/ Fail
    \/ Clear
    \/ \E a \in LoadAddrs, b \in Bytes : Load(a, b)

Spec == Init /\ [][Next]_avars

=============================================================================
