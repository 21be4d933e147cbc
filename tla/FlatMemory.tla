----------------------------- MODULE FlatMemory -----------------------------
(***************************************************************************)
(* What mem.h:43-60 promises the processor: "Return value read from        *)
(* address", "Write data to address".  One array of bytes; no pages, no    *)
(* cache, no blocks, no delay.  CachedMemory and Emulator implement it.    *)
(* A value is a function from byte position to byte.                       *)
(***************************************************************************)
EXTENDS Integers, TLC

CONSTANTS
    SPACE,                  \* number of addresses, 2^64 in the code
    Widths,                 \* bytes in an access
    ReadAddrs, WriteAddrs,  \* addresses loaded from and stored to
    Words,                  \* values stored
    Image,                  \* memory before the first access
    NULL_ADDR,              \* stores to it have no effect, loads from it exit
    Devices,                \* addresses that stand for something else
    Silent                  \* the response before the first access

VARIABLES
    flat,       \* address -> byte
    resp        \* the last access that completed

flatVars == <<flat, resp>>

WordAt(addr, width) == [k \in 0 .. width - 1 |-> flat[(addr + k) % SPACE]]

Read(addr, width) ==
    /\ addr \notin {NULL_ADDR} \cup Devices
    /\ resp' = [op |-> "READ", addr |-> addr, val |-> WordAt(addr, width)]
    /\ UNCHANGED flat

Write(addr, val) ==
    /\ addr \notin {NULL_ADDR} \cup Devices
    /\ resp' = [op |-> "WRITE", addr |-> addr, val |-> val]
    /\ flat' = [a \in DOMAIN flat |->
                   LET k == (a - addr) % SPACE
                   IN  IF k \in DOMAIN val THEN val[k] ELSE flat[a]]

NullWrite(val) ==
    /\ resp' = [op |-> "WRITE", addr |-> NULL_ADDR, val |-> val]
    /\ UNCHANGED flat

\* "Null pointer read attempt": the program exits.
NullRead ==
    /\ resp' = [op |-> "EXIT"]
    /\ UNCHANGED flat

\* A device answers as it likes, and leaves memory alone.
DeviceAccess ==
    /\ \/ resp'.op = "ABORT"
       \/ resp'.op \in {"READ", "WRITE"} /\ resp'.addr \in Devices
    /\ UNCHANGED flat

FlatNext ==
    \/ \E addr \in ReadAddrs, width \in Widths : Read(addr, width)
    \/ \E addr \in WriteAddrs, val \in Words : Write(addr, val)
    \/ \E val \in Words : NullWrite(val)
    \/ NullRead
    \/ DeviceAccess

FlatInit == flat = Image /\ resp = Silent

FlatSpec == FlatInit /\ [][FlatNext]_flatVars
============================================================================
