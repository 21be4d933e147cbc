----------------------------- MODULE MCEmulator -----------------------------
(***************************************************************************)
(* Sixteen addresses in pages of four, two pages to a bucket; a byte is 0, *)
(* 1 or 2.  The last addresses are special, as in mem.c:31-33.             *)
(***************************************************************************)
EXTENDS Emulator

MCByte == 0 .. 2
MCWords == {[k \in {0} |-> 1], [k \in {0} |-> 2],
            [k \in 0 .. 2 |-> k], [k \in 0 .. 2 |-> 2 - k], [k \in 0 .. 2 |-> 1]}
MCHash == [p \in 0 .. 3 |-> p % 2]
MCStarts == [i \in 0 .. 6 |-> 2 * i]
MCProts  == [i \in 0 .. 6 |-> IF i \in {0, 6} THEN 0 ELSE IF i \in {1, 4} THEN 5 ELSE 6]

\* Text and data in one page; data across two pages of one bucket's chain;
\* segments that overlap; one that starts at NULL and one no program.
MCFiles == {
    [exec |-> TRUE, entry |-> 2,
     segs |-> <<[vaddr |-> 2, data |-> <<1>>], [vaddr |-> 8, data |-> <<>>], [vaddr |-> 9, data |-> <<2, 1>>],
                [vaddr |-> 3, data |-> <<2>>]>>],
    [exec |-> TRUE, entry |-> 4,
     segs |-> <<[vaddr |-> 0, data |-> <<2, 1>>], [vaddr |-> 8, data |-> <<1>>],
                [vaddr |-> 1, data |-> <<2>>], [vaddr |-> 11, data |-> <<2>>]>>],
    [exec |-> FALSE, entry |-> 0, segs |-> <<>>],
    Missing}
============================================================================
