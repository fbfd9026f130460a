--------------------------- MODULE MCInterconnect ---------------------------
(***************************************************************************)
(* Two bytes make a word.  Memory is bytes 0 to 5, the CLINT bytes 8 to    *)
(* 11, and nobody answers bytes 12 to 15.  The LSU and the fills share the *)
(* word at byte 2.                                                         *)
(***************************************************************************)
EXTENDS Interconnect

MCSoc == {<<0, 5>>}
MCClint == {<<8, 11>>}
MCLsuAddrs == {2, 10, 12}
MCIfuBlocks == {0, 12}

\* Fixed priority starves nobody: every fill and every access is served.
Served == FillServed /\ AccessServed
=============================================================================
