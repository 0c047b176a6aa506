------------------------------ MODULE MCPmmScan ------------------------------
(***************************************************************************)
(* Every bitmap of 7 pages in words of 3 bits, with every value of the two *)
(* stray bits of the last word, for both scans.                            *)
(***************************************************************************)
EXTENDS PmmAlignedScan

=============================================================================
