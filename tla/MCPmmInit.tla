------------------------------ MODULE MCPmmInit ------------------------------
(***************************************************************************)
(* Memory maps for PmmInit: consecutive entries of 1, 3, 4, 3 and 3 pages  *)
(* of every combination of types.  Page 0 is reserved and the last entry   *)
(* counts as memory, so total_pages is 8, 11 or 14 and the bitmap, at 2    *)
(* bits per byte, 4, 6 or 7 bytes: once a whole page, twice not.           *)
(***************************************************************************)
EXTENDS PmmInit

Types == {"usable", "reclaimable", "reserved"}

Lengths == <<1, 3, 4, 3, 3>>

FirstPage(k) == LET sum[n \in 0 .. k] == IF n = 0 THEN 0 ELSE sum[n - 1] + Lengths[n]
                IN  sum[k - 1]

Entry(k, t) == [base   |-> FirstPage(k) * PMM_PAGE_SIZE,
                length |-> Lengths[k] * PMM_PAGE_SIZE,
                type   |-> t]

MCMaps ==
  {[k \in 1 .. n |-> Entry(k, ts[k])] :
     <<n, ts>> \in {x \in (3 .. 5) \X [1 .. 5 -> Types] :
                      /\ x[2][1] = "reserved"
                      /\ x[2][x[1]] # "reserved"}}

=============================================================================
