----------------------------- MODULE HashTables -----------------------------
(***************************************************************************)
(* The pipeline's two hash tables: core's OrderMap and exec's OrderTable.  *)
(* They are in two processes and share nothing but the way they probe.     *)
(***************************************************************************)
EXTENDS OrderMap, OrderTable

\* The two hash tables find exactly the live orders after any sequence of
\* inserts and erases, under any hash.  OrderMap::find returns the entry of
\* every live reference and nothing for any other, and as many slots are
\* occupied as orders live; OrderTable::find returns the row that holds the
\* order, whatever rows an erase has moved, and the index has no other entry.
TablesFindTheLive == FindsExactlyTheLive /\ IndexFindsRows
=============================================================================
