---------------------------- MODULE OrderTable ----------------------------
(***************************************************************************)
(* exec::OrderTable (exec/order_table.hpp): exec's live orders in a dense  *)
(* array with swap-remove, found through an open-addressed index.  Erasing *)
(* an order moves another row and must repoint that row's index entry,     *)
(* while the index itself is about to be compacted.  ExecOrders.tla takes  *)
(* the table for a sequence of rows found by identifier; here is why it    *)
(* may.  The hash is any function, fixed in the initial state.             *)
(***************************************************************************)
EXTENDS Probing, Sequences, FiniteSets

CONSTANTS
    OrderId,      \* identifiers
    MAX_ROWS,     \* rows
    INDEX_SLOTS,  \* slots of the index (2 * MAX_ROWS in the code)
    NoId          \* INVALID_ORDER, the key of an empty slot

ASSUME TableAssumption ==
    /\ MAX_ROWS \in Nat /\ INDEX_SLOTS \in Nat /\ MAX_ROWS < INDEX_SLOTS
    /\ NoId \notin OrderId

TablePos == 0..(INDEX_SLOTS - 1)
NONE == -1

VARIABLES
    tableHash,  \* hash(id) & MASK
    rows_,      \* the dense array, by identifier
    index_      \* the index: key and row number

tableVars == <<tableHash, rows_, index_>>

EmptySlot == [key |-> NoId, pos |-> 0]

\* The slots of the index whose key is in K.
Keyed(K) == {p \in TablePos : index_[p].key \in K}

\* slot_of: the probe ends at an empty slot or at the key.
slot_of(id) ==
    LET p == FirstFrom(tableHash[id], Keyed({NoId, id}), INDEX_SLOTS)
    IN  IF index_[p].key = id THEN p ELSE NONE

\* find: the row of an order, or NONE.
TableFind(id) == LET s == slot_of(id) IN IF s = NONE THEN NONE ELSE index_[s].pos

TableInit ==
    /\ tableHash \in [OrderId -> TablePos]
    /\ rows_ = <<>>
    /\ index_ = [p \in TablePos |-> EmptySlot]

\* insert: refused when the table is full or has the identifier.
TableInsert(id) ==
    LET free == FirstFrom(tableHash[id], Keyed({NoId}), INDEX_SLOTS)
    IN  /\ Len(rows_) < MAX_ROWS
        /\ slot_of(id) = NONE
        /\ rows_' = Append(rows_, id)
        /\ index_' = [index_ EXCEPT ![free] = [key |-> id, pos |-> Len(rows_) + 1]]
        /\ UNCHANGED tableHash

\* Mutant: the moved row's index entry is not repointed.
RepointNot(id) == index_

\* erase, first half: the last row takes the place of row i of id, and its
\* index entry, found by a probe of the index as it still is, is repointed.
Repoint(id) ==
    LET i == TableFind(id)
        moved == rows_[Len(rows_)]
    IN  IF i = Len(rows_) THEN index_
        ELSE [index_ EXCEPT ![slot_of(moved)].pos = i]

\* One round of erase's loop, at the slot k after s: it is over at an empty
\* slot; an entry at least as far from its home as from the hole is moved into
\* the hole, and is left in place until the next one, or the final blank,
\* overwrites it.
CompactStep(s, k, a) ==
    LET i == At(s, k, INDEX_SLOTS)
        home == tableHash[a.ix[i].key]
    IN  IF a.over \/ a.ix[i].key = NoId THEN [a EXCEPT !.over = TRUE]
        ELSE IF Gap(i, home, INDEX_SLOTS) >= Gap(i, a.hole, INDEX_SLOTS)
        THEN [ix |-> [a.ix EXCEPT ![a.hole] = a.ix[i]], hole |-> i, over |-> FALSE]
        ELSE a

\* Mutant: the last slot of the shifted run is not blanked.
CompactUnblanked(ix, s) ==
    LET after[k \in TablePos] ==
          IF k = 0 THEN [ix |-> ix, hole |-> s, over |-> FALSE]
          ELSE CompactStep(s, k, after[k - 1])
    IN  after[INDEX_SLOTS - 1].ix

\* erase, second half: backward-shift deletion of index slot s.
Compact(ix, s) ==
    LET after[k \in TablePos] ==
          IF k = 0 THEN [ix |-> ix, hole |-> s, over |-> FALSE]
          ELSE CompactStep(s, k, after[k - 1])
        end == after[INDEX_SLOTS - 1]
    IN  [end.ix EXCEPT ![end.hole] = EmptySlot]

\* erase: an unknown identifier changes nothing.
TableErase(id) ==
    LET i == TableFind(id)
    IN  /\ i # NONE
        /\ rows_' = [k \in 1..(Len(rows_) - 1) |-> IF k = i THEN rows_[Len(rows_)] ELSE rows_[k]]
        /\ index_' = Compact(Repoint(id), slot_of(id))
        /\ UNCHANGED tableHash

TableNext == \E id \in OrderId : TableInsert(id) \/ TableErase(id)

TableSpec == TableInit /\ [][TableNext]_tableVars

-----------------------------------------------------------------------------
(* Properties.                                                             *)

\* After any sequence of inserts and erases, under any hash, find returns the
\* row that holds the order, for exactly the live orders: no order is lost,
\* resurrected or taken for another (apply_report changes what find returns).
\* The index holds one entry per row and no more, so its load stays below
\* MAX_ROWS and every probe meets an empty slot.
IndexFindsRows ==
    /\ \A id \in OrderId :
          /\ TableFind(id) # NONE => TableFind(id) \in DOMAIN rows_ /\ rows_[TableFind(id)] = id
          /\ TableFind(id) = NONE => \A i \in DOMAIN rows_ : rows_[i] # id
    /\ Cardinality({p \in TablePos : index_[p].key # NoId}) = Len(rows_)
=============================================================================
