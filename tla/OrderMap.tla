------------------------------ MODULE OrderMap ------------------------------
(***************************************************************************)
(* core::equity::OrderMap (core/core.cpp): the open-addressed hash table   *)
(* from order reference to order entry, with linear probing and            *)
(* backward-shift deletion.  A slot that is given up keeps its key, and    *)
(* erase looks for a key without a look at "occupied".  OrderBook.tla takes*)
(* the table for a partial function; here is why it may.  The hash is any  *)
(* function, fixed in the initial state.                                   *)
(***************************************************************************)
EXTENDS Probing, FiniteSets

CONSTANTS
    Key,          \* order references
    Entry,        \* order entries
    MapCapacity,  \* slots
    NoKey         \* the key of a slot never used (0: not a reference of the feed)

ASSUME MapAssumption == MapCapacity \in Nat \ {0} /\ Entry # {} /\ NoKey \notin Key

MapPos == 0..(MapCapacity - 1)

VARIABLES
    mapHash,  \* hash(ref) & MASK
    slots_,   \* the table
    map       \* history: the partial function the table stands for

mapVars == <<mapHash, slots_, map>>

BlankSlot == [key |-> NoKey, entry |-> CHOOSE e \in Entry : TRUE, occupied |-> FALSE]

\* Free slots, and those that hold a key, live or stale.
Free == {p \in MapPos : ~slots_[p].occupied}
Holding(key) == {p \in MapPos : slots_[p].key = key}

MapInit ==
    /\ mapHash \in [Key -> MapPos]
    /\ slots_ = [p \in MapPos |-> BlankSlot]
    /\ map = [k \in {} |-> BlankSlot]

\* find: the probe ends at an unoccupied slot (not found) or at the key.
MapFind(ref) ==
    LET s == slots_[FirstFrom(mapHash[ref], Free \cup Holding(ref), MapCapacity)]
    IN  IF s.occupied THEN {s.entry} ELSE {}

\* insert: the first unoccupied slot.  The table is never filled up: a probe
\* for a key it does not have would not end.
MapInsert(ref, e) ==
    LET p == FirstFrom(mapHash[ref], Free, MapCapacity)
    IN  /\ ref \notin DOMAIN map
        /\ Cardinality(DOMAIN map) < MapCapacity - 1
        /\ slots_' = [slots_ EXCEPT ![p] = [key |-> ref, entry |-> e, occupied |-> TRUE]]
        /\ map' = [k \in DOMAIN map \cup {ref} |-> IF k = ref THEN e ELSE map[k]]
        /\ UNCHANGED mapHash

\* Mutant: an entry moved back is left where it was, too.
ShiftStepCopies(p, k, a) ==
    LET q == At(p, k, MapCapacity)
        home == mapHash[a.tab[q].key]
    IN  IF a.over \/ ~a.tab[q].occupied THEN [a EXCEPT !.over = TRUE]
        ELSE IF Gap(q, home, MapCapacity) > Gap(a.hole, home, MapCapacity)
        THEN [tab |-> [a.tab EXCEPT ![a.hole] = a.tab[q]], hole |-> q, over |-> FALSE]
        ELSE a

\* One round of erase's second loop, at the slot k after p: it is over at an
\* unoccupied slot; an entry whose probe passes the hole is moved into it and
\* leaves a new one.
ShiftStep(p, k, a) ==
    LET q == At(p, k, MapCapacity)
        home == mapHash[a.tab[q].key]
    IN  IF a.over \/ ~a.tab[q].occupied THEN [a EXCEPT !.over = TRUE]
        ELSE IF Gap(q, home, MapCapacity) > Gap(a.hole, home, MapCapacity)
        THEN [tab |-> [a.tab EXCEPT ![a.hole] = a.tab[q], ![q].occupied = FALSE],
              hole |-> q, over |-> FALSE]
        ELSE a

\* Mutant: the slot is given up and nothing is moved back.
ShiftNothing(p) == [slots_ EXCEPT ![p].occupied = FALSE]

\* erase, once it has found the slot p: p is given up and the chain is closed.
ShiftBack(p) ==
    LET after[k \in MapPos] ==
          IF k = 0 THEN [tab |-> [slots_ EXCEPT ![p].occupied = FALSE], hole |-> p, over |-> FALSE]
          ELSE ShiftStep(p, k, after[k - 1])
    IN  after[MapCapacity - 1].tab

\* erase, of a reference find has just found.
MapErase(ref) ==
    /\ ref \in DOMAIN map
    /\ slots_' = ShiftBack(FirstFrom(mapHash[ref], Holding(ref), MapCapacity))
    /\ map' = [k \in DOMAIN map \ {ref} |-> map[k]]
    /\ UNCHANGED mapHash

MapNext ==
    \E ref \in Key : MapErase(ref) \/ \E e \in Entry : MapInsert(ref, e)

MapSpec == MapInit /\ [][MapNext]_mapVars

-----------------------------------------------------------------------------
(* Properties.                                                             *)

\* After any sequence of inserts and erases, under any hash, find returns the
\* entry of every live reference and nothing for any other: no erase breaks a
\* probe chain, takes a stale key for the live one, or leaves an entry behind.
\* Nor is an entry duplicated or leaked: the table has as many occupied slots as
\* the book has orders, so that it fills up only with live orders.
FindsExactlyTheLive ==
    /\ \A ref \in Key : MapFind(ref) = IF ref \in DOMAIN map THEN {map[ref]} ELSE {}
    /\ Cardinality({p \in MapPos : slots_[p].occupied}) = Cardinality(DOMAIN map)
=============================================================================
