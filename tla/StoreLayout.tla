----------------------------- MODULE StoreLayout -----------------------------
(***************************************************************************)
(* A store layout: the Maglev table that spreads objects over the active    *)
(* targets.  Hashes are given: Offset and Skip for a store id, Slot for an  *)
(* object.  A target is a record store, weight, enabled, readonly.          *)
(***************************************************************************)
EXTENDS Naturals, Sequences, FiniteSets

CONSTANTS Slots,      \* table_size, a prime
          Offset(_),  \* hash_with_seed(store_id, 0) % table_size
          Skip(_),    \* hash_with_seed(store_id, 1) % (table_size - 1) + 1
          Slot(_)     \* hash_obj_id(obj_id) % table_size

Active(targets) == SelectSeq(targets, LAMBDA t : t.enabled /\ ~t.readonly /\ t.weight > 0)

\* the slot a store takes next: its first preference that is still free
Claim(table, store) ==
    LET at(k) == (Offset(store) + k * Skip(store)) % Slots
        free == {k \in 0 .. Slots - 1 : table[at(k)] = "free"}
    IN  at(CHOOSE k \in free : \A j \in free : k <= j)

\* the order in which stores take slots: passes over the targets with weight
\* left in the round, then a new round
Turns(act) ==
    LET most == CHOOSE wt \in {act[i].weight : i \in DOMAIN act} : \A i \in DOMAIN act : act[i].weight <= wt
        pass(p) == SelectSeq(act, LAMBDA t : t.weight >= p)
        round[p \in 0 .. most] == IF p = 0 THEN <<>> ELSE round[p - 1] \o pass(p)
        one == round[most]
    IN  [k \in 1 .. Slots |-> one[((k - 1) % Len(one)) + 1].store]

\* rebuild_maglev; the empty function is a layout without active target
Table(targets) ==
    LET act == Active(targets)
        turns == Turns(act)
        fill[k \in 0 .. Slots] ==
            IF k = 0 THEN [i \in 0 .. Slots - 1 |-> "free"]
            ELSE [fill[k - 1] EXCEPT ![Claim(fill[k - 1], turns[k])] = turns[k]]
    IN  IF act = <<>> THEN [i \in {} |-> "free"] ELSE fill[Slots]

\* select_primary_target
Primary(table, o) == IF DOMAIN table = {} THEN "none" ELSE table[Slot(o)]

-----------------------------------------------------------------------------
Share(table, s) == Cardinality({i \in DOMAIN table : table[i] = s})

\* Two targets' shares of the table are as their weights: they differ by no
\* more than what one unfinished round leaves, and nobody else has a slot.
Fair(targets, table) ==
    LET act == Active(targets)
    IN  /\ \A i \in DOMAIN table : \E j \in DOMAIN act : act[j].store = table[i]
        /\ \A i, j \in DOMAIN act :
              Share(table, act[i].store) * act[j].weight
                  <= (Share(table, act[j].store) + act[j].weight) * act[i].weight
=============================================================================
