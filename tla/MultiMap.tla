------------------------------ MODULE MultiMap ------------------------------
(***************************************************************************)
(* A hash map with two keys for each item (multi_map.rs).  The item is a   *)
(* box on the heap that both hash maps point to, with keys that point into *)
(* it: a map is a set of pointers, and every lookup follows them.          *)
(*                                                                         *)
(* A pointer is named by what the box holds, [k1, k2]; the value is left   *)
(* out.  The callers hold a lock, so that an operation is one step.        *)
(***************************************************************************)

\* MultiMap::new; "boxes" are the boxes that are allocated.
Empty == [map1 |-> {}, map2 |-> {}, boxes |-> {}]

get1(m, k) == {p \in m.map1 : p.k1 = k}
get2(m, k) == {p \in m.map2 : p.k2 = k}

\* A key that is known is refused; the caller gets its item back.
insert(m, k1, k2) ==
  IF get1(m, k1) # {} \/ get2(m, k2) # {} THEN m
  ELSE LET item == [k1 |-> k1, k2 |-> k2]
       IN [map1 |-> m.map1 \cup {item},
           map2 |-> m.map2 \cup {item},
           boxes |-> m.boxes \cup {item}]

\* Mutant: the item stays in the second map.
remove1Half(m, k) ==
  [map1 |-> m.map1 \ get1(m, k),
   map2 |-> m.map2,
   boxes |-> m.boxes \ get1(m, k)]

\* The item found in one map is removed from the other by its other key, and
\* its box is freed.
remove1(m, k) ==
  [map1 |-> m.map1 \ get1(m, k),
   map2 |-> m.map2 \ UNION {get2(m, p.k2) : p \in get1(m, k)},
   boxes |-> m.boxes \ get1(m, k)]

remove2(m, k) ==
  [map1 |-> m.map1 \ UNION {get1(m, p.k1) : p \in get2(m, k)},
   map2 |-> m.map2 \ get2(m, k),
   boxes |-> m.boxes \ get2(m, k)]

\* The boxes are freed by way of the second map.
clear(m) == [map1 |-> {}, map2 |-> {}, boxes |-> m.boxes \ m.map2]

\* No pointer dangles, no box leaks, and either key finds one item at most.
Sound(m) ==
  /\ m.map1 = m.boxes /\ m.map2 = m.boxes
  /\ \A p, q \in m.boxes : p.k1 = q.k1 \/ p.k2 = q.k2 => p = q
=============================================================================
