-------------------------------- MODULE Trees --------------------------------
(***************************************************************************)
(* The ordered maps of crates/database (tree/): Tree, its guards, cursors  *)
(* and leaves, on the pages of module Pages. A page of a tree is read as a *)
(* leaf: a sequence of keys with their values.                             *)
(*                                                                         *)
(* There are no branches in this model because there are none in any tree  *)
(* of the program: when a full leaf is split, Cursor::parent_insert        *)
(* allocates a branch without children and panics when it sets the first   *)
(* (cursor.rs:189). What that leaves behind is modelled.                   *)
(*                                                                         *)
(* "entries" and "savedEntries" are history: what the callers put in, and  *)
(* what was in at the last snapshot.                                       *)
(***************************************************************************)
EXTENDS Pages, FiniteSets

CONSTANTS
  Keys,           \* a set of integers
  Values,
  Order,          \* entries of a leaf
  MaxPage,        \* bound: the last page of the file when an operation starts
  MaxSnapshots,   \* bound: snapshots taken
  MaxOpens        \* bound: times the file is opened again

ASSUME KeysAssumption == Keys \subseteq Int
ASSUME OrderAssumption == Order \in Nat \ {0}
\* No operation obtains more than three pages.
ASSUME BoundsAssumption ==
  /\ MaxPage \in Nat /\ MaxPage + 3 <= LastNr
  /\ MaxSnapshots \in Nat /\ MaxOpens \in Nat

VARIABLES
  mem,      \* the pages and the allocator
  root,     \* Tree: its root page
  saved,    \* what the last snapshot left in the header: the root and the allocator
  entries, savedEntries,
  snapshots, opens

vars == <<mem, root, saved, entries, savedEntries, snapshots, opens>>

-----------------------------------------------------------------------------
\* Leaves.

LeafAt(m, nr) == IF nr = Null THEN <<>> ELSE m.pages[nr]

\* Leaf search: where the key is, or where it belongs.
Holds(leaf, k) == \E i \in DOMAIN leaf : leaf[i].key = k

\* Mutant: a key is put behind the next greater one.
PositionAfter(leaf, k) ==
  LET below == Cardinality({i \in DOMAIN leaf : leaf[i].key < k})
  IN IF below + 1 < Len(leaf) THEN below + 2 ELSE below + 1

Position(leaf, k) == Cardinality({i \in DOMAIN leaf : leaf[i].key < k}) + 1

\* Leaf split: what stays; the rest goes to the new leaf.
Kept(leaf) == SubSeq(leaf, 1, (Order + 1) \div 2)
Moved(leaf) == SubSeq(leaf, (Order + 1) \div 2 + 1, Order)

\* Leaf allocate. The page is not cleared, but has length 0.
AllocateLeaf(m) == LET Empty(r) == [r EXCEPT !.m.pages[r.nr] = <<>>] IN Empty(Obtain(m))

SetLeaf(r, leaf) == [r EXCEPT !.m.pages[r.nr] = leaf]

-----------------------------------------------------------------------------
\* Cursors. Every cursor is at the root, for there is no other page.

Full(leaf) == Len(leaf) >= Order

\* parent_insert at the root: the leaf was split into a page that no branch names
\* yet, and the branch page panics. Both stay allocated.
Grow(r, leaf) ==
  LET Split(t) == [t EXCEPT !.m.pages[t.nr] = Moved(leaf)]
      other == Split(AllocateLeaf(r.m))
  IN [nr |-> r.nr,
      m |-> Failed([AllocateLeaf(other.m).m EXCEPT !.pages[r.nr] = Kept(leaf)], "grow")]

\* Cursor set_value: the tree with a value for the key.
SetValue(m, nr, k, x) ==
  LET leaf == LeafAt(m, nr)
      entry == [key |-> k, value |-> x]
      page == IF nr = Null THEN AllocateLeaf(m) ELSE PageMut(m, nr)
  IN IF Holds(leaf, k) THEN SetLeaf(page, [leaf EXCEPT ![Position(leaf, k)].value = x])
     ELSE IF Full(leaf) THEN Grow(page, leaf)
     ELSE SetLeaf(page, InsertAt(leaf, Position(leaf, k), entry))

\* Cursor delete: the last entry takes the page with it.
Delete(m, nr, k) ==
  LET leaf == LeafAt(m, nr)
      rest == SetLeaf(PageMut(m, nr), RemoveAt(leaf, Position(leaf, k)))
  IN IF ~Holds(leaf, k) THEN [nr |-> nr, m |-> m]
     ELSE IF Len(leaf) > 1 THEN rest
     ELSE [nr |-> Null, m |-> Deallocate(rest.m, rest.nr)]

-----------------------------------------------------------------------------
\* The operations of a tree, each in a guard of its own.

Running == mem.panicked = "no" /\ mem.last <= MaxPage
Put(r) == mem' = r.m /\ root' = r.nr

\* insert; and entry with VacantEntry insert, which does the same for a key that is
\* not there. The entry is in unless the tree had to grow.
Insert(k, x) ==
  /\ Running
  /\ Put(SetValue(mem, root, k, x))
  /\ entries' = [j \in DOMAIN entries \union {k} |-> IF j = k THEN x ELSE entries[j]]
  /\ UNCHANGED <<saved, savedEntries, snapshots, opens>>

RemoveKey(k) ==
  /\ Running
  /\ Put(Delete(mem, root, k))
  /\ entries' = Restrict(entries, DOMAIN entries \ {k})
  /\ UNCHANGED <<saved, savedEntries, snapshots, opens>>

\* clear, which is also what dropping a tree does while its database stays open.
Clear ==
  /\ Running
  /\ root # Null
  /\ mem' = Deallocate(mem, root) /\ root' = Null
  /\ entries' = <<>>
  /\ UNCHANGED <<saved, savedEntries, snapshots, opens>>

\* Tree serialize, and the snapshot of the database.
Snapshot ==
  /\ Running
  /\ snapshots < MaxSnapshots
  /\ mem' = Sealed(mem)
  /\ saved' = [root |-> root, cur |-> mem'.cur, prev |-> mem'.prev, last |-> mem'.last]
  /\ savedEntries' = entries /\ snapshots' = snapshots + 1
  /\ UNCHANGED <<root, entries, opens>>

\* The process ends, by itself or by the panic, and Tree deserialize reads the root.
Reopen ==
  /\ opens < MaxOpens /\ snapshots > 0
  /\ mem' = [mem EXCEPT !.writable = {}, !.cur = saved.cur, !.prev = saved.prev,
                        !.last = saved.last, !.panicked = "no"]
  /\ root' = saved.root
  /\ entries' = savedEntries /\ opens' = opens + 1
  /\ UNCHANGED <<saved, savedEntries, snapshots>>

Init ==
  /\ mem = EmptyMemory /\ root = Null
  /\ saved = [root |-> Null, cur |-> EmptyFree, prev |-> EmptyFree, last |-> 1]
  /\ entries = <<>> /\ savedEntries = <<>>
  /\ snapshots = 0 /\ opens = 0

Next ==
  \/ \E k \in Keys :
       \/ RemoveKey(k)
       \/ \E x \in Values : Insert(k, x)
  \/ Clear \/ Snapshot \/ Reopen

Spec == Init /\ [][Next]_vars

-----------------------------------------------------------------------------
\* Every variable is of its type, and no leaf holds more than it has room for.
TypeOK ==
  /\ root \in PageNr /\ (root = Null <=> LeafAt(mem, root) = <<>>)
  /\ Len(LeafAt(mem, root)) <= Order
  /\ mem.writable \subseteq 2 .. mem.last /\ FreePages(mem) \subseteq 2 .. mem.last
  /\ mem.panicked \in {"no", "grow"}
  /\ snapshots \in 0 .. MaxSnapshots /\ opens \in 0 .. MaxOpens

\* The map a leaf stands for.
Contents(leaf) ==
  [k \in {leaf[i].key : i \in DOMAIN leaf} |-> leaf[CHOOSE i \in DOMAIN leaf : leaf[i].key = k].value]

Sorted(leaf) == \A i, j \in DOMAIN leaf : i < j => leaf[i].key < leaf[j].key

\* Variables keep their types, and a tree holds what its callers put in, in order, so
\* that a binary search finds it (leaf.rs:69), until it has to grow: then half of the
\* leaf is lost (cursor.rs:189).
HoldsEntries ==
  /\ TypeOK
  /\ Sorted(LeafAt(mem, root))
  /\ mem.panicked = "no" => Contents(LeafAt(mem, root)) = entries
  /\ mem.panicked = "grow" => Cardinality(DOMAIN entries) = Order + 1

\* Every page is the tree's or free: none is lost when leaves are emptied, copied or
\* cleared between snapshots, and none is both (cursor.rs:225).
PagesShared ==
  mem.panicked = "no" =>
    /\ FreePages(mem) \union ({root} \ {Null}) = 2 .. mem.last
    /\ FreeCount(mem) + Cardinality({root} \ {Null}) = mem.last - 1

Store == INSTANCE SnapshotStore WITH
  current <- Contents(LeafAt(mem, root)),
  saved <- Contents(LeafAt(mem, saved.root)),
  opens <- opens

\* A tree implements SnapshotStore: no change to it reaches the page that the last
\* snapshot names, and opening the file again brings exactly its entries back, also
\* after the panic (mod.rs:39, lock.rs page_mut).
StoreKept == Store!Spec
=============================================================================
