------------------------------ MODULE PageTree ------------------------------
(***************************************************************************)
(* How vectors and files of crates/database lie in pages (cursor.rs): no   *)
(* page, one page of data, or one or two levels of pages of page numbers   *)
(* above the data. A tree is changed in place where that is allowed and    *)
(* copied along the path where a snapshot may need it.                     *)
(***************************************************************************)
EXTENDS Pages

MaxLevel == 2
NoLevel == -1     \* the level of a tree without pages

\* PageLevel::child_pages: data pages below one entry of a page.
ChildPages(level) == IF level <= 0 THEN 0 ELSE FanOut ^ (level - 1)

\* PageLevel::from_pages
LevelOf(pages) ==
  IF pages = 0 THEN NoLevel
  ELSE CHOOSE l \in 0 .. MaxLevel :
         pages <= FanOut ^ l /\ \A k \in 0 .. l - 1 : pages > FanOut ^ k

\* find_page; Null when an assertion of Lock::page fails on the way.
RECURSIVE FindPage(_, _, _, _)
FindPage(m, nr, index, level) ==
  IF nr = Null \/ level <= 0 THEN nr
  ELSE FindPage(m, m.pages[nr][index \div ChildPages(level)], index % ChildPages(level), level - 1)

\* The page below an entry was made: its number goes into the entry.
Link(r, cell, below) ==
  [below EXCEPT !.nr = r.nr, !.m.pages[r.nr][cell] = below.nr]

\* find_page_mut: the root is in nr, the page of data in leaf.
RECURSIVE FindPageMut(_, _, _, _)
FindPageMut(m, root, index, level) ==
  LET Below(r) ==
        IF level = 0 THEN [nr |-> r.nr, m |-> r.m, leaf |-> r.nr]
        ELSE Link(r, index \div ChildPages(level),
                  FindPageMut(r.m, r.m.pages[r.nr][index \div ChildPages(level)],
                              index % ChildPages(level), level - 1))
  IN Below(PageMut(m, root))

\* The entries that data pages from .. to - 1 are below, with the first and
\* the end of those data pages that each has.
Entry(from, to, level, cell) ==
  [cell |-> cell,
   from |-> IF cell = from \div ChildPages(level) THEN from % ChildPages(level) ELSE 0,
   to   |-> IF cell = to \div ChildPages(level) THEN to % ChildPages(level) ELSE ChildPages(level)]

Entries(from, to, level) ==
  [i \in 1 .. (to - 1) \div ChildPages(level) - from \div ChildPages(level) + 1 |->
     Entry(from, to, level, from \div ChildPages(level) + i - 1)]

\* allocate and, from 0 to all pages an entry can have, allocate_full.
RECURSIVE Allocate(_, _, _, _, _)
Allocate(m, nr, from, to, level) ==
  LET Child(r, e) == Link(r, e.cell, Allocate(r.m, r.m.pages[r.nr][e.cell], e.from, e.to, level - 1))
  IN IF from = to \/ level = 0 THEN PageMut(m, nr)
     ELSE FoldLeft(Child, PageMut(m, nr), Entries(from, to, level))

\* Mutant: the last entry of a page is not looked at.
OccupiedShort(m, nr, first) ==
  LET end == CHOOSE e \in first .. FanOut :
               /\ e >= FanOut - 1 \/ m.pages[nr][e] = Null
               /\ \A c \in first .. e - 1 : m.pages[nr][c] # Null
  IN [i \in 1 .. end - first |-> first + i - 1]

\* Entries from one on, up to the first that is empty.
Occupied(m, nr, first) ==
  LET end == CHOOSE e \in first .. FanOut :
               /\ e = FanOut \/ m.pages[nr][e] = Null
               /\ \A c \in first .. e - 1 : m.pages[nr][c] # Null
  IN [i \in 1 .. end - first |-> first + i - 1]

\* deallocate_full
RECURSIVE DeallocateFull(_, _, _, _)
DeallocateFull(m, nr, first, level) ==
  LET Child(acc, cell) == DeallocateFull(acc, m.pages[nr][cell], 0, level - 1) IN
  IF nr = Null THEN Failed(m, "null")
  ELSE IF level = 0 THEN Deallocate(m, nr)
  ELSE Deallocate(FoldLeft(Child, m, Occupied(m, nr, first)), nr)

Nothing(m) == [nr |-> Null, m |-> m]

\* deallocate_from
RECURSIVE DeallocateFrom(_, _, _, _)
DeallocateFrom(m, nr, from, level) ==
  LET first == from \div ChildPages(level)
      Child(r, cell) ==
        Link(r, cell,
             IF cell = first
             THEN DeallocateFrom(r.m, r.m.pages[r.nr][cell], from % ChildPages(level), level - 1)
             ELSE Nothing(DeallocateFull(r.m, r.m.pages[r.nr][cell], 0, level - 1)))
      Children(r) == FoldLeft(Child, r, <<first>> \o Occupied(r.m, r.nr, first + 1))
  IN IF level = 0 THEN Nothing(Deallocate(m, nr))
     ELSE IF from = 0 THEN Nothing(DeallocateFull(m, nr, 0, level))
     ELSE Children(PageMut(m, nr))

\* increment_levels: a new root above the old one, which is filled.
Increment(r, pages, level) ==
  LET Root(above) ==
        Link(above, 0, IF level = NoLevel THEN [nr |-> r.nr, m |-> above.m]
                       ELSE Allocate(above.m, r.nr, pages, ChildPages(level + 1), level))
  IN Root(ZeroedPage(r.m))

\* decrement_levels: the first entry of the root becomes the root.
Decrement(r, level) ==
  [nr |-> IF level = 0 THEN Null ELSE r.m.pages[r.nr][0],
   m  |-> DeallocateFull(r.m, r.nr, 1, level)]

\* reallocate: levels are added, each full but for the last, or removed.
RECURSIVE Reallocate(_, _, _, _)
Reallocate(r, pages, level, newPages) ==
  IF level < LevelOf(newPages)
  THEN Reallocate(Increment(r, pages, level), ChildPages(level + 1), level + 1, newPages)
  ELSE IF level > LevelOf(newPages)
  THEN Reallocate(Decrement(r, level), ChildPages(level), level - 1, newPages)
  ELSE IF pages < newPages THEN Allocate(r.m, r.nr, pages, newPages, level)
  ELSE IF pages > newPages THEN DeallocateFrom(r.m, r.nr, newPages, level)
  ELSE r

\* The pages of a tree with so many data pages.
RECURSIVE Path(_, _, _, _)
Path(m, nr, index, level) ==
  {nr} \cup
  IF nr = Null \/ level <= 0 THEN {}
  ELSE Path(m, m.pages[nr][index \div ChildPages(level)], index % ChildPages(level), level - 1)

PagesOf(m, root, pages) ==
  UNION {Path(m, root, index, LevelOf(pages)) : index \in 0 .. pages - 1}

=============================================================================
