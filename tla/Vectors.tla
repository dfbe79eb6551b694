------------------------------ MODULE Vectors ------------------------------
(***************************************************************************)
(* The vectors of crates/database (vec.rs): sequences of elements in page  *)
(* trees, changed through guards that remember the page they last looked   *)
(* up, and the file (file.rs) that a snapshot writes their headers to and  *)
(* a reopening reads them from.                                            *)
(*                                                                         *)
(* "items" and "savedItems" are history: what the callers put in, and what *)
(* was in when the last snapshot was taken.                                *)
(***************************************************************************)
EXTENDS PageTree

CONSTANTS
  Vecs,           \* the vectors, 0, 1, ...
  Elements,       \* values of an element
  PerPage,        \* elements of a page
  Reused,         \* callers go on with a guard after a pop
  MaxLen,         \* bound: elements of a vector
  MaxPage,        \* bound: the last page of the file when an operation starts
  MaxSnapshots,   \* bound: snapshots taken
  MaxOpens        \* bound: times the file is opened again

ASSUME VecsAssumption == Vecs = 0 .. Cardinality(Vecs) - 1
ASSUME PerPageAssumption == PerPage \in 1 .. FanOut
ASSUME MaxLenAssumption == MaxLen \in 0 .. PerPage * FanOut ^ MaxLevel
ASSUME UseAssumption == Reused \in BOOLEAN

VARIABLES
  mem,        \* the pages and the allocator
  vec,        \* the vectors with their guards
  file,       \* the header of the file of Database
  saved,      \* the header page: the file and the allocator of the last snapshot
  writing,    \* Database::snapshot has written the file, not yet the header page
  items, savedItems,
  snapshots, opens

vars == <<mem, vec, file, saved, writing, items, savedItems, snapshots, opens>>

-----------------------------------------------------------------------------

Invalid == [kind |-> "invalid", key |-> 0, nr |-> Null]

\* A container with its guard: open or not, its lookup, and whether it popped.
Container(root, len) ==
  [root |-> root, len |-> len, open |-> FALSE, lookup |-> Invalid, ended |-> FALSE]

\* VecHeader::pages and FileHeader::pages, for the elements of a page.
PagesFor(len, width) == (len + width - 1) \div width

\* The operators below take a container with the memory, s, as the code takes
\* the guard.
With(s, r) == [s EXCEPT !.c.root = r.nr, !.m = r.m]

\* Vec internal_resize. The lookup stays as it is.
InternalResize(s, width, newLen) ==
  With([s EXCEPT !.c.len = newLen],
       Reallocate([nr |-> s.c.root, m |-> s.m], PagesFor(s.c.len, width),
                  LevelOf(PagesFor(s.c.len, width)), PagesFor(newLen, width)))

\* File set_len
SetLen(s, newLen) == [InternalResize(s, FanOut, newLen) EXCEPT !.c.lookup = Invalid]

Hit(s, key) == s.c.lookup.kind # "invalid" /\ s.c.lookup.key = key

\* Mutant: the page that was found is taken for one that may be written.
LookupMutable(s, width, key) ==
  IF Hit(s, key) THEN s
  ELSE [s EXCEPT !.c.lookup =
          [kind |-> "mutable", key |-> key,
           nr |-> FindPage(s.m, s.c.root, key, LevelOf(PagesFor(s.c.len, width)))]]

\* PageLookup::get: the page with the number in the lookup is read.
Lookup(s, width, key) ==
  LET Found(t) == [t EXCEPT !.m = Checked(@, t.c.lookup.nr)] IN
  IF Hit(s, key) THEN Found(s)
  ELSE Found([s EXCEPT !.c.lookup =
          [kind |-> "immutable", key |-> key,
           nr |-> FindPage(s.m, s.c.root, key, LevelOf(PagesFor(s.c.len, width)))]])

\* PageLookup::get_mut, with the assertion that the page may be written.
LookupMut(s, width, key) ==
  LET Found(r) == [With(s, r) EXCEPT !.c.lookup = [kind |-> "mutable", key |-> key, nr |-> r.leaf]]
      Asserted(t) == IF t.c.lookup.nr \in t.m.writable THEN t ELSE [t EXCEPT !.m = Failed(@, "readonly")]
  IN Asserted(
       IF Hit(s, key) /\ (s.c.lookup.kind = "mutable" \/ s.c.lookup.nr \in s.m.writable)
       THEN [s EXCEPT !.c.lookup.kind = "mutable"]
       ELSE Found(FindPageMut(s.m, s.c.root, key, LevelOf(PagesFor(s.c.len, width)))))

\* Index: the container after an element was read, and the element.
Read(s, width, i) == Lookup(s, width, i \div width)
ElementAt(s, width, i) == s.m.pages[s.c.lookup.nr][i % width]

\* IndexMut
Write(s, width, i, x) ==
  LET Stored(t) == [t EXCEPT !.m.pages[t.c.lookup.nr][i % width] = x] IN
  IF s.m.panicked # "no" THEN s
  ELSE IF i >= s.c.len THEN [s EXCEPT !.m = Failed(@, "bounds")]
  ELSE Stored(LookupMut(s, width, i \div width))

\* push, append, and resize to a greater length
Extend(s, xs) ==
  LET Next1(t, i) == Write(t, PerPage, i, xs[i - s.c.len + 1])
  IN FoldLeft(Next1, InternalResize(s, PerPage, s.c.len + Len(xs)),
              [j \in 1 .. Len(xs) |-> s.c.len + j - 1])

-----------------------------------------------------------------------------

Of(v) == [m |-> mem, c |-> vec[v]]

Put(v, s) ==
  /\ mem' = s.m
  /\ vec' = [vec EXCEPT ![v] = s.c]

Running == mem.panicked = "no" /\ ~writing
Usable(v) == Running /\ vec[v].open /\ ~vec[v].ended /\ mem.last <= MaxPage

\* Vec read and write. A guard to read is one that is not written through.
OpenGuard(v) ==
  /\ Running
  /\ ~vec[v].open
  /\ vec' = [vec EXCEPT ![v].open = TRUE]
  /\ UNCHANGED <<mem, file, saved, writing, items, savedItems, snapshots, opens>>

CloseGuard(v) ==
  /\ Running
  /\ vec[v].open
  /\ vec' = [vec EXCEPT ![v] = Container(vec[v].root, vec[v].len)]
  /\ UNCHANGED <<mem, file, saved, writing, items, savedItems, snapshots, opens>>

Get(v, i) ==
  /\ Usable(v)
  /\ i < vec[v].len
  /\ Put(v, Read(Of(v), PerPage, i))
  /\ UNCHANGED <<file, saved, writing, items, savedItems, snapshots, opens>>

Set(v, i, x) ==
  /\ Usable(v)
  /\ i < vec[v].len
  /\ Put(v, Write(Of(v), PerPage, i, x))
  /\ items' = [items EXCEPT ![v][i + 1] = x]
  /\ UNCHANGED <<file, saved, writing, savedItems, snapshots, opens>>

CopyWithin(v, src, dest) ==
  LET Stored(s) == Write(s, PerPage, dest, ElementAt(s, PerPage, src)) IN
  /\ Usable(v)
  /\ {src, dest} \subseteq 0 .. vec[v].len - 1
  /\ Put(v, Stored(Read(Of(v), PerPage, src)))
  /\ items' = [items EXCEPT ![v][dest + 1] = items[v][src + 1]]
  /\ UNCHANGED <<file, saved, writing, savedItems, snapshots, opens>>

Add(v, xs) ==
  /\ Usable(v)
  /\ vec[v].len + Len(xs) <= MaxLen
  /\ Put(v, Extend(Of(v), xs))
  /\ items' = [items EXCEPT ![v] = @ \o xs]
  /\ UNCHANGED <<file, saved, writing, savedItems, snapshots, opens>>

\* resize to a smaller length: the loop that fills what was added starts at
\* the old length and stops only when it meets the new one.
ResizeDown(v, newLen) ==
  /\ Usable(v)
  /\ newLen < vec[v].len
  /\ Put(v, Write(InternalResize(Of(v), PerPage, newLen), PerPage, vec[v].len, 0))
  /\ items' = [items EXCEPT ![v] = SubSeq(@, 1, newLen)]
  /\ UNCHANGED <<file, saved, writing, savedItems, snapshots, opens>>

Pop(v) ==
  LET Popped(s) == [InternalResize(s, PerPage, s.c.len - 1) EXCEPT !.c.ended = ~Reused] IN
  /\ Usable(v)
  /\ vec[v].len > 0
  /\ Put(v, Popped(Read(Of(v), PerPage, vec[v].len - 1)))
  /\ items' = [items EXCEPT ![v] = Front(@)]
  /\ UNCHANGED <<file, saved, writing, savedItems, snapshots, opens>>

\* Drop of a vector while the database is not closing, and a new one.
DropVec(v) ==
  /\ Running
  /\ ~vec[v].open
  /\ vec[v].len > 0
  /\ mem.last <= MaxPage
  /\ Put(v, InternalResize(Of(v), PerPage, 0))
  /\ items' = [items EXCEPT ![v] = <<>>]
  /\ UNCHANGED <<file, saved, writing, savedItems, snapshots, opens>>

\* Vec serialize: the root and the length of every vector.
Headers == [i \in 1 .. 2 * Cardinality(Vecs) |->
              IF i % 2 = 1 THEN vec[i \div 2].root ELSE vec[i \div 2 - 1].len]

\* File write, one header after the other from the start of the file.
FileWritten(s) ==
  LET Room(t, i) == IF i > t.c.len THEN SetLen(t, i) ELSE t
      Cell1(t, i) == Write(Room(t, i), FanOut, i - 1, Headers[i])
  IN FoldLeft(Cell1, s, [i \in 1 .. Len(Headers) |-> i])

\* Database::snapshot, when no guard is open: first the file is written,
WriteFile ==
  LET Written(s) == mem' = s.m /\ file' = Container(s.c.root, s.c.len) IN
  /\ Running
  /\ \A v \in Vecs : ~vec[v].open
  /\ snapshots < MaxSnapshots
  /\ mem.last <= MaxPage
  /\ Written(SetLen(FileWritten([m |-> mem, c |-> file]), Len(Headers)))
  /\ writing' = TRUE
  /\ UNCHANGED <<vec, saved, items, savedItems, snapshots, opens>>

\* then RawDatabase::snapshot stores the header page.
SealFile ==
  /\ writing
  /\ mem' = Sealed(mem)
  /\ saved' = [file |-> file, cur |-> mem'.cur, prev |-> mem'.prev, last |-> mem'.last]
  /\ savedItems' = items
  /\ snapshots' = snapshots + 1
  /\ writing' = FALSE
  /\ UNCHANGED <<vec, file, items, opens>>

\* Cell i of the file that the header page names; File read at that position.
SavedCell(i) ==
  mem.pages[FindPage(mem, saved.file.root, i \div FanOut,
                     LevelOf(PagesFor(saved.file.len, FanOut)))][i % FanOut]

SavedVec(v) == Container(SavedCell(2 * v), SavedCell(2 * v + 1))

\* The process ends and Database::open reads what the last snapshot left. A
\* file without a snapshot ends before the headers that deserialize expects.
Reopen ==
  /\ opens < MaxOpens
  /\ snapshots > 0
  /\ mem' = [mem EXCEPT !.writable = {}, !.cur = saved.cur, !.prev = saved.prev,
                        !.last = saved.last, !.panicked = "no"]
  /\ vec' = [v \in Vecs |-> SavedVec(v)]
  /\ file' = saved.file
  /\ items' = savedItems
  /\ writing' = FALSE
  /\ opens' = opens + 1
  /\ UNCHANGED <<saved, savedItems, snapshots>>

Init ==
  /\ mem = EmptyMemory
  /\ vec = [v \in Vecs |-> Container(Null, 0)]
  /\ file = Container(Null, 0)
  /\ saved = [file |-> file, cur |-> EmptyFree, prev |-> EmptyFree, last |-> 1]
  /\ items = [v \in Vecs |-> <<>>]
  /\ writing = FALSE
  /\ savedItems = items
  /\ snapshots = 0
  /\ opens = 0

\* One element, or as many as fill the vector.
Additions(v, x) ==
  {[i \in 1 .. n |-> x] : n \in {1, MaxLen - vec[v].len} \ {0}}

Next ==
  \/ \E v \in Vecs :
       \/ OpenGuard(v) \/ CloseGuard(v) \/ Pop(v) \/ DropVec(v)
       \/ \E i \in 0 .. MaxLen - 1 :
            \/ Get(v, i) \/ ResizeDown(v, i)
            \/ \E x \in Elements : Set(v, i, x)
            \/ \E j \in 0 .. MaxLen - 1 : CopyWithin(v, i, j)
       \/ \E x \in Elements : \E xs \in Additions(v, x) : Add(v, xs)
  \/ WriteFile
  \/ SealFile
  \/ Reopen

Spec == Init /\ [][Next]_vars

-----------------------------------------------------------------------------

TypeOK ==
  /\ mem.pages \in [PageNr -> [Cell -> Nat \cup Elements]]
  /\ mem.writable \subseteq 2 .. mem.last
  /\ FreePages(mem) \subseteq 2 .. mem.last
  /\ \A c \in {vec[v] : v \in Vecs} \cup {file} :
       /\ c.root \in PageNr /\ (c.root = Null <=> c.len = 0)
       /\ c.lookup.kind \in {"invalid", "immutable", "mutable"}
  /\ writing \in BOOLEAN
  /\ items \in [Vecs -> Seq(Elements)]
  /\ mem.panicked \in {"no", "null", "readonly", "bounds"}
  /\ snapshots \in 0 .. MaxSnapshots
  /\ opens \in 0 .. MaxOpens

Contents(c) ==
  [i \in 1 .. c.len |->
     mem.pages[FindPage(mem, c.root, (i - 1) \div PerPage, LevelOf(PagesFor(c.len, PerPage)))]
              [(i - 1) % PerPage]]

\* A vector is the sequence its callers made it, whatever levels its tree
\* gained and lost and whatever the other vectors did (vec.rs, cursor.rs).
HoldsItems == \A v \in Vecs : Contents(vec[v]) = items[v]

\* The headers in the file lead to the vectors as they were at the last
\* snapshot, however they changed since (file.rs, database.rs snapshot).
SnapshotReadable == snapshots > 0 => \A v \in Vecs : Contents(SavedVec(v)) = savedItems[v]

\* The page a guard remembers is the page of the tree, and one it remembers
\* as writable may be written (PageLookup in cursor.rs).
LookupTrue ==
  \A v \in Vecs : LET c == vec[v] IN
    c.lookup.kind # "invalid" /\ c.lookup.key < PagesFor(c.len, PerPage) =>
      /\ c.lookup.nr = FindPage(mem, c.root, c.lookup.key, LevelOf(PagesFor(c.len, PerPage)))
      /\ c.lookup.kind = "mutable" => c.lookup.nr \in mem.writable

TreeOf(c, width) == PagesOf(mem, c.root, PagesFor(c.len, width))

\* Variables keep their types; the trees and the free lists share the pages of
\* the file out among them: a tree that shrinks or is dropped gives back all its
\* pages, and no page is in two places (cursor.rs deallocate_from,
\* deallocate_full).
PagesShared ==
  LET OfVec(v) == TreeOf(vec[v], PerPage)
      counts == MapThenSumSet(LAMBDA v : Cardinality(OfVec(v)), Vecs)
  IN /\ TypeOK
     /\ FreePages(mem) \cup TreeOf(file, FanOut) \cup UNION {OfVec(v) : v \in Vecs} = 2 .. mem.last
     /\ FreeCount(mem) + Cardinality(TreeOf(file, FanOut)) + counts = mem.last - 1

=============================================================================
