------------------------------ MODULE Pagination ------------------------------
(***************************************************************************)
(* Numbered and cursor pages (pagination/numbered.go, cursor.go), and a    *)
(* client that follows NextPage or NextID from the first page.             *)
(*                                                                         *)
(* Integers have a width: IntMax is the largest one and arithmetic wraps   *)
(* around.  Items are a sequence of identifiers; Blank is the empty        *)
(* identifier and the cursor of the first page.  A failed call returns     *)
(* "not found"; a slice with bad bounds panics.                            *)
(***************************************************************************)
EXTENDS Integers, Sequences, Functions

CONSTANTS
  IntMax, Blank,
  Walks   (* what clients ask for: the kind of pages, the items, sizes      *)

\* A collection is ordered by its identifiers, which are stable keys.
ASSUME PageAssumption ==
  /\ IntMax \in Nat
  /\ \A w \in Walks :
       /\ w.kind \in {"numbered", "cursor"}
       /\ w.items \in Seq(Range(w.items)) /\ Blank \notin Range(w.items)
       /\ \A i, j \in DOMAIN w.items : w.items[i] = w.items[j] => i = j
       /\ w.requested \in Int
       /\ w.options.default \in Int /\ w.options.maximum \in Int

VARIABLES
  walk,      (* the request a client walks through                          *)
  position,  (* the page number or the cursor to ask for next               *)
  more,      (* whether the last page said there is a next one              *)
  seen,      (* the items shown so far                                      *)
  calls      (* the pages fetched so far                                    *)

pageVars == <<walk, position, more, seen, calls>>

Wrap(n) == ((n + IntMax + 1) % (2 * (IntMax + 1))) - (IntMax + 1)

\* The page size of NewNumbered and of NewCursor: 0 options are unset.
pageSize(requested, options) ==
  LET size == IF requested >= 1 THEN requested
              ELSE IF options.default >= 1 THEN options.default ELSE 1
  IN  IF options.maximum > 0 /\ size > options.maximum THEN options.maximum
      ELSE size

NewNumbered(page, requested, options) ==
  [page |-> IF page < 1 THEN 1 ELSE page, size |-> pageSize(requested, options)]

AtMost(n, bound) == IF n > bound THEN bound ELSE n

Bounds(p, count) ==
  LET total == IF count < 0 THEN 0 ELSE count
      start == AtMost(Wrap((p.page - 1) * p.size), total)
      end == AtMost(Wrap(start + p.size), total)
  IN  [start |-> start, end |-> end, hasNext |-> end < total,
       nextPage |-> IF end < total THEN Wrap(p.page + 1) ELSE 0]

Safe(window, total) ==
  0 <= window.start /\ window.start <= window.end /\ window.end <= total

\* SliceNumbered, where the slice expression does not panic.
SliceNumbered(p, items) ==
  LET window == Bounds(p, Len(items)) IN
  [items |-> SubSeq(items, window.start + 1, window.end),
   hasNext |-> window.hasNext, next |-> window.nextPage]
-----------------------------------------------------------------------------
NewCursor(after, requested, options) ==
  [after |-> after, size |-> pageSize(requested, options)]

FetchLimit(c) == Wrap(c.size + 1)

\* A bug to tell apart: the cursor is the item that was fetched to look ahead.
BoundaryAtLookahead(c, fetched) ==
  IF Len(fetched) <= c.size
  THEN [items |-> fetched, hasNext |-> FALSE, next |-> Blank]
  ELSE [items |-> SubSeq(fetched, 1, c.size), hasNext |-> TRUE,
        next |-> fetched[c.size + 1]]

\* Boundary: a result fetched with one item to look ahead.
Boundary(c, fetched) ==
  IF Len(fetched) <= c.size
  THEN [items |-> fetched, hasNext |-> FALSE, next |-> Blank]
  ELSE [items |-> SubSeq(fetched, 1, c.size), hasNext |-> TRUE,
        next |-> fetched[c.size]]

\* Slice: start after the first item with the cursor's identifier.
Slice(c, items) ==
  LET found == {i \in DOMAIN items : items[i] = c.after}
      start == IF c.after = Blank THEN 0
               ELSE CHOOSE i \in found : \A j \in found : i <= j
  IN  IF c.after # Blank /\ found = {}
      THEN [items |-> <<>>, hasNext |-> FALSE, next |-> "not found"]
      ELSE Boundary(c, SubSeq(items, start + 1,
                              AtMost(Wrap(start + FetchLimit(c)), Len(items))))
-----------------------------------------------------------------------------
PageInit ==
  /\ walk \in Walks
  /\ position = IF walk.kind = "numbered" THEN 1 ELSE Blank
  /\ more = TRUE /\ seen = <<>> /\ calls = 0

PageSize == pageSize(walk.requested, walk.options)

\* The collection and one page more are within the width of an integer.
Fits == Len(walk.items) + PageSize < IntMax

Page ==
  IF walk.kind = "numbered"
  THEN SliceNumbered(NewNumbered(position, walk.requested, walk.options), walk.items)
  ELSE Slice(NewCursor(position, walk.requested, walk.options), walk.items)

\* The client asks for the next page, if there is one.  At the width numbers
\* wrap around, and the walk is left out: BoundsAreSafe is about that.
FetchPage ==
  /\ more /\ Fits
  /\ seen' = seen \o Page.items
  /\ position' = Page.next /\ more' = Page.hasNext
  /\ calls' = calls + 1
  /\ UNCHANGED walk

PageSpec == PageInit /\ [][FetchPage]_pageVars

\* Where the collection and one page more are within the width of an integer
\* (Fits), both kinds of pages show a prefix of the items, each once and in
\* order, and at the last page all of them; no page before it is empty, so a
\* walk ends; and a client that jumps to a page whose offset is within the
\* width gets a window of the collection (numbered.go:42, cursor.go:58).
PagesPartition ==
  Fits =>
    /\ seen = SubSeq(walk.items, 1, Len(seen))
    /\ ~more => seen = walk.items
    /\ calls <= Len(seen) \/ ~more
    /\ \A page \in 1..(IntMax \div PageSize) :
         Safe(Bounds(NewNumbered(page, walk.requested, walk.options), Len(walk.items)),
              Len(walk.items))

\* Bounds gives a safe half-open window of the collection for every page and
\* every page size that an integer holds (numbered.go:42).
BoundsAreSafe ==
  \A page \in 1..IntMax :
    Safe(Bounds(NewNumbered(page, walk.requested, walk.options), Len(walk.items)),
         Len(walk.items))
=============================================================================
