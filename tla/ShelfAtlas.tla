---------------------------- MODULE ShelfAtlas -----------------------------
(***************************************************************************)
(* draw/text_atlas.cpp and draw/coverage_mask_atlas.cpp: glyphs and shape  *)
(* masks are rasterised once and kept in texture pages.  Both atlases pack *)
(* a page in shelves, from left to right and from top to bottom, and never *)
(* free a rectangle; both have the same alloc_page_rect, alloc_atlas_rect  *)
(* and ensure, and are modelled once.  Only the mask atlas has a clear.    *)
(*                                                                         *)
(* A key is a glyph or shape key with the size of its raster.  Hash chains *)
(* are left out: a lookup finds the entry of its key.  The pixels are left *)
(* out: an entry stands for the rectangle update_texture writes.           *)
(***************************************************************************)
EXTENDS Integers, Sequences

CONSTANTS
  Keys,     \* glyph or shape keys
  SizeOf,   \* the raster size of each key, padding on both sides included
  Width,    \* ATLAS_SIZE of a page
  Height,
  MaxPages  \* bound: pages created in a behaviour

VARIABLES
  pages,   \* the packing cursor of each page, first_page first
  entry,   \* where each key is stored; page 0: it is not
  status   \* open, destroyed, or crashed on a null page

vars == <<pages, entry, status>>

NoEntry == [page |-> 0, x |-> 0, y |-> 0]
NewPage == [x |-> 0, y |-> 0, row |-> 0]

Init == /\ pages = <<NewPage>>
        /\ entry = [k \in Keys |-> NoEntry]
        /\ status = "open"

-----------------------------------------------------------------------------
(* alloc_page_rect on the cursor c of a page, in parts *)

\* The early return for a rectangle no page can hold.
TooLarge(k) == SizeOf[k].w > Width \/ SizeOf[k].h > Height

\* The cursor moves to the next shelf when the rectangle does not fit this
\* one; it stays there if the rectangle does not fit the page either.
Wrap(c, k) ==
  IF ~TooLarge(k) /\ c.x + SizeOf[k].w > Width
    THEN [x |-> 0, y |-> c.y + c.row, row |-> 0]
    ELSE c

Fits(c, k) == ~TooLarge(k) /\ Wrap(c, k).y + SizeOf[k].h <= Height

Taller(a, b) == IF a >= b THEN a ELSE b

\* Mutant: a shelf is as tall as the last rectangle put on it.
BadAdvance(c, k) == [x   |-> Wrap(c, k).x + SizeOf[k].w,
                     y   |-> Wrap(c, k).y,
                     row |-> SizeOf[k].h]

Advance(c, k) == [x   |-> Wrap(c, k).x + SizeOf[k].w,
                  y   |-> Wrap(c, k).y,
                  row |-> Taller(Wrap(c, k).row, SizeOf[k].h)]

\* The page loop of alloc_atlas_rect when page i is the first that fits.
FirstFit(k, i) == /\ i \in DOMAIN pages /\ Fits(pages[i], k)
                  /\ \A j \in 1..(i - 1) : ~Fits(pages[j], k)

PagesAfter(k, i) ==
  [j \in DOMAIN pages |-> IF j < i THEN Wrap(pages[j], k)
                          ELSE IF j = i THEN Advance(pages[j], k)
                          ELSE pages[j]]

-----------------------------------------------------------------------------
(* ensure_text_atlas_entry, ensure_entry *)

\* The key is not stored and a page has room: update_texture, new entry.
EnsureFits(k) ==
  /\ status = "open" /\ entry[k] = NoEntry
  /\ \E i \in DOMAIN pages :
       /\ FirstFit(k, i)
       /\ pages' = PagesAfter(k, i)
       /\ entry' = [entry EXCEPT ![k] = [page |-> i, x |-> Wrap(pages[i], k).x,
                                                     y |-> Wrap(pages[i], k).y]]
  /\ UNCHANGED status

\* No page has room: a page is created, and alloc_atlas_rect takes the
\* rectangle from it but does not assign out_page, so that ensure goes on
\* with a null page.  A rectangle too large for any page returns false and
\* leaves the page there.
EnsureCreatesPage(k) ==
  /\ status = "open" /\ entry[k] = NoEntry
  /\ \A i \in DOMAIN pages : ~Fits(pages[i], k)
  /\ Len(pages) < MaxPages
  /\ LET new == IF TooLarge(k) THEN NewPage ELSE Advance(NewPage, k)
     IN  pages' = Append([j \in DOMAIN pages |-> Wrap(pages[j], k)], new)
  /\ status' = IF TooLarge(k) THEN "open" ELSE "crashed"
  /\ UNCHANGED entry

\* clear_atlas: every cursor and every slot.
Clear ==
  /\ status = "open"
  /\ pages' = [i \in DOMAIN pages |-> NewPage]
  /\ entry' = [k \in Keys |-> NoEntry]
  /\ UNCHANGED status

\* destroy_atlas, destroy_text_atlas.
Destroy ==
  /\ status = "open"
  /\ pages' = <<>>
  /\ entry' = [k \in Keys |-> NoEntry]
  /\ status' = "destroyed"

Next == \/ \E k \in Keys : EnsureFits(k) \/ EnsureCreatesPage(k)
        \/ Clear \/ Destroy

Spec == Init /\ [][Next]_vars

-----------------------------------------------------------------------------
(* Properties *)

Cursor == [x : Nat, y : Nat, row : Nat]

\* Cursors and rectangles are made of unsigned coordinates, and an entry of
\* an open, crashed or destroyed atlas names a page by its position.
TypeOK ==
  /\ pages \in Seq(Cursor)
  /\ entry \in [Keys -> [page : Nat, x : Nat, y : Nat]]
  /\ status \in {"open", "crashed", "destroyed"}

Stored(k) == entry[k].page # 0

\* What update_texture wrote for two keys of one page does not overlap, the
\* padding included (a glyph would show a piece of another).
NoOverlap ==
  \A k, l \in Keys :
    Stored(k) /\ Stored(l) /\ k # l /\ entry[k].page = entry[l].page =>
      \/ entry[k].x + SizeOf[k].w <= entry[l].x
      \/ entry[l].x + SizeOf[l].w <= entry[k].x
      \/ entry[k].y + SizeOf[k].h <= entry[l].y
      \/ entry[l].y + SizeOf[l].h <= entry[k].y

\* Every rectangle lies on an existing page, inside its texture (what the
\* ASSERTs of d3d12::update_texture demand of x, y and size).
InBounds ==
  \A k \in Keys : Stored(k) =>
    /\ entry[k].page \in DOMAIN pages
    /\ entry[k].x + SizeOf[k].w <= Width
    /\ entry[k].y + SizeOf[k].h <= Height

\* Key k, stored at e, is on an earlier shelf than cursor c, or to the left
\* of it on its shelf and no taller than that.
Behind(e, k, c) ==
  \/ e.y + SizeOf[k].h <= c.y
  \/ e.y = c.y /\ e.x + SizeOf[k].w <= c.x /\ SizeOf[k].h <= c.row

\* The cursor of a page has passed everything stored there: what the next
\* alloc_page_rect hands out is free.
BehindCursor ==
  \A k \in Keys : Stored(k) => Behind(entry[k], k, pages[entry[k].page])

Inv == TypeOK /\ InBounds /\ BehindCursor /\ NoOverlap

\* Every update_texture of an ensure gets a texture: ASSERT(texture_valid(
\* texture)) in render.cpp.
PageIsValid == status # "crashed"
=============================================================================
