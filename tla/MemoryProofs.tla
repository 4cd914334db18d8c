---------------------------- MODULE MemoryProofs ------------------------------
(***************************************************************************)
(* Proofs about the heap and about frames and page tables.  For any heap,  *)
(* header and alignment sizes, any requests and any number of pointers     *)
(* held, the block list is sound and a pointer has the room that was asked *)
(* for.  A page translates through three tables below the root; creating a *)
(* table on the way to one page must not move another page, and a frame    *)
(* that becomes a table must not be one already, nor somebody's memory.    *)
(***************************************************************************)
EXTENDS MCMemory, FiniteSetTheorems, WellFoundedInduction, TLAPS

-----------------------------------------------------------------------------
(* The heap.                                                               *)

(* Behind coalesce's cursor no two free blocks touch: what one pass from   *)
(* the head of the list has done so far.  With the cursor at Done there    *)
(* is nothing it has still to do.                                          *)
Merged ==
  \A b, c \in headers : free[b] /\ free[c] /\ End(b) = c => cur <= b

(* The inductive invariant. *)
HeapInv == TypeOK /\ Tiled /\ UsedIffHeld /\ Merged /\ RoomForRequest

-----------------------------------------------------------------------------
(* Rounding. *)

LEMMA DivBounds ==
  ASSUME NEW x \in Nat, NEW a \in Nat \ {0}
  PROVE  /\ (x \div a) * a \in Nat
         /\ (x \div a) * a <= x
         /\ x < (x \div a) * a + a
<1>1. x \div a \in Nat /\ x % a \in 0 .. a - 1 /\ x = a * (x \div a) + (x % a)
  OBVIOUS
<1> QED  BY <1>1

(* rounded is a size, and no less than was asked unless the mask cuts it.  *)
LEMMA RoundedRoom ==
  ASSUME NEW n \in Nat
  PROVE  /\ rounded(n) \in Nat
         /\ n + ALIGN <= MaskMod => n <= rounded(n)
<1> DEFINE x == ((n + ALIGN - 1) % SizeMod) % MaskMod
<1>1. x \in Nat
  BY HeapAssumption
<1>2. n + ALIGN <= MaskMod => x = n + ALIGN - 1
  BY HeapAssumption
<1>3. rounded(n) = (x \div ALIGN) * ALIGN
  BY DEF rounded
<1> HIDE DEF x
<1>4. /\ (x \div ALIGN) * ALIGN \in Nat
      /\ x < (x \div ALIGN) * ALIGN + ALIGN
  BY <1>1, DivBounds, HeapAssumption
<1> QED
  <2> DEFINE q == (x \div ALIGN) * ALIGN
  <2> q \in Nat /\ x < q + ALIGN /\ rounded(n) = q
    BY <1>3, <1>4
  <2> HIDE DEF q
  <2> QED  BY <1>1, <1>2, HeapAssumption

(* aligned is the next multiple: past the word kept before it, and less    *)
(* than al further on.                                                     *)
LEMMA AlignedBounds ==
  ASSUME NEW raw \in Nat, NEW al \in Nat \ {0}
  PROVE  /\ aligned(raw, al) \in Nat
         /\ raw + PTR <= aligned(raw, al)
         /\ aligned(raw, al) < raw + PTR + al
<1> DEFINE x == raw + PTR + al - 1
<1>1. x \in Nat
  BY HeapAssumption
<1>2. aligned(raw, al) = (x \div al) * al
  BY DEF aligned
<1>3. x = raw + PTR + al - 1
  OBVIOUS
<1> HIDE DEF x
<1> DEFINE q == (x \div al) * al
<1>4. q \in Nat /\ q <= x /\ x < q + al
  BY <1>1, DivBounds
<1> HIDE DEF q
<1> QED  BY <1>1, <1>2, <1>3, <1>4, HeapAssumption DEF q

-----------------------------------------------------------------------------
(* The tiling. *)

(* No block reaches past the heap, and the block behind one starts at its  *)
(* end.                                                                    *)
LEMMA EndOfBlock ==
  ASSUME TypeOK, Tiled, NEW b \in headers
  PROVE  /\ b \in Nat /\ b < HeapSize /\ size[b] \in Nat
         /\ End(b) \in Nat /\ b < End(b) /\ End(b) <= HeapSize
         /\ \A c \in headers : IsNext(b, c) => c = End(b)
         /\ (\A c \in headers : ~IsNext(b, c)) => End(b) = HeapSize
<1>1. /\ b \in Nat /\ b < HeapSize /\ size[b] \in Nat
      /\ End(b) \in Nat /\ b < End(b)
  BY HeapAssumption DEF TypeOK, Addr, End
<1>2. End(b) <= HeapSize
  BY <1>1, HeapAssumption DEF TypeOK, Addr, Tiled
<1>3. ASSUME NEW c \in headers, IsNext(b, c) PROVE c = End(b)
  <2>1. b < c /\ c \in Nat /\ c < HeapSize /\ End(b) <= c
    BY <1>3, HeapAssumption DEF TypeOK, Addr, IsNext, Tiled
  <2>2. End(b) \in headers
    BY <1>1, <2>1, HeapAssumption DEF Tiled
  <2> QED  BY <1>1, <1>3, <2>1, <2>2 DEF IsNext
<1>4. ASSUME \A c \in headers : ~IsNext(b, c) PROVE End(b) = HeapSize
  BY <1>1, <1>4 DEF Tiled, IsNext
<1> QED  BY <1>1, <1>2, <1>3, <1>4

(* An allocation cuts a block in two or takes it whole: the blocks still   *)
(* tile the heap, no other block changes, and a new one ends where the old *)
(* one did.                                                                *)
LEMMA CarveTiles ==
  ASSUME TypeOK, Tiled, NEW b \in headers, NEW r \in Nat, size[b] >= r,
         headers' = carved(b, r), size' = carved_size(b, r)
  PROVE  /\ headers' \subseteq Addr /\ size' \in [headers' -> Nat] /\ Tiled'
         /\ headers \subseteq headers'
         /\ \A c \in headers : c # b => size'[c] = size[c]
         /\ size'[b] >= r
         /\ \A c \in headers' \ headers :
              c = new_block(b, r) /\ cut(b, r) /\ End(c)' = End(b)
<1> USE HeapAssumption
<1>1. CASE ~cut(b, r)
  <2>1. headers' = headers /\ size' = size
    BY <1>1 DEF carved, carved_size, TypeOK
  <2>2. Tiled'
    BY <2>1 DEF Tiled, End
  <2> QED  BY <2>1, <2>2 DEF TypeOK
<1>2. CASE cut(b, r)
  <2> DEFINE nb == new_block(b, r)
  <2>1. /\ nb \in Nat /\ b < nb /\ nb < End(b) /\ nb = b + HEADER_SIZE + r
        /\ remainder(b, r) \in Nat
        /\ remainder(b, r) = size[b] - r - HEADER_SIZE
    BY <1>2, EndOfBlock DEF cut, MIN_SPLIT, new_block, remainder, End
  <2>2. nb \notin headers
    BY <2>1, EndOfBlock DEF Tiled
  <2>3. nb \in Addr
    BY <2>1, EndOfBlock DEF Addr
  <2>4. headers' = headers \cup {nb}
    BY <1>2 DEF carved
  <2>5. size' = [c \in headers \cup {nb} |->
                   IF c = nb THEN remainder(b, r)
                   ELSE IF c = b THEN r ELSE size[c]]
    BY <1>2, <2>4 DEF carved_size, carved
  <2> HIDE DEF nb
  <2>6. /\ headers' \subseteq Addr /\ size' \in [headers' -> Nat]
        /\ size'[b] = r /\ size'[nb] = remainder(b, r)
        /\ \A c \in headers : c # b => size'[c] = size[c]
    BY <2>1, <2>2, <2>3, <2>4, <2>5 DEF TypeOK
  <2>7. /\ End(b)' = nb /\ End(nb)' = End(b)
        /\ \A c \in headers : c # b => End(c)' = End(c)
    BY <2>1, <2>6, EndOfBlock DEF End
  <2>8. ASSUME NEW c \in headers'
        PROVE  /\ End(c)' = HeapSize \/ End(c)' \in headers'
               /\ \A d \in headers' : c < d => End(c)' <= d
    <3>1. CASE c = b
      BY <2>1, <2>4, <2>7, <3>1, EndOfBlock DEF Tiled, TypeOK, Addr
    <3>2. CASE c = nb
      BY <2>1, <2>4, <2>7, <3>2, EndOfBlock DEF Tiled, TypeOK, Addr
    <3>3. CASE c \in headers /\ c # b
      <4>1. End(c)' = End(c) /\ (End(c) = HeapSize \/ End(c) \in headers)
        BY <2>7, <3>3 DEF Tiled
      <4>2. \A d \in headers : c < d => End(c) <= d
        BY <3>3 DEF Tiled
      <4>3. c < nb => End(c) <= nb
        <5>1. c < b \/ b < c
          BY <3>3, EndOfBlock
        <5>2. c < b => End(c) <= b
          BY <4>2
        <5>3. b < c => End(b) <= c
          BY <3>3 DEF Tiled
        <5> QED  BY <2>1, <3>3, <5>1, <5>2, <5>3, EndOfBlock
      <4> QED  BY <2>4, <4>1, <4>2, <4>3
    <3> QED  BY <2>4, <3>1, <3>2, <3>3
  <2>9. Tiled'
    BY <2>4, <2>8 DEF Tiled
  <2> QED  BY <1>2, <2>2, <2>4, <2>6, <2>7, <2>9 DEF nb
<1> QED  BY <1>1, <1>2

(* Merging a block with the one behind it keeps the tiling. *)
LEMMA MergeTiles ==
  ASSUME TypeOK, Tiled, NEW b \in headers, NEW c \in headers, IsNext(b, c),
         headers' = headers \ {c},
         size' = [d \in headers \ {c} |->
                    IF d = b THEN merged_size(b, c) ELSE size[d]]
  PROVE  /\ size' \in [headers' -> Nat] /\ Tiled'
         /\ b \in headers'
         /\ End(b)' = End(c)
         /\ \A d \in headers' : d # b => size'[d] = size[d] /\ End(d)' = End(d)
<1> USE HeapAssumption
<1>1. /\ b < c /\ End(b) = c
      /\ \A d \in headers : b < d => c <= d
  BY EndOfBlock DEF IsNext
<1>2. b \in headers'
  BY <1>1, EndOfBlock
<1>3. /\ size' \in [headers' -> Nat]
      /\ size'[b] = size[b] + HEADER_SIZE + size[c]
      /\ \A d \in headers' : d # b => size'[d] = size[d]
  BY <1>2, EndOfBlock DEF TypeOK, merged_size
<1>4. /\ End(b)' = End(c)
      /\ \A d \in headers' : d # b => End(d)' = End(d)
  BY <1>1, <1>2, <1>3, EndOfBlock DEF End
<1>5. 0 \in headers'
  BY <1>1, EndOfBlock DEF Tiled
<1>6. ASSUME NEW d \in headers'
      PROVE  /\ End(d)' = HeapSize \/ End(d)' \in headers'
             /\ \A e \in headers' : d < e => End(d)' <= e
  <2>1. CASE d = b
    <3>1. End(c) # c
      BY EndOfBlock
    <3>2. ASSUME NEW e \in headers', b < e PROVE End(c) <= e
      <4>1. c < e
        BY <1>1, <3>2, EndOfBlock
      <4> QED  BY <4>1 DEF Tiled
    <3> QED  BY <1>4, <2>1, <3>1, <3>2 DEF Tiled
  <2>2. CASE d # b
    <3>1. End(d) # c
      <4>1. d < b => End(d) <= b
        BY DEF Tiled
      <4>2. b < d => c <= d
        BY <1>1
      <4> QED  BY <1>1, <2>2, <4>1, <4>2, EndOfBlock
    <3> QED  BY <1>4, <2>2, <3>1 DEF Tiled
  <2> QED  BY <2>1, <2>2
<1>7. Tiled'
  BY <1>5, <1>6 DEF Tiled
<1> QED  BY <1>2, <1>3, <1>4, <1>7

-----------------------------------------------------------------------------
(* The pointers. *)

(* The block of a pointer is a block in use, and other pointers have other *)
(* blocks.                                                                 *)
LEMMA HeldBlock ==
  ASSUME TypeOK, UsedIffHeld, NEW h \in held
  PROVE  /\ h.raw \in Nat /\ h.ptr \in Nat /\ h.asked \in Nat
         /\ h.raw - HEADER_SIZE \in headers
         /\ ~free[h.raw - HEADER_SIZE]
         /\ \A k \in held : k.raw - HEADER_SIZE = h.raw - HEADER_SIZE => k = h
<1>1. \A k \in held : k.raw \in Nat /\ k.ptr \in Nat /\ k.asked \in Nat
  BY DEF TypeOK, Pointer
<1> QED  BY <1>1, HeapAssumption DEF UsedIffHeld

(* A block in use that keeps its size keeps the room of its pointer. *)
LEMMA KeepsRoom ==
  ASSUME HeapInv, NEW S, S \subseteq held,
         \A h \in S : size'[h.raw - HEADER_SIZE] = size[h.raw - HEADER_SIZE]
  PROVE  \A h \in S : BelowMask(h.asked) => Fits(h)'
BY DEF HeapInv, RoomForRequest, Fits, End

(* What an allocation of r bytes for a request of n does, with the pointer *)
(* p it returns and the pointers S kept: the invariant, but for the blocks *)
(* in use and the passes, which the caller may go on to change.            *)
LEMMA AllocationRoom ==
  ASSUME HeapInv, NEW b \in headers, NEW r \in Nat, fits(b, r),
         headers' = carved(b, r), size' = carved_size(b, r),
         NEW S, S \subseteq held, NEW p \in Pointer,
         held' = S \cup {p}, p.raw = b + HEADER_SIZE,
         BelowMask(p.asked) =>
           /\ p.ptr + p.asked <= p.raw + r
           /\ p.ptr # p.raw => p.raw + PTR <= p.ptr
  PROVE  RoomForRequest'
<1> USE HeapAssumption
<1>1. TypeOK /\ Tiled /\ UsedIffHeld /\ size[b] >= r /\ free[b]
  BY DEF HeapInv, fits
<1>2. \A h \in S : size'[h.raw - HEADER_SIZE] = size[h.raw - HEADER_SIZE]
  BY <1>1, CarveTiles, HeldBlock
<1>3. \A h \in S : BelowMask(h.asked) => Fits(h)'
  BY <1>2, KeepsRoom
<1>4. BelowMask(p.asked) => Fits(p)'
  <2>1. /\ p.raw - HEADER_SIZE = b /\ b \in Nat
        /\ size'[b] >= r /\ size'[b] \in Nat
    BY <1>1, CarveTiles, EndOfBlock
  <2>2. End(b)' = b + HEADER_SIZE + size'[b]
    BY DEF End
  <2>3. p.ptr \in Nat /\ p.asked \in Nat /\ p.raw \in Nat
    BY DEF Pointer
  <2> QED  BY <2>1, <2>2, <2>3 DEF Fits
<1> QED  BY <1>3, <1>4 DEF RoomForRequest, BelowMask

(* The blocks in use after an allocation, with the block of each pointer   *)
(* not kept free again.                                                    *)
LEMMA AllocationUse ==
  ASSUME HeapInv, NEW b \in headers, NEW r \in Nat, fits(b, r),
         headers' = carved(b, r), size' = carved_size(b, r),
         NEW S, S \subseteq held, NEW p \in Pointer,
         held' = S \cup {p}, p.raw = b + HEADER_SIZE,
         free' \in [headers' -> BOOLEAN],
         \A c \in headers' :
           ~free'[c] <=> c = b \/ \E h \in S : h.raw = c + HEADER_SIZE
  PROVE  held' \subseteq Pointer /\ UsedIffHeld'
<1> USE HeapAssumption
<1>1. TypeOK /\ Tiled /\ UsedIffHeld /\ size[b] >= r /\ free[b]
  BY DEF HeapInv, fits
<1>2. headers \subseteq headers' /\ headers' \subseteq Addr
  BY <1>1, CarveTiles
<1>3. held' \subseteq Pointer
  BY <1>1 DEF TypeOK
<1>4. \A h \in S : h.raw \in Nat /\ h.raw - HEADER_SIZE \in headers /\ h.raw # p.raw
  BY <1>1, HeldBlock, EndOfBlock
<1>5. b \in Nat /\ p.raw - HEADER_SIZE = b
  BY <1>1, EndOfBlock
<1>6. \A h \in held' : h.raw - HEADER_SIZE \in headers'
  BY <1>2, <1>4, <1>5
<1>7. \A h, k \in held' : h.raw = k.raw => h = k
  BY <1>1, <1>4 DEF UsedIffHeld
<1>8. ASSUME NEW c \in headers'
      PROVE  ~free'[c] <=> \E h \in held' : h.raw = c + HEADER_SIZE
  <2>1. c \in Nat
    BY <1>2 DEF Addr
  <2>2. c = b <=> p.raw = c + HEADER_SIZE
    BY <2>1, <1>5
  <2> QED  BY <2>2
<1> QED  BY <1>3, <1>6, <1>7, <1>8 DEF UsedIffHeld

(* kmalloc and kmalloc_aligned: a pointer more, and no pass. *)
LEMMA AllocationInv ==
  ASSUME HeapInv, cur = Done, NEW b \in headers, NEW r \in Nat, FirstFit(b, r),
         headers' = carved(b, r), size' = carved_size(b, r),
         free' = carved_free(b, r), cur' = cur,
         NEW p \in Pointer, held' = held \cup {p}, p.raw = b + HEADER_SIZE,
         BelowMask(p.asked) =>
           /\ p.ptr + p.asked <= p.raw + r
           /\ p.ptr # p.raw => p.raw + PTR <= p.ptr
  PROVE  HeapInv'
<1> USE HeapAssumption
<1>1. TypeOK /\ Tiled /\ UsedIffHeld /\ Merged /\ fits(b, r)
  BY DEF HeapInv, FirstFit
<1>2. size[b] >= r /\ free[b]
  BY <1>1 DEF fits
<1>3. /\ headers' \subseteq Addr /\ size' \in [headers' -> Nat] /\ Tiled'
      /\ headers \subseteq headers'
      /\ \A c \in headers : c # b => size'[c] = size[c]
      /\ \A c \in headers' \ headers :
           c = new_block(b, r) /\ cut(b, r) /\ End(c)' = End(b)
  BY <1>1, <1>2, CarveTiles
<1>4. /\ free' \in [headers' -> BOOLEAN]
      /\ ~free'[b]
      /\ \A c \in headers : c # b => free'[c] = free[c]
      /\ \A c \in headers' \ headers : free'[c]
  <2>1. \A c \in headers' \ headers : c # b
    OBVIOUS
  <2>2. ASSUME NEW c \in headers, cut(b, r) PROVE c # new_block(b, r)
    BY <1>1, <2>2, EndOfBlock DEF Tiled, cut, MIN_SPLIT, new_block, End
  <2> QED  BY <1>1, <1>3, <2>1, <2>2 DEF carved_free, TypeOK
<1>5. ASSUME NEW c \in headers'
      PROVE  ~free'[c] <=> c = b \/ \E h \in held : h.raw = c + HEADER_SIZE
  <2>1. CASE c \in headers /\ c # b
    BY <1>1, <1>4, <2>1 DEF UsedIffHeld
  <2>2. CASE c = b
    BY <1>4, <2>2
  <2>3. CASE c \notin headers
    <3>1. free'[c] /\ c # b
      BY <1>4, <2>3
    <3>2. ASSUME NEW h \in held PROVE h.raw # c + HEADER_SIZE
      <4>1. c \in Nat
        BY <1>3 DEF Addr
      <4> QED  BY <1>1, <2>3, <4>1, HeldBlock
    <3> QED  BY <3>1, <3>2
  <2> QED  BY <2>1, <2>2, <2>3
<1>6. held' \subseteq Pointer /\ UsedIffHeld'
  BY <1>1, <1>4, <1>5, AllocationUse
<1>7. RoomForRequest'
  BY <1>1, AllocationRoom
<1>8. Merged'
  <2> SUFFICES ASSUME NEW c \in headers', NEW d \in headers', free'[c], free'[d]
               PROVE  End(c)' # d
    BY DEF Merged
  <2>1. c # b /\ d # b
    BY <1>4
  <2>2. ASSUME NEW x \in headers, NEW y \in headers, free[x], free[y]
        PROVE  End(x) # y
    BY <1>1, <2>2, EndOfBlock DEF Merged, Done
  <2>3. CASE c \in headers /\ d \in headers
    BY <1>3, <1>4, <2>1, <2>2, <2>3 DEF End
  <2>4. CASE c \notin headers /\ d \in headers
    BY <1>2, <1>3, <1>4, <2>1, <2>2, <2>4
  <2>5. CASE d \notin headers /\ c \in headers
    <3>1. d = new_block(b, r) /\ cut(b, r) /\ b < d /\ d < End(b) /\ d \in Nat
      BY <1>1, <1>3, <2>5, EndOfBlock DEF cut, MIN_SPLIT, new_block, End
    <3>2. End(c)' = End(c)
      BY <1>3, <2>1, <2>5 DEF End
    <3>3. c < b \/ b < c
      BY <1>1, <2>1, <2>5, EndOfBlock
    <3> QED  BY <1>1, <2>5, <3>1, <3>2, <3>3, EndOfBlock DEF Tiled
  <2>6. CASE c \notin headers /\ d \notin headers
    BY <1>1, <1>3, <2>6, EndOfBlock DEF cut, MIN_SPLIT, new_block, End
  <2> QED  BY <2>3, <2>4, <2>5, <2>6
<1> QED  BY <1>1, <1>3, <1>4, <1>6, <1>7, <1>8 DEF HeapInv, TypeOK

-----------------------------------------------------------------------------
(* The invariant. *)

LEMMA HeapInitInv == Init => HeapInv
<1> SUFFICES ASSUME Init PROVE HeapInv
  OBVIOUS
<1> USE HeapAssumption DEF Init
<1>1. TypeOK
  BY DEF TypeOK, Addr
<1>2. Tiled
  BY DEF Tiled, End
<1>3. Merged
  BY DEF Merged, End
<1>4. UsedIffHeld /\ RoomForRequest
  BY DEF UsedIffHeld, RoomForRequest
<1> QED  BY <1>1, <1>2, <1>3, <1>4 DEF HeapInv

LEMMA KmallocInv ==
  ASSUME HeapInv, NEW n \in Requests, kmalloc(n)
  PROVE  HeapInv'
<1> USE HeapAssumption
<1>1. n \in Nat /\ cur = Done /\ cur' = cur
  BY DEF kmalloc, CanCall
<1>2. PICK b \in headers :
        /\ FirstFit(b, rounded(n))
        /\ headers' = carved(b, rounded(n))
        /\ size' = carved_size(b, rounded(n))
        /\ free' = carved_free(b, rounded(n))
        /\ held' = held \cup {[ptr |-> b + HEADER_SIZE, raw |-> b + HEADER_SIZE,
                               asked |-> n]}
  BY DEF kmalloc
<1>3. rounded(n) \in Nat /\ (BelowMask(n) => n <= rounded(n))
  BY <1>1, RoundedRoom DEF BelowMask
<1> DEFINE p == [ptr |-> b + HEADER_SIZE, raw |-> b + HEADER_SIZE, asked |-> n]
<1>4. b \in Nat
  BY DEF HeapInv, TypeOK, Addr
<1>5. /\ p \in Pointer /\ p.raw = b + HEADER_SIZE
      /\ p.ptr = b + HEADER_SIZE /\ p.asked = n
  BY <1>1, <1>4 DEF Pointer
<1> HIDE DEF p
<1>6. BelowMask(p.asked) =>
        /\ p.ptr + p.asked <= p.raw + rounded(n)
        /\ p.ptr # p.raw => p.raw + PTR <= p.ptr
  BY <1>1, <1>3, <1>4, <1>5
<1> QED  BY <1>1, <1>2, <1>3, <1>5, <1>6, AllocationInv DEF p

LEMMA KmallocAlignedInv ==
  ASSUME HeapInv, NEW n \in Requests, NEW al \in Alignments, kmalloc_aligned(n, al)
  PROVE  HeapInv'
<1> USE HeapAssumption
<1> DEFINE o == over_allocate(n, al)
           r == rounded(o)
<1>1. n \in Nat /\ al \in Nat \ {0} /\ cur = Done /\ cur' = cur
  BY DEF kmalloc_aligned, CanCall
<1>2. PICK b \in headers :
        /\ FirstFit(b, r)
        /\ headers' = carved(b, r)
        /\ size' = carved_size(b, r)
        /\ free' = carved_free(b, r)
        /\ held' = held \cup {[ptr |-> aligned(b + HEADER_SIZE, al),
                               raw |-> b + HEADER_SIZE, asked |-> n]}
  BY DEF kmalloc_aligned
<1>3. o \in Nat /\ (BelowMask(n) => o = n + al + PTR /\ o + ALIGN <= MaskMod)
  BY <1>1 DEF over_allocate, BelowMask
<1> HIDE DEF o
<1>4. r \in Nat /\ (BelowMask(n) => n + al + PTR <= r)
  BY <1>3, RoundedRoom
<1> HIDE DEF r
<1> DEFINE p == [ptr |-> aligned(b + HEADER_SIZE, al),
                 raw |-> b + HEADER_SIZE, asked |-> n]
<1>5. b \in Nat /\ b + HEADER_SIZE \in Nat
  BY DEF HeapInv, TypeOK, Addr
<1>6. /\ aligned(b + HEADER_SIZE, al) \in Nat
      /\ b + HEADER_SIZE + PTR <= aligned(b + HEADER_SIZE, al)
      /\ aligned(b + HEADER_SIZE, al) < b + HEADER_SIZE + PTR + al
  BY <1>1, <1>5, AlignedBounds
<1>7. /\ p \in Pointer /\ p.raw = b + HEADER_SIZE
      /\ p.ptr = aligned(b + HEADER_SIZE, al) /\ p.asked = n
  BY <1>1, <1>5, <1>6 DEF Pointer
<1> HIDE DEF p
<1>8. BelowMask(p.asked) =>
        /\ p.ptr + p.asked <= p.raw + r
        /\ p.ptr # p.raw => p.raw + PTR <= p.ptr
  BY <1>1, <1>4, <1>5, <1>6, <1>7
<1> QED  BY <1>1, <1>2, <1>4, <1>7, <1>8, AllocationInv DEF p

(* A pass starts at the head of the list, so nothing need hold behind it.  *)
LEMMA PassStarts ==
  ASSUME NEW b, headers' \subseteq Addr, cur' = pass_start(b)
  PROVE  Merged'
BY HeapAssumption DEF Merged, Addr, pass_start

LEMMA KfreeInv ==
  ASSUME HeapInv, NEW h \in held, kfree(h)
  PROVE  HeapInv'
<1> USE HeapAssumption
<1> DEFINE b == h.raw - HEADER_SIZE
<1>1. /\ TypeOK /\ Tiled /\ UsedIffHeld
      /\ headers' = headers /\ size' = size /\ cur' = pass_start(b)
      /\ held' = held \ {h} /\ free' = [free EXCEPT ![b] = TRUE]
  BY DEF HeapInv, kfree
<1>2. /\ b \in headers /\ h.raw = b + HEADER_SIZE
      /\ \A k \in held : k.raw - HEADER_SIZE = b => k = h
      /\ \A k \in held : k.raw \in Nat
  BY <1>1, HeldBlock
<1> HIDE DEF b
<1>3. TypeOK'
  BY <1>1, <1>2 DEF TypeOK, pass_start, Tiled
<1>4. Tiled'
  BY <1>1 DEF Tiled, End
<1>5. UsedIffHeld'
  <2>1. ASSUME NEW c \in headers
        PROVE  ~free'[c] <=> \E k \in held' : k.raw = c + HEADER_SIZE
    <3>1. CASE c = b
      BY <1>1, <1>2, <3>1 DEF TypeOK, Addr
    <3>2. CASE c # b
      <4>1. free'[c] = free[c] /\ c + HEADER_SIZE # h.raw
        BY <1>1, <1>2, <3>2 DEF TypeOK, Addr
      <4> QED  BY <1>1, <4>1 DEF UsedIffHeld
    <3> QED  BY <3>1, <3>2
  <2> QED  BY <1>1, <2>1 DEF UsedIffHeld
<1>6. Merged'
  BY <1>1, <1>3, PassStarts DEF TypeOK
<1>7. RoomForRequest'
  BY <1>1 DEF HeapInv, RoomForRequest, Fits, End
<1> QED  BY <1>3, <1>4, <1>5, <1>6, <1>7 DEF HeapInv

LEMMA KreallocInPlaceInv ==
  ASSUME HeapInv, NEW h \in held, NEW n \in Requests, krealloc_in_place(h, n)
  PROVE  HeapInv'
<1> USE HeapAssumption
<1> DEFINE k == [h EXCEPT !.asked = n]
<1>1. /\ TypeOK /\ Tiled /\ UsedIffHeld /\ h \in Pointer /\ n \in Nat
      /\ h.ptr = h.raw /\ n <= size[h.raw - HEADER_SIZE]
      /\ held' = (held \ {h}) \cup {k}
      /\ UNCHANGED << headers, size, free, cur >>
  BY DEF HeapInv, krealloc_in_place, TypeOK
<1>2. k \in Pointer /\ k.raw = h.raw /\ k.ptr = h.ptr /\ k.asked = n
  BY <1>1 DEF Pointer
<1> HIDE DEF k
<1>3. TypeOK' /\ Tiled' /\ Merged'
  BY <1>1, <1>2 DEF HeapInv, TypeOK, Tiled, Merged, End
<1>4. UsedIffHeld'
  BY <1>1, <1>2 DEF UsedIffHeld
<1>5. Fits(k)'
  <2>1. h.raw - HEADER_SIZE \in Nat /\ size[h.raw - HEADER_SIZE] \in Nat /\ h.raw \in Nat
    BY <1>1, HeldBlock, EndOfBlock
  <2> QED  BY <1>1, <1>2, <2>1 DEF Fits, End
<1>6. RoomForRequest'
  BY <1>1, <1>5 DEF HeapInv, RoomForRequest, Fits, End
<1> QED  BY <1>3, <1>4, <1>6 DEF HeapInv

LEMMA KreallocMoveInv ==
  ASSUME HeapInv, NEW h \in held, NEW n \in Requests, krealloc_move(h, n)
  PROVE  HeapInv'
<1> USE HeapAssumption
<1> DEFINE old == h.raw - HEADER_SIZE
           r == rounded(n)
<1>1. TypeOK /\ Tiled /\ UsedIffHeld /\ n \in Nat /\ cur' = pass_start(old)
  BY DEF HeapInv, krealloc_move
<1>2. PICK b \in headers :
        /\ FirstFit(b, r)
        /\ headers' = carved(b, r)
        /\ size' = carved_size(b, r)
        /\ free' = [carved_free(b, r) EXCEPT ![old] = TRUE]
        /\ held' = (held \ {h}) \cup
                     {[ptr |-> b + HEADER_SIZE, raw |-> b + HEADER_SIZE,
                       asked |-> n]}
  BY DEF krealloc_move
<1>3. r \in Nat /\ (BelowMask(n) => n <= r)
  BY <1>1, RoundedRoom DEF BelowMask
<1>4. /\ old \in headers /\ ~free[old] /\ h.raw = old + HEADER_SIZE
      /\ \A k \in held : k.raw - HEADER_SIZE = old => k = h
  BY <1>1, HeldBlock
<1> HIDE DEF old, r
<1>5. fits(b, r) /\ size[b] >= r /\ free[b] /\ b # old /\ b \in Nat
  BY <1>1, <1>2, <1>4, EndOfBlock DEF FirstFit, fits
<1>6. /\ headers' \subseteq Addr /\ size' \in [headers' -> Nat] /\ Tiled'
      /\ headers \subseteq headers'
      /\ \A c \in headers' \ headers : c = new_block(b, r) /\ cut(b, r)
  BY <1>1, <1>2, <1>3, <1>5, CarveTiles
<1>7. /\ free' \in [headers' -> BOOLEAN]
      /\ ~free'[b] /\ free'[old]
      /\ \A c \in headers : c # b /\ c # old => free'[c] = free[c]
      /\ \A c \in headers' \ headers : free'[c]
  <2>1. ASSUME NEW c \in headers, cut(b, r) PROVE c # new_block(b, r)
    BY <1>1, <1>3, <2>1, EndOfBlock DEF Tiled, cut, MIN_SPLIT, new_block, End
  <2>2. carved_free(b, r) = [c \in headers' |->
           IF c = b THEN FALSE
           ELSE IF cut(b, r) /\ c = new_block(b, r) THEN TRUE ELSE free[c]]
    BY <1>2 DEF carved_free
  <2>3. carved_free(b, r) \in [headers' -> BOOLEAN]
    BY <1>1, <1>6, <2>2 DEF TypeOK
  <2> QED  BY <1>2, <1>4, <1>5, <1>6, <2>1, <2>2, <2>3
<1> DEFINE p == [ptr |-> b + HEADER_SIZE, raw |-> b + HEADER_SIZE, asked |-> n]
           S == held \ {h}
<1>8. /\ p \in Pointer /\ p.raw = b + HEADER_SIZE
      /\ p.ptr = b + HEADER_SIZE /\ p.asked = n
  BY <1>1, <1>5 DEF Pointer
<1>9. held' = S \cup {p} /\ S \subseteq held /\ S = held \ {h}
  BY <1>2
<1> HIDE DEF p, S
<1>10. BelowMask(p.asked) =>
        /\ p.ptr + p.asked <= p.raw + r
        /\ p.ptr # p.raw => p.raw + PTR <= p.ptr
  BY <1>1, <1>3, <1>5, <1>8
<1>11. ASSUME NEW c \in headers'
       PROVE  ~free'[c] <=> c = b \/ \E k \in S : k.raw = c + HEADER_SIZE
  <2>1. \A k \in held : k.raw \in Nat /\ k.raw - HEADER_SIZE \in headers
    BY <1>1, HeldBlock
  <2>2. c \in Nat
    BY <1>6 DEF Addr
  <2>3. \A k \in S : k.raw # old + HEADER_SIZE
    <3>1. old \in Nat
      BY <1>1, <1>4, EndOfBlock
    <3>2. \A k \in S : k \in held /\ k # h
      BY <1>9
    <3> QED  BY <1>4, <2>1, <3>1, <3>2
  <2>4. CASE c \notin headers
    BY <1>7, <1>9, <2>1, <2>2, <2>4
  <2>5. CASE c = b
    BY <1>7, <2>5
  <2>6. CASE c = old
    BY <1>5, <1>7, <2>3, <2>6
  <2>7. CASE c \in headers /\ c # b /\ c # old
    <3>1. free'[c] = free[c] /\ h.raw # c + HEADER_SIZE
      BY <1>4, <1>7, <2>1, <2>2, <2>7
    <3>2. ~free[c] <=> \E k \in held : k.raw = c + HEADER_SIZE
      BY <1>1, <2>7 DEF UsedIffHeld
    <3> QED  BY <1>9, <2>7, <3>1, <3>2
  <2> QED  BY <2>4, <2>5, <2>6, <2>7
<1>12. held' \subseteq Pointer /\ UsedIffHeld'
  BY <1>2, <1>3, <1>5, <1>7, <1>8, <1>9, <1>11, AllocationUse
<1>13. RoomForRequest'
  BY <1>2, <1>3, <1>5, <1>8, <1>9, <1>10, AllocationRoom
<1>14. Merged'
  BY <1>1, <1>6, PassStarts
<1>15. cur' \in headers' \cup {Done}
  BY <1>1, <1>6 DEF pass_start, Tiled
<1> QED  BY <1>6, <1>7, <1>12, <1>13, <1>14, <1>15 DEF HeapInv, TypeOK

LEMMA CoalesceInv ==
  ASSUME HeapInv, coalesce
  PROVE  HeapInv'
<1> USE HeapAssumption
<1>1. /\ TypeOK /\ Tiled /\ UsedIffHeld /\ Merged
      /\ cur \in headers /\ cur # Done /\ held' = held
  BY DEF HeapInv, coalesce, TypeOK
<1>2. ASSUME NEW c \in headers, IsNext(cur, c), free[cur], free[c],
             headers' = headers \ {c},
             size' = [b \in headers \ {c} |->
                        IF b = cur THEN merged_size(cur, c) ELSE size[b]],
             free' = [b \in headers \ {c} |-> free[b]], cur' = cur
      PROVE  HeapInv'
  <2>1. /\ size' \in [headers' -> Nat] /\ Tiled' /\ cur \in headers'
        /\ End(cur)' = End(c)
        /\ \A d \in headers' : d # cur => size'[d] = size[d] /\ End(d)' = End(d)
    BY <1>1, <1>2, MergeTiles
  <2>2. TypeOK'
    BY <1>1, <1>2, <2>1 DEF TypeOK
  <2>3. \A h \in held : /\ h.raw - HEADER_SIZE \in headers'
                        /\ h.raw - HEADER_SIZE # cur
    BY <1>1, <1>2, HeldBlock
  <2>4. UsedIffHeld'
    BY <1>1, <1>2, <2>3 DEF UsedIffHeld
  <2>5. RoomForRequest'
    <3>1. \A h \in held : size'[h.raw - HEADER_SIZE] = size[h.raw - HEADER_SIZE]
      BY <2>1, <2>3
    <3> QED  BY <1>1, <3>1, KeepsRoom DEF RoomForRequest, BelowMask
  <2>6. Merged'
    <3> SUFFICES ASSUME NEW b \in headers', NEW d \in headers',
                        free'[b], free'[d], End(b)' = d
                 PROVE  cur <= b
      BY <1>2 DEF Merged
    <3>1. CASE b = cur
      BY <1>1, <3>1, EndOfBlock
    <3>2. CASE b # cur
      BY <1>1, <1>2, <2>1, <3>2 DEF Merged
    <3> QED  BY <3>1, <3>2
  <2> QED  BY <2>1, <2>2, <2>4, <2>5, <2>6 DEF HeapInv
<1>3. ASSUME NEW c \in headers, IsNext(cur, c), ~(free[cur] /\ free[c]),
             cur' = c, UNCHANGED << headers, size, free >>
      PROVE  HeapInv'
  <2>1. Merged'
    <3> SUFFICES ASSUME NEW b \in headers, NEW d \in headers,
                        free[b], free[d], End(b) = d
                 PROVE  c <= b
      BY <1>3 DEF Merged, End
    <3>1. cur <= b /\ c = End(cur)
      BY <1>1, <1>3, EndOfBlock DEF Merged
    <3>2. b # cur
      BY <1>3, <3>1
    <3> QED  BY <1>1, <1>3, <3>1, <3>2, EndOfBlock DEF IsNext
  <2> QED  BY <1>1, <1>3, <2>1
           DEF HeapInv, TypeOK, Tiled, UsedIffHeld, RoomForRequest, Fits, End
<1>4. ASSUME \A c \in headers : ~IsNext(cur, c), cur' = Done,
             UNCHANGED << headers, size, free >>
      PROVE  HeapInv'
  <2>1. Merged'
    <3> SUFFICES ASSUME NEW b \in headers, NEW d \in headers,
                        free[b], free[d], End(b) = d
                 PROVE  FALSE
      BY <1>4 DEF Merged, End
    <3>1. cur <= b /\ End(cur) = HeapSize
      BY <1>1, <1>4, EndOfBlock DEF Merged
    <3>2. cur < b => HeapSize <= b
      BY <1>1, <3>1 DEF Tiled
    <3>3. b = cur
      BY <1>1, <3>1, <3>2, EndOfBlock
    <3> QED  BY <1>1, <3>1, <3>3, EndOfBlock
  <2> QED  BY <1>1, <1>4, <2>1
           DEF HeapInv, TypeOK, Tiled, UsedIffHeld, RoomForRequest, Fits, End
<1> QED  BY <1>1, <1>2, <1>3, <1>4 DEF coalesce

LEMMA HeapNextInv == HeapInv /\ [Next]_vars => HeapInv'
<1> SUFFICES ASSUME HeapInv, [Next]_vars PROVE HeapInv'
  OBVIOUS
<1>1. CASE UNCHANGED vars
  BY <1>1 DEF vars, HeapInv, TypeOK, Tiled, UsedIffHeld, Merged, RoomForRequest, Fits, End
<1> QED
  BY <1>1, KmallocInv, KmallocAlignedInv, KfreeInv, KreallocInPlaceInv,
     KreallocMoveInv, CoalesceInv
  DEF Next

(* In every reachable state of the heap the inductive invariant holds.     *)
THEOREM HeapInvariance == Spec => []HeapInv
BY HeapInitInv, HeapNextInv, PTL DEF Spec

(* A heap with nothing held and no pass under way is one block again.      *)
LEMMA Whole ==
  ASSUME TypeOK, Tiled, UsedIffHeld, NoFreeNeighbours
  PROVE  WholeAgain
<1> USE HeapAssumption
<1> SUFFICES ASSUME held = {}, cur = Done PROVE headers = {0}
  BY DEF WholeAgain
<1>1. 0 \in headers /\ \A b \in headers : free[b]
  BY DEF UsedIffHeld, Tiled, TypeOK
<1>2. End(0) = HeapSize
  BY <1>1 DEF NoFreeNeighbours, Tiled
<1>3. ASSUME NEW b \in headers PROVE b = 0
  <2>1. 0 < b => HeapSize <= b
    BY <1>1, <1>2 DEF Tiled
  <2> QED  BY <2>1, EndOfBlock
<1> QED  BY <1>1, <1>3

(* kmalloc, kfree, krealloc and coalesce keep the blocks a tiling of the   *)
(* heap in which a block is in use exactly while one caller holds it; and  *)
(* between calls no two free blocks touch, so that an empty heap is one    *)
(* block.                                                                  *)
THEOREM HeapBlocksSound == Spec => []BlocksSound
<1>1. HeapInv => BlocksSound
  <2> SUFFICES ASSUME HeapInv PROVE BlocksSound
    OBVIOUS
  <2>1. NoFreeNeighbours
    BY EndOfBlock, HeapAssumption DEF HeapInv, Merged, NoFreeNeighbours, Done
  <2> QED  BY <2>1, Whole DEF HeapInv, BlocksSound
<1> QED  BY <1>1, HeapInvariance, PTL

(* A pointer of kmalloc, kmalloc_aligned or krealloc has the bytes asked   *)
(* for inside its block, and an aligned one has room for the word before   *)
(* it, unless the size was so large that the 32-bit mask of the rounding   *)
(* cut it.                                                                 *)
THEOREM HeapRoomForRequest == Spec => []RoomForRequest
<1>1. HeapInv => RoomForRequest
  BY DEF HeapInv
<1> QED  BY <1>1, HeapInvariance, PTL

-----------------------------------------------------------------------------
(* Frames and page tables.                                                 *)

Bin == {0, 1}
Entries == P!Tables \cup P!Pages \cup {P!Absent}
Memory == [P!Tables -> [Bin -> Entries]]

LEMMA PagingFacts ==
  /\ MAX_FRAMES \in Nat \ {0} /\ STATIC_PT_PAGES \in Nat \ {0} /\ PAGE_SIZE \in Nat \ {0}
  /\ IDENTITY_MAP_PAGES \in 0 .. 16 /\ CountMod \in Nat /\ MAX_FRAMES < CountMod
  /\ MaxOps \in Nat
  /\ LowFrames \subseteq P!Frames /\ KernelFrames \subseteq P!Frames /\ HeapFrames \subseteq P!Frames
  /\ \A m \in MemoryMaps : m \in Seq([base : Nat, length : Nat, type : Nat])
BY MemoryAssumption DEF P!PagingAssumption, P!Frames

LEMMA TableFacts ==
  /\ P!Root \in P!Tables /\ P!Absent \notin P!Tables /\ P!Absent \notin P!Pages
  /\ P!Tables \subseteq Nat
  /\ P!ZeroTable \in [Bin -> Entries] /\ \A i \in Bin : P!ZeroTable[i] = P!Absent
BY PagingFacts DEF P!Root, P!Tables, P!Absent, P!Pages, P!ZeroTable, Bin, Entries

-----------------------------------------------------------------------------
(* The tables on the way down from the root, by the indices taken. *)
Down(m, tb, i) == IF tb = P!Absent THEN P!Absent ELSE m[tb][i]
T1(m, a) == m[P!Root][a]
T2(m, a, b) == Down(m, T1(m, a), b)
T3(m, a, b, c) == Down(m, T2(m, a, b), c)
Leaf(m, a, b, c, d) == Down(m, T3(m, a, b, c), d)

(* The tables form a tree: every entry leads to a table of its own. *)
Below == (P!Tables \ {P!Root}) \cup {P!Absent}
OneEach(m) ==
  /\ \A a, a2 \in Bin :
       T1(m, a) = T1(m, a2) /\ T1(m, a) # P!Absent => a = a2
  /\ \A a, b, a2, b2 \in Bin :
       T2(m, a, b) = T2(m, a2, b2) /\ T2(m, a, b) # P!Absent => a = a2 /\ b = b2
  /\ \A a, b, c, a2, b2, c2 \in Bin :
       T3(m, a, b, c) = T3(m, a2, b2, c2) /\ T3(m, a, b, c) # P!Absent
         => a = a2 /\ b = b2 /\ c = c2
LevelsApart(m) ==
  /\ \A a, a2, b2 \in Bin : T1(m, a) = T2(m, a2, b2) => T1(m, a) = P!Absent
  /\ \A a, a2, b2, c2 \in Bin : T1(m, a) = T3(m, a2, b2, c2) => T1(m, a) = P!Absent
  /\ \A a, b, a2, b2, c2 \in Bin :
       T2(m, a, b) = T3(m, a2, b2, c2) => T2(m, a, b) = P!Absent
Tree(m) ==
  /\ m \in Memory
  /\ \A a \in Bin : T1(m, a) \in Below
  /\ \A a, b \in Bin : T2(m, a, b) \in Below
  /\ \A a, b, c \in Bin : T3(m, a, b, c) \in Below
  /\ OneEach(m) /\ LevelsApart(m)

OnlyAt2(m, a, b) ==
  \A p, q \in Bin : T2(m, a, b) = T2(m, p, q)
    => T2(m, a, b) = P!Absent \/ (a = p /\ b = q)

LEMMA OneSecond ==
  ASSUME NEW m, Tree(m), NEW a \in Bin, NEW b \in Bin
  PROVE  OnlyAt2(m, a, b)
<1>1. \A p, q, p2, q2 \in Bin :
        T2(m, p, q) = T2(m, p2, q2) /\ T2(m, p, q) # P!Absent => p = p2 /\ q = q2
  BY DEF Tree, OneEach
<1>2. \A p2, q2 \in Bin :
        T2(m, a, b) = T2(m, p2, q2) /\ T2(m, a, b) # P!Absent => a = p2 /\ b = q2
  BY ONLY <1>1, a \in Bin, b \in Bin, Zenon
<1> QED
  BY <1>2 DEF OnlyAt2

OnlyAt(m, a, b, c) ==
  \A p, q, r \in Bin : T3(m, a, b, c) = T3(m, p, q, r)
    => T3(m, a, b, c) = P!Absent \/ (a = p /\ b = q /\ c = r)

LEMMA OneThird ==
  ASSUME NEW m, Tree(m), NEW a \in Bin, NEW b \in Bin, NEW c \in Bin
  PROVE  OnlyAt(m, a, b, c)
<1>1. \A p, q, r, p2, q2, r2 \in Bin :
        T3(m, p, q, r) = T3(m, p2, q2, r2) /\ T3(m, p, q, r) # P!Absent
          => p = p2 /\ q = q2 /\ r = r2
  BY DEF Tree, OneEach
<1>2. \A p2, q2, r2 \in Bin :
        T3(m, a, b, c) = T3(m, p2, q2, r2) /\ T3(m, a, b, c) # P!Absent
          => a = p2 /\ b = q2 /\ c = r2
  BY ONLY <1>1, a \in Bin, b \in Bin, c \in Bin, Zenon
<1> QED
  BY <1>2 DEF OnlyAt

(* The tables in use. *)
Live(m, tb) ==
  \/ tb = P!Root
  \/ tb # P!Absent /\ \E a \in Bin : tb = T1(m, a)
  \/ tb # P!Absent /\ \E a, b \in Bin : tb = T2(m, a, b)
  \/ tb # P!Absent /\ \E a, b, c \in Bin : tb = T3(m, a, b, c)

(* m2 is m with the new table x, cleared, put into entry i of table tb. *)
Linked(m, m2, tb, i, x) ==
  /\ m2 \in Memory /\ m2[x] = P!ZeroTable
  /\ m2[tb][i] = x
  /\ \A j \in Bin : j # i => m2[tb][j] = m[tb][j]
  /\ \A y \in P!Tables : y # x /\ y # tb => m2[y] = m[y]

SameT1(m, m2) == \A a \in Bin : T1(m2, a) = T1(m, a)
SameT2(m, m2) == \A a, b \in Bin : T2(m2, a, b) = T2(m, a, b)
SameT3(m, m2) == \A a, b, c \in Bin : T3(m2, a, b, c) = T3(m, a, b, c)
SameLeaf(m, m2) == \A a, b, c, d \in Bin : Leaf(m2, a, b, c, d) = Leaf(m, a, b, c, d)

(* A new table at the first level: no page below the others moves. *)
LEMMA LinkFirst ==
  ASSUME NEW m, NEW m2, Tree(m), NEW x \in P!Tables, ~Live(m, x),
         NEW i \in Bin, T1(m, i) = P!Absent, Linked(m, m2, P!Root, i, x)
  PROVE  /\ T1(m2, i) = x /\ \A a \in Bin : a # i => T1(m2, a) = T1(m, a)
         /\ SameT2(m, m2) /\ SameT3(m, m2) /\ SameLeaf(m, m2)
<1>1. x # P!Root /\ x # P!Absent
  BY TableFacts DEF Live
<1>2. T1(m2, i) = x /\ \A a \in Bin : a # i => T1(m2, a) = T1(m, a)
  BY DEF Linked, T1
<1>3. ASSUME NEW a \in Bin, NEW b \in Bin
      PROVE  T2(m2, a, b) = T2(m, a, b)
  <2>1. CASE a = i
    BY <1>1, <1>2, <2>1, TableFacts DEF T2, Down, Linked
  <2>2. CASE a # i
    <3>1. T1(m, a) = P!Absent \/ (T1(m, a) \in P!Tables /\ T1(m, a) # x /\ T1(m, a) # P!Root)
      BY DEF Tree, Below, Live
    <3> QED
      BY <1>2, <2>2, <3>1 DEF T2, Down, Linked
  <2> QED
    BY <2>1, <2>2
<1>4. ASSUME NEW a \in Bin, NEW b \in Bin, NEW c \in Bin
      PROVE  T3(m2, a, b, c) = T3(m, a, b, c)
  <2>1. T2(m, a, b) = P!Absent
          \/ (T2(m, a, b) \in P!Tables /\ T2(m, a, b) # x /\ T2(m, a, b) # P!Root)
    BY DEF Tree, Below, Live
  <2> QED
    BY <1>3, <2>1 DEF T3, Down, Linked
<1>5. ASSUME NEW a \in Bin, NEW b \in Bin, NEW c \in Bin, NEW d \in Bin
      PROVE  Leaf(m2, a, b, c, d) = Leaf(m, a, b, c, d)
  <2>1. T3(m, a, b, c) = P!Absent
          \/ (T3(m, a, b, c) \in P!Tables /\ T3(m, a, b, c) # x /\ T3(m, a, b, c) # P!Root)
    BY DEF Tree, Below, Live
  <2> QED
    BY <1>4, <2>1 DEF Leaf, Down, Linked
<1> QED
  BY <1>2, <1>3, <1>4, <1>5 DEF SameT2, SameT3, SameLeaf

(* One at the second level. *)
LEMMA LinkSecond ==
  ASSUME NEW m, NEW m2, Tree(m), NEW x \in P!Tables, ~Live(m, x),
         NEW i \in Bin, NEW j \in Bin, T1(m, i) # P!Absent, T2(m, i, j) = P!Absent,
         Linked(m, m2, T1(m, i), j, x)
  PROVE  /\ SameT1(m, m2)
         /\ T2(m2, i, j) = x
         /\ \A a, b \in Bin : ~(a = i /\ b = j) => T2(m2, a, b) = T2(m, a, b)
         /\ SameT3(m, m2) /\ SameLeaf(m, m2)
<1> DEFINE tb == T1(m, i)
<1>1. /\ x # P!Root /\ x # P!Absent /\ tb \in P!Tables /\ tb # P!Root /\ tb # x
      /\ P!Root \in P!Tables
  BY TableFacts DEF Live, Tree, Below
<1>2. ASSUME NEW a \in Bin PROVE T1(m2, a) = T1(m, a)
  BY <1>1 DEF Linked, T1
<1>3. /\ T2(m2, i, j) = x
      /\ \A b \in Bin : b # j => T2(m2, i, b) = T2(m, i, b)
  BY <1>2 DEF T2, Down, Linked
<1>4. ASSUME NEW a \in Bin, NEW b \in Bin, a # i PROVE T2(m2, a, b) = T2(m, a, b)
  <2>1. T1(m, a) = P!Absent \/ (T1(m, a) \in P!Tables /\ T1(m, a) # x /\ T1(m, a) # tb)
    BY <1>4 DEF Tree, Below, Live, OneEach
  <2> QED
    BY <1>2, <2>1 DEF T2, Down, Linked
<1>5. ASSUME NEW a \in Bin, NEW b \in Bin, NEW c \in Bin
      PROVE  T3(m2, a, b, c) = T3(m, a, b, c)
  <2>1. CASE a = i /\ b = j
    BY <1>1, <1>3, <2>1, TableFacts DEF T3, Down, Linked
  <2>2. CASE ~(a = i /\ b = j)
    <3>1. T2(m2, a, b) = T2(m, a, b)
      BY <1>3, <1>4, <2>2
    <3>2. T2(m, a, b) = P!Absent
            \/ (T2(m, a, b) \in P!Tables /\ T2(m, a, b) # x /\ T2(m, a, b) # tb)
      BY DEF Tree, Below, Live, LevelsApart
    <3> QED
      BY <3>1, <3>2 DEF T3, Down, Linked
  <2> QED
    BY <2>1, <2>2
<1>6. ASSUME NEW a \in Bin, NEW b \in Bin, NEW c \in Bin, NEW d \in Bin
      PROVE  Leaf(m2, a, b, c, d) = Leaf(m, a, b, c, d)
  <2>1. T3(m, a, b, c) = P!Absent
          \/ (T3(m, a, b, c) \in P!Tables /\ T3(m, a, b, c) # x /\ T3(m, a, b, c) # tb)
    BY DEF Tree, Below, Live, LevelsApart
  <2> QED
    BY <1>5, <2>1 DEF Leaf, Down, Linked
<1> QED
  BY <1>2, <1>3, <1>4, <1>5, <1>6 DEF SameT1, SameT3, SameLeaf

(* One at the third. *)
LEMMA LinkThird ==
  ASSUME NEW m, NEW m2, Tree(m), NEW x \in P!Tables, ~Live(m, x),
         NEW i \in Bin, NEW j \in Bin, NEW k \in Bin,
         T2(m, i, j) # P!Absent, T3(m, i, j, k) = P!Absent,
         Linked(m, m2, T2(m, i, j), k, x)
  PROVE  /\ SameT1(m, m2) /\ SameT2(m, m2)
         /\ T3(m2, i, j, k) = x
         /\ \A a, b, c \in Bin : ~(a = i /\ b = j /\ c = k) => T3(m2, a, b, c) = T3(m, a, b, c)
         /\ SameLeaf(m, m2)
<1> DEFINE tb == T2(m, i, j)
<1>1. /\ x # P!Root /\ x # P!Absent /\ tb \in P!Tables /\ tb # P!Root /\ tb # x
      /\ P!Root \in P!Tables
  BY TableFacts DEF Live, Tree, Below
<1>2. ASSUME NEW a \in Bin PROVE T1(m2, a) = T1(m, a)
  BY <1>1 DEF Linked, T1
<1>3. ASSUME NEW a \in Bin, NEW b \in Bin PROVE T2(m2, a, b) = T2(m, a, b)
  <2>1. T1(m, a) = P!Absent \/ (T1(m, a) \in P!Tables /\ T1(m, a) # x /\ T1(m, a) # tb)
    BY DEF Tree, Below, Live, LevelsApart
  <2> QED
    BY <1>2, <2>1 DEF T2, Down, Linked
<1>4. /\ T3(m2, i, j, k) = x
      /\ \A c \in Bin : c # k => T3(m2, i, j, c) = T3(m, i, j, c)
  BY <1>3 DEF T3, Down, Linked
<1>5. ASSUME NEW a \in Bin, NEW b \in Bin, NEW c \in Bin, ~(a = i /\ b = j)
      PROVE  T3(m2, a, b, c) = T3(m, a, b, c)
  <2>1. T2(m, a, b) = P!Absent
          \/ (T2(m, a, b) \in P!Tables /\ T2(m, a, b) # x /\ T2(m, a, b) # tb)
    BY <1>5 DEF Tree, Below, Live, OneEach
  <2> QED
    BY <1>3, <2>1 DEF T3, Down, Linked
<1>6. ASSUME NEW a \in Bin, NEW b \in Bin, NEW c \in Bin, NEW d \in Bin
      PROVE  Leaf(m2, a, b, c, d) = Leaf(m, a, b, c, d)
  <2>1. CASE a = i /\ b = j /\ c = k
    BY <1>1, <1>4, <2>1, TableFacts DEF Leaf, Down, Linked
  <2>2. CASE ~(a = i /\ b = j /\ c = k)
    <3>1. T3(m2, a, b, c) = T3(m, a, b, c)
      BY <1>4, <1>5, <2>2
    <3>2. T3(m, a, b, c) = P!Absent
            \/ (T3(m, a, b, c) \in P!Tables /\ T3(m, a, b, c) # x /\ T3(m, a, b, c) # tb)
      BY DEF Tree, Below, Live, LevelsApart
    <3> QED
      BY <3>1, <3>2 DEF Leaf, Down, Linked
  <2> QED
    BY <2>1, <2>2
<1> QED
  BY <1>2, <1>3, <1>4, <1>5, <1>6 DEF SameT1, SameT2, SameLeaf

(* What linking a new table keeps: the tree, and nothing else becomes live. *)
Grown(m, m2, x) == Tree(m2) /\ \A y : Live(m2, y) => Live(m, y) \/ y = x

LEMMA GrowFirst ==
  ASSUME NEW m, NEW m2, Tree(m), NEW x \in P!Tables, ~Live(m, x),
         NEW i \in Bin, T1(m, i) = P!Absent, Linked(m, m2, P!Root, i, x)
  PROVE  Grown(m, m2, x)
<1>1. /\ T1(m2, i) = x /\ \A a \in Bin : a # i => T1(m2, a) = T1(m, a)
      /\ SameT2(m, m2) /\ SameT3(m, m2)
  BY LinkFirst
<1>2. x # P!Absent /\ x # P!Root
  BY TableFacts DEF Live
<1>3. /\ \A a \in Bin : T1(m, a) # x
      /\ \A a, b \in Bin : T2(m, a, b) # x
      /\ \A a, b, c \in Bin : T3(m, a, b, c) # x
  BY <1>2 DEF Live
<1>4. m2 \in Memory /\ (\A a \in Bin : T1(m2, a) \in Below)
  BY <1>1, <1>2 DEF Tree, Below, Linked
<1>5. /\ \A a, b \in Bin : T2(m2, a, b) \in Below
      /\ \A a, b, c \in Bin : T3(m2, a, b, c) \in Below
  BY <1>1 DEF Tree, SameT2, SameT3
<1>6. OneEach(m2)
  BY <1>1, <1>3 DEF Tree, OneEach, SameT2, SameT3
<1>7. LevelsApart(m2)
  BY <1>1, <1>3 DEF Tree, LevelsApart, SameT2, SameT3
<1>8. \A y : Live(m2, y) => Live(m, y) \/ y = x
  BY <1>1 DEF Live, SameT2, SameT3
<1> QED
  BY <1>4, <1>5, <1>6, <1>7, <1>8 DEF Tree, Grown

LEMMA GrowSecond ==
  ASSUME NEW m, NEW m2, Tree(m), NEW x \in P!Tables, ~Live(m, x),
         NEW i \in Bin, NEW j \in Bin, T1(m, i) # P!Absent, T2(m, i, j) = P!Absent,
         Linked(m, m2, T1(m, i), j, x)
  PROVE  Grown(m, m2, x)
<1>1. /\ T2(m2, i, j) = x
      /\ \A a, b \in Bin : ~(a = i /\ b = j) => T2(m2, a, b) = T2(m, a, b)
      /\ SameT1(m, m2) /\ SameT3(m, m2)
  BY LinkSecond
<1>2. x # P!Absent /\ x # P!Root
  BY TableFacts DEF Live
<1>3. /\ \A a \in Bin : T1(m, a) # x
      /\ \A a, b \in Bin : T2(m, a, b) # x
      /\ \A a, b, c \in Bin : T3(m, a, b, c) # x
  BY <1>2 DEF Live
<1>4. m2 \in Memory /\ (\A a, b \in Bin : T2(m2, a, b) \in Below)
  BY <1>1, <1>2 DEF Tree, Below, Linked
<1>5. /\ \A a \in Bin : T1(m2, a) \in Below
      /\ \A a, b, c \in Bin : T3(m2, a, b, c) \in Below
  BY <1>1 DEF Tree, SameT1, SameT3
<1>6. OneEach(m2)
  <2>1. \A a, a2 \in Bin : T1(m2, a) = T1(m2, a2) /\ T1(m2, a) # P!Absent => a = a2
    BY <1>1, <1>3 DEF Tree, OneEach, SameT1, SameT3
  <2>2. \A a, b, a2, b2 \in Bin :
          T2(m2, a, b) = T2(m2, a2, b2) /\ T2(m2, a, b) # P!Absent => a = a2 /\ b = b2
    BY <1>1, <1>3 DEF Tree, OneEach, SameT1, SameT3
  <2>3. ASSUME NEW a \in Bin, NEW b \in Bin, NEW c \in Bin,
               NEW a2 \in Bin, NEW b2 \in Bin, NEW c2 \in Bin,
               T3(m2, a, b, c) = T3(m2, a2, b2, c2), T3(m2, a, b, c) # P!Absent
        PROVE  a = a2 /\ b = b2 /\ c = c2
    <3>1. T3(m2, a, b, c) = T3(m, a, b, c) /\ T3(m2, a2, b2, c2) = T3(m, a2, b2, c2)
      BY <1>1 DEF SameT3
    <3>2. T3(m, a, b, c) = T3(m, a2, b2, c2) /\ T3(m, a, b, c) # P!Absent
      BY <2>3, <3>1
    <3>3. OnlyAt(m, a, b, c)
      BY OneThird
    <3> QED
      BY <3>2, <3>3 DEF OnlyAt
  <2> QED
    BY <2>1, <2>2, <2>3 DEF OneEach
<1>7. LevelsApart(m2)
  BY <1>1, <1>3 DEF Tree, LevelsApart, SameT1, SameT3
<1>8. \A y : Live(m2, y) => Live(m, y) \/ y = x
  BY <1>1 DEF Live, SameT1, SameT3
<1> QED
  BY <1>4, <1>5, <1>6, <1>7, <1>8 DEF Tree, Grown

LEMMA GrowThird ==
  ASSUME NEW m, NEW m2, Tree(m), NEW x \in P!Tables, ~Live(m, x),
         NEW i \in Bin, NEW j \in Bin, NEW k \in Bin,
         T2(m, i, j) # P!Absent, T3(m, i, j, k) = P!Absent,
         Linked(m, m2, T2(m, i, j), k, x)
  PROVE  Grown(m, m2, x)
<1>1. /\ T3(m2, i, j, k) = x
      /\ \A a, b, c \in Bin : ~(a = i /\ b = j /\ c = k) => T3(m2, a, b, c) = T3(m, a, b, c)
      /\ SameT1(m, m2) /\ SameT2(m, m2)
  BY LinkThird
<1>2. x # P!Absent /\ x # P!Root
  BY TableFacts DEF Live
<1>3. /\ \A a \in Bin : T1(m, a) # x
      /\ \A a, b \in Bin : T2(m, a, b) # x
      /\ \A a, b, c \in Bin : T3(m, a, b, c) # x
  BY <1>2 DEF Live
<1>4. m2 \in Memory /\ (\A a, b, c \in Bin : T3(m2, a, b, c) \in Below)
  BY <1>1, <1>2 DEF Tree, Below, Linked
<1>5. /\ \A a \in Bin : T1(m2, a) \in Below
      /\ \A a, b \in Bin : T2(m2, a, b) \in Below
  BY <1>1 DEF Tree, SameT1, SameT2
<1>6. OneEach(m2)
  <2>1. \A a, a2 \in Bin : T1(m2, a) = T1(m2, a2) /\ T1(m2, a) # P!Absent => a = a2
    BY <1>1, <1>3 DEF Tree, OneEach, SameT1, SameT2
  <2>2. \A a, b, a2, b2 \in Bin :
          T2(m2, a, b) = T2(m2, a2, b2) /\ T2(m2, a, b) # P!Absent => a = a2 /\ b = b2
    BY <1>1, <1>3 DEF Tree, OneEach, SameT1, SameT2
  <2>3. ASSUME NEW a \in Bin, NEW b \in Bin, NEW c \in Bin,
               NEW a2 \in Bin, NEW b2 \in Bin, NEW c2 \in Bin,
               T3(m2, a, b, c) = T3(m2, a2, b2, c2), T3(m2, a, b, c) # P!Absent
        PROVE  a = a2 /\ b = b2 /\ c = c2
    <3>1. CASE (a = i /\ b = j /\ c = k) \/ (a2 = i /\ b2 = j /\ c2 = k)
      BY <1>1, <1>3, <2>3, <3>1
    <3>2. CASE ~(a = i /\ b = j /\ c = k) /\ ~(a2 = i /\ b2 = j /\ c2 = k)
      <4>1. T3(m2, a, b, c) = T3(m, a, b, c) /\ T3(m2, a2, b2, c2) = T3(m, a2, b2, c2)
        BY <1>1, <3>2
      <4>2. T3(m, a, b, c) = T3(m, a2, b2, c2) /\ T3(m, a, b, c) # P!Absent
        BY <2>3, <4>1
      <4>3. OnlyAt(m, a, b, c)
        BY OneThird
      <4> QED
        BY <4>2, <4>3 DEF OnlyAt
    <3> QED
      BY <3>1, <3>2
  <2> QED
    BY <2>1, <2>2, <2>3 DEF OneEach
<1>7. LevelsApart(m2)
  BY <1>1, <1>3 DEF Tree, LevelsApart, SameT1, SameT2
<1>8. \A y : Live(m2, y) => Live(m, y) \/ y = x
  BY <1>1 DEF Live, SameT1, SameT2
<1> QED
  BY <1>4, <1>5, <1>6, <1>7, <1>8 DEF Tree, Grown

(* m2 is m with entry l of table tb overwritten. *)
Written(m, m2, tb, l, w) ==
  /\ m2 \in Memory /\ m2[tb][l] = w
  /\ \A d \in Bin : d # l => m2[tb][d] = m[tb][d]
  /\ \A y \in P!Tables : y # tb => m2[y] = m[y]

Moved(m, m2, i, j, k, l, w, a, b, c, d) ==
  Leaf(m2, a, b, c, d) = IF a = i /\ b = j /\ c = k /\ d = l THEN w ELSE Leaf(m, a, b, c, d)
WrittenAt(m, m2, i, j, k, l, w) ==
  /\ SameT1(m, m2) /\ SameT2(m, m2) /\ SameT3(m, m2)
  /\ \A a, b, c, d \in Bin : Moved(m, m2, i, j, k, l, w, a, b, c, d)

(* Writing an entry of a last table moves that page only. *)
LEMMA WriteLeaf ==
  ASSUME NEW m, NEW m2, Tree(m), NEW i \in Bin, NEW j \in Bin, NEW k \in Bin, NEW l \in Bin,
         T3(m, i, j, k) # P!Absent, NEW w, Written(m, m2, T3(m, i, j, k), l, w)
  PROVE  WrittenAt(m, m2, i, j, k, l, w)
<1> DEFINE tb == T3(m, i, j, k)
<1>1. tb \in P!Tables /\ tb # P!Root /\ P!Root \in P!Tables
  BY TableFacts DEF Tree, Below
<1>2. /\ m2[tb][l] = w /\ (\A d \in Bin : d # l => m2[tb][d] = m[tb][d])
      /\ \A y \in P!Tables : y # tb => m2[y] = m[y]
  BY DEF Written
<1> HIDE DEF tb
<1>3. ASSUME NEW a \in Bin PROVE T1(m2, a) = T1(m, a)
  BY <1>1, <1>2 DEF T1
<1>4. ASSUME NEW a \in Bin, NEW b \in Bin PROVE T2(m2, a, b) = T2(m, a, b)
  <2>1. T1(m, a) = P!Absent \/ (T1(m, a) \in P!Tables /\ T1(m, a) # tb)
    BY DEF Tree, Below, LevelsApart, tb
  <2> QED
    BY <1>2, <1>3, <2>1 DEF T2, Down
<1>5. ASSUME NEW a \in Bin, NEW b \in Bin, NEW c \in Bin
      PROVE  T3(m2, a, b, c) = T3(m, a, b, c)
  <2>1. T2(m, a, b) = P!Absent \/ (T2(m, a, b) \in P!Tables /\ T2(m, a, b) # tb)
    BY DEF Tree, Below, LevelsApart, tb
  <2> QED
    BY <1>2, <1>4, <2>1 DEF T3, Down
<1>6. ASSUME NEW a \in Bin, NEW b \in Bin, NEW c \in Bin, NEW d \in Bin
      PROVE  Leaf(m2, a, b, c, d) = IF a = i /\ b = j /\ c = k /\ d = l THEN w
                                    ELSE Leaf(m, a, b, c, d)
  <2>1. CASE a = i /\ b = j /\ c = k
    <3>1. T3(m2, a, b, c) = tb /\ T3(m, a, b, c) = tb /\ tb # P!Absent
      BY <1>5, <2>1 DEF tb
    <3> QED
      BY <1>2, <2>1, <3>1 DEF Leaf, Down
  <2>2. CASE ~(a = i /\ b = j /\ c = k)
    <3>1. T3(m, a, b, c) = P!Absent \/ (T3(m, a, b, c) \in P!Tables /\ T3(m, a, b, c) # tb)
      <4>0. OnlyAt(m, i, j, k)
        BY OneThird
      <4>1. T3(m, a, b, c) = P!Absent \/ T3(m, a, b, c) # tb
        BY <2>2, <4>0 DEF tb, OnlyAt
      <4> QED
        BY <4>1 DEF Tree, Below
    <3>2. T3(m2, a, b, c) = T3(m, a, b, c)
      BY <1>5
    <3>3. Leaf(m2, a, b, c, d) = Leaf(m, a, b, c, d)
      BY <1>2, <3>1, <3>2 DEF Leaf, Down
    <3> QED
      BY <2>2, <3>3
  <2> QED
    BY <2>1, <2>2
<1> QED
  BY <1>3, <1>4, <1>5, <1>6 DEF SameT1, SameT2, SameT3, WrittenAt, Moved

LEMMA TreeByTables ==
  ASSUME NEW m, NEW m2, Tree(m), m2 \in Memory, SameT1(m, m2), SameT2(m, m2), SameT3(m, m2)
  PROVE  Tree(m2) /\ \A y : Live(m2, y) => Live(m, y)
<1>1. OneEach(m2)
  BY DEF Tree, OneEach, SameT1, SameT2, SameT3
<1>2. LevelsApart(m2)
  BY DEF Tree, LevelsApart, SameT1, SameT2, SameT3
<1>3. /\ \A a \in Bin : T1(m2, a) \in Below
      /\ \A a, b \in Bin : T2(m2, a, b) \in Below
      /\ \A a, b, c \in Bin : T3(m2, a, b, c) \in Below
  BY DEF Tree, SameT1, SameT2, SameT3
<1>4. \A y : Live(m2, y) => Live(m, y)
  BY DEF Live, SameT1, SameT2, SameT3
<1> QED
  BY <1>1, <1>2, <1>3, <1>4 DEF Tree

-----------------------------------------------------------------------------
(* The record the operations work on, with tf frames in all: its tables    *)
(* are a tree of marked frames out of V and of tables the pool has given,  *)
(* none of them in K, which is marked too; what the pool has not given is  *)
(* clear; and if E is 1, the count is that of the clear bits.              *)
Rec == [used : SUBSET P!Frames, free : 0 .. CountMod - 1, mem : Memory,
        pool : 0 .. STATIC_PT_PAGES, ok : BOOLEAN]
Given(s, tf, K, V, y) ==
  IF y < MAX_FRAMES THEN y \in s.used /\ y \notin K /\ y \in V /\ y < tf
                    ELSE y < MAX_FRAMES + s.pool
Bits(s, tf, K, V, E) ==
  /\ K \subseteq s.used
  /\ \A f \in 1 .. tf - 1 : f \notin s.used => f \in V
  /\ E = 1 => s.free = Cardinality(P!Frames \ s.used)
Good(s, tf, K, V, E) ==
  /\ s \in Rec
  /\ Tree(s.mem)
  /\ s.pool >= 1
  /\ \A y : Live(s.mem, y) => Given(s, tf, K, V, y)
  /\ \A y \in P!Tables : y >= MAX_FRAMES + s.pool => s.mem[y] = P!ZeroTable
  /\ Bits(s, tf, K, V, E)

(* What is known of the state. *)
Reserved == LowFrames \cup KernelFrames \cup HeapFrames
Avail == UNION { P!FramesOf(map[i]) : i \in P!Usable(map) }
NoOverlap == \A i, j \in P!Usable(map) : i # j => P!FramesOf(map[i]) \cap P!FramesOf(map[j]) = {}
Kept == owned \cup
          {f \in Reserved : /\ map # << >>
                           /\ \/ phase = "up"
                              \/ phase = "heap_init" /\ f \in LowFrames \cup KernelFrames}
Exact == IF total_frames > 0 /\ NoOverlap THEN 1 ELSE 0
Trans(m, v) == Leaf(m, P!PML4_IDX(v), P!PDPT_IDX(v), P!PD_IDX(v), P!PT_IDX(v))
PagingTypes ==
  /\ phase \in {"vmm_init", "pmm_init", "heap_init", "up", "halted"}
  /\ map \in MemoryMaps /\ total_frames \in 0 .. MAX_FRAMES
  /\ owned \subseteq Avail
  /\ asked \in [P!Pages -> P!Pages \cup {P!Absent}]
  /\ ops \in 0 .. MaxOps
BeforeTables ==
  phase = "vmm_init" =>
    /\ static_pt_used = 0 /\ used = {} /\ free_frames = 0
    /\ mem \in Memory /\ asked = [v \in P!Pages |-> P!Absent]
    /\ \A y \in P!Tables : y >= MAX_FRAMES => mem[y] = P!ZeroTable
BeforeFrames ==
  /\ phase \in {"vmm_init", "pmm_init"} => total_frames = 0
  /\ phase \in {"vmm_init", "pmm_init", "heap_init"} => owned = {}
  /\ phase = "heap_init" => \A y : Live(mem, y) => y >= MAX_FRAMES
  /\ map = << >> => total_frames = 0
TablesGood ==
  phase # "vmm_init" =>
    Good(P!Now, total_frames, Kept, Avail, Exact)
AllTranslate ==
  phase \notin {"vmm_init", "halted"} => \A v \in P!Pages : Trans(mem, v) = asked[v]
OwnedApart == phase = "up" /\ map # << >> => owned \cap Reserved = {}
PInv == PagingTypes /\ BeforeTables /\ BeforeFrames /\ TablesGood /\ AllTranslate /\ OwnedApart

-----------------------------------------------------------------------------
(* A set of numbers that is not empty has a least element. *)
LEMMA LeastOf ==
  ASSUME NEW Z, Z \subseteq Nat, Z # {}
  PROVE  \E x \in Z : \A y \in Z : x <= y
<1> DEFINE R == {ss \in Nat \X Nat : ss[1] < ss[2]}
<1>1. IsWellFoundedOn(R, Nat)
  BY NatLessThanWellFounded DEF OpToRel
<1>2. \A y, x \in Nat : y < x => << y, x >> \in R
  OBVIOUS
<1> HIDE DEF R
<1>3. PICK x \in Z : \A y \in Z : ~(<< y, x >> \in R)
  BY <1>1, WFMin, Zenon
<1>4. ASSUME NEW y \in Z PROVE x <= y
  <2>1. x \in Nat /\ y \in Nat
    OBVIOUS
  <2>2. ~(y < x)
    BY <1>2, <1>3, <2>1
  <2> QED
    BY <2>1, <2>2
<1> QED
  BY <1>4

LEMMA ModFacts ==
  ASSUME NEW x \in Int
  PROVE  x % CountMod \in 0 .. CountMod - 1 /\ (x \in 0 .. CountMod - 1 => x % CountMod = x)
<1>1. CountMod \in Nat /\ CountMod > 0
  BY PagingFacts
<1> QED
  BY <1>1

LEMMA CardSame ==
  ASSUME NEW Z
  PROVE  P!Cardinality(Z) = Cardinality(Z)
BY DEF P!Cardinality, Cardinality

LEMMA FramesFinite == IsFiniteSet(P!Frames) /\ Cardinality(P!Frames) = MAX_FRAMES
<1>1. IsFiniteSet(0 .. MAX_FRAMES - 1) /\ Cardinality(0 .. MAX_FRAMES - 1) = MAX_FRAMES
  BY PagingFacts, FS_Interval
<1> QED
  BY <1>1 DEF P!Frames

(* Clear bits are counted by a number that is not reduced. *)
LEMMA ClearBits ==
  ASSUME NEW u
  PROVE  IsFiniteSet(P!Frames \ u) /\ Cardinality(P!Frames \ u) \in 0 .. CountMod - 1
<1>1. IsFiniteSet(P!Frames \ u) /\ Cardinality(P!Frames \ u) <= Cardinality(P!Frames)
  BY FramesFinite, FS_Subset
<1>2. Cardinality(P!Frames \ u) \in Nat
  BY <1>1, FS_CardinalityType
<1> QED
  BY <1>1, <1>2, FramesFinite, PagingFacts

LEMMA ClearBitsLess ==
  ASSUME NEW u, NEW fs \in SUBSET P!Frames
  PROVE  /\ Cardinality(fs \ u) \in Nat
         /\ Cardinality(P!Frames \ (u \cup fs)) = Cardinality(P!Frames \ u) - Cardinality(fs \ u)
<1>1. IsFiniteSet(P!Frames \ u)
  BY ClearBits
<1>2. P!Frames \ (u \cup fs) = (P!Frames \ u) \ fs /\ (P!Frames \ u) \cap fs = fs \ u
  OBVIOUS
<1>3. Cardinality((P!Frames \ u) \ fs) = Cardinality(P!Frames \ u) - Cardinality((P!Frames \ u) \cap fs)
  BY <1>1, FS_Difference
<1>4. IsFiniteSet((P!Frames \ u) \cap fs)
  BY <1>1, FS_Intersection
<1>5. Cardinality(fs \ u) \in Nat
  BY <1>2, <1>4, FS_CardinalityType
<1> QED
  BY <1>2, <1>3, <1>5

LEMMA Marked ==
  ASSUME NEW s, NEW fs \in SUBSET P!Frames,
         s \in [used : SUBSET P!Frames, free : Int, mem : Memory,
                pool : 0 .. STATIC_PT_PAGES, ok : BOOLEAN]
  PROVE  LET n == P!pmm_mark_used(s, fs)
         IN  /\ n \in Rec
             /\ n.used = s.used \cup fs /\ n.mem = s.mem /\ n.pool = s.pool /\ n.ok = s.ok
             /\ s.free = Cardinality(P!Frames \ s.used) => n.free = Cardinality(P!Frames \ n.used)
<1> DEFINE n == P!pmm_mark_used(s, fs)
           c == Cardinality(fs \ s.used)
<1>1. c \in Nat /\ Cardinality(P!Frames \ (s.used \cup fs)) = Cardinality(P!Frames \ s.used) - c
  BY ClearBitsLess
<1>2. n = [s EXCEPT !.used = s.used \cup fs, !.free = (s.free - c) % CountMod]
  BY CardSame DEF P!pmm_mark_used
<1> HIDE DEF n, c
<1>3. /\ n.free = (s.free - c) % CountMod /\ n.used = s.used \cup fs
      /\ n.mem = s.mem /\ n.pool = s.pool /\ n.ok = s.ok
  BY <1>2
<1>4. (s.free - c) % CountMod \in 0 .. CountMod - 1
  BY <1>1, ModFacts
<1>6. n \in Rec
  BY <1>2, <1>4 DEF Rec
<1>5. ASSUME s.free = Cardinality(P!Frames \ s.used) PROVE n.free = Cardinality(P!Frames \ n.used)
  <2>1. Cardinality(P!Frames \ (s.used \cup fs)) \in 0 .. CountMod - 1
    BY ClearBits
  <2> QED
    BY <1>1, <1>3, <1>5, <2>1, ModFacts
<1> QED
  BY <1>3, <1>5, <1>6 DEF n

(* The frame a search finds is below the total and clear. *)
LEMMA FirstFree ==
  ASSUME NEW s, total_frames \in 0 .. MAX_FRAMES, P!first_free(s) # P!Absent
  PROVE  P!first_free(s) \in 1 .. total_frames - 1 /\ P!first_free(s) \notin s.used
<1> DEFINE Z == {f \in 1 .. total_frames - 1 : f \notin s.used}
           Least(f) == f \in 1 .. total_frames - 1 /\ f \notin s.used /\ \A g \in 1 .. f - 1 : g \in s.used
<1>1. total_frames \in Nat /\ Z # {}
  BY PagingFacts DEF P!first_free
<1>2. Z \subseteq Nat
  BY <1>1
<1>3. PICK x \in Z : \A y \in Z : x <= y
  <2> HIDE DEF Z
  <2> QED
    BY <1>1, <1>2, LeastOf
<1>4. Least(x)
  <2>1. ASSUME NEW g \in 1 .. x - 1, g \notin s.used PROVE FALSE
    <3>1. g \in Z /\ g < x /\ g \in Nat /\ x \in Nat
      BY <1>1, <1>3, <2>1
    <3> QED
      BY <1>3, <3>1
  <2> QED
    BY <1>3, <2>1
<1>5. P!first_free(s) = CHOOSE f \in 1 .. total_frames - 1 :
                          f \notin s.used /\ \A g \in 1 .. f - 1 : g \in s.used
  BY DEF P!first_free
<1> QED
  BY <1>4, <1>5

-----------------------------------------------------------------------------
(* A table that is allocated is cleared and not in use, nor anyone's       *)
(* frame; everything else stays.                                           *)
Fresh(s, n, x) ==
  /\ n \in Rec /\ n.ok /\ x \in P!Tables /\ ~Live(s.mem, x)
  /\ n.mem[x] = P!ZeroTable /\ \A y \in P!Tables : y # x => n.mem[y] = s.mem[y]
  /\ s.used \subseteq n.used /\ s.pool <= n.pool
AllocGood(s, n, x, tf, K, V, E) ==
  /\ Fresh(s, n, x) /\ Given(n, tf, K, V, x) /\ Bits(n, tf, K, V, E)
  /\ \A y \in P!Tables : y >= MAX_FRAMES + n.pool => s.mem[y] = P!ZeroTable

LEMMA AllocTable ==
  ASSUME NEW s, NEW K, NEW V, NEW E, total_frames \in 0 .. MAX_FRAMES,
         Good(s, total_frames, K, V, E), s.ok
  PROVE  LET n == P!alloc_table(s)
         IN  \/ n[2] = P!Absent /\ n[1] = [s EXCEPT !.ok = FALSE]
             \/ AllocGood(s, n[1], n[2], total_frames, K, V, E)
<1> DEFINE n == P!alloc_table(s)
           f == P!first_free(s)
<1>0. /\ s \in Rec /\ Tree(s.mem) /\ s.mem \in Memory /\ s.pool \in 0 .. STATIC_PT_PAGES
      /\ s.used \in SUBSET P!Frames /\ s.pool \in Nat /\ total_frames \in Nat
      /\ s.free \in Int
  BY PagingFacts DEF Good, Rec, Tree
<1>1. CASE f # P!Absent
  <2> DEFINE u == P!pmm_mark_used(s, {f})
             n1 == [u EXCEPT !.mem[f] = P!ZeroTable]
  <2>1. f \in 1 .. total_frames - 1 /\ f \notin s.used
    BY <1>1, FirstFree
  <2>2. f \in P!Frames /\ f \in P!Tables /\ f < MAX_FRAMES /\ f < total_frames
    BY <1>0, <2>1, PagingFacts DEF P!Frames, P!Tables
  <2>3. s \in [used : SUBSET P!Frames, free : Int, mem : Memory,
               pool : 0 .. STATIC_PT_PAGES, ok : BOOLEAN]
    BY <1>0, PagingFacts DEF Rec
  <2>4. /\ u \in Rec
        /\ u.used = s.used \cup {f} /\ u.mem = s.mem /\ u.pool = s.pool /\ u.ok = s.ok
        /\ s.free = Cardinality(P!Frames \ s.used) => u.free = Cardinality(P!Frames \ u.used)
    <3> HIDE DEF f
    <3>1. {f} \in SUBSET P!Frames
      BY <2>2
    <3> HIDE DEF u
    <3> QED
      BY <2>3, <3>1, Marked DEF u
  <2>5. n = << n1, f >>
    BY <1>1 DEF P!alloc_table
  <2> HIDE DEF u
  <2>6. /\ n1 \in Rec
        /\ n1.used = s.used \cup {f} /\ n1.pool = s.pool /\ n1.ok = s.ok /\ n1.free = u.free
        /\ n1.mem = [s.mem EXCEPT ![f] = P!ZeroTable]
    <3>1. [u.mem EXCEPT ![f] = P!ZeroTable] \in Memory
      BY <2>2, <2>4, <1>0, TableFacts DEF Memory
    <3>2. n1 = [u EXCEPT !.mem = [u.mem EXCEPT ![f] = P!ZeroTable]]
      BY <2>4 DEF Rec
    <3> QED
      BY <2>4, <3>1, <3>2 DEF Rec
  <2> HIDE DEF n1, n, f
  <2>7. ~Live(s.mem, f)
    BY <2>1, <2>2 DEF Good, Given
  <2>8. n1.mem[f] = P!ZeroTable /\ \A y \in P!Tables : y # f => n1.mem[y] = s.mem[y]
    BY <1>0, <2>2, <2>6 DEF Memory
  <2>9. Fresh(s, n1, f)
    BY <1>0, <2>2, <2>6, <2>7, <2>8 DEF Fresh
  <2>10. Given(n1, total_frames, K, V, f)
    BY <2>1, <2>2, <2>6 DEF Given, Good, Bits
  <2>11. Bits(n1, total_frames, K, V, E)
    BY <2>4, <2>6 DEF Bits, Good
  <2>12. \A y \in P!Tables : y >= MAX_FRAMES + n1.pool => s.mem[y] = P!ZeroTable
    BY <2>6 DEF Good
  <2>13. n[1] = n1 /\ n[2] = f
    BY <2>5
  <2>14. AllocGood(s, n[1], n[2], total_frames, K, V, E)
    BY <2>9, <2>10, <2>11, <2>12, <2>13 DEF AllocGood
  <2> QED
    BY <2>14 DEF n
<1>2. CASE f = P!Absent /\ s.pool < STATIC_PT_PAGES
  <2> DEFINE n1 == [s EXCEPT !.pool = s.pool + 1]
             x == MAX_FRAMES + s.pool
  <2>1. n = << n1, x >>
    BY <1>2 DEF P!alloc_table
  <2>2. /\ n1 \in Rec /\ n1.used = s.used /\ n1.pool = s.pool + 1 /\ n1.ok = s.ok
        /\ n1.free = s.free /\ n1.mem = s.mem
    <3>1. s.pool + 1 \in 0 .. STATIC_PT_PAGES
      BY <1>0, <1>2, PagingFacts
    <3> QED
      BY <1>0, <3>1 DEF Rec
  <2>3. x \in P!Tables /\ ~(x < MAX_FRAMES) /\ x < MAX_FRAMES + n1.pool /\ x >= MAX_FRAMES + s.pool
    BY <1>0, <1>2, <2>2, PagingFacts DEF P!Tables
  <2> HIDE DEF n1, n
  <2>4. ~Live(s.mem, x)
    <3>1. ~(x < MAX_FRAMES + s.pool)
      BY <1>0, PagingFacts
    <3> QED
      BY <2>3, <3>1 DEF Good, Given
  <2>5. s.mem[x] = P!ZeroTable
    BY <2>3 DEF Good
  <2>6. Fresh(s, n1, x)
    BY <1>0, <2>2, <2>3, <2>4, <2>5 DEF Fresh
  <2>7. Given(n1, total_frames, K, V, x)
    BY <2>3 DEF Given
  <2>8. Bits(n1, total_frames, K, V, E)
    BY <2>2 DEF Bits, Good
  <2>9. \A y \in P!Tables : y >= MAX_FRAMES + n1.pool => s.mem[y] = P!ZeroTable
    <3>1. \A y \in P!Tables : y \in Nat
      BY TableFacts
    <3> QED
      BY <1>0, <2>2, <3>1, PagingFacts DEF Good
  <2>10. n[1] = n1 /\ n[2] = x
    BY <2>1
  <2>11. AllocGood(s, n[1], n[2], total_frames, K, V, E)
    BY <2>6, <2>7, <2>8, <2>9, <2>10 DEF AllocGood
  <2> QED
    BY <2>11 DEF n
<1>3. CASE f = P!Absent /\ ~(s.pool < STATIC_PT_PAGES)
  BY <1>3 DEF P!alloc_table
<1> QED
  BY <1>1, <1>2, <1>3

LEMMA LiveTable ==
  ASSUME NEW m, Tree(m), NEW y, Live(m, y)
  PROVE  y \in P!Tables
BY TableFacts DEF Live, Tree, Below

(* Put into an entry of a live table, it keeps the record good. *)
LEMMA Attach ==
  ASSUME NEW s, NEW n1, NEW x, NEW tf, NEW K, NEW V, NEW E, NEW t, NEW i \in Bin,
         Good(s, tf, K, V, E), AllocGood(s, n1, x, tf, K, V, E), Live(s.mem, t)
  PROVE  LET s2 == [n1 EXCEPT !.mem[t][i] = x]
         IN  /\ Linked(s.mem, s2.mem, t, i, x) /\ s2.ok
             /\ Grown(s.mem, s2.mem, x) => Good(s2, tf, K, V, E)
<1> DEFINE m2 == [n1.mem EXCEPT ![t][i] = x]
           s2 == [n1 EXCEPT !.mem = m2]
<1>1. /\ n1 \in Rec /\ n1.ok /\ x \in P!Tables /\ ~Live(s.mem, x)
      /\ n1.mem[x] = P!ZeroTable /\ \A y \in P!Tables : y # x => n1.mem[y] = s.mem[y]
  BY DEF AllocGood, Fresh
<1>2. t \in P!Tables /\ t # x
  BY <1>1, LiveTable DEF Good
<1>3. n1.mem \in Memory /\ n1.mem[t] \in [Bin -> Entries] /\ x \in Entries
  BY <1>1, <1>2 DEF Rec, Memory, Entries
<1>4. m2 \in Memory
  BY <1>2, <1>3 DEF Memory
<1>5. /\ m2[t] = [n1.mem[t] EXCEPT ![i] = x]
      /\ \A y \in P!Tables : y # t => m2[y] = n1.mem[y]
  BY <1>2, <1>3 DEF Memory
<1> HIDE DEF m2
<1>6. Linked(s.mem, m2, t, i, x)
  <2>1. m2[x] = P!ZeroTable
    BY <1>1, <1>2, <1>5
  <2>2. m2[t][i] = x /\ \A j \in Bin : j # i => m2[t][j] = s.mem[t][j]
    BY <1>1, <1>2, <1>3, <1>5
  <2>3. \A y \in P!Tables : y # x /\ y # t => m2[y] = s.mem[y]
    BY <1>1, <1>5
  <2> QED
    BY <1>4, <2>1, <2>2, <2>3 DEF Linked
<1>7. /\ s2 \in Rec /\ s2.mem = m2 /\ s2.used = n1.used /\ s2.pool = n1.pool
      /\ s2.ok = n1.ok /\ s2.free = n1.free
  BY <1>1, <1>4 DEF Rec
<1>8. [n1 EXCEPT !.mem[t][i] = x] = s2
  BY <1>1 DEF m2, Rec
<1> HIDE DEF s2
<1>10. s.pool \in Nat /\ n1.pool \in Nat
  BY <1>1, PagingFacts DEF Good, Rec
<1>9. ASSUME Grown(s.mem, m2, x) PROVE Good(s2, tf, K, V, E)
  <2>1. s2.pool >= 1 /\ s.pool <= n1.pool /\ s.used \subseteq n1.used
    <3>1. s.pool \in Nat /\ n1.pool \in Nat /\ s.pool >= 1 /\ s.pool <= n1.pool
      BY <1>1, PagingFacts DEF Good, Rec, AllocGood, Fresh
    <3> QED
      BY <1>7, <3>1 DEF AllocGood, Fresh
  <2>2. ASSUME NEW y, Live(s2.mem, y) PROVE Given(s2, tf, K, V, y)
    <3>1. CASE y = x
      BY <1>7, <3>1 DEF AllocGood, Given
    <3>2. CASE Live(s.mem, y)
      <4>1. Given(s, tf, K, V, y) /\ y \in P!Tables
        BY <3>2, LiveTable DEF Good
      <4>2. y \in Nat
        BY <4>1, TableFacts
      <4> QED
        BY <1>7, <1>10, <2>1, <4>1, <4>2, PagingFacts DEF Given
    <3> QED
      BY <1>7, <1>9, <2>2, <3>1, <3>2 DEF Grown
  <2>3. ASSUME NEW y \in P!Tables, y >= MAX_FRAMES + s2.pool PROVE s2.mem[y] = P!ZeroTable
    <3>1. s.mem[y] = P!ZeroTable
      BY <1>7, <2>3 DEF AllocGood
    <3>2. y # t
      <4>1. Given(s, tf, K, V, t)
        BY DEF Good
      <4>2. t \in Nat
        BY <1>2, TableFacts
      <4> QED
        BY <1>7, <1>10, <2>1, <2>3, <4>1, <4>2, PagingFacts DEF Given
    <3> QED
      BY <1>1, <1>5, <1>7, <3>1, <3>2
  <2>4. Bits(s2, tf, K, V, E)
    BY <1>7 DEF AllocGood, Bits
  <2> QED
    BY <1>7, <1>9, <2>1, <2>2, <2>3, <2>4 DEF Good, Grown
<1> QED
  BY <1>1, <1>6, <1>7, <1>8, <1>9

(* One step of the walk: the table is there, or made, or there is none to  *)
(* make it of; no page moves.                                              *)
Stepped(s, r, tf, K, V, E) == Good(r[1], tf, K, V, E) /\ SameLeaf(s.mem, r[1].mem)

LEMMA NotOk ==
  ASSUME NEW s, NEW tf, NEW K, NEW V, NEW E, Good(s, tf, K, V, E),
         NEW r, r = [s EXCEPT !.ok = FALSE]
  PROVE  Good(r, tf, K, V, E) /\ SameLeaf(s.mem, r.mem) /\ ~r.ok
<1>1. s \in Rec
  BY DEF Good
<1>2. /\ r \in Rec /\ r.mem = s.mem /\ r.used = s.used /\ r.pool = s.pool /\ r.free = s.free
      /\ r.ok = FALSE
  BY <1>1 DEF Rec
<1>3. /\ Tree(r.mem) /\ r.pool >= 1
      /\ \A y \in P!Tables : y >= MAX_FRAMES + r.pool => r.mem[y] = P!ZeroTable
  BY <1>2 DEF Good
<1>4. ASSUME NEW y, Live(r.mem, y) PROVE Given(r, tf, K, V, y)
  BY <1>2, <1>4 DEF Good, Given
<1>5. Bits(r, tf, K, V, E)
  BY <1>2 DEF Good, Bits
<1> QED
  BY <1>2, <1>3, <1>4, <1>5 DEF Good, SameLeaf

LEMMA WalkFirst ==
  ASSUME NEW s, NEW K, NEW V, NEW E, total_frames \in 0 .. MAX_FRAMES,
         Good(s, total_frames, K, V, E), s.ok, NEW i \in Bin
  PROVE  LET r == P!get_or_create(s, P!Root, i)
         IN  /\ Stepped(s, r, total_frames, K, V, E)
             /\ r[1].ok => r[2] = T1(r[1].mem, i) /\ r[2] # P!Absent
<1> DEFINE r == P!get_or_create(s, P!Root, i)
           n == P!alloc_table(s)
<1>1. CASE s.mem[P!Root][i] # P!Absent
  <2>1. r = << s, s.mem[P!Root][i] >>
    BY <1>1 DEF P!get_or_create
  <2> QED
    BY <1>1, <2>1 DEF Stepped, SameLeaf, T1
<1>2. CASE s.mem[P!Root][i] = P!Absent /\ AllocGood(s, n[1], n[2], total_frames, K, V, E)
  <2> DEFINE s2 == [n[1] EXCEPT !.mem[P!Root][i] = n[2]]
  <2>1. n[2] \in P!Tables /\ n[2] # P!Absent /\ ~Live(s.mem, n[2])
    BY <1>2, TableFacts DEF AllocGood, Fresh
  <2>2. r = << s2, n[2] >>
    BY <1>2, <2>1 DEF P!get_or_create
  <2>3. Live(s.mem, P!Root) /\ Tree(s.mem) /\ T1(s.mem, i) = P!Absent
    BY <1>2 DEF Live, Good, T1
  <2> HIDE DEF n, r
  <2>4. /\ Linked(s.mem, s2.mem, P!Root, i, n[2]) /\ s2.ok
        /\ Grown(s.mem, s2.mem, n[2]) => Good(s2, total_frames, K, V, E)
    BY <1>2, <2>3, Attach
  <2> HIDE DEF s2
  <2>5. Grown(s.mem, s2.mem, n[2])
    BY <2>1, <2>3, <2>4, GrowFirst
  <2>6. T1(s2.mem, i) = n[2] /\ SameLeaf(s.mem, s2.mem)
    BY <2>1, <2>3, <2>4, LinkFirst
  <2>7. r[1] = s2 /\ r[2] = n[2]
    BY <2>2
  <2> QED
    BY <2>1, <2>4, <2>5, <2>6, <2>7 DEF Stepped, r
<1>3. CASE s.mem[P!Root][i] = P!Absent /\ n[2] = P!Absent /\ n[1] = [s EXCEPT !.ok = FALSE]
  <2>1. r = n
    BY <1>3 DEF P!get_or_create
  <2> HIDE DEF n, r
  <2>2. Good(r[1], total_frames, K, V, E) /\ SameLeaf(s.mem, r[1].mem) /\ ~r[1].ok
    BY <1>3, <2>1, NotOk
  <2> QED
    BY <2>2 DEF Stepped, r
<1> QED
  BY <1>1, <1>2, <1>3, AllocTable

LEMMA WalkSecond ==
  ASSUME NEW s, NEW K, NEW V, NEW E, total_frames \in 0 .. MAX_FRAMES,
         Good(s, total_frames, K, V, E), s.ok, NEW i \in Bin, NEW j \in Bin,
         T1(s.mem, i) # P!Absent
  PROVE  LET r == P!get_or_create(s, T1(s.mem, i), j)
         IN  /\ Stepped(s, r, total_frames, K, V, E)
             /\ r[1].ok => r[2] = T2(r[1].mem, i, j) /\ r[2] # P!Absent
<1> DEFINE r == P!get_or_create(s, T1(s.mem, i), j)
           n == P!alloc_table(s)
<1>1. CASE s.mem[T1(s.mem, i)][j] # P!Absent
  <2>1. r = << s, s.mem[T1(s.mem, i)][j] >>
    BY <1>1 DEF P!get_or_create
  <2> QED
    BY <1>1, <2>1 DEF Stepped, SameLeaf, T2, Down
<1>2. CASE s.mem[T1(s.mem, i)][j] = P!Absent /\ AllocGood(s, n[1], n[2], total_frames, K, V, E)
  <2> DEFINE s2 == [n[1] EXCEPT !.mem[T1(s.mem, i)][j] = n[2]]
  <2>1. n[2] \in P!Tables /\ n[2] # P!Absent /\ ~Live(s.mem, n[2])
    BY <1>2, TableFacts DEF AllocGood, Fresh
  <2>2. r = << s2, n[2] >>
    BY <1>2, <2>1 DEF P!get_or_create
  <2>3. Live(s.mem, T1(s.mem, i)) /\ Tree(s.mem) /\ T2(s.mem, i, j) = P!Absent
    BY <1>2 DEF Live, Good, T2, Down
  <2> HIDE DEF n, r
  <2>4. /\ Linked(s.mem, s2.mem, T1(s.mem, i), j, n[2]) /\ s2.ok
        /\ Grown(s.mem, s2.mem, n[2]) => Good(s2, total_frames, K, V, E)
    BY <1>2, <2>3, Attach
  <2> HIDE DEF s2
  <2>5. Grown(s.mem, s2.mem, n[2])
    BY <2>1, <2>3, <2>4, GrowSecond
  <2>6. T2(s2.mem, i, j) = n[2] /\ SameLeaf(s.mem, s2.mem)
    BY <2>1, <2>3, <2>4, LinkSecond
  <2>7. r[1] = s2 /\ r[2] = n[2]
    BY <2>2
  <2> QED
    BY <2>1, <2>4, <2>5, <2>6, <2>7 DEF Stepped, r
<1>3. CASE s.mem[T1(s.mem, i)][j] = P!Absent /\ n[2] = P!Absent /\ n[1] = [s EXCEPT !.ok = FALSE]
  <2>1. r = n
    BY <1>3 DEF P!get_or_create
  <2> HIDE DEF n, r
  <2>2. Good(r[1], total_frames, K, V, E) /\ SameLeaf(s.mem, r[1].mem) /\ ~r[1].ok
    BY <1>3, <2>1, NotOk
  <2> QED
    BY <2>2 DEF Stepped, r
<1> QED
  BY <1>1, <1>2, <1>3, AllocTable

LEMMA WalkThird ==
  ASSUME NEW s, NEW K, NEW V, NEW E, total_frames \in 0 .. MAX_FRAMES,
         Good(s, total_frames, K, V, E), s.ok, NEW i \in Bin, NEW j \in Bin,
         NEW k \in Bin, T2(s.mem, i, j) # P!Absent
  PROVE  LET r == P!get_or_create(s, T2(s.mem, i, j), k)
         IN  /\ Stepped(s, r, total_frames, K, V, E)
             /\ r[1].ok => r[2] = T3(r[1].mem, i, j, k) /\ r[2] # P!Absent
<1> DEFINE r == P!get_or_create(s, T2(s.mem, i, j), k)
           n == P!alloc_table(s)
<1>1. CASE s.mem[T2(s.mem, i, j)][k] # P!Absent
  <2>1. r = << s, s.mem[T2(s.mem, i, j)][k] >>
    BY <1>1 DEF P!get_or_create
  <2> QED
    BY <1>1, <2>1 DEF Stepped, SameLeaf, T3, Down
<1>2. CASE s.mem[T2(s.mem, i, j)][k] = P!Absent /\ AllocGood(s, n[1], n[2], total_frames, K, V, E)
  <2> DEFINE s2 == [n[1] EXCEPT !.mem[T2(s.mem, i, j)][k] = n[2]]
  <2>1. n[2] \in P!Tables /\ n[2] # P!Absent /\ ~Live(s.mem, n[2])
    BY <1>2, TableFacts DEF AllocGood, Fresh
  <2>2. r = << s2, n[2] >>
    BY <1>2, <2>1 DEF P!get_or_create
  <2>3. Live(s.mem, T2(s.mem, i, j)) /\ Tree(s.mem) /\ T3(s.mem, i, j, k) = P!Absent
    BY <1>2 DEF Live, Good, T3, Down
  <2> HIDE DEF n, r
  <2>4. /\ Linked(s.mem, s2.mem, T2(s.mem, i, j), k, n[2]) /\ s2.ok
        /\ Grown(s.mem, s2.mem, n[2]) => Good(s2, total_frames, K, V, E)
    BY <1>2, <2>3, Attach
  <2> HIDE DEF s2
  <2>5. Grown(s.mem, s2.mem, n[2])
    BY <2>1, <2>3, <2>4, GrowThird
  <2>6. T3(s2.mem, i, j, k) = n[2] /\ SameLeaf(s.mem, s2.mem)
    BY <2>1, <2>3, <2>4, LinkThird
  <2>7. r[1] = s2 /\ r[2] = n[2]
    BY <2>2
  <2> QED
    BY <2>1, <2>4, <2>5, <2>6, <2>7 DEF Stepped, r
<1>3. CASE s.mem[T2(s.mem, i, j)][k] = P!Absent /\ n[2] = P!Absent /\ n[1] = [s EXCEPT !.ok = FALSE]
  <2>1. r = n
    BY <1>3 DEF P!get_or_create
  <2> HIDE DEF n, r
  <2>2. Good(r[1], total_frames, K, V, E) /\ SameLeaf(s.mem, r[1].mem) /\ ~r[1].ok
    BY <1>3, <2>1, NotOk
  <2> QED
    BY <2>2 DEF Stepped, r
<1> QED
  BY <1>1, <1>2, <1>3, AllocTable

-----------------------------------------------------------------------------
LEMMA Indices ==
  ASSUME NEW v \in P!Pages
  PROVE  /\ P!PML4_IDX(v) \in Bin /\ P!PDPT_IDX(v) \in Bin
         /\ P!PD_IDX(v) \in Bin /\ P!PT_IDX(v) \in Bin
BY DEF P!Pages, Bin, P!PML4_IDX, P!PDPT_IDX, P!PD_IDX, P!PT_IDX

(* The four indices name the page. *)
LEMMA IndicesApart ==
  ASSUME NEW v \in P!Pages, NEW w \in P!Pages
  PROVE  (/\ P!PML4_IDX(w) = P!PML4_IDX(v) /\ P!PDPT_IDX(w) = P!PDPT_IDX(v)
          /\ P!PD_IDX(w) = P!PD_IDX(v) /\ P!PT_IDX(w) = P!PT_IDX(v)) <=> w = v
BY DEF P!Pages, P!PML4_IDX, P!PDPT_IDX, P!PD_IDX, P!PT_IDX

(* A last-level entry is overwritten: that page moves, no other. *)
LEMMA PageWritten ==
  ASSUME NEW m, NEW m2, Tree(m), NEW v \in P!Pages, NEW w \in P!Pages \cup {P!Absent},
         NEW t, t = T3(m, P!PML4_IDX(v), P!PDPT_IDX(v), P!PD_IDX(v)), t # P!Absent,
         m2 = [m EXCEPT ![t][P!PT_IDX(v)] = w]
  PROVE  /\ Tree(m2) /\ \A y : Live(m2, y) => Live(m, y)
         /\ \A y \in P!Tables : y # t => m2[y] = m[y]
         /\ Live(m, t)
         /\ \A u \in P!Pages : Trans(m2, u) = IF u = v THEN w ELSE Trans(m, u)
<1> DEFINE a == P!PML4_IDX(v)
           b == P!PDPT_IDX(v)
           c == P!PD_IDX(v)
           d == P!PT_IDX(v)
<1>1. a \in Bin /\ b \in Bin /\ c \in Bin /\ d \in Bin
  BY Indices
<1>2. t = T3(m, a, b, c) /\ m2 = [m EXCEPT ![t][d] = w]
  OBVIOUS
<1> HIDE DEF a, b, c, d
<1>3. t \in P!Tables /\ m \in Memory /\ Live(m, t)
  BY <1>1, <1>2, TableFacts DEF Tree, Below, Live
<1>4. m2 \in Memory /\ m2[t] = [m[t] EXCEPT ![d] = w]
      /\ \A y \in P!Tables : y # t => m2[y] = m[y]
  <2>1. m[t] \in [Bin -> Entries] /\ w \in Entries
    BY <1>3 DEF Memory, Entries
  <2>2. [m[t] EXCEPT ![d] = w] \in [Bin -> Entries]
    BY <1>1, <2>1
  <2>3. m2 = [m EXCEPT ![t] = [m[t] EXCEPT ![d] = w]]
    BY <1>2
  <2> QED
    BY <1>3, <2>2, <2>3 DEF Memory
<1>5. Written(m, m2, t, d, w)
  <2>1. m[t] \in [Bin -> Entries]
    BY <1>3 DEF Memory
  <2> QED
    BY <1>1, <1>4, <2>1 DEF Written
<1>6. WrittenAt(m, m2, a, b, c, d, w)
  BY <1>1, <1>2, <1>5, WriteLeaf
<1>7. Tree(m2) /\ \A y : Live(m2, y) => Live(m, y)
  BY <1>4, <1>6, TreeByTables DEF WrittenAt
<1>8. ASSUME NEW u \in P!Pages PROVE Trans(m2, u) = IF u = v THEN w ELSE Trans(m, u)
  <2> DEFINE p == P!PML4_IDX(u)
             q == P!PDPT_IDX(u)
             r == P!PD_IDX(u)
             l == P!PT_IDX(u)
  <2>1. p \in Bin /\ q \in Bin /\ r \in Bin /\ l \in Bin
    BY Indices
  <2>2. (p = a /\ q = b /\ r = c /\ l = d) <=> u = v
    BY IndicesApart DEF a, b, c, d
  <2>3. Trans(m2, u) = Leaf(m2, p, q, r, l) /\ Trans(m, u) = Leaf(m, p, q, r, l)
    BY DEF Trans
  <2> HIDE DEF p, q, r, l
  <2>4. Moved(m, m2, a, b, c, d, w, p, q, r, l)
    BY <1>6, <2>1 DEF WrittenAt
  <2> QED
    BY <2>2, <2>3, <2>4 DEF Moved
<1> QED
  BY <1>3, <1>4, <1>7, <1>8

LEMMA LeafWritten ==
  ASSUME NEW s, NEW tf, NEW K, NEW V, NEW E, Good(s, tf, K, V, E),
         NEW v \in P!Pages, NEW w \in P!Pages \cup {P!Absent},
         NEW t, t = T3(s.mem, P!PML4_IDX(v), P!PDPT_IDX(v), P!PD_IDX(v)), t # P!Absent
  PROVE  LET r == [s EXCEPT !.mem[t][P!PT_IDX(v)] = w]
         IN  /\ Good(r, tf, K, V, E) /\ r.ok = s.ok
             /\ \A u \in P!Pages : Trans(r.mem, u) = IF u = v THEN w ELSE Trans(s.mem, u)
<1> DEFINE m2 == [s.mem EXCEPT ![t][P!PT_IDX(v)] = w]
           r == [s EXCEPT !.mem = m2]
<1>1. /\ Tree(m2) /\ (\A y : Live(m2, y) => Live(s.mem, y)) /\ Live(s.mem, t)
      /\ \A y \in P!Tables : y # t => m2[y] = s.mem[y]
      /\ \A u \in P!Pages : Trans(m2, u) = IF u = v THEN w ELSE Trans(s.mem, u)
  <2>1. Tree(s.mem)
    BY DEF Good
  <2>2. m2 = [s.mem EXCEPT ![t][P!PT_IDX(v)] = w]
    OBVIOUS
  <2> HIDE DEF m2
  <2> QED
    BY <2>1, <2>2, PageWritten
<1>2. [s EXCEPT !.mem[t][P!PT_IDX(v)] = w] = r
  BY DEF Good, Rec
<1> HIDE DEF m2
<1>3. m2 \in Memory /\ s \in Rec
  BY <1>1 DEF Tree, Good
<1>4. /\ r \in Rec /\ r.mem = m2 /\ r.used = s.used /\ r.pool = s.pool /\ r.free = s.free
      /\ r.ok = s.ok
  BY <1>3 DEF Rec
<1> HIDE DEF r
<1>5. ASSUME NEW y, Live(r.mem, y) PROVE Given(r, tf, K, V, y)
  <2>1. Given(s, tf, K, V, y)
    BY <1>1, <1>4, <1>5 DEF Good
  <2> QED
    BY <1>4, <2>1 DEF Given
<1>6. ASSUME NEW y \in P!Tables, y >= MAX_FRAMES + r.pool PROVE r.mem[y] = P!ZeroTable
  <2>1. Given(s, tf, K, V, t) /\ t \in P!Tables /\ s.pool \in Nat
    BY <1>1, <1>3, LiveTable, PagingFacts DEF Good, Rec
  <2>2. t \in Nat /\ y \in Nat
    BY <2>1, TableFacts
  <2>3. t # y
    BY <1>4, <1>6, <2>1, <2>2, PagingFacts DEF Given
  <2> QED
    BY <1>1, <1>4, <1>6, <2>3 DEF Good
<1>7. Bits(r, tf, K, V, E)
  BY <1>4 DEF Good, Bits
<1>8. r.pool >= 1
  BY <1>4 DEF Good
<1>9. Good(r, tf, K, V, E)
  BY <1>1, <1>4, <1>5, <1>6, <1>7, <1>8 DEF Good
<1> QED
  BY <1>1, <1>2, <1>4, <1>9

(* A page is mapped: it leads to its frame and no other page moves. *)
LEMMA MapPage ==
  ASSUME NEW s, NEW K, NEW V, NEW E, total_frames \in 0 .. MAX_FRAMES,
         Good(s, total_frames, K, V, E), NEW v \in P!Pages, NEW frame \in P!Pages
  PROVE  LET r == P!vmm_map_page(s, v, frame)
         IN  /\ Good(r, total_frames, K, V, E)
             /\ r.ok => /\ s.ok
                        /\ \A u \in P!Pages :
                             Trans(r.mem, u) = IF u = v THEN frame ELSE Trans(s.mem, u)
<1> DEFINE i == P!PML4_IDX(v)
           j == P!PDPT_IDX(v)
           k == P!PD_IDX(v)
           r1 == P!get_or_create(s, P!Root, i)
           r2 == P!get_or_create(r1[1], r1[2], j)
           r3 == P!get_or_create(r2[1], r2[2], k)
           r == P!vmm_map_page(s, v, frame)
           Ok(x) == Good(x, total_frames, K, V, E)
<1>1. i \in Bin /\ j \in Bin /\ k \in Bin
  BY Indices
<1>2. r = IF ~r3[1].ok THEN r3[1] ELSE [r3[1] EXCEPT !.mem[r3[2]][P!PT_IDX(v)] = frame]
  BY DEF P!vmm_map_page
<1> HIDE DEF i, j, k, Ok
<1>3. ASSUME NEW x, NEW t, NEW l, ~x.ok
      PROVE  P!get_or_create(x, t, l) = << x, P!Absent >>
  BY <1>3 DEF P!get_or_create
<1> HIDE DEF r
<1>4. CASE ~s.ok
  <2>1. r1 = << s, P!Absent >>
    BY <1>3, <1>4
  <2> HIDE DEF r1
  <2>2. r2 = << s, P!Absent >>
    BY <1>3, <1>4, <2>1
  <2> HIDE DEF r2
  <2>3. r3 = << s, P!Absent >>
    BY <1>3, <1>4, <2>2
  <2> HIDE DEF r3
  <2>4. r = s
    BY <1>2, <1>4, <2>3
  <2> QED
    BY <1>4, <2>4 DEF r
<1>5. CASE s.ok
  <2>1. /\ Good(r1[1], total_frames, K, V, E) /\ SameLeaf(s.mem, r1[1].mem)
        /\ r1[1].ok => r1[2] = T1(r1[1].mem, i) /\ r1[2] # P!Absent
    BY <1>1, <1>5, WalkFirst DEF Stepped
  <2> HIDE DEF r1
  <2>2. CASE ~r1[1].ok
    <3>1. r2 = << r1[1], P!Absent >>
      BY <1>3, <2>2
    <3> HIDE DEF r2
    <3>2. r3 = << r1[1], P!Absent >>
      BY <1>3, <2>2, <3>1
    <3> HIDE DEF r3
    <3>3. r = r1[1]
      BY <1>2, <2>2, <3>2
    <3> QED
      BY <2>1, <2>2, <3>3 DEF r
  <2>3. CASE r1[1].ok
    <3>1. /\ Good(r2[1], total_frames, K, V, E) /\ SameLeaf(r1[1].mem, r2[1].mem)
          /\ r2[1].ok => r2[2] = T2(r2[1].mem, i, j) /\ r2[2] # P!Absent
      BY <1>1, <2>1, <2>3, WalkSecond DEF Stepped
    <3> HIDE DEF r2
    <3>2. CASE ~r2[1].ok
      <4>1. r3 = << r2[1], P!Absent >>
        BY <1>3, <3>2
      <4> HIDE DEF r3
      <4>2. r = r2[1]
        BY <1>2, <3>2, <4>1
      <4> QED
        BY <3>1, <3>2, <4>2 DEF r
    <3>3. CASE r2[1].ok
      <4>1. /\ Good(r3[1], total_frames, K, V, E) /\ SameLeaf(r2[1].mem, r3[1].mem)
            /\ r3[1].ok => r3[2] = T3(r3[1].mem, i, j, k) /\ r3[2] # P!Absent
        BY <1>1, <3>1, <3>3, WalkThird DEF Stepped
      <4> HIDE DEF r3
      <4>2. CASE ~r3[1].ok
        BY <1>2, <4>1, <4>2 DEF r
      <4>3. CASE r3[1].ok
        <5>1. r = [r3[1] EXCEPT !.mem[r3[2]][P!PT_IDX(v)] = frame]
          BY <1>2, <4>3
        <5>2. /\ Good(r, total_frames, K, V, E)
              /\ \A u \in P!Pages : Trans(r.mem, u) = IF u = v THEN frame ELSE Trans(r3[1].mem, u)
          BY <4>1, <4>3, <5>1, LeafWritten DEF i, j, k
        <5>3. ASSUME NEW u \in P!Pages PROVE Trans(r3[1].mem, u) = Trans(s.mem, u)
          BY <2>1, <3>1, <4>1, Indices DEF SameLeaf, Trans
        <5> QED
          BY <1>5, <5>2, <5>3 DEF r
      <4> QED
        BY <4>2, <4>3
    <3> QED
      BY <3>2, <3>3
  <2> QED
    BY <2>2, <2>3
<1>6. s.ok \in BOOLEAN
  BY DEF Good, Rec
<1> QED
  BY <1>4, <1>5, <1>6

(* The range is mapped one page after the other. *)
LEMMA RangeUnfolds ==
  ASSUME NEW s, NEW v, NEW frame, NEW n \in Nat
  PROVE  LET after == P!pages_mapped(s, v, frame, n)
         IN  /\ after[0] = s
             /\ \A i \in 1 .. n : after[i] = P!vmm_map_page(after[i - 1], v + i - 1, frame + i - 1)
<1> DEFINE F(x, i) == P!vmm_map_page(x, v + i - 1, frame + i - 1)
           Unfolds(g, m) == g = [i \in 0 .. m |-> IF i = 0 THEN s ELSE F(g[i - 1], i)]
           Made(m) == \E g : Unfolds(g, m)
           Bad == {m \in 0 .. n : ~Made(m)}
           after == P!pages_mapped(s, v, frame, n)
<1>1. after = CHOOSE g : Unfolds(g, n)
  BY DEF P!pages_mapped
<1> HIDE DEF F, after
<1>2. Bad = {}
  <2> SUFFICES ASSUME Bad # {} PROVE FALSE
    OBVIOUS
  <2>0. Bad \subseteq Nat
    OBVIOUS
  <2>1. PICK m \in Bad : \A y \in Bad : m <= y
    <3> HIDE DEF Bad
    <3> QED
      BY <2>0, LeastOf
  <2>2. m # 0
    <3>1. Unfolds([i \in 0 .. 0 |-> s], 0)
      OBVIOUS
    <3>2. Made(0)
      BY <3>1
    <3> HIDE DEF Made
    <3> QED
      BY <2>1, <3>2
  <2>3. m \in Nat /\ m - 1 \in 0 .. n /\ Made(m - 1)
    <3> HIDE DEF Made
    <3> QED
      BY <2>1, <2>2
  <2>4. PICK g : Unfolds(g, m - 1)
    BY <2>3
  <2> DEFINE h == [i \in 0 .. m |-> IF i = m THEN F(g[m - 1], m) ELSE g[i]]
  <2>5. ASSUME NEW i \in 0 .. m PROVE h[i] = IF i = 0 THEN s ELSE F(h[i - 1], i)
    <3>1. \A l \in 0 .. m - 1 : g[l] = IF l = 0 THEN s ELSE F(g[l - 1], l)
      BY <2>4
    <3>2. i = 0 \/ (i - 1 \in 0 .. m - 1 /\ h[i - 1] = g[i - 1])
      BY <2>3
    <3>3. i = m \/ (i \in 0 .. m - 1 /\ h[i] = g[i])
      BY <2>3
    <3>4. h[m] = F(g[m - 1], m)
      BY <2>3
    <3> HIDE DEF h
    <3> QED
      BY <2>2, <3>1, <3>2, <3>3, <3>4
  <2>6. Unfolds(h, m)
    <3>1. h = [i \in 0 .. m |-> h[i]]
      OBVIOUS
    <3> HIDE DEF h
    <3> QED
      BY <2>5, <3>1
  <2>7. Made(m)
    BY <2>6
  <2> HIDE DEF Made
  <2> QED
    BY <2>1, <2>7
<1>3. PICK g : Unfolds(g, n)
  <2>1. Made(n)
    <3> HIDE DEF Made
    <3> QED
      BY <1>2
  <2> QED
    BY <2>1
<1>4. Unfolds(after, n)
  <2> HIDE DEF Unfolds
  <2> QED
    BY <1>1, <1>3
<1>5. after[0] = s /\ \A i \in 1 .. n : after[i] = F(after[i - 1], i)
  BY <1>4
<1> QED
  BY <1>5 DEF F, after

LEMMA MapRange ==
  ASSUME NEW s, NEW K, NEW V, NEW E, total_frames \in 0 .. MAX_FRAMES,
         Good(s, total_frames, K, V, E),
         NEW v \in Nat, NEW frame \in Nat, NEW n \in Nat, v + n <= 16, frame + n <= 16
  PROVE  LET r == P!vmm_map_range(s, v, frame, n)
         IN  /\ Good(r, total_frames, K, V, E)
             /\ r.ok => \A u \in P!Pages : Trans(r.mem, u) =
                                             IF v <= u /\ u < v + n THEN frame + u - v
                                             ELSE Trans(s.mem, u)
<1> DEFINE after == P!pages_mapped(s, v, frame, n)
           Q(i) == /\ Good(after[i], total_frames, K, V, E)
                   /\ after[i].ok => \A u \in P!Pages : Trans(after[i].mem, u) =
                                       IF v <= u /\ u < v + i THEN frame + u - v
                                       ELSE Trans(s.mem, u)
           Bad == {i \in 0 .. n : ~Q(i)}
<1>1. /\ after[0] = s
      /\ \A i \in 1 .. n : after[i] = P!vmm_map_page(after[i - 1], v + i - 1, frame + i - 1)
  BY RangeUnfolds
<1> HIDE DEF after
<1>0. \A u \in P!Pages : u \in Nat
  BY DEF P!Pages
<1>2. Q(0)
  BY <1>0, <1>1
<1>3. ASSUME NEW m \in 1 .. n, Q(m - 1) PROVE Q(m)
  <2> DEFINE x == after[m - 1]
             v1 == v + m - 1
             f1 == frame + m - 1
  <2>1. v1 \in P!Pages /\ f1 \in P!Pages
    BY DEF P!Pages
  <2>2. after[m] = P!vmm_map_page(x, v1, f1)
    BY <1>1
  <2>3. Good(x, total_frames, K, V, E)
    BY <1>3
  <2>4. x.ok => \A u \in P!Pages : Trans(x.mem, u) =
                  IF v <= u /\ u < v + (m - 1) THEN frame + u - v ELSE Trans(s.mem, u)
    BY <1>3
  <2> HIDE DEF x
  <2>5. v1 = v + m - 1 /\ f1 = frame + m - 1
    OBVIOUS
  <2> HIDE DEF v1, f1
  <2>6. /\ Good(after[m], total_frames, K, V, E)
        /\ after[m].ok => /\ x.ok
                          /\ \A u \in P!Pages :
                               Trans(after[m].mem, u) = IF u = v1 THEN f1 ELSE Trans(x.mem, u)
    BY <2>1, <2>2, <2>3, MapPage
  <2>7. ASSUME after[m].ok, NEW u \in P!Pages
        PROVE  Trans(after[m].mem, u) = IF v <= u /\ u < v + m THEN frame + u - v
                                        ELSE Trans(s.mem, u)
    <3>1. u \in Nat
      BY <1>0
    <3>2. Trans(after[m].mem, u) = IF u = v1 THEN f1 ELSE Trans(x.mem, u)
      BY <2>6, <2>7
    <3>3. Trans(x.mem, u) = IF v <= u /\ u < v + (m - 1) THEN frame + u - v ELSE Trans(s.mem, u)
      BY <2>4, <2>6, <2>7
    <3> QED
      BY <2>5, <3>1, <3>2, <3>3
  <2> QED
    BY <2>6, <2>7
<1> HIDE DEF Q
<1>4. Bad = {}
  <2> SUFFICES ASSUME Bad # {} PROVE FALSE
    OBVIOUS
  <2>0. Bad \subseteq Nat
    OBVIOUS
  <2>1. PICK m \in Bad : \A y \in Bad : m <= y
    <3> HIDE DEF Bad
    <3> QED
      BY <2>0, LeastOf
  <2>2. m # 0
    BY <1>2, <2>1
  <2>3. m \in 1 .. n /\ Q(m - 1)
    BY <2>1, <2>2
  <2> QED
    BY <1>3, <2>1, <2>3
<1>5. Q(n)
  BY <1>4
<1>6. P!vmm_map_range(s, v, frame, n) = after[n]
  BY DEF P!vmm_map_range, after
<1> QED
  BY <1>5, <1>6 DEF Q

-----------------------------------------------------------------------------
(* The state as a record, before and after a step. *)
LEMMA NowFields ==
  /\ P!Now.used = used /\ P!Now.free = free_frames /\ P!Now.mem = mem
  /\ P!Now.pool = static_pt_used /\ P!Now.ok = TRUE
  /\ P!Now'.used = used' /\ P!Now'.free = free_frames' /\ P!Now'.mem = mem'
  /\ P!Now'.pool = static_pt_used' /\ P!Now'.ok = TRUE
BY DEF P!Now

LEMMA NowRec ==
  /\ P!Now \in Rec <=> /\ used \in SUBSET P!Frames /\ free_frames \in 0 .. CountMod - 1
                       /\ mem \in Memory /\ static_pt_used \in 0 .. STATIC_PT_PAGES
  /\ P!Now' \in Rec <=> /\ used' \in SUBSET P!Frames /\ free_frames' \in 0 .. CountMod - 1
                        /\ mem' \in Memory /\ static_pt_used' \in 0 .. STATIC_PT_PAGES
BY DEF P!Now, Rec

(* Only bits, the count or the parameters change. *)
LEMMA GoodBits ==
  ASSUME NEW s, NEW tf, NEW K, NEW V, NEW E, Good(s, tf, K, V, E),
         NEW n, NEW tf2, NEW K2, NEW V2, NEW E2,
         n \in Rec, n.mem = s.mem, n.pool = s.pool,
         \A y : Live(s.mem, y) => Given(n, tf2, K2, V2, y),
         Bits(n, tf2, K2, V2, E2)
  PROVE  Good(n, tf2, K2, V2, E2)
BY DEF Good

LEMMA Becoming ==
  ASSUME NEW s, NEW tf, NEW K, NEW V, NEW E, Good(s, tf, K, V, E), P!Becomes(s)
  PROVE  Good(P!Now', tf, K, V, E)
<1> DEFINE n == P!Now'
<1>1. s \in Rec
  BY DEF Good
<1>2. n.used = s.used /\ n.free = s.free /\ n.mem = s.mem /\ n.pool = s.pool /\ n \in Rec
  BY <1>1, NowFields, NowRec DEF P!Becomes, Rec
<1> HIDE DEF n
<1>3. ASSUME NEW y, Live(s.mem, y) PROVE Given(n, tf, K, V, y)
  BY <1>2, <1>3 DEF Good, Given
<1>4. Bits(n, tf, K, V, E)
  BY <1>2 DEF Good, Bits
<1>5. Good(n, tf, K, V, E)
  BY <1>2, <1>3, <1>4, GoodBits
<1> QED
  BY <1>5 DEF n

(* Fewer frames kept. *)
LEMMA KeepLess ==
  ASSUME NEW s, NEW tf, NEW K, NEW V, NEW E, Good(s, tf, K, V, E), NEW K2 \in SUBSET K
  PROVE  Good(s, tf, K2, V, E)
<1>1. ASSUME NEW y, Live(s.mem, y) PROVE Given(s, tf, K2, V, y)
  BY <1>1 DEF Good, Given
<1>2. Bits(s, tf, K2, V, E)
  BY DEF Good, Bits
<1> QED
  BY <1>1, <1>2 DEF Good

-----------------------------------------------------------------------------
LEMMA PagingInitial ==
  ASSUME P!Init
  PROVE  PInv
<1>1. /\ phase = "vmm_init" /\ map \in MemoryMaps /\ used = {} /\ total_frames = 0
      /\ free_frames = 0 /\ static_pt_used = 0 /\ owned = {} /\ ops = 0
      /\ mem = [t \in P!Tables |-> IF t < MAX_FRAMES THEN P!Garbage ELSE P!ZeroTable]
      /\ asked = [v \in P!Pages |-> P!Absent]
  BY DEF P!Init
<1>2. mem \in Memory /\ \A y \in P!Tables : y >= MAX_FRAMES => mem[y] = P!ZeroTable
  <2>1. P!Garbage \in [Bin -> Entries]
    BY PagingFacts DEF P!Garbage, Bin, Entries, P!Pages
  <2>2. \A y \in P!Tables : y \in Nat
    BY TableFacts
  <2> QED
    BY <1>1, <2>1, <2>2, TableFacts, PagingFacts DEF Memory
<1>3. PagingTypes
  BY <1>1, PagingFacts DEF PagingTypes
<1> QED
  BY <1>1, <1>2, <1>3 DEF PInv, BeforeTables, BeforeFrames, TablesGood, AllTranslate, OwnedApart

(* The root alone: nothing is mapped. *)
LEMMA EmptyRoot ==
  ASSUME NEW m \in Memory, m[P!Root] = P!ZeroTable
  PROVE  /\ Tree(m) /\ \A y : Live(m, y) => y = P!Root
         /\ \A v \in P!Pages : Trans(m, v) = P!Absent
<1>1. \A a \in Bin : T1(m, a) = P!Absent
  BY TableFacts DEF T1
<1>2. \A a, b \in Bin : T2(m, a, b) = P!Absent
  BY <1>1 DEF T2, Down
<1>3. \A a, b, c \in Bin : T3(m, a, b, c) = P!Absent
  BY <1>2 DEF T3, Down
<1>4. \A a, b, c, d \in Bin : Leaf(m, a, b, c, d) = P!Absent
  BY <1>3 DEF Leaf, Down
<1>5. Tree(m)
  BY <1>1, <1>2, <1>3 DEF Tree, OneEach, LevelsApart, Below
<1>6. \A y : Live(m, y) => y = P!Root
  BY <1>1, <1>2, <1>3 DEF Live
<1> QED
  BY <1>4, <1>5, <1>6, Indices DEF Trans

LEMMA PagingVmmInit ==
  ASSUME PInv, P!vmm_init
  PROVE  PInv'
<1> DEFINE s0 == [P!Now EXCEPT !.pool = 1]
           s == P!vmm_map_range(s0, 0, 0, IDENTITY_MAP_PAGES)
<1>0. phase = "vmm_init"
  BY DEF P!vmm_init
<1>1. /\ phase = "vmm_init" /\ map \in MemoryMaps /\ used = {} /\ total_frames = 0
      /\ free_frames = 0 /\ static_pt_used = 0 /\ owned = {} /\ ops \in 0 .. MaxOps
      /\ mem \in Memory /\ \A y \in P!Tables : y >= MAX_FRAMES => mem[y] = P!ZeroTable
  BY <1>0 DEF PInv, PagingTypes, BeforeTables, BeforeFrames
<1>2. P!alloc_table(P!Now)[1] = s0
  <2>1. P!first_free(P!Now) = P!Absent
    BY <1>1 DEF P!first_free
  <2> QED
    BY <1>1, <2>1, PagingFacts DEF P!alloc_table, P!Now
<1>3. /\ phase' = (IF s.ok THEN "pmm_init" ELSE "halted") /\ P!Becomes(s)
      /\ asked' = [v \in P!Pages |-> IF v < IDENTITY_MAP_PAGES THEN v ELSE P!Absent]
      /\ map' = map /\ total_frames' = total_frames /\ owned' = owned /\ ops' = ops
  BY <1>2 DEF P!vmm_init
<1>4. /\ s0 \in Rec /\ s0.mem = mem /\ s0.pool = 1 /\ s0.used = {}
  <2>1. P!Now \in Rec
    BY <1>1, NowRec, PagingFacts
  <2>2. 1 \in 0 .. STATIC_PT_PAGES
    BY PagingFacts
  <2> QED
    BY <1>1, <2>1, <2>2, NowFields DEF Rec
<1> HIDE DEF s0
<1>5. Good(s0, total_frames, {}, Avail, 0)
  <2>1. P!Root \in P!Tables /\ P!Root >= MAX_FRAMES /\ P!Root = MAX_FRAMES
    BY TableFacts, PagingFacts DEF P!Root
  <2>2. Tree(mem) /\ \A y : Live(mem, y) => y = P!Root
    BY <1>1, <2>1, EmptyRoot
  <2>3. ASSUME NEW y, Live(s0.mem, y) PROVE Given(s0, total_frames, {}, Avail, y)
    <3>1. y = MAX_FRAMES
      BY <1>4, <2>1, <2>2, <2>3
    <3> QED
      BY <1>4, <3>1, PagingFacts DEF Given
  <2>4. Bits(s0, total_frames, {}, Avail, 0)
    BY <1>1 DEF Bits
  <2>5. ASSUME NEW y \in P!Tables, y >= MAX_FRAMES + s0.pool PROVE s0.mem[y] = P!ZeroTable
    <3>1. y \in Nat
      BY TableFacts
    <3> QED
      BY <1>1, <1>4, <2>5, <3>1, PagingFacts
  <2> QED
    BY <1>4, <2>2, <2>3, <2>4, <2>5 DEF Good
<1>6. /\ Good(s, total_frames, {}, Avail, 0)
      /\ s.ok => \A u \in P!Pages : Trans(s.mem, u) =
                   IF 0 <= u /\ u < 0 + IDENTITY_MAP_PAGES THEN 0 + u - 0 ELSE Trans(s0.mem, u)
  <2>1. total_frames \in 0 .. MAX_FRAMES /\ IDENTITY_MAP_PAGES \in Nat
        /\ 0 + IDENTITY_MAP_PAGES <= 16
    BY <1>1, PagingFacts
  <2> QED
    BY <1>5, <2>1, MapRange
<1> HIDE DEF s
<1>7. \A u \in P!Pages : Trans(s0.mem, u) = P!Absent
  <2>1. P!Root \in P!Tables /\ P!Root >= MAX_FRAMES
    BY TableFacts, PagingFacts DEF P!Root
  <2> QED
    BY <1>1, <1>4, <2>1, EmptyRoot
<1>8. Kept' = {} /\ Exact' = 0 /\ Avail' = Avail
  BY <1>1, <1>3 DEF Kept, Exact, Avail
<1>9. Good(P!Now', total_frames, {}, Avail, 0)
  BY <1>3, <1>6, Becoming
<1>10. TablesGood'
  BY <1>3, <1>8, <1>9 DEF TablesGood
<1>11. PagingTypes'
  <2>1. asked' \in [P!Pages -> P!Pages \cup {P!Absent}]
    BY <1>3
  <2> QED
    BY <1>1, <1>3, <1>8, <2>1, PagingFacts DEF PagingTypes
<1>12. BeforeTables' /\ BeforeFrames' /\ OwnedApart'
  BY <1>1, <1>3 DEF BeforeTables, BeforeFrames, OwnedApart
<1>13. AllTranslate'
  <2>1. ASSUME s.ok, NEW v \in P!Pages PROVE Trans(mem', v) = asked'[v]
    <3>1. v \in Nat /\ mem' = s.mem
      BY <1>3 DEF P!Pages, P!Becomes
    <3> QED
      BY <1>3, <1>6, <1>7, <2>1, <3>1, PagingFacts
  <2> QED
    BY <1>3, <2>1 DEF AllTranslate
<1> QED
  BY <1>10, <1>11, <1>12, <1>13 DEF PInv

-----------------------------------------------------------------------------
(* What the loader's entries hold. *)
LEMMA EntryFrames ==
  ASSUME NEW m \in MemoryMaps
  PROVE  /\ Len(m) \in Nat
         /\ \A i \in 1 .. Len(m) : m[i] \in [base : Nat, length : Nat, type : Nat]
         /\ \A i : IsFiniteSet(P!FramesOf(m[i])) /\ P!FramesOf(m[i]) \subseteq P!Frames
                   /\ Cardinality(P!FramesOf(m[i])) \in Nat
<1>1. m \in Seq([base : Nat, length : Nat, type : Nat])
  BY PagingFacts
<1>2. ASSUME NEW i
      PROVE  /\ IsFiniteSet(P!FramesOf(m[i])) /\ P!FramesOf(m[i]) \subseteq P!Frames
             /\ Cardinality(P!FramesOf(m[i])) \in Nat
  <2>1. P!FramesOf(m[i]) \subseteq P!Frames
    BY DEF P!FramesOf
  <2>2. IsFiniteSet(P!FramesOf(m[i]))
    BY <2>1, FramesFinite, FS_Subset
  <2> QED
    BY <2>1, <2>2, FS_CardinalityType
<1>3. Len(m) \in Nat /\ \A i \in 1 .. Len(m) : m[i] \in [base : Nat, length : Nat, type : Nat]
  <2> DEFINE Ent == [base : Nat, length : Nat, type : Nat]
  <2>1. m \in Seq(Ent)
    BY <1>1
  <2> HIDE DEF Ent
  <2>2. Len(m) \in Nat /\ \A i \in 1 .. Len(m) : m[i] \in Ent
    BY ONLY <2>1
  <2> QED
    BY <2>2 DEF Ent
<1> QED
  BY <1>2, <1>3

(* The count of the boot adds up what each usable entry holds. *)
Part(m, i) == IF m[i].type = 1 THEN Cardinality(P!FramesOf(m[i])) ELSE 0
LEMMA CountUnfolds ==
  ASSUME NEW m \in MemoryMaps
  PROVE  LET sum == P!frames_counted(m)
         IN  /\ sum[0] = 0
             /\ \A i \in 1 .. Len(m) : sum[i] = sum[i - 1] + Part(m, i)
<1> DEFINE n == Len(m)
           Unfolds(g, l) == g = [i \in 0 .. l |-> IF i = 0 THEN 0 ELSE g[i - 1] + Part(m, i)]
           Made(l) == \E g : Unfolds(g, l)
           Bad == {l \in 0 .. n : ~Made(l)}
           sum == P!frames_counted(m)
<1>0. n \in Nat
  BY EntryFrames
<1>1. sum = CHOOSE g : Unfolds(g, n)
  BY CardSame DEF P!frames_counted, Part
<1> HIDE DEF sum, n
<1>2. Bad = {}
  <2> SUFFICES ASSUME Bad # {} PROVE FALSE
    OBVIOUS
  <2>0. Bad \subseteq Nat
    BY <1>0
  <2>1. PICK l \in Bad : \A y \in Bad : l <= y
    <3> HIDE DEF Bad
    <3> QED
      BY <2>0, LeastOf
  <2>2. l # 0
    <3>1. Unfolds([i \in 0 .. 0 |-> 0], 0)
      OBVIOUS
    <3>2. Made(0)
      BY <3>1
    <3> HIDE DEF Made
    <3> QED
      BY <2>1, <3>2
  <2>3. l \in Nat /\ l - 1 \in 0 .. n /\ Made(l - 1)
    <3> HIDE DEF Made
    <3> QED
      BY <1>0, <2>1, <2>2
  <2>4. PICK g : Unfolds(g, l - 1)
    BY <2>3
  <2> DEFINE h == [i \in 0 .. l |-> IF i = l THEN g[l - 1] + Part(m, l) ELSE g[i]]
  <2>5. ASSUME NEW i \in 0 .. l PROVE h[i] = IF i = 0 THEN 0 ELSE h[i - 1] + Part(m, i)
    <3>1. \A k \in 0 .. l - 1 : g[k] = IF k = 0 THEN 0 ELSE g[k - 1] + Part(m, k)
      BY <2>4
    <3>2. i = 0 \/ (i - 1 \in 0 .. l - 1 /\ h[i - 1] = g[i - 1])
      BY <2>3
    <3>3. i = l \/ (i \in 0 .. l - 1 /\ h[i] = g[i])
      BY <2>3
    <3>4. h[l] = g[l - 1] + Part(m, l)
      BY <2>3
    <3> HIDE DEF h
    <3> QED
      BY <2>2, <3>1, <3>2, <3>3, <3>4
  <2>6. Unfolds(h, l)
    <3>1. h = [i \in 0 .. l |-> h[i]]
      OBVIOUS
    <3> HIDE DEF h
    <3> QED
      BY <2>5, <3>1
  <2>7. Made(l)
    BY <2>6
  <2> HIDE DEF Made
  <2> QED
    BY <2>1, <2>7
<1>3. PICK g : Unfolds(g, n)
  <2>1. Made(n)
    <3> HIDE DEF Made
    <3> QED
      BY <1>0, <1>2
  <2> QED
    BY <2>1
<1>4. Unfolds(sum, n)
  <2> HIDE DEF Unfolds
  <2> QED
    BY <1>1, <1>3
<1>5. sum[0] = 0 /\ \A i \in 1 .. n : sum[i] = sum[i - 1] + Part(m, i)
  BY <1>0, <1>4
<1> QED
  BY <1>5 DEF n, sum

(* It is the number of usable frames if no two entries share one. *)
Apart(m) == \A i, j \in P!Usable(m) : i # j => P!FramesOf(m[i]) \cap P!FramesOf(m[j]) = {}
Union(m, l) == UNION {P!FramesOf(m[i]) : i \in {k \in P!Usable(m) : k <= l}}
LEMMA CountExact ==
  ASSUME NEW m \in MemoryMaps
  PROVE  /\ P!frames_counted(m)[Len(m)] \in Nat
         /\ Apart(m) => P!frames_counted(m)[Len(m)] =
                          Cardinality(UNION {P!FramesOf(m[i]) : i \in P!Usable(m)})
<1> DEFINE n == Len(m)
           sum == P!frames_counted(m)
           Q(l) == /\ sum[l] \in Nat
                   /\ IsFiniteSet(Union(m, l)) /\ Apart(m) => sum[l] = Cardinality(Union(m, l))
           Bad == {l \in 0 .. n : ~Q(l)}
<1>0. n \in Nat
  BY EntryFrames
<1>1. sum[0] = 0 /\ \A i \in 1 .. n : sum[i] = sum[i - 1] + Part(m, i)
  BY CountUnfolds
<1>2. ASSUME NEW i \in 1 .. n PROVE Part(m, i) \in Nat
  BY EntryFrames DEF Part
<1>3. P!Usable(m) \subseteq 1 .. n
  BY DEF P!Usable
<1>4. ASSUME NEW l PROVE IsFiniteSet(Union(m, l)) /\ Union(m, l) \subseteq P!Frames
  <2>1. Union(m, l) \subseteq P!Frames
    BY EntryFrames DEF Union
  <2> QED
    BY <2>1, FramesFinite, FS_Subset
<1> HIDE DEF sum
<1>5. Q(0)
  <2>1. Union(m, 0) = {}
    BY <1>0, <1>3 DEF Union
  <2> QED
    BY <1>1, <2>1, FS_EmptySet
<1>6. ASSUME NEW l \in 1 .. n, Q(l - 1) PROVE Q(l)
  <2> DEFINE new == IF m[l].type = 1 THEN P!FramesOf(m[l]) ELSE {}
  <2>1. Union(m, l) = Union(m, l - 1) \cup new
    <3>1. \A k \in P!Usable(m) : k <= l <=> k <= l - 1 \/ k = l
      BY <1>0, <1>3
    <3>2. new # {} => l \in P!Usable(m) /\ new = P!FramesOf(m[l])
      BY DEF P!Usable, n
    <3>3. l \in P!Usable(m) => new = P!FramesOf(m[l])
      BY DEF P!Usable
    <3> HIDE DEF new
    <3>4. ASSUME NEW f PROVE f \in Union(m, l) <=> f \in Union(m, l - 1) \cup new
      <4>1. ASSUME f \in Union(m, l) PROVE f \in Union(m, l - 1) \cup new
        <5>1. PICK k \in P!Usable(m) : k <= l /\ f \in P!FramesOf(m[k])
          BY <4>1 DEF Union
        <5> QED
          BY <3>1, <3>3, <5>1 DEF Union
      <4>2. ASSUME f \in Union(m, l - 1) PROVE f \in Union(m, l)
        <5>1. PICK k \in P!Usable(m) : k <= l - 1 /\ f \in P!FramesOf(m[k])
          BY <4>2 DEF Union
        <5> QED
          BY <3>1, <5>1 DEF Union
      <4>3. ASSUME f \in new PROVE f \in Union(m, l)
        BY <3>1, <3>2, <4>3 DEF Union
      <4> QED
        BY <4>1, <4>2, <4>3
    <3> QED
      BY <3>4
  <2>2. IsFiniteSet(new) /\ Cardinality(new) = Part(m, l)
    BY EntryFrames, FS_EmptySet DEF Part
  <2>3. sum[l] = sum[l - 1] + Part(m, l) /\ sum[l - 1] \in Nat
    BY <1>1, <1>6
  <2>4. ASSUME Apart(m) PROVE sum[l] = Cardinality(Union(m, l))
    <3>1. Union(m, l - 1) \cap new = {}
      <4>1. ASSUME NEW f \in Union(m, l - 1), f \in new PROVE FALSE
        <5>1. PICK k \in P!Usable(m) : k <= l - 1 /\ f \in P!FramesOf(m[k])
          BY <4>1 DEF Union
        <5>2. l \in P!Usable(m) /\ f \in P!FramesOf(m[l])
          BY <4>1 DEF P!Usable, n
        <5>3. k # l
          BY <1>0, <1>3, <5>1
        <5> QED
          BY <2>4, <5>1, <5>2, <5>3 DEF Apart
      <4> QED
        BY <4>1
    <3> HIDE DEF new
    <3>2. Cardinality(Union(m, l - 1) \cup new) =
            Cardinality(Union(m, l - 1)) + Cardinality(new) - Cardinality(Union(m, l - 1) \cap new)
      BY <1>4, <2>2, FS_Union
    <3>3. Cardinality(Union(m, l - 1) \cap new) = 0
      BY <3>1, FS_EmptySet
    <3>4. sum[l - 1] = Cardinality(Union(m, l - 1))
      BY <1>4, <1>6, <2>4
    <3> QED
      BY <1>2, <2>1, <2>2, <2>3, <3>2, <3>3, <3>4
  <2> QED
    BY <1>2, <2>3, <2>4
<1> HIDE DEF Q
<1>7. Bad = {}
  <2> SUFFICES ASSUME Bad # {} PROVE FALSE
    OBVIOUS
  <2>0. Bad \subseteq Nat
    BY <1>0
  <2>1. PICK l \in Bad : \A y \in Bad : l <= y
    <3> HIDE DEF Bad
    <3> QED
      BY <2>0, LeastOf
  <2>2. l # 0
    BY <1>5, <2>1
  <2>3. l \in 1 .. n /\ Q(l - 1)
    BY <1>0, <2>1, <2>2
  <2> QED
    BY <1>6, <2>1, <2>3
<1>8. Q(n)
  BY <1>0, <1>7
<1>9. Union(m, n) = UNION {P!FramesOf(m[i]) : i \in P!Usable(m)}
  <2>1. {k \in P!Usable(m) : k <= n} = P!Usable(m)
    BY <1>0, <1>3
  <2> QED
    BY <2>1 DEF Union
<1> QED
  BY <1>4, <1>8, <1>9 DEF Q, sum, n

-----------------------------------------------------------------------------
(* One past the last usable frame. *)
LEMMA TotalFrames ==
  ASSUME NEW all \in SUBSET P!Frames
  PROVE  (CHOOSE n \in 0 .. MAX_FRAMES : (\A f \in all : f < n) /\ (n = 0 \/ n - 1 \in all))
           \in 0 .. MAX_FRAMES
<1> DEFINE Last(n) == n \in 0 .. MAX_FRAMES /\ (\A f \in all : f < n) /\ (n = 0 \/ n - 1 \in all)
           Z == {MAX_FRAMES - f : f \in all}
<1>1. \A f \in all : f \in 0 .. MAX_FRAMES - 1
  BY DEF P!Frames
<1>2. \E n : Last(n)
  <2>1. CASE all = {}
    <3>1. Last(0)
      BY <2>1, PagingFacts
    <3> QED
      BY <3>1
  <2>2. CASE all # {}
    <3>1. Z \subseteq Nat /\ Z # {}
      BY <1>1, <2>2, PagingFacts
    <3>2. PICK z \in Z : \A y \in Z : z <= y
      <4> HIDE DEF Z
      <4> QED
        BY <3>1, LeastOf
    <3>3. PICK g \in all : z = MAX_FRAMES - g
      BY <3>2
    <3>4. ASSUME NEW f \in all PROVE f < g + 1
      <4>1. z <= MAX_FRAMES - f
        BY <3>2
      <4> QED
        BY <1>1, <3>3, <4>1, PagingFacts
    <3>5. Last(g + 1)
      BY <1>1, <3>3, <3>4, PagingFacts
    <3> QED
      BY <3>5
  <2> QED
    BY <2>1, <2>2
<1>3. PICK n \in 0 .. MAX_FRAMES : (\A f \in all : f < n) /\ (n = 0 \/ n - 1 \in all)
  BY <1>2
<1> QED
  BY <1>3

LEMMA PagingPmmInit ==
  ASSUME PInv, P!pmm_init
  PROVE  PInv'
<1>0. phase = "pmm_init"
  BY DEF P!pmm_init
<1>1. /\ map \in MemoryMaps /\ total_frames = 0 /\ owned = {} /\ ops \in 0 .. MaxOps
      /\ asked \in [P!Pages -> P!Pages \cup {P!Absent}]
      /\ Good(P!Now, 0, Kept, Avail, Exact)
      /\ \A v \in P!Pages : Trans(mem, v) = asked[v]
  BY <1>0 DEF PInv, PagingTypes, BeforeFrames, TablesGood, AllTranslate
<1>2. ASSUME NEW y, Live(mem, y) PROVE y >= MAX_FRAMES /\ y < MAX_FRAMES + static_pt_used
  <2>1. Given(P!Now, 0, Kept, Avail, y) /\ Tree(mem)
    BY <1>1, <1>2, NowFields DEF Good
  <2>2. y \in Nat
    BY <1>2, <2>1, LiveTable, TableFacts
  <2> QED
    BY <2>1, <2>2, NowFields, PagingFacts DEF Given
<1>3. phase' = "heap_init" /\ map' = map /\ owned' = owned /\ asked' = asked /\ ops' = ops
  BY DEF P!pmm_init
<1>4. Avail' = Avail /\ (NoOverlap <=> Apart(map)) /\ (NoOverlap' <=> NoOverlap)
  BY <1>3 DEF Avail, NoOverlap, Apart
<1>5. Avail \subseteq P!Frames
  BY <1>1, EntryFrames DEF Avail
<1>6. /\ Good(P!Now', total_frames', Kept', Avail', Exact')
      /\ mem' = mem /\ total_frames' \in 0 .. MAX_FRAMES /\ (map = << >> => total_frames' = 0)
  <2>1. CASE map = << >>
    <3>1. P!Becomes(P!Now) /\ total_frames' = total_frames
      BY <2>1 DEF P!pmm_init
    <3>2. Kept' = {} /\ Exact' = 0 /\ Exact = 0 /\ Kept = {}
      BY <1>0, <1>1, <1>3, <2>1, <3>1 DEF Kept, Exact
    <3>3. Good(P!Now', 0, {}, Avail, 0)
      BY <1>1, <3>1, <3>2, Becoming
    <3>4. mem' = mem
      BY <3>1, NowFields DEF P!Becomes
    <3> QED
      BY <1>1, <1>4, <3>1, <3>2, <3>3, <3>4, PagingFacts
  <2>2. CASE map # << >>
    <3> DEFINE cnt == P!frames_counted(map)[Len(map)]
               s0 == [P!Now EXCEPT !.used = P!Frames \ Avail, !.free = cnt]
               s1 == P!pmm_mark_used(s0, LowFrames)
               s2 == P!pmm_mark_used(s1, KernelFrames)
    <3>1. /\ P!Becomes(s2)
          /\ total_frames' = CHOOSE n \in 0 .. MAX_FRAMES :
                               (\A f \in Avail : f < n) /\ (n = 0 \/ n - 1 \in Avail)
      BY <2>2 DEF P!pmm_init, Avail
    <3>2. total_frames' \in 0 .. MAX_FRAMES
      BY <1>5, <3>1, TotalFrames
    <3>3. cnt \in Nat /\ (NoOverlap => cnt = Cardinality(Avail))
      BY <1>1, <1>4, CountExact DEF Avail
    <3> HIDE DEF cnt
    <3>4. /\ s0 \in [used : SUBSET P!Frames, free : Int, mem : Memory,
                     pool : 0 .. STATIC_PT_PAGES, ok : BOOLEAN]
          /\ s0.used = P!Frames \ Avail /\ s0.free = cnt /\ s0.mem = mem
          /\ s0.pool = static_pt_used
      <4>1. P!Now \in Rec
        BY <1>1 DEF Good
      <4>2. (P!Frames \ Avail) \in SUBSET P!Frames /\ cnt \in Int
        BY <3>3
      <4>3. P!Now \in [used : SUBSET P!Frames, free : Int, mem : Memory,
                       pool : 0 .. STATIC_PT_PAGES, ok : BOOLEAN]
        BY <4>1, PagingFacts DEF Rec
      <4> QED
        BY <4>2, <4>3, NowFields
    <3> HIDE DEF s0
    <3>5. /\ s1 \in Rec
          /\ s1.used = s0.used \cup LowFrames /\ s1.mem = s0.mem /\ s1.pool = s0.pool
          /\ s0.free = Cardinality(P!Frames \ s0.used) => s1.free = Cardinality(P!Frames \ s1.used)
      BY <3>4, Marked, PagingFacts
    <3> HIDE DEF s1
    <3>6. /\ s2 \in Rec
          /\ s2.used = s1.used \cup KernelFrames /\ s2.mem = s1.mem /\ s2.pool = s1.pool
          /\ s1.free = Cardinality(P!Frames \ s1.used) => s2.free = Cardinality(P!Frames \ s2.used)
      <4>1. s1 \in [used : SUBSET P!Frames, free : Int, mem : Memory,
                    pool : 0 .. STATIC_PT_PAGES, ok : BOOLEAN]
        BY <3>5, PagingFacts DEF Rec
      <4> QED
        BY <4>1, Marked, PagingFacts
    <3> HIDE DEF s2
    <3>7. Kept' = LowFrames \cup KernelFrames
      BY <1>1, <1>3, <2>2 DEF Kept, Reserved
    <3>8. ASSUME NEW y, Live(mem, y) PROVE Given(s2, total_frames', Kept', Avail, y)
      <4>1. y >= MAX_FRAMES /\ y < MAX_FRAMES + static_pt_used
        BY <1>2, <3>8
      <4>2. y \in Nat /\ s2.pool = static_pt_used
        BY <1>1, <3>4, <3>5, <3>6, <3>8, NowFields, LiveTable, TableFacts DEF Good
      <4> QED
        BY <4>1, <4>2, PagingFacts DEF Given
    <3>9. Bits(s2, total_frames', Kept', Avail, Exact')
      <4>1. Kept' \subseteq s2.used
        BY <3>5, <3>6, <3>7
      <4>0. PICK tf \in 0 .. MAX_FRAMES : tf = total_frames'
        BY <3>2
      <4>2. ASSUME NEW f \in 1 .. tf - 1, f \notin s2.used PROVE f \in Avail
        <5>1. f \in P!Frames
          BY PagingFacts DEF P!Frames
        <5> QED
          BY <3>4, <3>5, <3>6, <4>2, <5>1
      <4>3. ASSUME Exact' = 1 PROVE s2.free = Cardinality(P!Frames \ s2.used)
        <5>1. NoOverlap
          BY <1>4, <4>3 DEF Exact
        <5>2. P!Frames \ s0.used = Avail
          BY <1>5, <3>4
        <5> QED
          BY <3>3, <3>4, <3>5, <3>6, <5>1, <5>2
      <4> QED
        BY <4>0, <4>1, <4>2, <4>3 DEF Bits
    <3>10. s2.mem = P!Now.mem /\ s2.pool = P!Now.pool
      BY <3>4, <3>5, <3>6, NowFields
    <3>11. PICK tf2, K2, E2 : tf2 = total_frames' /\ K2 = Kept' /\ E2 = Exact'
      OBVIOUS
    <3>12. Good(s2, tf2, K2, Avail, E2)
      <4>1. \A y : Live(P!Now.mem, y) => Given(s2, tf2, K2, Avail, y)
        BY <3>8, <3>11, NowFields
      <4>2. Bits(s2, tf2, K2, Avail, E2)
        BY <3>9, <3>11
      <4>3. Good(P!Now, 0, Kept, Avail, Exact)
        BY <1>1
      <4> QED
        BY <3>6, <3>10, <4>1, <4>2, <4>3, GoodBits
    <3>13. Good(P!Now', tf2, K2, Avail, E2)
      BY <3>1, <3>12, Becoming
    <3>14. mem' = mem
      BY <3>1, <3>10, NowFields DEF P!Becomes
    <3> QED
      BY <1>4, <2>2, <3>2, <3>11, <3>13, <3>14
  <2> QED
    BY <2>1, <2>2
<1>7. PagingTypes'
  BY <1>1, <1>3, <1>4, <1>6 DEF PagingTypes
<1>8. BeforeTables' /\ OwnedApart'
  BY <1>3 DEF BeforeTables, OwnedApart
<1>9. BeforeFrames'
  BY <1>1, <1>2, <1>3, <1>6 DEF BeforeFrames
<1>10. TablesGood'
  BY <1>6 DEF TablesGood
<1>11. AllTranslate'
  BY <1>1, <1>3, <1>6 DEF AllTranslate
<1> QED
  BY <1>7, <1>8, <1>9, <1>10, <1>11 DEF PInv

(* Frames are marked or cleared in the running system; tables stay. *)
LEMMA PagingBits ==
  ASSUME PInv, phase \in {"heap_init", "up"},
         phase' = "up", map' = map, total_frames' = total_frames, mem' = mem,
         static_pt_used' = static_pt_used, asked' = asked, ops' \in 0 .. MaxOps,
         owned' \subseteq Avail, OwnedApart',
         used' \subseteq P!Frames, free_frames' \in 0 .. CountMod - 1,
         Kept' \subseteq used',
         \A y : Live(mem, y) /\ y < MAX_FRAMES => y \in used' /\ y \notin Kept',
         \A f \in 1 .. total_frames - 1 : f \notin used' => f \in Avail,
         Exact = 1 => free_frames' = Cardinality(P!Frames \ used')
  PROVE  PInv'
<1>1. /\ map \in MemoryMaps /\ total_frames \in 0 .. MAX_FRAMES
      /\ asked \in [P!Pages -> P!Pages \cup {P!Absent}]
      /\ Good(P!Now, total_frames, Kept, Avail, Exact)
      /\ (map = << >> => total_frames = 0)
      /\ \A v \in P!Pages : Trans(mem, v) = asked[v]
  BY DEF PInv, PagingTypes, BeforeFrames, TablesGood, AllTranslate
<1>2. Avail' = Avail /\ Exact' = Exact
  BY DEF Avail, Exact, NoOverlap
<1>3. PICK n, K2 : n = P!Now' /\ K2 = Kept'
  OBVIOUS
<1>4. /\ n \in Rec /\ n.used = used' /\ n.free = free_frames' /\ n.mem = mem /\ n.pool = static_pt_used
      /\ P!Now.mem = mem /\ P!Now.pool = static_pt_used
  <2>1. P!Now \in Rec
    BY <1>1 DEF Good
  <2> QED
    BY <1>3, <2>1, NowRec, NowFields
<1>5. ASSUME NEW y, Live(P!Now.mem, y) PROVE Given(n, total_frames, K2, Avail, y)
  <2>1. Given(P!Now, total_frames, Kept, Avail, y)
    BY <1>1, <1>5 DEF Good
  <2> QED
    BY <1>3, <1>4, <1>5, <2>1 DEF Given
<1>6. Bits(n, total_frames, K2, Avail, Exact)
  BY <1>3, <1>4 DEF Bits
<1>7. Good(n, total_frames, K2, Avail, Exact)
  BY <1>1, <1>4, <1>5, <1>6, GoodBits
<1>8. TablesGood'
  BY <1>2, <1>3, <1>7 DEF TablesGood
<1>9. PagingTypes'
  BY <1>1, <1>2 DEF PagingTypes
<1>10. BeforeTables' /\ BeforeFrames' /\ AllTranslate'
  BY <1>1 DEF BeforeTables, BeforeFrames, AllTranslate
<1> QED
  BY <1>8, <1>9, <1>10 DEF PInv

(* What the running system knows. *)
LEMMA Running ==
  ASSUME PInv, phase \in {"heap_init", "up"}
  PROVE  /\ map \in MemoryMaps /\ total_frames \in 0 .. MAX_FRAMES /\ ops \in 0 .. MaxOps
         /\ owned \subseteq Avail /\ owned \subseteq used
         /\ P!Now \in Rec /\ used \subseteq P!Frames /\ free_frames \in 0 .. CountMod - 1
         /\ Good(P!Now, total_frames, Kept, Avail, Exact)
         /\ Kept \subseteq used
         /\ \A y : Live(mem, y) /\ y < MAX_FRAMES => y \in used /\ y \notin Kept
         /\ \A f \in 1 .. total_frames - 1 : f \notin used => f \in Avail
         /\ Exact = 1 => free_frames = Cardinality(P!Frames \ used)
<1>1. /\ map \in MemoryMaps /\ total_frames \in 0 .. MAX_FRAMES /\ ops \in 0 .. MaxOps
      /\ owned \subseteq Avail
      /\ Good(P!Now, total_frames, Kept, Avail, Exact)
  BY DEF PInv, PagingTypes, TablesGood
<1>2. P!Now \in Rec /\ Bits(P!Now, total_frames, Kept, Avail, Exact)
      /\ \A y : Live(mem, y) => Given(P!Now, total_frames, Kept, Avail, y)
  BY <1>1, NowFields DEF Good
<1>3. used \subseteq P!Frames /\ free_frames \in 0 .. CountMod - 1
  BY <1>2, NowRec
<1>4. owned \subseteq Kept
  BY DEF Kept
<1> QED
  BY <1>1, <1>2, <1>3, <1>4, NowFields DEF Bits, Given

LEMMA PagingReserves ==
  ASSUME PInv, P!reserve_heap
  PROVE  PInv'
<1>0. phase = "heap_init"
  BY DEF P!reserve_heap
<1> DEFINE s == P!pmm_mark_used(P!Now, HeapFrames)
<1>1. /\ phase' = "up" /\ P!Becomes(s)
      /\ map' = map /\ total_frames' = total_frames /\ owned' = owned /\ asked' = asked /\ ops' = ops
  BY DEF P!reserve_heap
<1>2. /\ map \in MemoryMaps /\ total_frames \in 0 .. MAX_FRAMES /\ ops \in 0 .. MaxOps
      /\ owned \subseteq Avail
      /\ P!Now \in Rec /\ used \subseteq P!Frames /\ free_frames \in 0 .. CountMod - 1
      /\ Kept \subseteq used
      /\ \A f \in 1 .. total_frames - 1 : f \notin used => f \in Avail
      /\ Exact = 1 => free_frames = Cardinality(P!Frames \ used)
  BY <1>0, Running
<1>3. /\ s \in Rec /\ s.used = used \cup HeapFrames /\ s.mem = mem /\ s.pool = static_pt_used
      /\ free_frames = Cardinality(P!Frames \ used) => s.free = Cardinality(P!Frames \ s.used)
  <2>1. P!Now \in [used : SUBSET P!Frames, free : Int, mem : Memory,
                   pool : 0 .. STATIC_PT_PAGES, ok : BOOLEAN]
    BY <1>2, PagingFacts DEF Rec
  <2> QED
    BY <2>1, Marked, NowFields, PagingFacts
<1> HIDE DEF s
<1>4. /\ used' = used \cup HeapFrames /\ mem' = mem /\ static_pt_used' = static_pt_used
      /\ free_frames' \in 0 .. CountMod - 1
      /\ free_frames = Cardinality(P!Frames \ used) => free_frames' = Cardinality(P!Frames \ used')
  BY <1>1, <1>3 DEF P!Becomes, Rec
<1>5. owned = {} /\ \A y : Live(mem, y) => y >= MAX_FRAMES
  BY <1>0 DEF PInv, BeforeFrames
<1>6. /\ map = << >> => Kept' = {}
      /\ map # << >> => Kept' = Reserved /\ Kept = LowFrames \cup KernelFrames
  BY <1>0, <1>1, <1>5 DEF Kept, Reserved
<1>7. Kept' \subseteq used'
  BY <1>2, <1>4, <1>6 DEF Reserved
<1>8. OwnedApart'
  BY <1>1, <1>5 DEF OwnedApart
<1>9. ASSUME NEW y, Live(mem, y), y < MAX_FRAMES PROVE FALSE
  <2>1. Tree(mem)
    BY <1>0, Running, NowFields DEF Good
  <2>2. y \in Nat
    BY <1>9, <2>1, LiveTable, TableFacts
  <2> QED
    BY <1>5, <1>9, <2>2, PagingFacts
<1>10. used' \subseteq P!Frames /\ \A f \in 1 .. total_frames - 1 : f \notin used' => f \in Avail
  BY <1>2, <1>4, PagingFacts
<1> QED
  BY <1>0, <1>1, <1>2, <1>4, <1>7, <1>8, <1>9, <1>10, PagingBits

(* Frames that were clear are handed to a driver. *)
LEMMA PagingHandsOut ==
  ASSUME PInv, phase = "up", NEW fs, fs \subseteq 1 .. total_frames - 1, fs \cap used = {},
         used' = used \cup fs, owned' = owned \cup fs,
         free_frames' = (free_frames - Cardinality(fs)) % CountMod,
         phase' = phase, map' = map, total_frames' = total_frames, mem' = mem,
         static_pt_used' = static_pt_used, asked' = asked, ops' \in 0 .. MaxOps
  PROVE  PInv'
<1>1. /\ map \in MemoryMaps /\ total_frames \in 0 .. MAX_FRAMES
      /\ owned \subseteq Avail
      /\ used \subseteq P!Frames /\ free_frames \in 0 .. CountMod - 1
      /\ Kept \subseteq used
      /\ \A y : Live(mem, y) /\ y < MAX_FRAMES => y \in used /\ y \notin Kept
      /\ \A f \in 1 .. total_frames - 1 : f \notin used => f \in Avail
      /\ Exact = 1 => free_frames = Cardinality(P!Frames \ used)
  BY Running
<1>2. fs \subseteq P!Frames
  BY <1>1, PagingFacts DEF P!Frames
<1>3. Kept' = Kept \cup fs
  BY DEF Kept
<1>4. /\ Cardinality(fs) \in Nat
      /\ Cardinality(P!Frames \ used') = Cardinality(P!Frames \ used) - Cardinality(fs)
  <2>1. fs \ used = fs
    OBVIOUS
  <2> QED
    BY <1>2, <2>1, ClearBitsLess
<1>5. free_frames' \in 0 .. CountMod - 1
  <2>1. free_frames - Cardinality(fs) \in Int
    BY <1>1, <1>4, PagingFacts
  <2> QED
    BY <2>1, ModFacts
<1>6. ASSUME Exact = 1 PROVE free_frames' = Cardinality(P!Frames \ used')
  <2>1. Cardinality(P!Frames \ used') \in 0 .. CountMod - 1
    BY ClearBits
  <2> QED
    BY <1>1, <1>4, <1>6, <2>1, ModFacts
<1>7. OwnedApart'
  <2>1. map # << >> => Reserved \subseteq Kept
    BY DEF Kept
  <2> QED
    BY <1>1, <2>1 DEF OwnedApart, PInv, Reserved
<1> QED
  BY <1>1, <1>2, <1>3, <1>5, <1>6, <1>7, PagingBits

LEMMA PagingAllocs ==
  ASSUME PInv, P!pmm_alloc_page
  PROVE  PInv'
<1> DEFINE f == P!first_free(P!Now)
           s == P!pmm_mark_used(P!Now, {f})
<1>1. /\ phase = "up" /\ ops < MaxOps /\ ops' = ops + 1 /\ f # P!Absent /\ P!Becomes(s)
      /\ owned' = owned \cup {f}
      /\ phase' = phase /\ map' = map /\ total_frames' = total_frames /\ asked' = asked
  BY DEF P!pmm_alloc_page, P!CanCall, P!Ran
<1>2. total_frames \in 0 .. MAX_FRAMES /\ ops \in 0 .. MaxOps /\ P!Now \in Rec
  BY <1>1, Running
<1>3. f \in 1 .. total_frames - 1 /\ f \notin used
  BY <1>1, <1>2, FirstFree, NowFields
<1>4. /\ s.used = used \cup {f} /\ s.mem = mem /\ s.pool = static_pt_used
      /\ s.free = (free_frames - Cardinality({f} \ used)) % CountMod
  BY <1>2, NowFields, CardSame DEF P!pmm_mark_used, Rec
<1> HIDE DEF s, f
<1>5. /\ used' = used \cup {f} /\ mem' = mem /\ static_pt_used' = static_pt_used
      /\ free_frames' = (free_frames - Cardinality({f})) % CountMod
  <2>1. {f} \ used = {f}
    BY <1>3
  <2> QED
    BY <1>1, <1>4, <2>1 DEF P!Becomes
<1>6. {f} \subseteq 1 .. total_frames - 1 /\ {f} \cap used = {} /\ ops' \in 0 .. MaxOps
  BY <1>1, <1>2, <1>3, PagingFacts
<1> QED
  BY <1>1, <1>5, <1>6, PagingHandsOut

LEMMA PagingAllocsRun ==
  ASSUME PInv, NEW n \in 1 .. 2, P!pmm_alloc_contiguous(n)
  PROVE  PInv'
<1>1. /\ phase = "up" /\ ops < MaxOps /\ ops' = ops + 1
      /\ phase' = phase /\ map' = map /\ total_frames' = total_frames /\ asked' = asked
      /\ mem' = mem /\ static_pt_used' = static_pt_used
  BY DEF P!pmm_alloc_contiguous, P!CanCall, P!Ran
<1>2. PICK f \in 1 .. total_frames - 1 :
        /\ f + n <= total_frames /\ (\A g \in f .. f + n - 1 : g \notin used)
        /\ used' = used \cup (f .. f + n - 1)
        /\ free_frames' = (free_frames - n) % CountMod
        /\ owned' = owned \cup (f .. f + n - 1)
  BY DEF P!pmm_alloc_contiguous, P!IsRun
<1>3. total_frames \in 0 .. MAX_FRAMES /\ ops \in 0 .. MaxOps
  BY <1>1, Running
<1> DEFINE fs == f .. f + n - 1
<1>4. fs \subseteq 1 .. total_frames - 1 /\ fs \cap used = {} /\ ops' \in 0 .. MaxOps
  BY <1>1, <1>2, <1>3, PagingFacts
<1>5. Cardinality(fs) = n
  BY FS_Interval
<1> HIDE DEF fs
<1>6. /\ used' = used \cup fs /\ owned' = owned \cup fs
      /\ free_frames' = (free_frames - Cardinality(fs)) % CountMod
  BY <1>2, <1>5 DEF fs
<1> QED
  BY <1>1, <1>4, <1>6, PagingHandsOut

LEMMA PagingFrees ==
  ASSUME PInv, NEW f \in owned, P!pmm_free_page(f)
  PROVE  PInv'
<1>1. /\ phase = "up" /\ ops < MaxOps /\ ops' = ops + 1 /\ owned' = owned \ {f}
      /\ phase' = phase /\ map' = map /\ total_frames' = total_frames /\ asked' = asked
      /\ mem' = mem /\ static_pt_used' = static_pt_used
      /\ IF f < total_frames /\ f \in used
         THEN used' = used \ {f} /\ free_frames' = (free_frames + 1) % CountMod
         ELSE used' = used /\ free_frames' = free_frames
  BY DEF P!pmm_free_page, P!CanCall, P!Ran
<1>2. /\ total_frames \in 0 .. MAX_FRAMES /\ ops \in 0 .. MaxOps
      /\ owned \subseteq Avail /\ owned \subseteq used
      /\ used \subseteq P!Frames /\ free_frames \in 0 .. CountMod - 1
      /\ Kept \subseteq used
      /\ \A y : Live(mem, y) /\ y < MAX_FRAMES => y \in used /\ y \notin Kept
      /\ \A g \in 1 .. total_frames - 1 : g \notin used => g \in Avail
      /\ Exact = 1 => free_frames = Cardinality(P!Frames \ used)
  BY <1>1, Running
<1>3. f \in Kept /\ Kept' = Kept \ {f}
  <2>1. map # << >> => f \notin Reserved
    BY <1>1 DEF PInv, OwnedApart
  <2> QED
    BY <1>1, <2>1 DEF Kept
<1>4. OwnedApart'
  BY <1>1 DEF PInv, OwnedApart, Reserved
<1>5. /\ used' \subseteq P!Frames /\ free_frames' \in 0 .. CountMod - 1
      /\ Exact = 1 => free_frames' = Cardinality(P!Frames \ used')
  <2>1. CASE f < total_frames /\ f \in used
    <3>1. free_frames + 1 \in Int
      BY <1>2, PagingFacts
    <3>2. (P!Frames \ used') = (P!Frames \ used) \cup {f} /\ f \notin (P!Frames \ used)
      BY <1>1, <1>2, <2>1
    <3>3. IsFiniteSet(P!Frames \ used)
      BY ClearBits
    <3>4. Cardinality(P!Frames \ used') = Cardinality(P!Frames \ used) + 1
      BY <3>2, <3>3, FS_AddElement
    <3>5. Cardinality(P!Frames \ used') \in 0 .. CountMod - 1
      BY ClearBits
    <3> QED
      BY <1>1, <1>2, <2>1, <3>1, <3>4, <3>5, ModFacts
  <2>2. CASE ~(f < total_frames /\ f \in used)
    BY <1>1, <1>2, <2>2
  <2> QED
    BY <2>1, <2>2
<1>6. /\ Kept' \subseteq used'
      /\ \A y : Live(mem, y) /\ y < MAX_FRAMES => y \in used' /\ y \notin Kept'
      /\ \A g \in 1 .. total_frames - 1 : g \notin used' => g \in Avail
  <2>1. used' = used \/ used' = used \ {f}
    BY <1>1
  <2> QED
    BY <1>2, <1>3, <2>1
<1>7. ops' \in 0 .. MaxOps /\ owned' \subseteq Avail
  BY <1>1, <1>2, PagingFacts
<1> QED
  BY <1>1, <1>4, <1>5, <1>6, <1>7, PagingBits

(* The walk in the model is the one of the lemmas. *)
LEMMA WalkIs ==
  ASSUME NEW v
  PROVE  /\ P!vmm_virt_to_phys(v) = Trans(mem, v)
         /\ P!Step(P!Step(P!Step(P!Root, P!PML4_IDX(v)), P!PDPT_IDX(v)), P!PD_IDX(v))
              = T3(mem, P!PML4_IDX(v), P!PDPT_IDX(v), P!PD_IDX(v))
<1>1. P!Root # P!Absent
  BY TableFacts
<1>2. P!Step(P!Root, P!PML4_IDX(v)) = T1(mem, P!PML4_IDX(v))
  BY <1>1 DEF P!Step, T1
<1>3. P!Step(P!Step(P!Root, P!PML4_IDX(v)), P!PDPT_IDX(v)) = T2(mem, P!PML4_IDX(v), P!PDPT_IDX(v))
  BY <1>2 DEF P!Step, T2, Down
<1>4. P!Step(P!Step(P!Step(P!Root, P!PML4_IDX(v)), P!PDPT_IDX(v)), P!PD_IDX(v))
        = T3(mem, P!PML4_IDX(v), P!PDPT_IDX(v), P!PD_IDX(v))
  BY <1>3 DEF P!Step, T3, Down
<1>5. P!vmm_virt_to_phys(v) = Trans(mem, v)
  BY <1>4 DEF P!Step, P!vmm_virt_to_phys, Trans, Leaf, Down
<1> QED
  BY <1>4, <1>5

(* Pages are mapped or unmapped in the running system. *)
LEMMA PagingMoves ==
  ASSUME PInv, phase = "up", NEW s, Good(s, total_frames, Kept, Avail, Exact), P!Becomes(s),
         phase' = (IF s.ok THEN phase ELSE "halted"),
         map' = map, total_frames' = total_frames, owned' = owned, ops' \in 0 .. MaxOps,
         asked' \in [P!Pages -> P!Pages \cup {P!Absent}],
         s.ok => \A v \in P!Pages : Trans(s.mem, v) = asked'[v]
  PROVE  PInv'
<1>1. /\ map \in MemoryMaps /\ total_frames \in 0 .. MAX_FRAMES /\ owned \subseteq Avail
  BY Running
<1>2. Avail' = Avail /\ Exact' = Exact
  BY DEF Avail, Exact, NoOverlap
<1>3. Kept' \subseteq Kept
  BY DEF Kept
<1>4. Good(s, total_frames, Kept', Avail, Exact)
  BY <1>3, KeepLess
<1>5. PICK K2 : K2 = Kept'
  OBVIOUS
<1>6. Good(P!Now', total_frames, K2, Avail, Exact)
  BY <1>4, <1>5, Becoming
<1>7. TablesGood'
  BY <1>2, <1>5, <1>6 DEF TablesGood
<1>8. PagingTypes'
  BY <1>1, <1>2 DEF PagingTypes
<1>9. BeforeTables' /\ BeforeFrames' /\ OwnedApart'
  BY DEF PInv, BeforeTables, BeforeFrames, OwnedApart, Reserved
<1>10. AllTranslate'
  BY DEF AllTranslate, P!Becomes
<1> QED
  BY <1>7, <1>8, <1>9, <1>10 DEF PInv

LEMMA PagingMaps ==
  ASSUME PInv, NEW v \in P!Pages \ (0 .. IDENTITY_MAP_PAGES - 1), NEW n \in 1 .. 2,
         v + n <= 16, P!vmm_map_mmio(v, n)
  PROVE  PInv'
<1> DEFINE s == P!vmm_map_range(P!Now, v, v, n)
<1>1. /\ phase = "up" /\ ops < MaxOps /\ ops' = ops + 1 /\ P!Becomes(s)
      /\ phase' = (IF s.ok THEN phase ELSE "halted")
      /\ asked' = [w \in P!Pages |-> IF w \in v .. v + n - 1 THEN w ELSE asked[w]]
      /\ map' = map /\ total_frames' = total_frames /\ owned' = owned
  BY DEF P!vmm_map_mmio, P!CanCall, P!Ran
<1>2. /\ total_frames \in 0 .. MAX_FRAMES /\ ops \in 0 .. MaxOps
      /\ Good(P!Now, total_frames, Kept, Avail, Exact)
      /\ asked \in [P!Pages -> P!Pages \cup {P!Absent}]
      /\ \A w \in P!Pages : Trans(mem, w) = asked[w]
  BY <1>1, Running DEF PInv, PagingTypes, AllTranslate
<1>3. v \in Nat /\ n \in Nat
  BY DEF P!Pages
<1>4. /\ Good(s, total_frames, Kept, Avail, Exact)
      /\ s.ok => \A u \in P!Pages : Trans(s.mem, u) =
                   IF v <= u /\ u < v + n THEN v + u - v ELSE Trans(P!Now.mem, u)
  BY <1>2, <1>3, MapRange
<1> HIDE DEF s
<1>5. ASSUME s.ok, NEW u \in P!Pages PROVE Trans(s.mem, u) = asked'[u]
  <2>1. u \in Nat
    BY DEF P!Pages
  <2>2. Trans(s.mem, u) = IF v <= u /\ u < v + n THEN v + u - v ELSE asked[u]
    BY <1>2, <1>4, <1>5, NowFields
  <2> QED
    BY <1>1, <1>3, <2>1, <2>2
<1>6. asked' \in [P!Pages -> P!Pages \cup {P!Absent}] /\ ops' \in 0 .. MaxOps
  BY <1>1, <1>2, PagingFacts
<1> QED
  BY <1>1, <1>4, <1>5, <1>6, PagingMoves

LEMMA PagingUnmaps ==
  ASSUME PInv, NEW v \in P!Pages \ (0 .. IDENTITY_MAP_PAGES - 1), P!vmm_unmap_page(v)
  PROVE  PInv'
<1> DEFINE pt == T3(mem, P!PML4_IDX(v), P!PDPT_IDX(v), P!PD_IDX(v))
           s == [P!Now EXCEPT !.mem[pt][P!PT_IDX(v)] = P!Absent]
<1>1. /\ phase = "up" /\ ops < MaxOps /\ ops' = ops + 1 /\ pt # P!Absent
      /\ mem' = [mem EXCEPT ![pt][P!PT_IDX(v)] = P!Absent]
      /\ asked' = [asked EXCEPT ![v] = P!Absent]
      /\ phase' = phase /\ map' = map /\ total_frames' = total_frames /\ owned' = owned
      /\ used' = used /\ free_frames' = free_frames /\ static_pt_used' = static_pt_used
  BY WalkIs DEF P!vmm_unmap_page, P!CanCall, P!Ran
<1>2. /\ total_frames \in 0 .. MAX_FRAMES /\ ops \in 0 .. MaxOps
      /\ Good(P!Now, total_frames, Kept, Avail, Exact)
      /\ asked \in [P!Pages -> P!Pages \cup {P!Absent}]
      /\ \A w \in P!Pages : Trans(mem, w) = asked[w]
  BY <1>1, Running DEF PInv, PagingTypes, AllTranslate
<1>3. /\ Good(s, total_frames, Kept, Avail, Exact) /\ s.ok = P!Now.ok
      /\ \A u \in P!Pages : Trans(s.mem, u) = IF u = v THEN P!Absent ELSE Trans(P!Now.mem, u)
  <2>1. pt = T3(P!Now.mem, P!PML4_IDX(v), P!PDPT_IDX(v), P!PD_IDX(v))
    BY NowFields
  <2>2. P!Absent \in P!Pages \cup {P!Absent} /\ v \in P!Pages /\ pt # P!Absent
    BY <1>1
  <2> HIDE DEF pt
  <2> QED
    BY <1>2, <2>1, <2>2, LeafWritten
<1>4. P!Becomes(s)
  <2>1. /\ s.used = used /\ s.free = free_frames /\ s.pool = static_pt_used
        /\ s.mem = [mem EXCEPT ![pt][P!PT_IDX(v)] = P!Absent]
    <3> HIDE DEF pt
    <3> QED
      BY DEF P!Now
  <2> QED
    BY <1>1, <2>1 DEF P!Becomes
<1> HIDE DEF s
<1>5. s.ok /\ \A u \in P!Pages : Trans(s.mem, u) = asked'[u]
  BY <1>1, <1>2, <1>3, NowFields
<1>6. asked' \in [P!Pages -> P!Pages \cup {P!Absent}] /\ ops' \in 0 .. MaxOps
  BY <1>1, <1>2, PagingFacts
<1> QED
  BY <1>1, <1>3, <1>4, <1>5, <1>6, PagingMoves

LEMMA PagingStutters ==
  ASSUME PInv, UNCHANGED pvars
  PROVE  PInv'
<1>1. /\ phase' = phase /\ map' = map /\ used' = used /\ total_frames' = total_frames
      /\ free_frames' = free_frames /\ mem' = mem /\ static_pt_used' = static_pt_used
      /\ owned' = owned /\ asked' = asked /\ ops' = ops
  BY DEF pvars
<1>2. P!Now' = P!Now /\ Kept' = Kept /\ Avail' = Avail /\ Exact' = Exact
  BY <1>1 DEF P!Now, Kept, Avail, Exact, NoOverlap
<1>3. PagingTypes' /\ BeforeTables' /\ BeforeFrames' /\ AllTranslate' /\ OwnedApart'
  BY <1>1, <1>2 DEF PInv, PagingTypes, BeforeTables, BeforeFrames, AllTranslate, OwnedApart,
                    Reserved
<1>4. TablesGood'
  BY <1>1, <1>2 DEF PInv, TablesGood
<1> QED
  BY <1>3, <1>4 DEF PInv

LEMMA PagingInductive ==
  ASSUME PInv, [MemNext]_<< part, vars, pvars, avars, bvars >>
  PROVE  PInv'
<1>1. CASE P!Next
  <2>1. CASE P!vmm_init
    BY <2>1, PagingVmmInit
  <2>2. CASE P!pmm_init
    BY <2>2, PagingPmmInit
  <2>3. CASE P!reserve_heap
    BY <2>3, PagingReserves
  <2>4. CASE P!pmm_alloc_page
    BY <2>4, PagingAllocs
  <2>5. CASE \E n \in 1 .. 2 : P!pmm_alloc_contiguous(n)
    BY <2>5, PagingAllocsRun
  <2>6. CASE \E f \in owned : P!pmm_free_page(f)
    BY <2>6, PagingFrees
  <2>7. CASE \E v \in P!Pages \ (0 .. IDENTITY_MAP_PAGES - 1), n \in 1 .. 2 :
               v + n <= 16 /\ P!vmm_map_mmio(v, n)
    BY <2>7, PagingMaps
  <2>8. CASE \E v \in P!Pages \ (0 .. IDENTITY_MAP_PAGES - 1) : P!vmm_unmap_page(v)
    BY <2>8, PagingUnmaps
  <2> QED
    BY <1>1, <2>1, <2>2, <2>3, <2>4, <2>5, <2>6, <2>7, <2>8 DEF P!Next
<1>2. CASE UNCHANGED pvars
  BY <1>2, PagingStutters
<1> QED
  BY <1>1, <1>2 DEF MemNext

(* The invariant of frames and tables holds for every size of memory, pool *)
(* and window and every memory map: the code of pmm.c and vmm.c keeps the  *)
(* tables a tree of frames of their own, the bits of all frames in use     *)
(* set, and every page where the calls put it.                             *)
THEOREM MemPagingInvariance == MemSpec => []PInv
<1>1. MemInit => PInv
  BY PagingInitial DEF MemInit
<1>2. PInv /\ [MemNext]_<< part, vars, pvars, avars, bvars >> => PInv'
  BY PagingInductive
<1> QED
  BY <1>1, <1>2, PTL DEF MemSpec

-----------------------------------------------------------------------------
(* The sets of tables the properties name, by the indices. *)
LEMMA UpperTables ==
  ASSUME mem \in Memory
  PROVE  /\ \A t \in P!Upper : \/ t = P!Root
                               \/ t # P!Absent /\ \E a \in Bin : t = T1(mem, a)
                               \/ t # P!Absent /\ \E a, b \in Bin : t = T2(mem, a, b)
<1>1. P!Level({P!Root}) = {T1(mem, a) : a \in Bin} \ {P!Absent}
  BY DEF P!Level, T1, Bin
<1>2. ASSUME NEW t \in P!Level(P!Level({P!Root}))
      PROVE  t # P!Absent /\ \E a, b \in Bin : t = T2(mem, a, b)
  <2>1. PICK u \in P!Level({P!Root}), b \in Bin : t = mem[u][b] /\ t # P!Absent
    BY DEF P!Level, Bin
  <2>2. PICK a \in Bin : u = T1(mem, a) /\ u # P!Absent
    BY <1>1, <2>1
  <2> QED
    BY <2>1, <2>2 DEF T2, Down
<1> QED
  BY <1>1, <1>2 DEF P!Upper

LEMMA LiveTables ==
  ASSUME Tree(mem)
  PROVE  \A t \in P!Upper \cup P!Level(P!Upper) : Live(mem, t)
<1>1. mem \in Memory
  BY DEF Tree
<1>2. ASSUME NEW t \in P!Level(P!Upper) PROVE Live(mem, t)
  <2>1. PICK u \in P!Upper, i \in Bin : t = mem[u][i] /\ t # P!Absent
    BY DEF P!Level, Bin
  <2>2. CASE u = P!Root
    BY <2>1, <2>2 DEF Live, T1
  <2>3. CASE u # P!Absent /\ \E a \in Bin : u = T1(mem, a)
    BY <2>1, <2>3 DEF Live, T2, Down
  <2>4. CASE u # P!Absent /\ \E a, b \in Bin : u = T2(mem, a, b)
    BY <2>1, <2>4 DEF Live, T3, Down
  <2> QED
    BY <1>1, <2>1, <2>2, <2>3, <2>4, UpperTables
<1>3. ASSUME NEW t \in P!Upper PROVE Live(mem, t)
  BY <1>1, UpperTables DEF Live
<1> QED
  BY <1>2, <1>3

(* An entry of an upper table, by the indices of the table. *)
Level1(t, x, i) == t = P!Root /\ x = T1(mem, i)
Level2(t, x, i) == t # P!Absent /\ \E a \in Bin : t = T1(mem, a) /\ x = T2(mem, a, i)
Level3(t, x, i) == t # P!Absent /\ \E a, b \in Bin : t = T2(mem, a, b) /\ x = T3(mem, a, b, i)
LEMMA EntryOfUpper ==
  ASSUME mem \in Memory, NEW t \in P!Upper, NEW i \in Bin
  PROVE  Level1(t, mem[t][i], i) \/ Level2(t, mem[t][i], i) \/ Level3(t, mem[t][i], i)
<1>1. CASE t = P!Root
  BY <1>1 DEF Level1, T1
<1>2. CASE t # P!Absent /\ \E a \in Bin : t = T1(mem, a)
  BY <1>2 DEF Level2, T2, Down
<1>3. CASE t # P!Absent /\ \E a, b \in Bin : t = T2(mem, a, b)
  BY <1>3 DEF Level3, T3, Down
<1> QED
  BY <1>1, <1>2, <1>3, UpperTables

LEMMA TreeHasOneEntry ==
  ASSUME Tree(mem), NEW t \in P!Upper, NEW u \in P!Upper, NEW i \in Bin, NEW j \in Bin,
         mem[t][i] # P!Absent, mem[t][i] = mem[u][j]
  PROVE  t = u /\ i = j
<1> DEFINE x == mem[t][i]
           y == mem[u][j]
<1>1. mem \in Memory /\ OneEach(mem) /\ LevelsApart(mem)
  BY DEF Tree
<1>2. /\ Level1(t, x, i) \/ Level2(t, x, i) \/ Level3(t, x, i)
      /\ Level1(u, y, j) \/ Level2(u, y, j) \/ Level3(u, y, j)
  BY <1>1, EntryOfUpper
<1>3. x = y /\ x # P!Absent
  OBVIOUS
<1> HIDE DEF x, y
<1>4. CASE Level1(t, x, i)
  <2>1. CASE Level1(u, y, j)
    BY <1>1, <1>3, <1>4, <2>1 DEF Level1, OneEach
  <2>2. CASE Level2(u, y, j)
    BY <1>1, <1>3, <1>4, <2>2 DEF Level1, Level2, LevelsApart
  <2>3. CASE Level3(u, y, j)
    BY <1>1, <1>3, <1>4, <2>3 DEF Level1, Level3, LevelsApart
  <2> QED
    BY <1>2, <2>1, <2>2, <2>3
<1>5. CASE Level2(t, x, i)
  <2>1. CASE Level1(u, y, j)
    BY <1>1, <1>3, <1>5, <2>1 DEF Level1, Level2, LevelsApart
  <2>2. CASE Level2(u, y, j)
    <3>1. PICK a \in Bin : t = T1(mem, a) /\ x = T2(mem, a, i)
      BY <1>5 DEF Level2
    <3>2. PICK c \in Bin : u = T1(mem, c) /\ y = T2(mem, c, j)
      BY <2>2 DEF Level2
    <3>3. OnlyAt2(mem, a, i)
      BY OneSecond
    <3> QED
      BY <1>3, <3>1, <3>2, <3>3 DEF OnlyAt2
  <2>3. CASE Level3(u, y, j)
    <3>1. PICK a \in Bin : t = T1(mem, a) /\ x = T2(mem, a, i)
      BY <1>5 DEF Level2
    <3>2. PICK c \in Bin, d \in Bin : u = T2(mem, c, d) /\ y = T3(mem, c, d, j)
      BY <2>3 DEF Level3
    <3> QED
      BY <1>1, <1>3, <3>1, <3>2 DEF LevelsApart
  <2> QED
    BY <1>2, <2>1, <2>2, <2>3
<1>6. CASE Level3(t, x, i)
  <2>1. CASE Level1(u, y, j)
    BY <1>1, <1>3, <1>6, <2>1 DEF Level1, Level3, LevelsApart
  <2>2. CASE Level2(u, y, j)
    <3>1. PICK a \in Bin, b \in Bin : t = T2(mem, a, b) /\ x = T3(mem, a, b, i)
      BY <1>6 DEF Level3
    <3>2. PICK c \in Bin : u = T1(mem, c) /\ y = T2(mem, c, j)
      BY <2>2 DEF Level2
    <3> QED
      BY <1>1, <1>3, <3>1, <3>2 DEF LevelsApart
  <2>3. CASE Level3(u, y, j)
    <3>1. PICK a \in Bin, b \in Bin : t = T2(mem, a, b) /\ x = T3(mem, a, b, i)
      BY <1>6 DEF Level3
    <3>2. PICK c \in Bin, d \in Bin : u = T2(mem, c, d) /\ y = T3(mem, c, d, j)
      BY <2>3 DEF Level3
    <3>3. OnlyAt(mem, a, b, i)
      BY OneThird
    <3> QED
      BY <1>3, <3>1, <3>2, <3>3 DEF OnlyAt
  <2> QED
    BY <1>2, <2>1, <2>2, <2>3
<1> QED
  BY <1>2, <1>4, <1>5, <1>6

(* The tables form a tree and translate every page to what was asked for   *)
(* it last: vmm_map_range, vmm_map_mmio and vmm_unmap_page of vmm.c touch  *)
(* no page but their own, also when they make tables on the way and when   *)
(* a frame or a pool table runs out half way.                              *)
THEOREM MemTranslatesAsAsked == MemSpec => []TranslatesAsAsked
<1>1. PInv => TranslatesAsAsked
  <2> SUFFICES ASSUME PInv PROVE TranslatesAsAsked
    OBVIOUS
  <2>1. ASSUME phase # "vmm_init" PROVE Tree(mem)
    BY <2>1, NowFields DEF PInv, TablesGood, Good
  <2>2. P!TablesFormTree
    <3>1. ASSUME phase # "vmm_init", NEW t \in P!Upper, NEW u \in P!Upper,
                 NEW i \in {0, 1}, NEW j \in {0, 1},
                 mem[t][i] # P!Absent, mem[t][i] = mem[u][j]
          PROVE  t = u /\ i = j
      BY <2>1, <3>1, TreeHasOneEntry DEF Bin
    <3> QED
      BY <3>1 DEF P!TablesFormTree
  <2>3. P!TranslatesAsAsked
    BY WalkIs DEF PInv, AllTranslate, P!TranslatesAsAsked
  <2> QED
    BY <2>2, <2>3 DEF TranslatesAsAsked
<1> QED
  BY <1>1, MemPagingInvariance, PTL

-----------------------------------------------------------------------------
LEMMA Divided ==
  ASSUME NEW x \in Nat, NEW a \in Nat, a > 0
  PROVE  x = a * (x \div a) + (x % a) /\ x % a \in 0 .. a - 1 /\ x \div a \in Nat
OBVIOUS

(* A frame of an entry lies inside the entry. *)
LEMMA FrameInside ==
  ASSUME NEW e \in [base : Nat, length : Nat, type : Nat], NEW f \in P!FramesOf(e)
  PROVE  e.base <= f * PAGE_SIZE /\ (f + 1) * PAGE_SIZE <= e.base + e.length
<1> DEFINE z == PAGE_SIZE
           b == e.base
           n == e.base + e.length
           x == b + z - 1
           q == x \div z
           r == x % z
           q2 == n \div z
           r2 == n % z
<1>1. z \in Nat /\ z > 0 /\ b \in Nat /\ n \in Nat
  BY PagingFacts
<1>2. q <= f /\ f < q2 /\ f \in P!Frames
  BY DEF P!FramesOf
<1>0. f \in Nat
  BY <1>2, PagingFacts DEF P!Frames
<1> HIDE DEF z, b, n
<1>10. x \in Nat /\ x = b + z - 1
  BY <1>1
<1> HIDE DEF x
<1>3. x = z * q + r /\ r \in 0 .. z - 1 /\ q \in Nat
  BY <1>1, <1>10, Divided
<1>4. n = z * q2 + r2 /\ r2 \in 0 .. z - 1 /\ q2 \in Nat
  BY <1>1, Divided
<1> HIDE DEF q, r, q2, r2
<1>5. z * q <= z * f
  BY <1>0, <1>1, <1>2, <1>3
<1>6. z * (f + 1) <= z * q2
  <2>1. f + 1 <= q2 /\ f + 1 \in Nat
    BY <1>0, <1>2, <1>4
  <2> QED
    BY <1>1, <1>4, <2>1
<1>7. z * f = f * z /\ z * (f + 1) = (f + 1) * z /\ z * f \in Int /\ z * q \in Int
      /\ z * (f + 1) \in Int /\ z * q2 \in Int
  BY <1>0, <1>1, <1>3, <1>4
<1>8. b <= z * f
  BY <1>1, <1>3, <1>5, <1>7, <1>10
<1>9. z * (f + 1) <= n
  BY <1>1, <1>4, <1>6, <1>7
<1> QED
  BY <1>7, <1>8, <1>9 DEF z, b, n

(* No frame has two uses and the bits of all uses are set, only memory the *)
(* loader called usable is handed out, and the free count is that of the   *)
(* clear bits: what pmm_init, pmm_mark_used, the two allocators and        *)
(* pmm_free_page of pmm.c keep together with alloc_table of vmm.c.         *)
THEOREM MemFramesSound == MemSpec => []FramesSound
<1>1. PInv => FramesSound
  <2> SUFFICES ASSUME PInv PROVE P!FramesSound
    BY DEF FramesSound
  <2>1. /\ phase \in {"vmm_init", "pmm_init", "heap_init", "up", "halted"}
        /\ map \in MemoryMaps /\ total_frames \in 0 .. MAX_FRAMES /\ owned \subseteq Avail
        /\ asked \in [P!Pages -> P!Pages \cup {P!Absent}] /\ ops \in 0 .. MaxOps
    BY DEF PInv, PagingTypes
  <2>2. Avail \subseteq P!Frames
    BY <2>1, EntryFrames DEF Avail
  <2>3. ASSUME phase # "vmm_init" PROVE Good(P!Now, total_frames, Kept, Avail, Exact)
    BY <2>3 DEF PInv, TablesGood
  <2>4. P!TypeOK
    <3>1. /\ used \subseteq P!Frames /\ free_frames \in 0 .. CountMod - 1
          /\ mem \in Memory /\ static_pt_used \in 0 .. STATIC_PT_PAGES
      <4>1. CASE phase = "vmm_init"
        BY <4>1, PagingFacts DEF PInv, BeforeTables
      <4>2. CASE phase # "vmm_init"
        BY <2>3, <4>2, NowRec DEF Good
      <4> QED
        BY <4>1, <4>2
    <3> QED
      BY <2>1, <2>2, <3>1 DEF P!TypeOK, Memory, Bin, Entries
  <2>5. ASSUME phase = "up", NEW t \in P!TableFrames
        PROVE  t \in used /\ t \notin Kept /\ t \in Avail
    <3>1. Good(P!Now, total_frames, Kept, Avail, Exact) /\ Tree(mem)
      BY <2>3, <2>5, NowFields DEF Good
    <3>2. Live(mem, t) /\ t \in P!Frames
      BY <3>1, LiveTables DEF P!TableFrames
    <3>3. Given(P!Now, total_frames, Kept, Avail, t) /\ t < MAX_FRAMES
      BY <3>1, <3>2, NowFields, PagingFacts DEF Good, P!Frames
    <3> QED
      BY <3>3, NowFields DEF Given
  <2>6. P!FramesApart
    <3>1. ASSUME phase = "up", map # << >>
          PROVE  Kept = owned \cup Reserved /\ Kept \subseteq used /\ owned \cap Reserved = {}
      <4>1. Kept \subseteq used
        BY <2>3, <3>1, NowFields DEF Good, Bits
      <4>2. owned \cap Reserved = {}
        BY <3>1 DEF PInv, OwnedApart
      <4> QED
        BY <3>1, <4>1, <4>2 DEF Kept
    <3>2. ASSUME phase = "up", map # << >>, NEW t \in P!TableFrames
          PROVE  t \in used /\ t \notin owned /\ t \notin Reserved
      BY <2>5, <3>1, <3>2
    <3> QED
      BY <3>1, <3>2 DEF P!FramesApart, Reserved
  <2>7. P!OnlyUsableMemory
    <3>1. ASSUME phase = "up", NEW f \in owned \cup P!TableFrames
          PROVE  \E i \in P!Usable(map) :
                   /\ map[i].base <= f * PAGE_SIZE
                   /\ (f + 1) * PAGE_SIZE <= map[i].base + map[i].length
      <4>1. f \in Avail
        BY <2>1, <2>5, <3>1
      <4>2. PICK i \in P!Usable(map) : f \in P!FramesOf(map[i])
        BY <4>1 DEF Avail
      <4>3. map[i] \in [base : Nat, length : Nat, type : Nat]
        BY <2>1, <4>2, EntryFrames DEF P!Usable
      <4> QED
        BY <4>2, <4>3, FrameInside
    <3> QED
      BY <3>1 DEF P!OnlyUsableMemory
  <2>8. P!FreeCountExact
    <3>1. ASSUME phase \in {"up", "halted"}, total_frames > 0, NoOverlap
          PROVE  free_frames = Cardinality(P!Frames \ used)
      <4>1. Exact = 1
        BY <3>1 DEF Exact
      <4> QED
        BY <2>3, <3>1, <4>1, NowFields DEF Good, Bits
    <3> QED
      BY <3>1, CardSame DEF P!FreeCountExact, NoOverlap
  <2> QED
    BY <2>4, <2>6, <2>7, <2>8 DEF P!FramesSound
<1> QED
  BY <1>1, MemPagingInvariance, PTL
=============================================================================
