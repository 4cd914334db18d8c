-------------------------------- MODULE Heap ---------------------------------
(***************************************************************************)
(* The kernel heap of kernel/heap.c.  A block is a header followed by its  *)
(* bytes; addresses are offsets from heap_start.  The list is in address   *)
(* order, since a split inserts the new block right behind the one it is   *)
(* cut from, so `next' is the next higher header.                          *)
(*                                                                         *)
(* The calls of one task after another: the code has no lock (see the      *)
(* README).  coalesce's pass over the list is one step per iteration.      *)
(***************************************************************************)
EXTENDS Naturals, FiniteSets

CONSTANTS
  HeapSize,      \* heap_total
  HEADER_SIZE,   \* sizeof(block_header_t)
  ALIGN,         \* sizes are multiples of 16
  SizeMod,       \* size_t arithmetic is modulo this
  MaskMod,       \* the mask ~15u has 32 bits: rounding is modulo this
  PTR,           \* sizeof(uintptr_t)
  Requests,      \* sizes callers ask for
  Alignments,    \* what kmalloc_aligned is called with
  MaxLive        \* bound: pointers held at a time

ASSUME HeapAssumption ==
  /\ HeapSize \in Nat /\ HEADER_SIZE \in Nat /\ PTR \in Nat
  /\ SizeMod \in Nat /\ MaskMod \in Nat \ {0} /\ MaskMod <= SizeMod
  /\ ALIGN \in Nat \ {0} /\ HEADER_SIZE > 0
  /\ HeapSize > HEADER_SIZE
  /\ Requests \subseteq Nat /\ Alignments \subseteq Nat \ {0}
  /\ MaxLive \in Nat

VARIABLES
  headers,    \* addresses of the block headers on the list
  size,       \* header -> usable bytes
  free,       \* header -> is the block free?
  held,       \* pointers callers hold: what was returned, the block's data,
              \* and the bytes asked for
  cur         \* coalesce's cursor, or Done

vars == << headers, size, free, held, cur >>

MIN_SPLIT == HEADER_SIZE + ALIGN
Done == HeapSize
Addr == 0 .. HeapSize - 1
Pointer == [ptr : Nat, raw : Nat, asked : Nat]

End(b) == b + HEADER_SIZE + size[b]
IsNext(b, c) == b < c /\ \A d \in headers : b < d => c <= d

Init ==      \* heap_init
  /\ headers = {0}
  /\ size = [b \in {0} |-> HeapSize - HEADER_SIZE]
  /\ free = [b \in {0} |-> TRUE]
  /\ held = {}
  /\ cur = Done

-----------------------------------------------------------------------------
(* size = (size + 15u) & ~15u: the mask is an unsigned int, so that the    *)
(* result is cut to 32 bits.                                               *)
rounded(n) == ((((n + ALIGN - 1) % SizeMod) % MaskMod) \div ALIGN) * ALIGN

(* First fit: the first free block of the list that is large enough. *)
fits(b, r) == free[b] /\ size[b] >= r
FirstFit(b, r) == fits(b, r) /\ \A c \in headers : fits(c, r) => b <= c

(* What is left of the block becomes a block of its own, if it can hold    *)
(* another header and the smallest allocation.                             *)
remainder(b, r) == size[b] - r - HEADER_SIZE
cut(b, r) == size[b] >= r + MIN_SPLIT
new_block(b, r) == b + HEADER_SIZE + r
carved(b, r) == IF cut(b, r) THEN headers \cup {new_block(b, r)} ELSE headers
carved_size(b, r) ==
  [c \in carved(b, r) |->
     IF ~cut(b, r) THEN size[c]
     ELSE IF c = new_block(b, r) THEN remainder(b, r)
     ELSE IF c = b THEN r ELSE size[c]]
carved_free(b, r) ==
  [c \in carved(b, r) |->
     IF c = b THEN FALSE
     ELSE IF cut(b, r) /\ c = new_block(b, r) THEN TRUE ELSE free[c]]

CanCall == cur = Done

(* kmalloc, and kcalloc with n the product of its arguments, which it does *)
(* not check.  A request for 0 bytes, and one no block fits, change        *)
(* nothing and return NULL.                                                *)
kmalloc(n) ==
  /\ CanCall /\ n > 0 /\ Cardinality(held) < MaxLive
  /\ \E b \in headers :
       /\ FirstFit(b, rounded(n))
       /\ headers' = carved(b, rounded(n))
       /\ size' = carved_size(b, rounded(n))
       /\ free' = carved_free(b, rounded(n))
       /\ held' = held \cup {[ptr |-> b + HEADER_SIZE, raw |-> b + HEADER_SIZE,
                              asked |-> n]}
  /\ UNCHANGED cur

(* kmalloc_aligned over-allocates and stores the block's address in the    *)
(* word before the aligned one it returns.                                 *)
no_slack_bug(n, al) == (n + PTR) % SizeMod
over_allocate(n, al) == (n + al + PTR) % SizeMod
aligned(raw, al) == ((raw + PTR + al - 1) \div al) * al   \* al a power of 2
kmalloc_aligned(n, al) ==
  LET r == rounded(over_allocate(n, al))
  IN  /\ CanCall /\ over_allocate(n, al) > 0 /\ Cardinality(held) < MaxLive
      /\ \E b \in headers :
           /\ FirstFit(b, r)
           /\ headers' = carved(b, r)
           /\ size' = carved_size(b, r)
           /\ free' = carved_free(b, r)
           /\ held' = held \cup {[ptr |-> aligned(b + HEADER_SIZE, al),
                                  raw |-> b + HEADER_SIZE, asked |-> n]}
      /\ UNCHANGED cur

(* kfree, and kfree_aligned with the address read back.  Every free is     *)
(* followed by a pass from the head of the list.                           *)
pass_from_block_bug(b) == b
pass_start(b) == 0
kfree(h) ==
  /\ CanCall
  /\ free' = [free EXCEPT ![h.raw - HEADER_SIZE] = TRUE]
  /\ held' = held \ {h}
  /\ cur' = pass_start(h.raw - HEADER_SIZE)
  /\ UNCHANGED << headers, size >>

(* The block's pointer stands for more bytes (or fewer) in place. *)
krealloc_in_place(h, n) ==
  /\ CanCall /\ n > 0
  /\ h.ptr = h.raw /\ n <= size[h.raw - HEADER_SIZE]
  /\ held' = (held \ {h}) \cup {[h EXCEPT !.asked = n]}
  /\ UNCHANGED << headers, size, free, cur >>

(* A new block is carved, the old one's bytes are copied and it is freed.  *)
(* Without a block for the new size the old one stays.                     *)
krealloc_move(h, n) ==
  LET old == h.raw - HEADER_SIZE
      r == rounded(n)
  IN  /\ CanCall /\ h.ptr = h.raw /\ n > size[old]
      /\ \E b \in headers :
           /\ FirstFit(b, r)
           /\ headers' = carved(b, r)
           /\ size' = carved_size(b, r)
           /\ free' = [carved_free(b, r) EXCEPT ![old] = TRUE]
           /\ held' = (held \ {h}) \cup
                        {[ptr |-> b + HEADER_SIZE, raw |-> b + HEADER_SIZE,
                          asked |-> n]}
      /\ cur' = pass_start(old)

(* One iteration of coalesce: merge the next block into this one and stay, *)
(* or go on; the pass ends at the last block.                              *)
merged_size(b, c) == size[b] + HEADER_SIZE + size[c]
coalesce ==
  /\ cur # Done
  /\ \/ \E c \in headers :
          /\ IsNext(cur, c)
          /\ IF free[cur] /\ free[c]
             THEN /\ headers' = headers \ {c}
                  /\ size' = [b \in headers \ {c} |->
                                IF b = cur THEN merged_size(cur, c) ELSE size[b]]
                  /\ free' = [b \in headers \ {c} |-> free[b]]
                  /\ UNCHANGED cur
             ELSE cur' = c /\ UNCHANGED << headers, size, free >>
     \/ /\ \A c \in headers : ~IsNext(cur, c)
        /\ cur' = Done
        /\ UNCHANGED << headers, size, free >>
  /\ UNCHANGED held

Next ==
  \/ \E n \in Requests : kmalloc(n)
  \/ \E n \in Requests, al \in Alignments : kmalloc_aligned(n, al)
  \/ \E h \in held : kfree(h)
  \/ \E h \in held, n \in Requests : krealloc_in_place(h, n)
  \/ \E h \in held, n \in Requests : krealloc_move(h, n)
  \/ coalesce

Spec == Init /\ [][Next]_vars

-----------------------------------------------------------------------------
(* Types of every variable. *)
TypeOK ==
  /\ headers \subseteq Addr
  /\ size \in [headers -> Nat]
  /\ free \in [headers -> BOOLEAN]
  /\ held \subseteq Pointer
  /\ cur \in headers \cup {Done}

(* Splits and merges keep the blocks a tiling of the heap: each ends where *)
(* the next begins or at the end of the heap, and none starts inside       *)
(* another.                                                                *)
Tiled ==
  /\ 0 \in headers
  /\ \A b \in headers :
       /\ End(b) = HeapSize \/ End(b) \in headers
       /\ \A c \in headers : b < c => End(b) <= c

(* A block is in use exactly while one caller holds it: no allocation      *)
(* hands out a block, or part of one, that somebody has, and no freed      *)
(* block is lost.                                                          *)
UsedIffHeld ==
  /\ \A h \in held : h.raw - HEADER_SIZE \in headers
  /\ \A h, k \in held : h.raw = k.raw => h = k
  /\ \A b \in headers : ~free[b] <=> \E h \in held : h.raw = b + HEADER_SIZE

(* Between calls no two neighbours are free: every free merges all there   *)
(* is to merge ("full forward-merge pass").                                *)
NoFreeNeighbours ==
  cur = Done => \A b, c \in headers : free[b] /\ free[c] => End(b) # c

(* When everything is freed the heap is one block again. *)
WholeAgain == held = {} /\ cur = Done => headers = {0}

(* No rounding of a request for n bytes, aligned or not, reaches the mask. *)
BelowMask(n) ==
  /\ n + ALIGN <= MaskMod
  /\ \A al \in Alignments : n + al + PTR + ALIGN <= MaskMod
Fits(h) ==
  /\ h.ptr + h.asked <= End(h.raw - HEADER_SIZE)
  /\ h.ptr # h.raw => h.raw + PTR <= h.ptr

(* The bytes asked for, and for aligned memory the word before them, lie   *)
(* inside the block, unless the size was too large for the mask.           *)
RoomForRequest ==
  \A h \in held : BelowMask(h.asked) => Fits(h)

(* The block list is sound throughout: the blocks tile the heap and each   *)
(* is in use exactly while one caller holds it; and freed memory comes     *)
(* back whole: between calls no two free blocks touch, and an empty heap   *)
(* is one block.                                                           *)
BlocksSound == TypeOK /\ Tiled /\ UsedIffHeld /\ NoFreeNeighbours /\ WholeAgain
=============================================================================
