-------------------------------- MODULE Heap --------------------------------
(***************************************************************************)
(* The heap: lib/heap's first-fit allocator over an address-ordered free   *)
(* list, and the kernel's pool of it (kernel/src/heap.rs), every call of   *)
(* which runs to its end under one lock.                                   *)
(*                                                                         *)
(* Addresses are numbers.  A block on the free list is its start and size; *)
(* the list is kept in address order, so it is the set of its blocks.  A   *)
(* live allocation carries the header that alloc wrote before its payload. *)
(* Sums are a usize's: they wrap at USIZE, as they do in a release build.  *)
(***************************************************************************)
EXTENDS Integers, Sequences, FiniteSetsExt

CONSTANTS USIZE,       \* addresses and sizes are below it
          ALIGN, HEADER, MIN_BLOCK,
          HeapRegions, \* what init gives the pool: a sequence of [start, len]
          AllocSizes, Aligns,
          MAX_LIVE     \* bound: allocations at a time

ASSUME HeapAssumption ==
  /\ USIZE \in Nat \ {0} /\ ALIGN \in Nat \ {0} /\ HEADER \in Nat /\ MIN_BLOCK \in Nat \ {0} /\ MAX_LIVE \in Nat
  /\ HEADER + ALIGN >= MIN_BLOCK /\ ALIGN < USIZE
  /\ HeapRegions \in Seq([start : Nat, len : Nat])
  /\ AllocSizes \subseteq Nat /\ Aligns \subseteq Nat \ {0}

(* A region is "valid" memory, none of which lies at the very top of the
   address space, and "must not overlap a region already added" (add_region);
   "align must be a power of two" (alloc): one below ALIGN divides it. *)
ASSUME CallersAssumption ==
  /\ \A i \in DOMAIN HeapRegions : HeapRegions[i].start + HeapRegions[i].len + ALIGN <= USIZE
  /\ \A i, j \in DOMAIN HeapRegions : i # j =>
       \/ HeapRegions[i].start + HeapRegions[i].len <= HeapRegions[j].start
       \/ HeapRegions[j].start + HeapRegions[j].len <= HeapRegions[i].start
  /\ \A align \in Aligns : align < ALIGN => ALIGN % align = 0

VARIABLES READY,   \* init has run
          frees,   \* the free list: a set of [start, size]
          allocs,    \* allocations: [ptr, total, back] of the header, and what was asked for
          total, used,
          wrapped    \* history: a sum of an alloc that was met has wrapped

heapVars == <<READY, frees, allocs, total, used, wrapped>>

TypeHeap ==
  /\ READY \in BOOLEAN /\ wrapped \in BOOLEAN /\ total \in Nat /\ used \in Nat
  /\ frees \subseteq [start : Nat, size : Nat]
  /\ allocs \subseteq [ptr : Nat, total : Nat, back : Nat, size : Nat, align : Nat]

HeapInit == READY = FALSE /\ frees = {} /\ allocs = {} /\ total = 0 /\ used = 0 /\ wrapped = FALSE

(* What a usize keeps of a sum or a difference. *)
Word(n) == n % USIZE

align_up(v, to) == (Word(v + to - 1) \div to) * to

(* Mutant: only the block after is merged. *)
InsertNoMergeBefore(free, b) ==
  LET after == {f \in free : b.start + b.size = f.start}
  IN  (free \ after) \cup {[b EXCEPT !.size = @ + SumSet({f.size : f \in after})]}

(* insert_free: in address order, merged with the block after and then with
   the block before where they touch. *)
insert_free(free, b) ==
  LET after == {f \in free : b.start + b.size = f.start}
      before == {f \in free : f.start + f.size = b.start}
      start == Min({b.start} \cup {f.start : f \in before})
      end == Max({b.start + b.size} \cup {f.start + f.size : f \in after})
  IN  (free \ (before \cup after)) \cup {[start |-> start, size |-> end - start]}

(* add_region: the aligned part of it, unless that is too small (or nothing)
   to be a block. *)
Usable(r) ==
  LET begin == align_up(r.start, ALIGN)
      end == ((r.start + r.len) \div ALIGN) * ALIGN
  IN  [start |-> begin, size |-> end - begin]

add_region(h, r) ==
  IF Usable(r).size < MIN_BLOCK THEN h
  ELSE [free |-> insert_free(h.free, Usable(r)), total |-> h.total + Usable(r).size]

(* init: the regions one after the other, and only the first time. *)
Added[i \in 0 .. Len(HeapRegions)] ==
  IF i = 0 THEN [free |-> {}, total |-> 0] ELSE add_region(Added[i - 1], HeapRegions[i])

init ==
  /\ ~READY /\ READY' = TRUE
  /\ frees' = Added[Len(HeapRegions)].free
  /\ total' = Added[Len(HeapRegions)].total
  /\ UNCHANGED <<allocs, used, wrapped>>

(* alloc: the first block in which the aligned payload fits. *)
Payload(f, align) == align_up(Word(f.start + HEADER), align)

Fitting(free, size, align) == {f \in free : Word(Payload(f, align) + size) <= f.start + f.size}

FirstFit(free, size, align) ==
  CHOOSE f \in Fitting(free, size, align) : \A g \in Fitting(free, size, align) : f.start <= g.start

(* What taking it leaves: the front stays a free block when it is big enough,
   else it is padding of this allocation, and so is the tail. *)
Take(free, f, size, align) ==
  LET payload == Payload(f, align)
      front == Word(payload - HEADER - f.start)
      start == IF front >= MIN_BLOCK THEN f.start + front ELSE f.start
      kept == IF front >= MIN_BLOCK THEN {[f EXCEPT !.size = front]} ELSE {}
      tail == Word(f.start + f.size - (payload + size))
      end == IF tail >= MIN_BLOCK THEN Word(payload + size) ELSE f.start + f.size
      rest == (free \ {f}) \cup kept
  IN  [free |-> IF tail >= MIN_BLOCK THEN insert_free(rest, [start |-> end, size |-> tail]) ELSE rest,
       new |-> [ptr |-> payload, total |-> Word(end - start), back |-> Word(payload - HEADER - start)]]

Rounded(size) == align_up(IF size = 0 THEN 1 ELSE size, ALIGN)
AtLeast(align) == IF align < ALIGN THEN ALIGN ELSE align

(* Some sum that alloc makes to serve this request from f is no usize: the
   rounding, the payload's address or its end.  A block passed over because of
   one is too small in any case. *)
Wraps(f, size, align) ==
  \/ size + ALIGN - 1 >= USIZE
  \/ f.start + HEADER + AtLeast(align) - 1 >= USIZE
  \/ Payload(f, AtLeast(align)) + Rounded(size) >= USIZE

NoteWrap(size, align) ==
  wrapped' = (wrapped \/ Wraps(FirstFit(frees, Rounded(size), AtLeast(align)), size, align))

alloc(size, align) ==
  /\ READY /\ Cardinality(allocs) < MAX_LIVE
  /\ Fitting(frees, Rounded(size), AtLeast(align)) # {}
  /\ LET t == Take(frees, FirstFit(frees, Rounded(size), AtLeast(align)), Rounded(size), AtLeast(align))
     IN  /\ frees' = t.free /\ used' = used + t.new.total
         /\ allocs' = allocs \cup {[ptr |-> t.new.ptr, total |-> t.new.total, back |-> t.new.back,
                                size |-> size, align |-> align]}
  /\ NoteWrap(size, align) /\ UNCHANGED <<READY, total>>

BlockOf(a) == [start |-> a.ptr - HEADER - a.back, size |-> a.total]

free(a) ==
  /\ used' = used - a.total /\ frees' = insert_free(frees, BlockOf(a)) /\ allocs' = allocs \ {a}
  /\ UNCHANGED <<READY, total, wrapped>>

usable_size(a) == a.total - a.back - HEADER

(* realloc to another size: freed for 0, in place when it fits and is aligned,
   else moved, and left as it is when there is no room. *)
realloc(a, size, align) ==
  \/ size = 0 /\ free(a)
  \/ /\ size > 0 /\ size <= usable_size(a) /\ a.ptr % align = 0
     /\ allocs' = (allocs \ {a}) \cup {[a EXCEPT !.size = size, !.align = align]}
     /\ UNCHANGED <<READY, frees, total, used, wrapped>>
  \/ /\ size > 0 /\ (size > usable_size(a) \/ a.ptr % align # 0)
     /\ Fitting(frees, Rounded(size), AtLeast(align)) # {}
     /\ LET t == Take(frees, FirstFit(frees, Rounded(size), AtLeast(align)), Rounded(size), AtLeast(align))
        IN  /\ frees' = insert_free(t.free, BlockOf(a)) /\ used' = used + t.new.total - a.total
            /\ allocs' = (allocs \ {a}) \cup {[ptr |-> t.new.ptr, total |-> t.new.total, back |-> t.new.back,
                                           size |-> size, align |-> align]}
     /\ NoteWrap(size, align) /\ UNCHANGED <<READY, total>>

(* Behaviours are followed up to the first wrapped sum: the node that
   insert_free then writes may lie over live bytes or outside the regions. *)
HeapNext ==
  /\ ~wrapped
  /\ \/ init
     \/ \E size \in AllocSizes, align \in Aligns : alloc(size, align)
     \/ \E a \in allocs : free(a) \/ \E size \in AllocSizes, align \in Aligns : realloc(a, size, align)

(***************************************************************************)
(* Properties.                                                             *)
(***************************************************************************)

Apart(a, b) == a.start + a.size <= b.start \/ b.start + b.size <= a.start

(* The bytes of some blocks, and those the pool was given. *)
CellsOf(b) == b.start .. b.start + b.size - 1
Covered(blocks) == UNION {CellsOf(b) : b \in blocks}
Taken == {BlockOf(a) : a \in allocs}
UsableRegions ==
  {Usable(HeapRegions[i]) : i \in {j \in DOMAIN HeapRegions : Usable(HeapRegions[j]).size >= MIN_BLOCK}}

(* However allocations of mixed sizes and alignments come and go, free blocks
   and live ones tile the regions: none overlap, together they are every byte
   of the regions and no other, used and total count them, free blocks that
   touch are one, each is large enough for the list node it stores, and every
   payload is aligned and as long as was asked, until a sum of a request that
   alloc meets wraps: nothing in the code refuses one so large
   (lib/heap/src/lib.rs: alloc, free, realloc, insert_free). *)
HeapTiles ==
  READY /\ ~wrapped =>
    /\ \A a, b \in allocs : a # b => Apart(BlockOf(a), BlockOf(b))
    /\ \A f \in frees : f.size >= MIN_BLOCK /\ \A a \in allocs : Apart(f, BlockOf(a))
    /\ \A f, g \in frees : f # g => Apart(f, g) /\ f.start + f.size # g.start
    /\ Covered(frees \cup Taken) = Covered(UsableRegions)
    /\ used = Cardinality(Covered(Taken)) /\ total = Cardinality(Covered(UsableRegions))
    /\ \A a \in allocs : a.ptr % a.align = 0 /\ a.size <= usable_size(a)

(* What usable_size's comment says of every request, the largest included:
   "the usable span is at least the request" (lib/heap/src/lib.rs:194).
   It does not hold: see wrapped. *)
AskedIsUsable == \A a \in allocs : a.size <= usable_size(a)

HeapSpec == HeapInit /\ [][HeapNext]_heapVars
=============================================================================
