---------------------------- MODULE PhysMemProofs ----------------------------
(***************************************************************************)
(* For every number of cores and every sound memory map: phys.rs implements*)
(* FrameAllocator, keeps the PMM header to itself, and loses no page but   *)
(* the last word of a bitmap that its pages fill.                          *)
(***************************************************************************)
EXTENDS PhysMem, WellFoundedInduction, TLAPS

(* Quotient and remainder. *)
LEMMA Division ==
  ASSUME NEW x \in Nat, NEW p \in Nat \ {0}
  PROVE  /\ x \div p \in Nat /\ x % p \in 0..(p - 1)
         /\ x = p * (x \div p) + (x % p)
         /\ p * (x \div p) <= x
  OBVIOUS

(* Multiplication is monotonic. *)
LEMMA Times ==
  ASSUME NEW p \in Nat, NEW m \in Nat, NEW n \in Nat, m <= n
  PROVE  p * m \in Nat /\ p * n \in Nat /\ p * m <= p * n
  OBVIOUS

(* A number between two multiples that follow each other. *)
LEMMA Quotient ==
  ASSUME NEW x \in Nat, NEW p \in Nat \ {0}, NEW q \in Nat,
         p * q <= x, x < p * q + p
  PROVE  x \div p = q /\ x % p = x - p * q
<1> DEFINE d == x \div p
<1>1. d \in Nat /\ x % p \in 0..(p - 1) /\ x = p * d + (x % p)
  BY Zenon, Division
<1> HIDE DEF d
<1>2. p * (d + 1) = p * d + p /\ p * (q + 1) = p * q + p
  BY <1>1
<1>3. ~(d + 1 <= q)
  <2> SUFFICES ASSUME d + 1 <= q PROVE FALSE
    BY Zenon
  <2>1. p * (d + 1) <= p * q
    BY <1>1, Times
  <2>2. p * d \in Nat /\ p * q \in Nat
    BY <1>1
  <2> QED
    BY <1>1, <1>2, <2>1, <2>2
<1>4. ~(q + 1 <= d)
  <2> SUFFICES ASSUME q + 1 <= d PROVE FALSE
    BY Zenon
  <2>1. p * (q + 1) <= p * d
    BY <1>1, Times
  <2>2. p * d \in Nat /\ p * q \in Nat
    BY <1>1
  <2> QED
    BY <1>1, <1>2, <2>1, <2>2
<1>5. d = q
  BY <1>1, <1>3, <1>4
<1>6. p * q \in Nat
  OBVIOUS
<1> QED
  BY <1>1, <1>5, <1>6 DEF d

(* The multiples below a number. *)
LEMMA Multiple ==
  ASSUME NEW x \in Nat, NEW p \in Nat \ {0}, NEW n \in Nat
  PROVE  n < x \div p <=> p * n + p <= x
<1> DEFINE d == x \div p
<1>1. d \in Nat /\ x % p \in 0..(p - 1) /\ x = p * d + (x % p)
  BY Zenon, Division
<1> HIDE DEF d
<1>2. p * (n + 1) = p * n + p /\ p * (d + 1) = p * d + p /\ p * n \in Nat /\ p * d \in Nat
  BY <1>1
<1>3. ASSUME n < d PROVE p * n + p <= x
  <2>1. p * (n + 1) <= p * d
    BY <1>1, <1>3, Times
  <2> QED
    BY <1>1, <1>2, <2>1
<1>4. ASSUME ~(n < d) PROVE ~(p * n + p <= x)
  <2>1. p * d <= p * n
    BY <1>1, <1>4, Times
  <2> QED
    BY <1>1, <1>2, <2>1
<1> QED
  BY Zenon, <1>3, <1>4 DEF d

(* The least number of a set is one of its numbers. *)
LEMMA MinIn ==
  ASSUME NEW S \in SUBSET Nat, S # {}
  PROVE  Min(S) \in S /\ \A y \in S : Min(S) <= y
<1> DEFINE Less == OpToRel(<, Nat)
<1>1. IsWellFoundedOn(Less, Nat)
  BY Zenon, NatLessThanWellFounded
<1>2. Less = {ss \in Nat \X Nat : ss[1] < ss[2]}
  BY Zenon DEF OpToRel
<1> HIDE DEF Less
<1>3. PICK x \in S : \A y \in S : ~ (<<y, x>> \in Less)
  BY Zenon, <1>1, WFMin
<1>4. \A y \in S : x <= y
  <2> SUFFICES ASSUME NEW y \in S, ~(x <= y) PROVE FALSE
    BY Zenon
  <2>1. x \in Nat /\ y \in Nat /\ y < x
    OBVIOUS
  <2>2. <<y, x>> \in Less
    BY Zenon, <1>2, <2>1
  <2> QED
    BY Zenon, <1>3, <2>2
<1> QED
  BY Zenon, <1>4 DEF Min

Segment == [address : Nat, size : Nat]
Region(map, adr) == [address |-> adr, size |-> header_total_size(mmap_usable(map))]

(* The segments lie apart from each other and from the PMM header, and their
   pages are usable memory. *)
Placed(segs, map, adr) ==
  /\ segs \in Seq(Segment)
  /\ \A i, j \in DOMAIN segs : i # j => Apart(segs[i], segs[j])
  /\ \A i \in DOMAIN segs : \A p \in 0..(Pages(segs[i]) - 1) :
       segs[i].address + p * PAGE_SIZE \in UsableOf(map)
  /\ \A i \in DOMAIN segs : Apart(segs[i], Region(map, adr))

(* The pages that can be allocated: those of the segment that the initial
   bitmap leaves free. *)
Managed(segment) == (0..(Pages(segment) - 1)) \ NeverFree(segment)

Types ==
  /\ phase \in {"boot", "ready", "panic_no_place", "panic_unreachable"}
  /\ mmap \in MemoryMaps
  /\ header \in Nat
  /\ held \in [Core -> SUBSET Nat]
  /\ none \subseteq Core
  /\ phase # "ready" => segments = << >>

Bitmaps ==
  /\ DOMAIN bitmap = DOMAIN segments
  /\ \A i \in DOMAIN segments : /\ bitmap[i] \subseteq Bits(segments[i])
                                /\ FreePages(i) \subseteq Managed(segments[i])

(* A held frame is an allocated page, and has one holder. *)
Holders ==
  /\ \A c \in Core : \A f \in held[c] :
       \E i \in DOMAIN segments : \E p \in Managed(segments[i]) :
         p \in bitmap[i] /\ f = Frame(i, p)
  /\ \A c, d \in Core : c # d => held[c] \cap held[d] = {}

(* An allocated page has a holder. *)
NoneLost ==
  \A i \in DOMAIN segments : \A p \in Managed(segments[i]) :
    p \in bitmap[i] => \E c \in Core : Frame(i, p) \in held[c]

IInv == Types /\ Placed(segments, mmap, header) /\ Bitmaps /\ Holders /\ NoneLost

----------------------------------------------------------------------------
(* Rounding up: a multiple, not below, and by less than the unit. *)
LEMMA AlignUp ==
  ASSUME NEW n \in Nat, NEW a \in Nat \ {0}
  PROVE  /\ (n + a - 1) \div a \in Nat
         /\ align_up(n, a) = a * ((n + a - 1) \div a)
         /\ align_up(n, a) \in Nat
         /\ n <= align_up(n, a) /\ align_up(n, a) < n + a
         /\ align_up(n, a) \div a = (n + a - 1) \div a
<1> DEFINE q == (n + a - 1) \div a
           x == n + a - 1
<1>1. x \in Nat
  OBVIOUS
<1>2. q \in Nat /\ x % a \in 0..(a - 1) /\ x = a * q + (x % a)
  BY Zenon, <1>1, Division
<1>3. align_up(n, a) = a * q
  BY <1>2 DEF align_up
<1> HIDE DEF q
<1>4. a * q \in Nat
  BY <1>2
<1>5. (a * q) \div a = q
  BY <1>2, <1>4, Quotient
<1>6. n <= a * q /\ a * q < n + a
  BY <1>2, <1>4
<1> QED
  BY Zenon, <1>2, <1>3, <1>4, <1>5, <1>6 DEF q

(* The words of a bitmap have a bit for every page of the segment, and the
   first 0 bits are those of the managed pages. *)
LEMMA BitsOfPages ==
  ASSUME NEW s \in Segment
  PROVE  /\ Pages(s) \in Nat
         /\ bitmap_u64len(s) \in Nat
         /\ 0..(Pages(s) - 1) \subseteq Bits(s)
         /\ Bits(s) \subseteq Nat
<1>1. Pages(s) \in Nat
  BY Zenon, SizeAssumption, Division DEF Pages, Segment
<1>2. bitmap_u64len(s) \in Nat /\ Pages(s) <= WORD_BITS * bitmap_u64len(s)
  <2> DEFINE q == (Pages(s) + WORD_BITS - 1) \div WORD_BITS
             a == align_up(Pages(s), WORD_BITS)
  <2>1. q \in Nat /\ a = WORD_BITS * q /\ Pages(s) <= a /\ a \div WORD_BITS = q
    BY Zenon, <1>1, SizeAssumption, AlignUp
  <2>2. bitmap_u64len(s) = a \div WORD_BITS
    BY Zenon DEF bitmap_u64len
  <2> HIDE DEF q, a
  <2> QED
    BY Zenon, <2>1, <2>2
<1>3. WORD_BITS * bitmap_u64len(s) = bitmap_u64len(s) * WORD_BITS
  BY <1>2, SizeAssumption
<1> QED
  BY <1>1, <1>2, <1>3, SizeAssumption DEF Bits

LEMMA InitialFree ==
  ASSUME NEW s \in Segment, bitmap_u64len(s) # 0
  PROVE  Bits(s) \ InitialBitmap(s) = Managed(s)
<1> DEFINE P == Pages(s)
           w == WORD_BITS
           len == bitmap_u64len(s)
           k == P \div w
           r == P % w
<1>1. P \in Nat /\ len \in Nat \ {0} /\ w \in Nat \ {0}
  BY Zenon, BitsOfPages, SizeAssumption
<1>2. len = (P + w - 1) \div w
  BY Zenon, <1>1, AlignUp DEF bitmap_u64len
<1>3. k \in Nat /\ r \in 0..(w - 1) /\ P = w * k + r
  BY Zenon, <1>1, Division
<1>5. Bits(s) = 0..(w * len - 1)
  BY <1>1 DEF Bits
<1>6. \A b \in Bits(s) : b \in InitialBitmap(s) <=>
                           (b >= w * (len - 1) /\ b % w >= r)
  BY <1>1 DEF InitialBitmap
<1>7. \A p : p \in Managed(s) <=> (p \in 0..(P - 1) /\ ~(r = 0 /\ p >= P - w))
  BY Zenon, <1>1 DEF Managed, NeverFree
<1> HIDE DEF P, w, len, k, r
<1>4. w * k \in Nat /\ w * (k + 1) = w * k + w /\ w * (k - 1) = w * k - w
  BY <1>1, <1>3
<1>8. CASE r = 0
  <2>1. len = k
    <3>1. P + w - 1 \in Nat /\ w * k <= P + w - 1 /\ P + w - 1 < w * k + w
      BY <1>1, <1>3, <1>4, <1>8
    <3> QED
      BY Zenon, <1>1, <1>2, <1>3, <3>1, Quotient
  <2>2. w * len = P /\ w * (len - 1) = P - w
    BY <1>1, <1>3, <1>4, <1>8, <2>1
  <2>3. \A b \in Nat : b % w >= 0
    BY <1>1, Division
  <2>4. InitialBitmap(s) \subseteq Bits(s)
    BY Zenon DEF InitialBitmap
  <2> QED
    BY <1>1, <1>3, <1>5, <1>6, <1>7, <1>8, <2>2, <2>3
<1>9. CASE r # 0
  <2>1. len = k + 1
    <3>1. P + w - 1 \in Nat /\ w * (k + 1) <= P + w - 1
          /\ P + w - 1 < w * (k + 1) + w /\ k + 1 \in Nat
      BY <1>1, <1>3, <1>4, <1>9
    <3> QED
      BY Zenon, <1>1, <1>2, <3>1, Quotient
  <2>2. w * len = w * k + w /\ w * (len - 1) = w * k
    BY <1>1, <1>3, <1>4, <2>1
  <2>3. ASSUME NEW b \in Nat, w * k <= b, b < w * k + w
        PROVE  b % w = b - w * k
    BY Zenon, <1>1, <1>3, <2>3, Quotient
  <2>4. ASSUME NEW b \in Bits(s)
        PROVE  b \notin InitialBitmap(s) <=> b < P
    <3>1. b \in Nat /\ b < w * k + w
      BY <1>1, <1>4, <1>5, <2>2
    <3>2. CASE w * k <= b
      <4>1. b % w = b - w * k
        BY Zenon, <2>3, <3>1, <3>2
      <4> QED
        BY <1>3, <1>4, <1>6, <2>2, <3>1, <3>2, <4>1
    <3>3. CASE ~(w * k <= b)
      BY <1>3, <1>4, <1>6, <2>2, <3>1, <3>3
    <3> QED
      BY Zenon, <3>2, <3>3
  <2>5. \A p : p \in 0..(P - 1) <=> (p \in Bits(s) /\ p < P)
    BY <1>1, <1>3, <1>4, <1>5, <2>2
  <2> QED
    BY Zenon, <1>7, <1>9, <2>4, <2>5
<1> QED
  BY Zenon, <1>8, <1>9

----------------------------------------------------------------------------
(* A page of a segment lies in it from end to end. *)
LEMMA FrameIn ==
  ASSUME Placed(segments, mmap, header),
         NEW i \in DOMAIN segments, NEW p \in 0..(Pages(segments[i]) - 1)
  PROVE  /\ segments[i] \in Segment /\ p \in Nat
         /\ Frame(i, p) \in Nat
         /\ segments[i].address <= Frame(i, p)
         /\ Frame(i, p) + PAGE_SIZE <= segments[i].address + segments[i].size
         /\ (Frame(i, p) - segments[i].address) \div PAGE_SIZE = p
         /\ Frame(i, p) \in Usable
<1>1. segments[i] \in Segment
  BY DEF Placed
<1>2. Pages(segments[i]) \in Nat /\ p \in Nat /\ p < Pages(segments[i])
  BY <1>1, BitsOfPages
<1>3. segments[i].address \in Nat /\ segments[i].size \in Nat
  BY Zenon, <1>1 DEF Segment
<1>4. PAGE_SIZE * p + PAGE_SIZE <= segments[i].size
  BY Zenon, <1>2, <1>3, SizeAssumption, Multiple DEF Pages
<1>5. PAGE_SIZE * p \in Nat /\ p * PAGE_SIZE = PAGE_SIZE * p
  BY <1>2, SizeAssumption
<1>6. (PAGE_SIZE * p) \div PAGE_SIZE = p
  BY <1>2, <1>5, SizeAssumption, Quotient
<1>7. Frame(i, p) = segments[i].address + PAGE_SIZE * p
  BY Zenon, <1>5 DEF Frame
<1>8. Frame(i, p) - segments[i].address = PAGE_SIZE * p
  BY <1>3, <1>5, <1>7
<1>9. Frame(i, p) \in Usable
  BY Zenon DEF Placed, Frame, Usable
<1> QED
  BY <1>1, <1>2, <1>3, <1>4, <1>5, <1>6, <1>7, <1>8, <1>9, SizeAssumption

(* It is in the range of no other segment. *)
LEMMA Owner ==
  ASSUME Placed(segments, mmap, header),
         NEW i \in DOMAIN segments, NEW p \in 0..(Pages(segments[i]) - 1),
         NEW j \in DOMAIN segments
  PROVE  in_range(segments[j], Frame(i, p)) <=> i = j
<1>1. /\ Frame(i, p) \in Nat /\ segments[i].address <= Frame(i, p)
      /\ Frame(i, p) + PAGE_SIZE <= segments[i].address + segments[i].size
      /\ segments[i] \in Segment
  BY Zenon, FrameIn
<1>2. segments[j] \in Segment
  BY DEF Placed
<1>3. /\ segments[i].address \in Nat /\ segments[i].size \in Nat
      /\ segments[j].address \in Nat /\ segments[j].size \in Nat
  BY Zenon, <1>1, <1>2 DEF Segment
<1>4. i # j => Apart(segments[i], segments[j])
  BY Zenon DEF Placed
<1> QED
  BY <1>1, <1>3, <1>4, SizeAssumption DEF Apart, in_range

(* Two pages are two frames. *)
LEMMA FrameInjective ==
  ASSUME Placed(segments, mmap, header),
         NEW i \in DOMAIN segments, NEW p \in 0..(Pages(segments[i]) - 1),
         NEW j \in DOMAIN segments, NEW q \in 0..(Pages(segments[j]) - 1),
         Frame(i, p) = Frame(j, q)
  PROVE  i = j /\ p = q
<1>1. i = j
  BY Zenon, Owner
<1>2. (Frame(i, p) - segments[i].address) \div PAGE_SIZE = p
  BY Zenon, FrameIn
<1>3. (Frame(j, q) - segments[j].address) \div PAGE_SIZE = q
  BY Zenon, FrameIn
<1> QED
  BY Zenon, <1>1, <1>2, <1>3

(* Managed pages are pages of the segment, and their bits are in its words. *)
LEMMA ManagedPages ==
  ASSUME NEW s \in Segment
  PROVE  Managed(s) \subseteq 0..(Pages(s) - 1) /\ Managed(s) \subseteq Bits(s)
BY Zenon, BitsOfPages DEF Managed

----------------------------------------------------------------------------
LEMMA InitInv == Init => IInv
<1> SUFFICES ASSUME Init PROVE IInv
  BY Zenon
<1> USE DEF Init
<1>1. Types
  BY Zenon DEF Types
<1>2. segments \in Seq(Segment) /\ DOMAIN segments = {}
  OBVIOUS
<1>3. Placed(segments, mmap, header)
  BY Zenon, <1>2 DEF Placed
<1>4. Bitmaps
  BY Zenon, <1>2 DEF Bitmaps
<1>5. Holders
  BY Zenon DEF Holders
<1>6. NoneLost
  BY Zenon, <1>2 DEF NoneLost
<1> QED
  BY Zenon, <1>1, <1>3, <1>4, <1>5, <1>6 DEF IInv

(* Carving the header out of a region that has place for it. *)
LEMMA CarvePlaced ==
  ASSUME NEW map \in MemoryMaps, NEW k \in DOMAIN mmap_usable(map),
         NEW n, n = align_up(header_total_size(mmap_usable(map)), PAGE_SIZE),
         mmap_usable(map)[k].size >= n
  PROVE  Placed(Carve(mmap_usable(map), k, n), map, mmap_usable(map)[k].address)
<1> DEFINE usable == mmap_usable(map)
           carved == Carve(usable, k, n)
           adr == usable[k].address
           total == header_total_size(usable)
<1>1. /\ usable \in Seq(Segment)
      /\ total \in Nat
      /\ \A i \in DOMAIN usable : \A p \in 0..(Pages(usable[i]) - 1) :
           usable[i].address + p * PAGE_SIZE \in UsableOf(map)
      /\ \A i, j \in DOMAIN usable : i # j => Apart(usable[i], usable[j])
  BY Zenon, MapsAssumption DEF SoundMap, Segment
<1>2. n \in Nat /\ total <= n
  BY Zenon, <1>1, SizeAssumption, AlignUp
<1>2a. PICK m \in Nat : n = PAGE_SIZE * m
  BY Zenon, <1>1, SizeAssumption, AlignUp
<1> HIDE DEF usable, total
<1>3. /\ DOMAIN usable = 1..Len(usable) /\ k \in DOMAIN usable
      /\ \A i \in DOMAIN usable : usable[i] \in Segment
  BY <1>1 DEF usable
<1>4. /\ DOMAIN carved = DOMAIN usable
      /\ \A i \in DOMAIN usable : i # k => carved[i] = usable[i]
      /\ carved[k] = [address |-> adr + n, size |-> usable[k].size - n]
  BY Zenon, <1>3 DEF Carve
<1>5. adr \in Nat /\ usable[k].size \in Nat /\ usable[k].size >= n
  BY Zenon, <1>3 DEF Segment, usable
<1>6. carved[k] \in Segment
  BY <1>2, <1>4, <1>5 DEF Segment
<1>7. carved \in Seq(Segment)
  <2>1. carved = [i \in 1..Len(usable) |-> carved[i]]
    BY Zenon, <1>3, <1>4 DEF Carve
  <2>2. \A i \in 1..Len(usable) : carved[i] \in Segment
    BY Zenon, <1>3, <1>4, <1>6
  <2>3. Len(usable) \in Nat
    BY <1>1
  <2> HIDE DEF carved
  <2> QED
    BY <2>1, <2>2, <2>3
<1> HIDE DEF carved
<1>8. \A i, j \in DOMAIN carved : i # j => Apart(carved[i], carved[j])
  <2> SUFFICES ASSUME NEW i \in DOMAIN carved, NEW j \in DOMAIN carved, i # j
               PROVE  Apart(carved[i], carved[j])
    BY Zenon
  <2>1. Apart(usable[i], usable[j])
    BY Zenon, <1>1, <1>4
  <2>2. /\ usable[i].address \in Nat /\ usable[i].size \in Nat
        /\ usable[j].address \in Nat /\ usable[j].size \in Nat
    BY Zenon, <1>3, <1>4 DEF Segment
  <2>3. CASE i = k
    <3>1. carved[j] = usable[j]
      BY Zenon, <1>4, <2>3
    <3>2. carved[i].address = usable[i].address + n /\ carved[i].size = usable[i].size - n
      BY <1>4, <2>3
    <3> QED
      BY <1>2, <2>1, <2>2, <3>1, <3>2 DEF Apart
  <2>4. CASE j = k
    <3>1. carved[i] = usable[i]
      BY Zenon, <1>4, <2>4
    <3>2. carved[j].address = usable[j].address + n /\ carved[j].size = usable[j].size - n
      BY <1>4, <2>4
    <3> QED
      BY <1>2, <2>1, <2>2, <3>1, <3>2 DEF Apart
  <2>5. CASE i # k /\ j # k
    BY Zenon, <1>4, <2>1, <2>5
  <2> QED
    BY Zenon, <2>3, <2>4, <2>5
<1>9. \A i \in DOMAIN carved : \A p \in 0..(Pages(carved[i]) - 1) :
        carved[i].address + p * PAGE_SIZE \in UsableOf(map)
  <2> SUFFICES ASSUME NEW i \in DOMAIN carved, NEW p \in 0..(Pages(carved[i]) - 1)
               PROVE  carved[i].address + p * PAGE_SIZE \in UsableOf(map)
    BY Zenon
  <2>1. CASE i # k
    BY Zenon, <1>1, <1>4, <2>1
  <2>2. CASE i = k
    <3>1. Pages(carved[k]) \in Nat /\ p \in Nat /\ p < Pages(carved[k])
      BY <1>6, <2>2, BitsOfPages
    <3>2. PAGE_SIZE * p + PAGE_SIZE <= usable[k].size - n
      <4>1. carved[k].size = usable[k].size - n /\ carved[k].size \in Nat
        BY <1>2, <1>4, <1>5
      <4>2. p < carved[k].size \div PAGE_SIZE
        BY Zenon, <3>1 DEF Pages
      <4>3. PAGE_SIZE * p + PAGE_SIZE <= carved[k].size
        BY Zenon, <3>1, <4>1, <4>2, SizeAssumption, Multiple
      <4> QED
        BY Zenon, <4>1, <4>3
    <3>3. PAGE_SIZE * (m + p) = n + PAGE_SIZE * p /\ m + p \in Nat
          /\ PAGE_SIZE * p \in Nat /\ (m + p) * PAGE_SIZE = PAGE_SIZE * (m + p)
          /\ p * PAGE_SIZE = PAGE_SIZE * p
      BY <1>2a, <3>1, SizeAssumption
    <3>4. PAGE_SIZE * (m + p) + PAGE_SIZE <= usable[k].size
      BY <1>2, <1>5, <3>2, <3>3, SizeAssumption
    <3>5. m + p < Pages(usable[k])
      BY Zenon, <1>5, <3>3, <3>4, SizeAssumption, Multiple DEF Pages
    <3>6. m + p \in 0..(Pages(usable[k]) - 1)
      BY <1>3, <3>3, <3>5, BitsOfPages
    <3>7. adr + (m + p) * PAGE_SIZE \in UsableOf(map)
      BY Zenon, <1>1, <1>3, <3>6
    <3>8. carved[k].address + p * PAGE_SIZE = adr + (m + p) * PAGE_SIZE
      BY <1>2, <1>4, <1>5, <3>3
    <3> QED
      BY Zenon, <2>2, <3>7, <3>8
  <2> QED
    BY Zenon, <2>1, <2>2
<1>10. \A i \in DOMAIN carved : Apart(carved[i], Region(map, adr))
  <2> SUFFICES ASSUME NEW i \in DOMAIN carved PROVE Apart(carved[i], Region(map, adr))
    BY Zenon
  <2>1. Region(map, adr) = [address |-> adr, size |-> total]
    BY Zenon DEF Region, total, usable
  <2>2. usable[i].address \in Nat /\ usable[i].size \in Nat
    BY Zenon, <1>3, <1>4 DEF Segment
  <2>3. CASE i = k
    BY <1>1, <1>2, <1>4, <1>5, <2>1, <2>3 DEF Apart
  <2>4. CASE i # k
    <3>1. Apart(usable[i], usable[k]) /\ carved[i] = usable[i]
      BY Zenon, <1>1, <1>3, <1>4, <2>4
    <3>2. usable[k].address = adr /\ Region(map, adr).address = adr
          /\ Region(map, adr).size = total
      BY <2>1
    <3>3. \/ usable[i].address + usable[i].size <= adr
          \/ adr + usable[k].size <= usable[i].address
      BY Zenon, <3>1, <3>2 DEF Apart
    <3>4. \/ usable[i].address + usable[i].size <= adr
          \/ adr + total <= usable[i].address
      <4> HIDE DEF adr
      <4>1. total \in Nat
        BY Zenon, <1>1
      <4> QED
        BY <4>1, <1>2, <1>5, <2>2, <3>3
    <3> QED
      BY Zenon, <3>1, <3>2, <3>4 DEF Apart
  <2> QED
    BY Zenon, <2>3, <2>4
<1>11. Placed(carved, map, adr)
  BY Zenon, <1>7, <1>8, <1>9, <1>10 DEF Placed
<1> QED
  BY Zenon, <1>11 DEF carved, usable

----------------------------------------------------------------------------
(* Before init has succeeded nobody holds a frame. *)
LEMMA NothingHeld ==
  ASSUME IInv, phase # "ready"
  PROVE  DOMAIN segments = {} /\ \A c \in Core : held[c] = {}
<1>1. DOMAIN segments = {}
  BY DEF IInv, Types
<1> QED
  BY Zenon, <1>1 DEF IInv, Holders

(* Boot sets up the invariant, or panics and changes nothing else. *)
LEMMA BootInv ==
  ASSUME IInv, Boot
  PROVE  IInv'
<1> DEFINE usable == mmap_usable(mmap)
           total == align_up(header_total_size(usable), PAGE_SIZE)
           fits == Fits(usable, total)
           k == Min(fits)
           carved == Carve(usable, k, total)
<1>1. phase = "boot" /\ mmap' = mmap /\ held' = held /\ none' = none
  BY Zenon DEF Boot
<1>2. /\ DOMAIN segments = {} /\ segments = << >>
      /\ \A c \in Core : held[c] = {}
  BY Zenon, <1>1, NothingHeld DEF IInv, Types
<1>3. mmap \in MemoryMaps /\ header \in Nat /\ held \in [Core -> SUBSET Nat]
      /\ none \subseteq Core
  BY Zenon DEF IInv, Types
<1>4. CASE /\ phase' \in {"panic_no_place", "panic_unreachable"}
           /\ UNCHANGED <<segments, bitmap, header>>
  <2>1. Types'
    BY Zenon, <1>1, <1>2, <1>3, <1>4 DEF Types
  <2>2. Placed(segments, mmap, header)'
    BY Zenon, <1>1, <1>4 DEF IInv, Placed
  <2>3. Bitmaps'
    BY Zenon, <1>2, <1>4 DEF IInv, Bitmaps
  <2>4. Holders'
    BY Zenon, <1>1, <1>2 DEF Holders
  <2>5. NoneLost'
    BY Zenon, <1>2, <1>4 DEF NoneLost
  <2> QED
    BY Zenon, <2>1, <2>2, <2>3, <2>4, <2>5 DEF IInv
<1>5. CASE /\ fits # {}
           /\ \A i \in DOMAIN carved : bitmap_u64len(carved[i]) # 0
           /\ phase' = "ready"
           /\ segments' = carved
           /\ bitmap' = [i \in DOMAIN carved |-> InitialBitmap(carved[i])]
           /\ header' = usable[k].address
  <2>1. usable \in Seq(Segment)
    BY Zenon, <1>3, MapsAssumption DEF SoundMap, Segment
  <2>2. fits \subseteq DOMAIN usable /\ DOMAIN usable \subseteq Nat
    BY <2>1 DEF Fits
  <2>3. k \in fits
    BY Zenon, <1>5, <2>2, MinIn
  <2>4. k \in DOMAIN usable /\ usable[k].size >= total
    BY Zenon, <2>3 DEF Fits
  <2>5. Placed(carved, mmap, usable[k].address)
    <3> HIDE DEF k, fits
    <3> QED
      BY Zenon, <1>3, <2>4, CarvePlaced
  <2>6. usable[k].address \in Nat
    <3> HIDE DEF usable, k
    <3>1. usable[k] \in Segment
      BY <2>1, <2>4
    <3> QED
      BY Zenon, <3>1 DEF Segment
  <2> HIDE DEF carved, usable, k, fits, total
  <2>7. Types'
    BY Zenon, <1>1, <1>3, <1>5, <2>6 DEF Types
  <2>8. Placed(segments, mmap, header)'
    BY Zenon, <1>1, <1>5, <2>5
  <2>9. \A i \in DOMAIN carved : carved[i] \in Segment
    BY <2>5 DEF Placed
  <2>10. \A i \in DOMAIN carved :
           Bits(carved[i]) \ InitialBitmap(carved[i]) = Managed(carved[i])
    BY Zenon, <1>5, <2>9, InitialFree
  <2>11. \A i \in DOMAIN carved : InitialBitmap(carved[i]) \subseteq Bits(carved[i])
    BY Zenon DEF InitialBitmap
  <2>12. Bitmaps'
    BY Zenon, <1>5, <2>10, <2>11 DEF Bitmaps, FreePages
  <2>13. Holders'
    BY Zenon, <1>1, <1>2 DEF Holders
  <2>14. NoneLost'
    BY Zenon, <1>5, <2>10 DEF NoneLost
  <2> QED
    BY Zenon, <2>7, <2>8, <2>12, <2>13, <2>14 DEF IInv
<1> QED
  BY Zenon, <1>4, <1>5 DEF Boot

----------------------------------------------------------------------------
(* What palloc and pfree do, once the segment and the page are found. *)
Takes(c, i, p) ==
  /\ i \in DOMAIN segments /\ p \in FreePages(i)
  /\ bitmap' = [bitmap EXCEPT ![i] = @ \cup {p}]
  /\ held' = [held EXCEPT ![c] = @ \cup {Frame(i, p)}]
  /\ UNCHANGED <<phase, mmap, segments, header>>

Gives(c, i, p) ==
  /\ i \in DOMAIN segments /\ p \in Managed(segments[i])
  /\ p \in bitmap[i] /\ Frame(i, p) \in held[c]
  /\ bitmap' = [bitmap EXCEPT ![i] = @ \ {p}]
  /\ held' = [held EXCEPT ![c] = @ \ {Frame(i, p)}]
  /\ UNCHANGED <<phase, mmap, segments, header>>

(* What the segments keep in every step but Boot. *)
LEMMA SegmentFacts ==
  ASSUME IInv
  PROVE  /\ DOMAIN segments \subseteq Nat
         /\ \A i \in DOMAIN segments :
              /\ segments[i] \in Segment
              /\ Managed(segments[i]) \subseteq 0..(Pages(segments[i]) - 1)
              /\ Managed(segments[i]) \subseteq Bits(segments[i])
              /\ FreePages(i) \subseteq Managed(segments[i])
              /\ FreePages(i) \subseteq Nat
<1>1. DOMAIN segments \subseteq Nat /\ \A i \in DOMAIN segments : segments[i] \in Segment
  BY DEF IInv, Placed
<1>2. \A i \in DOMAIN segments : FreePages(i) \subseteq Managed(segments[i])
  BY Zenon DEF IInv, Bitmaps
<1> QED
  BY Zenon, <1>1, <1>2, ManagedPages, BitsOfPages

LEMMA PallocTakes ==
  ASSUME IInv, NEW c \in Core, palloc(c)
  PROVE  \/ /\ FreeFrames = {}
            /\ none' = none \cup {c}
            /\ UNCHANGED <<phase, mmap, segments, header, bitmap, held>>
         \/ \E i, p : Takes(c, i, p) /\ none' = none \ {c}
<1> DEFINE candidates == {i \in DOMAIN segments : FreePages(i) # {}}
           i == Min(candidates)
<1>1. CASE candidates = {}
  BY Zenon, <1>1 DEF palloc, FreeFrames
<1>2. CASE candidates # {}
  <2>1. i \in candidates
    BY Zenon, <1>2, MinIn, SegmentFacts
  <2>2. NextPage(i) \in FreePages(i)
    BY Zenon, <2>1, MinIn, SegmentFacts DEF NextPage
  <2>3. /\ bitmap' = [bitmap EXCEPT ![i] = @ \cup {NextPage(i)}]
        /\ held' = [held EXCEPT ![c] = @ \cup {Frame(i, NextPage(i))}]
        /\ none' = none \ {c}
        /\ UNCHANGED <<phase, mmap, segments, header>>
    BY Zenon, <1>2 DEF palloc
  <2>4. i \in DOMAIN segments
    BY Zenon, <2>1
  <2> HIDE DEF i
  <2> QED
    BY Zenon, <2>2, <2>3, <2>4 DEF Takes
<1> QED
  BY Zenon, <1>1, <1>2

LEMMA PfreeGives ==
  ASSUME IInv, NEW c \in Core, pfree(c)
  PROVE  \E i, p : Gives(c, i, p) /\ none' = none
<1> DEFINE owners(f) == {j \in DOMAIN segments : in_range(segments[j], f)}
<1>1. PICK f \in held[c] :
        /\ IF owners(f) = {}
           THEN UNCHANGED bitmap
           ELSE bitmap' = [bitmap EXCEPT
                             ![Min(owners(f))] = @ \ ClearedBits(Min(owners(f)), f)]
        /\ held' = [held EXCEPT ![c] = @ \ {f}]
  BY Zenon DEF pfree
<1>2. UNCHANGED <<phase, mmap, segments, header, none>>
  BY Zenon DEF pfree
<1>3. PICK i \in DOMAIN segments : \E p \in Managed(segments[i]) :
        p \in bitmap[i] /\ f = Frame(i, p)
  BY Zenon DEF IInv, Holders
<1>4. PICK p \in Managed(segments[i]) : p \in bitmap[i] /\ f = Frame(i, p)
  BY Zenon, <1>3
<1>5. p \in 0..(Pages(segments[i]) - 1) /\ i \in Nat
  BY Zenon, SegmentFacts
<1>6. Placed(segments, mmap, header)
  BY Zenon DEF IInv
<1>7. owners(f) = {i}
  BY <1>4, <1>5, <1>6, Owner
<1>8. Min(owners(f)) = i
  BY Zenon, <1>5, <1>7, MinIn
<1>9. ClearedBits(i, f) = {p}
  BY Zenon, <1>4, <1>5, <1>6, FrameIn DEF ClearedBits
<1>10. bitmap' = [bitmap EXCEPT ![i] = @ \ {p}]
  BY Zenon, <1>1, <1>7, <1>8, <1>9
<1> QED
  BY Zenon, <1>1, <1>2, <1>3, <1>4, <1>10 DEF Gives

(* Taking a page keeps the invariant: the frame was nobody's. *)
LEMMA TakesInv ==
  ASSUME IInv, NEW c \in Core, NEW i, NEW p, Takes(c, i, p), none' \subseteq Core
  PROVE  IInv' /\ Frame(i, p) \in FreeFrames /\ FreeFrames' = FreeFrames \ {Frame(i, p)}
<1>1. /\ i \in DOMAIN segments /\ p \in FreePages(i) /\ p \in Managed(segments[i])
      /\ p \in 0..(Pages(segments[i]) - 1) /\ p \in Bits(segments[i])
      /\ p \notin bitmap[i]
  BY Zenon, SegmentFacts DEF Takes, FreePages
<1>2. segments' = segments /\ mmap' = mmap /\ header' = header /\ phase' = phase
  BY Zenon DEF Takes
<1>3. \A j, q : Frame(j, q)' = Frame(j, q)
  BY Zenon, <1>2 DEF Frame
<1>4. Placed(segments, mmap, header)
  BY Zenon DEF IInv
<1>5. \A j \in DOMAIN segments : \A q \in Managed(segments[j]) :
        Frame(j, q) = Frame(i, p) => j = i /\ q = p
  BY Zenon, <1>1, <1>4, SegmentFacts, FrameInjective
<1>6. /\ DOMAIN bitmap' = DOMAIN segments
      /\ \A j \in DOMAIN segments :
           bitmap'[j] = IF j = i THEN bitmap[j] \cup {p} ELSE bitmap[j]
  BY Zenon, <1>1 DEF IInv, Bitmaps, Takes
<1>7. /\ held \in [Core -> SUBSET Nat]
      /\ \A d \in Core : held'[d] = IF d = c THEN held[d] \cup {Frame(i, p)} ELSE held[d]
  BY Zenon DEF IInv, Types, Takes
<1>8. Frame(i, p) \in Nat
  BY Zenon, <1>1, <1>4, FrameIn
<1>9. Types'
  BY Zenon, <1>2, <1>8 DEF IInv, Types, Takes
<1>10. Placed(segments, mmap, header)'
  BY Zenon, <1>2, <1>4
<1>11. Bitmaps'
  BY Zenon, <1>1, <1>2, <1>6 DEF IInv, Bitmaps, FreePages
<1>12. \A d \in Core : Frame(i, p) \notin held[d]
  BY Zenon, <1>1, <1>5 DEF IInv, Holders
<1>13. Holders'
  <2>1. ASSUME NEW d \in Core, NEW f \in held'[d]
        PROVE  \E j \in DOMAIN segments : \E q \in Managed(segments[j]) :
                 q \in bitmap'[j] /\ f = Frame(j, q)
    <3>1. CASE f \in held[d]
      BY <1>6, <3>1 DEF IInv, Holders
    <3>2. CASE f = Frame(i, p)
      BY Zenon, <1>1, <1>6, <3>2
    <3> QED
      BY Zenon, <1>7, <2>1, <3>1, <3>2
  <2>2. ASSUME NEW d \in Core, NEW e \in Core, d # e
        PROVE  held'[d] \cap held'[e] = {}
    <3>1. held[d] \cap held[e] = {}
      BY Zenon, <2>2 DEF IInv, Holders
    <3>2. Frame(i, p) \notin held[d] /\ Frame(i, p) \notin held[e]
      BY Zenon, <1>12
    <3>3. /\ held'[d] = IF d = c THEN held[d] \cup {Frame(i, p)} ELSE held[d]
          /\ held'[e] = IF e = c THEN held[e] \cup {Frame(i, p)} ELSE held[e]
      BY Zenon, <1>7
    <3> QED
      BY Zenon, <2>2, <3>1, <3>2, <3>3
  <2> QED
    BY Zenon, <1>2, <1>3, <2>1, <2>2 DEF Holders
<1>14. NoneLost'
  <2>1. ASSUME NEW j \in DOMAIN segments, NEW q \in Managed(segments[j]), q \in bitmap'[j]
        PROVE  \E d \in Core : Frame(j, q) \in held'[d]
    <3>1. CASE q \in bitmap[j]
      BY Zenon, <1>7, <3>1 DEF IInv, NoneLost
    <3>2. CASE j = i /\ q = p
      BY Zenon, <1>7, <3>2
    <3> QED
      BY Zenon, <1>6, <2>1, <3>1, <3>2
  <2> QED
    BY Zenon, <1>2, <1>3, <2>1 DEF NoneLost
<1>15. \A j \in DOMAIN segments :
         FreePages(j)' = IF j = i THEN FreePages(j) \ {p} ELSE FreePages(j)
  BY Zenon, <1>2, <1>6 DEF FreePages
<1>16. \A f : f \in FreeFrames <=>
              \E j \in DOMAIN segments : \E q \in FreePages(j) : f = Frame(j, q)
  BY DEF FreeFrames
<1>17. \A f : f \in FreeFrames' <=>
              \E j \in DOMAIN segments : \E q \in FreePages(j)' : f = Frame(j, q)
  BY <1>2, <1>3 DEF FreeFrames
<1>18. FreeFrames' = FreeFrames \ {Frame(i, p)}
  <2>1. ASSUME NEW f \in FreeFrames' PROVE f \in FreeFrames \ {Frame(i, p)}
    <3>1. PICK j \in DOMAIN segments : \E q \in FreePages(j)' : f = Frame(j, q)
      BY Zenon, <1>17, <2>1
    <3>2. PICK q \in FreePages(j)' : f = Frame(j, q)
      BY Zenon, <3>1
    <3>3. q \in FreePages(j) /\ ~(j = i /\ q = p)
      BY Zenon, <1>15
    <3>4. q \in Managed(segments[j])
      BY Zenon, <3>3, SegmentFacts
    <3> QED
      BY Zenon, <1>5, <1>16, <3>2, <3>3, <3>4
  <2>2. ASSUME NEW f \in FreeFrames \ {Frame(i, p)} PROVE f \in FreeFrames'
    BY <1>15, <1>16, <1>17
  <2> QED
    BY Zenon, <2>1, <2>2
<1> QED
  BY Zenon, <1>1, <1>9, <1>10, <1>11, <1>13, <1>14, <1>16, <1>18 DEF IInv

(* So does giving back a frame: no other frame has its bit. *)
LEMMA GivesInv ==
  ASSUME IInv, NEW c \in Core, NEW i, NEW p, Gives(c, i, p), none' \subseteq Core
  PROVE  IInv' /\ Frame(i, p) \in held[c] /\ FreeFrames' = FreeFrames \cup {Frame(i, p)}
<1>1. /\ i \in DOMAIN segments /\ p \in Managed(segments[i])
      /\ p \in 0..(Pages(segments[i]) - 1) /\ p \in Bits(segments[i])
      /\ p \in bitmap[i] /\ Frame(i, p) \in held[c]
  BY Zenon, SegmentFacts DEF Gives
<1>2. segments' = segments /\ mmap' = mmap /\ header' = header /\ phase' = phase
  BY Zenon DEF Gives
<1>3. \A j, q : Frame(j, q)' = Frame(j, q)
  BY Zenon, <1>2 DEF Frame
<1>4. Placed(segments, mmap, header)
  BY Zenon DEF IInv
<1>5. \A j \in DOMAIN segments : \A q \in Managed(segments[j]) :
        Frame(j, q) = Frame(i, p) => j = i /\ q = p
  BY Zenon, <1>1, <1>4, SegmentFacts, FrameInjective
<1>6. /\ DOMAIN bitmap' = DOMAIN segments
      /\ \A j \in DOMAIN segments :
           bitmap'[j] = IF j = i THEN bitmap[j] \ {p} ELSE bitmap[j]
  BY Zenon, <1>1 DEF IInv, Bitmaps, Gives
<1>7. /\ held \in [Core -> SUBSET Nat]
      /\ \A d \in Core : held'[d] = IF d = c THEN held[d] \ {Frame(i, p)} ELSE held[d]
  BY Zenon DEF IInv, Types, Gives
<1>8. \A d \in Core : Frame(i, p) \notin held'[d]
  BY Zenon, <1>1, <1>7 DEF IInv, Holders
<1>9. Types'
  BY Zenon, <1>2 DEF IInv, Types, Gives
<1>10. Placed(segments, mmap, header)'
  BY Zenon, <1>2, <1>4
<1>11. \A j \in DOMAIN segments :
         FreePages(j)' = IF j = i THEN FreePages(j) \cup {p} ELSE FreePages(j)
  BY Zenon, <1>1, <1>2, <1>6 DEF FreePages
<1>12. Bitmaps'
  BY Zenon, <1>1, <1>2, <1>6, <1>11 DEF IInv, Bitmaps
<1>13. Holders'
  <2>1. ASSUME NEW d \in Core, NEW f \in held'[d]
        PROVE  \E j \in DOMAIN segments : \E q \in Managed(segments[j]) :
                 q \in bitmap'[j] /\ f = Frame(j, q)
    <3>1. f \in held[d] /\ f # Frame(i, p)
      BY Zenon, <1>7, <1>8
    <3>2. PICK j \in DOMAIN segments : \E q \in Managed(segments[j]) :
                 q \in bitmap[j] /\ f = Frame(j, q)
      BY Zenon, <3>1 DEF IInv, Holders
    <3>3. PICK q \in Managed(segments[j]) : q \in bitmap[j] /\ f = Frame(j, q)
      BY Zenon, <3>2
    <3>4. q \in bitmap'[j]
      BY Zenon, <1>6, <3>1, <3>3
    <3> QED
      BY Zenon, <3>3, <3>4
  <2>2. \A d, e \in Core : d # e => held'[d] \cap held'[e] = {}
    BY Zenon, <1>7 DEF IInv, Holders
  <2> QED
    BY Zenon, <1>2, <1>3, <2>1, <2>2 DEF Holders
<1>14. NoneLost'
  <2>1. ASSUME NEW j \in DOMAIN segments, NEW q \in Managed(segments[j]), q \in bitmap'[j]
        PROVE  \E d \in Core : Frame(j, q) \in held'[d]
    <3>1. q \in bitmap[j] /\ ~(j = i /\ q = p)
      BY Zenon, <1>6, <2>1
    <3>2. Frame(j, q) # Frame(i, p)
      BY Zenon, <1>5, <3>1
    <3>3. PICK d \in Core : Frame(j, q) \in held[d]
      BY Zenon, <3>1 DEF IInv, NoneLost
    <3> QED
      BY Zenon, <1>7, <3>2, <3>3
  <2> QED
    BY Zenon, <1>2, <1>3, <2>1 DEF NoneLost
<1>16. \A f : f \in FreeFrames <=>
              \E j \in DOMAIN segments : \E q \in FreePages(j) : f = Frame(j, q)
  BY DEF FreeFrames
<1>17. \A f : f \in FreeFrames' <=>
              \E j \in DOMAIN segments : \E q \in FreePages(j)' : f = Frame(j, q)
  BY <1>2, <1>3 DEF FreeFrames
<1>18. FreeFrames' = FreeFrames \cup {Frame(i, p)}
  <2>1. ASSUME NEW f \in FreeFrames' PROVE f \in FreeFrames \cup {Frame(i, p)}
    BY <1>11, <1>16, <1>17
  <2>2. ASSUME NEW f \in FreeFrames \cup {Frame(i, p)} PROVE f \in FreeFrames'
    BY Zenon, <1>1, <1>11, <1>16, <1>17
  <2> QED
    BY Zenon, <2>1, <2>2
<1> QED
  BY Zenon, <1>1, <1>9, <1>10, <1>12, <1>13, <1>14, <1>18 DEF IInv

----------------------------------------------------------------------------
LEMMA NextInv == IInv /\ [Next]_vars => IInv'
<1> SUFFICES ASSUME IInv, [Next]_vars PROVE IInv'
  BY Zenon
<1>0. none \subseteq Core
  BY Zenon DEF IInv, Types
<1>1. CASE Boot
  BY Zenon, <1>1, BootInv
<1>2. ASSUME NEW c \in Core, palloc(c) PROVE IInv'
  <2>1. CASE UNCHANGED <<phase, mmap, segments, header, bitmap, held>> /\ none' = none \cup {c}
    BY <1>0, <2>1
      DEF IInv, Types, Placed, Bitmaps, Holders, NoneLost, FreePages, Frame
  <2>2. ASSUME NEW i, NEW p, Takes(c, i, p), none' = none \ {c} PROVE IInv'
    BY Zenon, <1>0, <2>2, TakesInv
  <2> QED
    BY Zenon, <1>2, <2>1, <2>2, PallocTakes
<1>3. ASSUME NEW c \in Core, pfree(c) PROVE IInv'
  BY Zenon, <1>0, <1>3, PfreeGives, GivesInv
<1>4. CASE UNCHANGED vars
  BY <1>4
    DEF vars, IInv, Types, Placed, Bitmaps, Holders, NoneLost, FreePages, Frame
<1> QED
  BY Zenon, <1>1, <1>2, <1>3, <1>4 DEF Next

(* The invariant holds for any number of cores and any sound memory map. *)
THEOREM Invariance == Spec => []IInv
BY InitInv, NextInv, PTL DEF Spec

(* The types of PhysMem; bitmaps stay within their words. *)
THEOREM TypeCorrect == Spec => []TypeOK
<1>1. IInv => TypeOK
  BY Zenon DEF IInv, Types, Placed, Bitmaps, TypeOK, Segment
<1> QED
  BY <1>1, Invariance, PTL

(* No caller of palloc ever holds memory of the PMM header that phys::init
   carves out of a segment. *)
THEOREM HeaderIsKept == Spec => []HeaderKept
<1>1. IInv => HeaderKept
  <2> SUFFICES ASSUME IInv, NEW c \in Core, NEW f \in held[c]
               PROVE  \/ f + PAGE_SIZE <= header
                      \/ header + header_total_size(mmap_usable(mmap)) <= f
    BY Zenon DEF HeaderKept, Held
  <2>1. PICK i \in DOMAIN segments : \E p \in Managed(segments[i]) : f = Frame(i, p)
    BY Zenon DEF IInv, Holders
  <2>2. PICK p \in Managed(segments[i]) : f = Frame(i, p)
    BY Zenon, <2>1
  <2>3. p \in 0..(Pages(segments[i]) - 1)
    BY Zenon, SegmentFacts
  <2>4. Placed(segments, mmap, header) /\ header \in Nat /\ mmap \in MemoryMaps
    BY Zenon DEF IInv, Types
  <2>5. /\ segments[i] \in Segment /\ f \in Nat /\ segments[i].address <= f
        /\ f + PAGE_SIZE <= segments[i].address + segments[i].size
    BY Zenon, <2>2, <2>3, <2>4, FrameIn
  <2>6. header_total_size(mmap_usable(mmap)) \in Nat
    BY Zenon, <2>4, MapsAssumption DEF SoundMap
  <2>7. Apart(segments[i], Region(mmap, header))
    BY Zenon, <2>4 DEF Placed
  <2>8. segments[i].address \in Nat /\ segments[i].size \in Nat
    BY Zenon, <2>5 DEF Segment
  <2> QED
    BY <2>4, <2>5, <2>6, <2>7, <2>8, SizeAssumption DEF Apart, Region
<1> QED
  BY <1>1, Invariance, PTL

(* Whatever is allocated and freed, a page of a segment is free or held, unless
   phys::init marked it with the last word of the bitmap. *)
THEOREM PagesAreAccounted == Spec => []PagesAccounted
<1>1. IInv => PagesAccounted
  <2> SUFFICES ASSUME IInv, NEW i \in DOMAIN segments,
                      NEW p \in 0..(Pages(segments[i]) - 1),
                      p \notin NeverFree(segments[i]), p \notin FreePages(i)
               PROVE  Frame(i, p) \in Held
    BY Zenon DEF PagesAccounted
  <2>1. p \in Managed(segments[i])
    BY Zenon DEF Managed
  <2>2. p \in bitmap[i]
    BY Zenon, <2>1, SegmentFacts DEF FreePages
  <2>3. \E c \in Core : Frame(i, p) \in held[c]
    BY Zenon, <2>1, <2>2 DEF IInv, NoneLost
  <2> QED
    BY Zenon, <2>3 DEF Held
<1> QED
  BY <1>1, Invariance, PTL

(* phys.rs implements FrameAllocator: a frame has one holder, it is usable
   memory, pfree makes it allocatable again, and palloc returns None only when
   every frame is held. *)
THEOREM Refinement == Spec => Implements
<1>1. Init => Abstract!Init
  <2> SUFFICES ASSUME Init PROVE Abstract!Init
    BY Zenon
  <2>1. FreeFrames = {}
    BY DEF Init, FreeFrames
  <2> QED
    BY Zenon, <2>1 DEF Init, Abstract!Init
<1>2. IInv /\ IInv' /\ [Next]_vars => [Abstract!Next]_(Abstract!vars)
  <2> SUFFICES ASSUME IInv, IInv', [Next]_vars
               PROVE  Abstract!Next \/ UNCHANGED Abstract!vars
    BY Zenon
  <2>1. ASSUME mmap' = mmap PROVE Usable' = Usable
    BY Zenon, <2>1 DEF Usable
  <2>2. ASSUME UNCHANGED <<segments, bitmap>> PROVE FreeFrames' = FreeFrames
    BY <2>2 DEF FreeFrames, Frame, FreePages
  <2>3. CASE Boot
    <3>1. phase = "boot" /\ mmap' = mmap /\ held' = held /\ none' = none
      BY Zenon, <2>3 DEF Boot
    <3>2. CASE phase' = "ready"
      <4>1. \A f \in FreeFrames' : f \in Usable'
        <5> SUFFICES ASSUME NEW f \in FreeFrames' PROVE f \in Usable'
          BY Zenon
        <5>1. PICK i \in DOMAIN segments' : \E p \in FreePages(i)' : f = Frame(i, p)'
          BY Zenon DEF FreeFrames
        <5>2. PICK p \in FreePages(i)' : f = Frame(i, p)'
          BY Zenon, <5>1
        <5>3. p \in 0..(Pages(segments'[i]) - 1)
          <6>1. segments'[i] \in Segment
            BY DEF IInv, Placed
          <6>2. p \in Managed(segments'[i])
            BY Zenon DEF IInv, Bitmaps
          <6> QED
            BY Zenon, <6>1, <6>2, ManagedPages
        <5> QED
          BY Zenon, <5>2, <5>3 DEF IInv, Placed, Frame, Usable
      <4> QED
        BY Zenon, <2>1, <3>1, <3>2, <4>1 DEF Abstract!Next, Abstract!Boot
    <3>3. CASE phase' # "ready"
      <4>1. UNCHANGED <<segments, bitmap>>
        BY Zenon, <2>3, <3>3 DEF Boot
      <4> QED
        BY Zenon, <2>1, <2>2, <3>1, <3>3, <4>1 DEF Abstract!vars
    <3> QED
      BY Zenon, <3>2, <3>3
  <2>4. ASSUME NEW c \in Core, palloc(c) PROVE Abstract!Next
    <3>1. phase = "ready" /\ phase' = "ready" /\ mmap' = mmap
      BY Zenon, <2>4 DEF palloc
    <3>2. CASE /\ FreeFrames = {}
               /\ none' = none \cup {c}
               /\ UNCHANGED <<phase, mmap, segments, header, bitmap, held>>
      <4>1. Abstract!AllocFails(c)
        BY Zenon, <2>1, <2>2, <3>1, <3>2 DEF Abstract!AllocFails
      <4> QED
        BY Zenon, <4>1 DEF Abstract!Next
    <3>3. ASSUME NEW i, NEW p, Takes(c, i, p), none' = none \ {c} PROVE Abstract!Next
      <4>1. none' \subseteq Core
        BY Zenon DEF IInv, Types
      <4>2. Frame(i, p) \in FreeFrames /\ FreeFrames' = FreeFrames \ {Frame(i, p)}
        BY Zenon, <3>3, <4>1, TakesInv
      <4>3. held' = [held EXCEPT ![c] = @ \cup {Frame(i, p)}]
        BY Zenon, <3>3 DEF Takes
      <4>4. Abstract!Alloc(c)
        BY Zenon, <2>1, <3>1, <3>3, <4>2, <4>3 DEF Abstract!Alloc
      <4> QED
        BY Zenon, <4>4 DEF Abstract!Next
    <3> QED
      BY Zenon, <2>4, <3>2, <3>3, PallocTakes
  <2>5. ASSUME NEW c \in Core, pfree(c) PROVE Abstract!Next
    <3>1. PICK i, p : Gives(c, i, p) /\ none' = none
      BY Zenon, <2>5, PfreeGives
    <3>2. none' \subseteq Core
      BY Zenon DEF IInv, Types
    <3>3. Frame(i, p) \in held[c] /\ FreeFrames' = FreeFrames \cup {Frame(i, p)}
      BY Zenon, <3>1, <3>2, GivesInv
    <3>4. held' = [held EXCEPT ![c] = @ \ {Frame(i, p)}] /\ mmap' = mmap /\ phase' = phase
      BY Zenon, <3>1 DEF Gives
    <3>5. Abstract!Free(c)
      BY Zenon, <2>1, <3>1, <3>3, <3>4 DEF Abstract!Free
    <3> QED
      BY Zenon, <3>5 DEF Abstract!Next
  <2>6. CASE UNCHANGED vars
    <3>1. UNCHANGED <<segments, bitmap, mmap, phase, held, none>>
      BY Zenon, <2>6 DEF vars
    <3> QED
      BY Zenon, <2>1, <2>2, <3>1 DEF Abstract!vars
  <2> QED
    BY Zenon, <2>3, <2>4, <2>5, <2>6 DEF Next
<1> QED
  BY <1>1, <1>2, Invariance, PTL DEF Spec, Implements, Abstract!Spec
=============================================================================
