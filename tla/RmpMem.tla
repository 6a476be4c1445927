------------------------------- MODULE RmpMem -------------------------------
(***************************************************************************)
(* The memory allocator: RMP_Mem_Init, RMP_Malloc, RMP_Free, RMP_Realloc   *)
(* and their helpers.  A pool is cut into blocks, each with a head before  *)
(* its payload and a tail behind it that points to each other; free blocks *)
(* are on lists by size class (two-level segregated fit).  The pool is a   *)
(* record m, each helper of the source an operator from such a record to   *)
(* the next.  Addresses are offsets from the beginning of the pool.        *)
(***************************************************************************)
EXTENDS Integers, SequencesExt

CONSTANTS
    B,          \* sizeof(rmp_ptr_t): 1 or 2 where a char has 16 bits
    Bits,       \* RMP_WORD_SIZE, bits of a word
    PoolSize,   \* size given to RMP_Mem_Init
    Requests,   \* bound: sizes given to RMP_Malloc and RMP_Realloc
    LiveMax     \* bound: allocations at a time

\* sizeof: struct RMP_Mem_Head, RMP_Mem_Tail, RMP_Mem and RMP_List.
Head_Size == 4 * B
Tail_Size == B
Mem_Size  == 5 * B
List_Size == 2 * B

\* Arithmetic on sizes is modulo W.
W == 2^Bits

ASSUME MemAssumption ==
    /\ B \in {1, 2, 4} /\ Bits \in {16, 32}
    /\ PoolSize \in Nat /\ PoolSize % B = 0
    /\ 1024 * B <= PoolSize /\ PoolSize < W
    /\ Requests \subseteq 0..(W - 1)
    /\ LiveMax \in Nat

\* RMP_MSB_GET of a value that is not 0, by what it returns (see RmpLib).
MSB(n) == CHOOSE i \in 0..(Bits - 1) : 2^i <= n /\ n < 2^(i + 1)

\* RMP_ROUND_UP(Size, 3), which wraps, and at least 64.
Rounded(n) ==
    LET r == (((n + 7) % W) \div 8) * 8
    IN  IF r > 64 THEN r ELSE 64

\* The smallest residue that becomes a block.
Block_Min == Head_Size + 64 + Tail_Size

FLI_Num == MSB(PoolSize - Mem_Size) - 5
Levels == 0..(8 * FLI_Num - 1)

\* Mem->Base: behind the control block, its bitmap and its table of lists.
Base ==
    LET words == (8 * FLI_Num + Bits - 1) \div Bits
    IN  Mem_Size + B * words - B + List_Size * 8 * FLI_Num

\* Number of the list of free blocks with a payload of n bytes.
FLI(n) == MSB(n) - 6
Unit(n) == 2^(FLI(n) + 3)
SLI(n) == (n \div Unit(n)) % 8
Level(n) == 8 * FLI(n) + SLI(n)

\* tail, back: Mem_Head->Tail, and Head of the tail at an address; used: the
\* heads in state RMP_MEM_USED; table: the free lists; bitmap: its bits that
\* are set.  A head that was merged away keeps its words.
Empty_Pool ==
    [tail |-> <<>>, back |-> <<>>, used |-> {},
     table |-> [l \in Levels |-> <<>>], bitmap |-> {}]

Payload(m, h) == m.tail[h] - h - Head_Size
End(m, h) == m.tail[h] + Tail_Size

\* Memory f after v is written to x.
Write(f, x, v) == [y \in DOMAIN f \cup {x} |-> IF y = x THEN v ELSE f[y]]

\* _RMP_Mem_Block
Mem_Block(m, h, size) ==
    LET t == h + size - Tail_Size
    IN  [m EXCEPT !.used = @ \ {h},
                  !.tail = Write(@, h, t), !.back = Write(@, t, h)]

\* Mark the block as in use.
Mem_Used(m, h) == [m EXCEPT !.used = @ \cup {h}]

\* _RMP_Mem_Ins: at the front of its list.
Mem_Ins(m, h) ==
    LET l == Level(Payload(m, h))
    IN  [m EXCEPT !.table[l] = <<h>> \o @, !.bitmap = @ \cup {l}]

\* Mutant: the bit of a list that became empty stays set.
Mem_Del_Bit(m, h) ==
    [m EXCEPT !.table[Level(Payload(m, h))] = RemoveFirst(@, h)]

\* _RMP_Mem_Del
Mem_Del(m, h) ==
    LET l == Level(Payload(m, h))
    IN  [m EXCEPT !.table[l] = RemoveFirst(@, h),
                  !.bitmap = IF m.table[l] = <<h>> THEN @ \ {l} ELSE @]

\* Mutant: the next class also for the smallest size of a class.
Mem_Search_Next(m, n) == {j \in m.bitmap : j > Level(n)}

\* _RMP_Mem_Search: the lists with a block that is certainly large enough;
\* the first of them is taken.  The class of the size itself is one only if
\* the size is the smallest of its class.
Mem_Search(m, n) ==
    LET exact == n = Unit(n) * (SLI(n) + 8)
        first == IF exact THEN Level(n) ELSE Level(n) + 1
    IN  {j \in m.bitmap : j >= first}

\* Block h of n bytes in use; what is left up to address end, a block of its
\* own if it is large enough, is free.
Split(m, h, n, end) ==
    LET size == Head_Size + n + Tail_Size
    IN  Mem_Used(Mem_Ins(Mem_Block(Mem_Block(m, h, size), h + size, end - h - size),
                         h + size), h)

NULL == 0
Ptr(h) == h + Head_Size
Head_Of(p) == p - Head_Size

\* RMP_Malloc: the pool afterwards and the pointer returned.
Malloc(m, n) ==
    LET r == Rounded(n)
        fit == Mem_Search(m, r)
        h == Head(m.table[Min(fit)])
        off == Mem_Del(m, h)
    IN  IF n = 0 \/ fit = {} THEN [pool |-> m, ptr |-> NULL]
        ELSE [ptr |-> Ptr(h),
              pool |-> IF Payload(m, h) - r >= Block_Min
                       THEN Split(off, h, r, End(m, h)) ELSE Mem_Used(off, h)]

\* Whether a block begins behind h and is free.
Right_Free(m, h) == End(m, h) # PoolSize /\ End(m, h) \notin m.used

\* Mutant: the left neighbour is not looked at.
Free_Right(m, p) ==
    LET h == Head_Of(p)
        rgt == End(m, h)
        one == [m EXCEPT !.used = @ \ {h}]
    IN  Mem_Ins(IF ~Right_Free(m, h) THEN one
                ELSE Mem_Block(Mem_Del(one, rgt), h, End(m, rgt) - h), h)

\* RMP_Free of a pointer that RMP_Malloc returned: merged with the block to
\* the right if that is free, then with the one to the left.
Free(m, p) ==
    LET h == Head_Of(p)
        rgt == End(m, h)
        one == [m EXCEPT !.used = @ \ {h}]
        two == IF ~Right_Free(m, h) THEN one
               ELSE Mem_Block(Mem_Del(one, rgt), h, End(m, rgt) - h)
        lft == m.back[h - Tail_Size]
    IN  IF h = Base \/ lft \in m.used THEN Mem_Ins(two, h)
        ELSE Mem_Ins(Mem_Block(Mem_Del(two, lft), lft, End(two, h) - lft), lft)

\* RMP_Realloc of such a pointer to n # 0 bytes that stays in place: into the
\* right neighbour if that is free, or giving the rest back.
Fits(m, h, r) ==
    \/ r <= Payload(m, h)
    \/ Right_Free(m, h) /\ r <= m.tail[End(m, h)] - Ptr(h)
Resize(m, h, r) ==
    LET rgt == End(m, h)
        end == IF Right_Free(m, h) THEN End(m, rgt) ELSE rgt
        off == IF Right_Free(m, h) THEN Mem_Del(m, rgt) ELSE m
    IN  IF r = Payload(m, h) THEN m
        ELSE IF end - Tail_Size - Ptr(h) - r >= Block_Min THEN Split(off, h, r, end)
        ELSE IF r < Payload(m, h) THEN m
        ELSE Mem_Used(Mem_Block(off, h, end - h), h)

\* Mutant: a block that cannot grow is freed first and allocated again.
Realloc_Free(m, p, n) ==
    LET h == Head_Of(p)
        new == Malloc(Free(m, p), Rounded(n))
    IN  IF p = NULL THEN Malloc(m, n)
        ELSE IF n = 0 THEN [pool |-> Free(m, p), ptr |-> NULL]
        ELSE IF Fits(m, h, Rounded(n))
        THEN [pool |-> Resize(m, h, Rounded(n)), ptr |-> p]
        ELSE new

\* RMP_Realloc: if there is no memory, the old block is left alone.  The copy
\* of the old content into a new block is left out.
Realloc(m, p, n) ==
    LET h == Head_Of(p)
        new == Malloc(m, Rounded(n))
    IN  IF p = NULL THEN Malloc(m, n)
        ELSE IF n = 0 THEN [pool |-> Free(m, p), ptr |-> NULL]
        ELSE IF Fits(m, h, Rounded(n))
        THEN [pool |-> Resize(m, h, Rounded(n)), ptr |-> p]
        ELSE IF new.ptr = NULL THEN [pool |-> m, ptr |-> NULL]
        ELSE [pool |-> Free(new.pool, p), ptr |-> new.ptr]

----------------------------------------------------------------------------
VARIABLES
    m,      \* the pool
    user    \* what the user holds: for each pointer the size asked for

mvars == <<m, user>>

\* RMP_Mem_Init of a pool it does not refuse: one free block.
MemInit ==
    /\ m = Mem_Ins(Mem_Block(Empty_Pool, Base, PoolSize - Base), Base)
    /\ user = <<>>

Without(p) == Restrict(user, DOMAIN user \ {p})

Do_Malloc(n) ==
    /\ Cardinality(DOMAIN user) < LiveMax
    /\ LET r == Malloc(m, n)
       IN  /\ m' = r.pool
           /\ user' = IF r.ptr = NULL THEN user ELSE Write(user, r.ptr, n)

Do_Free(p) ==
    /\ p \in DOMAIN user
    /\ m' = Free(m, p)
    /\ user' = Without(p)

Do_Realloc(p, n) ==
    /\ p \in DOMAIN user \/ (p = NULL /\ Cardinality(DOMAIN user) < LiveMax)
    /\ LET r == Realloc(m, p, n)
       IN  /\ m' = r.pool
           /\ user' = IF p # NULL /\ n = 0 THEN Without(p)
                      ELSE IF r.ptr = NULL THEN user
                      ELSE Write(Without(p), r.ptr, n)

MemNext ==
    \E n \in Requests :
       \/ Do_Malloc(n)
       \/ \E p \in DOMAIN user : Do_Free(p)
       \/ \E p \in DOMAIN user \cup {NULL} : Do_Realloc(p, n)
MemSpec == MemInit /\ [][MemNext]_mvars

----------------------------------------------------------------------------
(* What makes the allocator correct.                                       *)

\* The heads of the blocks: one at the base of the pool, and each other one
\* where a block ends.  There is room for no more than one in 64 bytes.
Blocks ==
    LET reach[i \in 0..(PoolSize \div 64)] ==
            IF i = 0 THEN {Base}
            ELSE LET q == reach[i - 1]
                 IN  q \cup {x \in {End(m, h) : h \in q} : x < PoolSize}
    IN  reach[PoolSize \div 64]
Free_Blocks == Blocks \ m.used

\* However allocations, releases and resizes follow each other, the blocks
\* tile the pool, heads and tails point to each other, and the free lists and
\* the bitmap hold exactly the free blocks, each in the class of its size.
PoolExact ==
    /\ \A h \in Blocks : /\ m.back[m.tail[h]] = h /\ Payload(m, h) >= 64
                         /\ End(m, h) \in Blocks \cup {PoolSize}
    /\ LET free == Free_Blocks
       IN  \A l \in Levels :
              /\ ToSet(m.table[l]) = {h \in free : Level(Payload(m, h)) = l}
              /\ IsInjective(m.table[l])
              /\ l \in m.bitmap <=> m.table[l] # <<>>

\* No two free blocks are neighbours: when everything has been freed, the
\* pool is one block again.
Coalesced ==
    LET free == Free_Blocks IN \A h \in free : End(m, h) \notin free

\* What the user holds are exactly the used blocks, each aligned and at least
\* as large as asked for: no allocation is forgotten or handed out twice when
\* a resize fails, moves or stays.  Excepted are sizes so close to 2^w that
\* rounding them up wraps to a small one.
AllocSound ==
    /\ {Head_Of(p) : p \in DOMAIN user} = Blocks \cap m.used
    /\ \A p \in DOMAIN user :
          p % B = 0 /\ (user[p] <= W - 8 => Payload(m, Head_Of(p)) >= user[p])

\* An allocation fails only if every free block is smaller than the rounded
\* size, itself rounded up to an eighth of its power of two: searching classes
\* instead of blocks costs no more than that, and nothing for sizes at which a
\* class begins.
FailsOnlyIfScarce ==
    LET free == Free_Blocks
    IN  \A n \in Requests \ {0} :
           LET unit == Unit(Rounded(n))
               enough == ((Rounded(n) + unit - 1) \div unit) * unit
           IN  Malloc(m, n).ptr = NULL => \A h \in free : Payload(m, h) < enough
============================================================================
