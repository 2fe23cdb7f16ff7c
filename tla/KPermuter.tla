----------------------------- MODULE KPermuter -----------------------------
(***************************************************************************)
(* The permuter of masstree/kpermuter.hh: a leaf keeps its keys in the     *)
(* order they came, and one word says which positions are in use and in    *)
(* which order.  The low nibble of the word is the number of keys, nibble  *)
(* i + 1 is the position of the i-th key; the positions after the last key *)
(* are free, and the next to be used is the one at the back.               *)
(*                                                                         *)
(* The word is modelled as the number it is.  Leaves here have three keys  *)
(* and a 16-bit word (sized_kpermuter_info<0>), which they fill as the 15  *)
(* keys of the engine's leaves fill one of 64 bits.  The calculation has   *)
(* 32 bits, which what is shifted out at the top never reaches.            *)
(***************************************************************************)
EXTENDS Integers

WordBits == 65536       \* storage_type is uint16_t
LeafWidth == 3          \* bound: kpermuter<width>, equal to max_width as in the engine
InitialValue == 288     \* 0x0120
FullValue == 8448       \* 0x2100

(* x & ((16 << (i << 2)) - 1): the size and the first i positions. *)
Low(x, i) == x % (16 ^ (i + 1))
High(x, i) == x - Low(x, i)

Size(x) == x % 16
At(x, i) == (x \div (16 ^ (i + 1))) % 16
Back(x) == At(x, LeafWidth - 1)
Stored(x) == x % WordBits

MakeEmpty == High(InitialValue, 0)

MakeSorted(n) == MakeEmpty * (16 ^ n) + Low(FullValue, n) + n

SetSize(x, n) == High(x, 0) + n

InsertFromBack(x, i) ==
    Low(x + 1, i) + Back(x) * (16 ^ (i + 1)) + High(x * 16, i + 1)

MutRemove(x, i) == x - 1
Remove(x, i) ==
    IF Size(x) = i + 1 THEN x - 1
    ELSE LET above == Size(x)       \* rot_mask covers the positions i .. Size(x) - 1
             rot == (Low(x, above) - Low(x, i)) \div (16 ^ (i + 1))
             wide == above - i
         IN  High(x, above) + Low(x - 1, i)
             + (rot \div 16 + (rot % 16) * (16 ^ (wide - 1))) * (16 ^ (i + 1))

RemoveToBack(x, i) ==
    LET y == Low(x, LeafWidth)
    IN  Low(y - 1, i) + High(y \div 16, i) + High(y, i) * (16 ^ (LeafWidth - i - 1))

Exchange(x, i, j) ==
    x + (At(x, j) - At(x, i)) * (16 ^ (i + 1)) + (At(x, i) - At(x, j)) * (16 ^ (j + 1))

(* The positions in use, in the order of their keys. *)
Used(x) == { At(x, i) : i \in 0 .. Size(x) - 1 }
============================================================================
