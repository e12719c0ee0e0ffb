------------------------------ MODULE MCContents ------------------------------
(***************************************************************************)
(* Contents for model checking: two images, an erased sector, and a        *)
(* half-programmed one that already starts with a usable vector table.     *)
(* A slot has the three sectors of the RA6E2, or fewer.                    *)
(***************************************************************************)
EXTENDS BootLayout

MCData == {"a0", "a1", "a2", "b0", "b1", "b2", "blank", "half"}

MCBootable == {"a0", "b0", "half"}

MCDebris == {"blank", "half"}

MCMisprogrammed == {"half"}

SlotOf(s0, s1, s2) == [i \in Sectors |-> CASE i = 0 -> s0 [] i = 1 -> s1 [] OTHER -> s2]

ImageA == SlotOf("a0", "a1", "a2")
ImageB == SlotOf("b0", "b1", "b2")
ErasedSlot == SlotOf("blank", "blank", "blank")

MCImages == {ImageA, ImageB, ErasedSlot}
MCWholeImages == {ImageA, ImageB}

\* A different number for every slot: no two of them share a fingerprint.
Digit == [d \in MCData |->
            CASE d = "a0" -> 0 [] d = "a1" -> 1 [] d = "a2" -> 2
              [] d = "b0" -> 3 [] d = "b1" -> 4 [] d = "b2" -> 5
              [] d = "blank" -> 6 [] d = "half" -> 7]

DigitAt(slot, i) == IF i \in Sectors THEN Digit[slot[i]] ELSE 0

MCCrc32(slot) == DigitAt(slot, 0) + 8 * DigitAt(slot, 1) + 64 * DigitAt(slot, 2)

===============================================================================
