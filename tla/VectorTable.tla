------------------------------ MODULE VectorTable ------------------------------
(***************************************************************************)
(* The two words at the head of an image, and boot_image_ok_at() with the  *)
(* addresses of the RA6E2 (boot_layout.h).  A 32-bit word is the pair of   *)
(* its halves, <<high, low>>, compared like the unsigned number it is.     *)
(***************************************************************************)
EXTENDS Integers

Half == {n \in Nat : n < 65536}

Word == Half \X Half

Below(w, v) == w[1] < v[1] \/ (w[1] = v[1] /\ w[2] < v[2])

AddTo(w, n) == <<w[1] + (w[2] + n) \div 65536, (w[2] + n) % 65536>>

\* How far w lies above base; for addresses of this part, less than 2^31 apart.
Distance(base, w) == 65536 * (w[1] - base[1]) + w[2] - base[2]

Erased == <<65535, 65535>>

BOOT_PRIMARY_BASE == <<1, 0>>            \* 0x00010000
BOOT_PRIMARY_SIZE == 98304               \* 0x00018000
BOOT_RAM_BASE == <<8192, 0>>         \* 0x20000000
BOOT_RAM_SIZE == 40960               \* 0x0000A000
BOOT_MAILBOX_RESERVE == 32
BOOT_MAILBOX_ADDRESS == AddTo(BOOT_RAM_BASE, BOOT_RAM_SIZE - BOOT_MAILBOX_RESERVE)

RamEnd == AddTo(BOOT_RAM_BASE, BOOT_RAM_SIZE)

\* A reset handler is a Thumb address: the instruction is at the even one.
Handler(pc) == <<pc[1], pc[2] - (pc[2] % 2)>>

\* Mutant: a handler just behind the slot is accepted.
boot_image_ok_at_end_accepted(sp, pc, link_base, size) ==
  /\ sp # Erased /\ pc # Erased
  /\ ~ Below(sp, BOOT_RAM_BASE) /\ ~ Below(RamEnd, sp) /\ sp[2] % 8 = 0
  /\ pc[2] % 2 = 1
  /\ ~ Below(Handler(pc), link_base) /\ ~ Below(AddTo(link_base, size), Handler(pc))

boot_image_ok_at(sp, pc, link_base, size) ==
  /\ sp # Erased /\ pc # Erased
  /\ ~ Below(sp, BOOT_RAM_BASE) /\ ~ Below(RamEnd, sp) /\ sp[2] % 8 = 0
  /\ pc[2] % 2 = 1
  /\ ~ Below(Handler(pc), link_base) /\ Below(Handler(pc), AddTo(link_base, size))

boot_primary_image_ok(sp, pc) == boot_image_ok_at(sp, pc, BOOT_PRIMARY_BASE, BOOT_PRIMARY_SIZE)

===============================================================================
