------------------------------- MODULE BootJump -------------------------------
(***************************************************************************)
(* boot_jump_to_primary(): from the bootloader's last instruction to the   *)
(* first one of the application (boot_jump.c).                             *)
(*                                                                         *)
(* Between __disable_irq() and __enable_irq() nothing but a reset can come *)
(* in, so what lies between them is one step; the branch behind them is    *)
(* another.  Peripherals raise their lines at any time.  SysTick is never  *)
(* started before the application runs, and its stores are left out.       *)
(***************************************************************************)
EXTENDS VectorTable, FiniteSets

CONSTANTS
  BOOT_NVIC_REG_COUNT,   \* interrupt enable (and pending) registers that are cleared
  LinesPerRegister,      \* 32 on the core
  Lines                  \* lines a driver of the bootloader may have enabled

\* "covers all Cortex-M33 external interrupts": true of the 96 lines of this part.
ASSUME LinesAssumption ==
  /\ BOOT_NVIC_REG_COUNT \in Nat /\ LinesPerRegister \in Nat \ {0}
  /\ Lines \subseteq 0 .. BOOT_NVIC_REG_COUNT * LinesPerRegister - 1

VARIABLES
  core,     \* the core registers a hand-off changes
  raised    \* lines pending in the interrupt controller

jump_vars == <<core, raised>>

\* Out of reset; the start-up code has set the stack limit.
ResetCore == [primask |-> FALSE, enabled |-> {}, vtor |-> "bootloader",
              msplim |-> "bootloader", control |-> 0, sp |-> Erased, pc |-> Erased]

\* Mutant: the line after it is enabled.
Enable_next(line) == core' = [core EXCEPT !.enabled = @ \cup {line + 1}] /\ UNCHANGED raised

Enable(line) == core' = [core EXCEPT !.enabled = @ \cup {line}] /\ UNCHANGED raised

Raise(line) == raised' = raised \cup {line} /\ UNCHANGED core

\* Mutant: the last register is not cleared.
StillSet_last_register_kept(lines) ==
  {l \in lines : l \div LinesPerRegister >= BOOT_NVIC_REG_COUNT - 1}

\* Registers 0 .. BOOT_NVIC_REG_COUNT - 1 of ICER, and of ICPR, are written with ones.
StillSet(lines) == {l \in lines : l \div LinesPerRegister >= BOOT_NVIC_REG_COUNT}

Quiesce ==
  /\ core' = [core EXCEPT !.enabled = StillSet(@), !.vtor = "application",
                          !.msplim = "none", !.control = 0, !.primask = FALSE]
  /\ raised' = StillSet(raised)

Branch(sp, pc) ==
  /\ core' = [core EXCEPT !.sp = sp, !.pc = Handler(pc)]
  /\ UNCHANGED raised

Quiesced == core.vtor = "application"

Started == core.pc # Erased

===============================================================================
