------------------------------- MODULE HandOver -------------------------------
(***************************************************************************)
(* The hand-off at the end of a boot, as a whole: the image check, the     *)
(* acknowledgement in the mailbox, the jump, and the first things the      *)
(* application does, on the stack its vector table names.                  *)
(*                                                                         *)
(* Everything hal_entry() does before, but for the mailbox, is in          *)
(* Bootloader.  What it leaves in the primary slot is any vector table.    *)
(***************************************************************************)
EXTENDS BootMailbox, BootJump

CONSTANT Images   \* vector tables, records [sp, pc]

ASSUME ImageAssumption == Images \subseteq [sp : Word, pc : Word]

VARIABLE image    \* the one in the primary slot that passed the check

NoImage == [sp |-> Erased, pc |-> Erased]

hand_over_vars == <<mail_vars, jump_vars, image>>

Bootloading == BootMailboxStep /\ UNCHANGED <<jump_vars, image>>

\* A driver the bootloader uses has enabled some of its lines.
UseDriver ==
  /\ place = "working"
  /\ \E line \in Lines : Enable(line)
  /\ UNCHANGED <<mail_vars, image>>

ReportBoot ==
  /\ image' \in {i \in Images : boot_primary_image_ok(i.sp, i.pc)}
  /\ \E a \in Acks : BeginReport(a, "reporting")
  /\ UNCHANGED jump_vars

ReportNoImage ==
  /\ \E i \in Images : ~ boot_primary_image_ok(i.sp, i.pc)
  /\ \E a \in Acks : a.status = "ERR_IMAGE" /\ a.detail = 0 /\ BeginReport(a, "trapping")
  /\ UNCHANGED <<jump_vars, image>>

JumpToPrimary ==
  /\ place = "reporting" /\ stores = << >>
  /\ place' = "jump"
  /\ Quiesce
  /\ UNCHANGED <<mailbox, stores, asked, report, last, image>>

boot_fatal ==
  /\ place = "trapping" /\ stores = << >>
  /\ place' = "fatal"
  /\ UNCHANGED <<mailbox, stores, asked, report, last, jump_vars, image>>

\* Where the words of the mailbox lie, in bytes from its address.
Offset == [f \in Fields |->
             CASE f = "magic" -> 0 [] f \in {"command", "arg"} -> 4 [] f = "check" -> 8
               [] f = "ack_magic" -> 12 [] f \in {"status", "req_cmd", "detail"} -> 16
               [] f = "ack_check" -> 20 [] f = "spare" -> 24]

\* The branch, and the application's start-up: its stack grows down from where its vector table says.
Start ==
  /\ place = "jump" /\ place' = "app"
  /\ Branch(image.sp, image.pc)
  /\ mailbox' = [f \in Fields |->
                   IF Below(AddTo(BOOT_MAILBOX_ADDRESS, Offset[f]), image.sp) THEN Junk ELSE mailbox[f]]
  /\ UNCHANGED <<stores, asked, report, last, image>>

-------------------------------------------------------------------------------

Application == (AppAsk \/ AppStore) /\ UNCHANGED <<jump_vars, image>>

\* A line raised before is still pending when the jump begins.
Peripherals ==
  /\ place = "jump" \/ (place = "reporting" /\ stores = << >>)
  /\ \E line \in Lines : Raise(line)
  /\ UNCHANGED <<mail_vars, image>>

Reset ==
  /\ MailboxReset
  /\ core' = ResetCore /\ raised' = {}
  /\ image' = NoImage

Init ==
  /\ MailboxInit
  /\ core = ResetCore /\ raised = {}
  /\ image = NoImage

Next ==
  \/ Bootloading \/ UseDriver \/ ReportBoot \/ ReportNoImage \/ JumpToPrimary \/ boot_fatal \/ Start
  \/ Application \/ Peripherals \/ Reset

Spec == Init /\ [][Next]_hand_over_vars

HandOverTypeOK ==
  /\ MailboxTypeOK
  /\ core.enabled \subseteq Lines /\ raised \subseteq Lines
  /\ image \in Images \cup {NoImage}

-------------------------------------------------------------------------------

(* The mailbox implements the handshake, whatever is cut off between two   *)
(* of its stores.                                                          *)
Hand == INSTANCE Handshake
          WITH turn    <- IF place \in {"app", "fatal"} THEN "app" ELSE "boot",
               request <- IF boot_mailbox_pending THEN Request ELSE NoRequest,
               ack     <- IF place \in {"app", "fatal"} THEN Ack ELSE NoAck

HandshakeSpec == Hand!Spec

(* The application can read the report of the boot that started it for as  *)
(* long as it runs: it is complete before the jump, and no stack grows     *)
(* over it (boot_mailbox.h: "it is never used as stack/heap/.bss").        *)
AckOfThisBoot == place = "app" => boot_mailbox_ack_valid /\ Ack = report

(* From the moment the vector table is the application's until its reset   *)
(* handler runs, no interrupt can be taken: it would run a handler of an   *)
(* application that has not been started (boot_jump.c: "Leave the core in  *)
(* a reset-like state").                                                   *)
NoStrayInterrupt ==
  Quiesced => core.primask \/ core.enabled \cap raised = {}

(* What is started can start: an aligned stack inside RAM, no stack limit  *)
(* of the bootloader, and a handler inside the primary slot                *)
(* (boot_layout.h, boot_image_ok_at; boot_jump.c).                         *)
StartsInPrimary ==
  Started =>
    /\ core.msplim = "none" /\ core.control = 0 /\ core.vtor = "application"
    /\ Distance(BOOT_RAM_BASE, core.sp) \in 0 .. BOOT_RAM_SIZE
    /\ core.sp[2] % 8 = 0
    /\ Distance(BOOT_PRIMARY_BASE, core.pc) \in 0 .. BOOT_PRIMARY_SIZE - 2

===============================================================================
