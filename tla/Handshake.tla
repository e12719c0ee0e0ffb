------------------------------- MODULE Handshake -------------------------------
(***************************************************************************)
(* What the RAM mailbox promises the two programs that share it and never  *)
(* run at the same time (boot_mailbox.h, the comment at its head): a       *)
(* request is seen whole, by one boot only, and an application always      *)
(* finds the whole report of the boot that started it.                     *)
(***************************************************************************)
CONSTANTS
  Requests,   \* what an application may ask for
  Acks,       \* what a boot may report
  NoRequest, NoAck   \* neither is one of them

VARIABLES
  turn,       \* "boot": the bootloader has the core, "app": it has finished with it
  request, ack

hand_vars == <<turn, request, ack>>

Init ==
  /\ turn = "boot"
  /\ request = NoRequest
  /\ ack = NoAck

Consume ==
  /\ turn = "boot"
  /\ request' = NoRequest
  /\ UNCHANGED <<turn, ack>>

\* The bootloader never hands over with a request still there.
HandOver ==
  /\ turn = "boot" /\ request = NoRequest
  /\ turn' = "app"
  /\ ack' \in Acks
  /\ UNCHANGED request

\* A request is made, replaced or withdrawn.
Ask ==
  /\ turn = "app"
  /\ request' \in Requests \cup {NoRequest}
  /\ UNCHANGED <<turn, ack>>

\* A warm reset keeps the request, a cold one may lose it.
Reset ==
  /\ turn' = "boot"
  /\ request' \in {request, NoRequest}
  /\ ack' = NoAck

Next == Consume \/ HandOver \/ Ask \/ Reset

Spec == Init /\ [][Next]_hand_vars

===============================================================================
