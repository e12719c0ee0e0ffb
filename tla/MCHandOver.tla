------------------------------ MODULE MCHandOver ------------------------------
(***************************************************************************)
(* An instance of the hand-off: two requests and two reports, and vector   *)
(* tables at both sides of every boundary of the image check.              *)
(***************************************************************************)
EXTENDS HandOver

MCRequests == {[command |-> "SWAP", arg |-> "TEST"], [command |-> "CONFIRM", arg |-> "NONE"]}

MCAcks == {[status |-> "OK", req_cmd |-> "NOT_REQUESTED", detail |-> 9],
           [status |-> "ERR_IMAGE", req_cmd |-> "SWAP", detail |-> 0]}

\* What the linker scripts of bootloader and application leave for the stack.
LinkedTop == BOOT_MAILBOX_ADDRESS

MCStackTops == {Erased, <<8191, 65528>>, BOOT_RAM_BASE, <<8192, 40924>>, LinkedTop, <<8192, 40968>>}

MCHandlers == {Erased, <<0, 65535>>, <<1, 1>>, <<1, 2>>, <<2, 32767>>, <<2, 32769>>, <<3, 1>>}

MCImages == [sp : MCStackTops, pc : MCHandlers]

===============================================================================
