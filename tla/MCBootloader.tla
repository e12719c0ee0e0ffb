---------------------------- MODULE MCBootloader ----------------------------
\* An instance of the boot sequence on small slots.
EXTENDS Bootloader, MCContents

===============================================================================
