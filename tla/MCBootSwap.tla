---------------------------- MODULE MCBootSwap ----------------------------
\* An instance of the swap engine on small slots.
EXTENDS BootSwap, MCContents

===============================================================================
