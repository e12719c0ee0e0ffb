------------------------------ MODULE MCBootFlash ------------------------------
\* The map of the RA6E2 in units of 4 KB of code flash and of 4 bytes of data flash.
EXTENDS BootFlash
===============================================================================
