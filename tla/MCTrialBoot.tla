---------------------------- MODULE MCTrialBoot ----------------------------
\* An instance of trial boots, followed with their history on small slots.
EXTENDS TrialBoot, MCContents

===============================================================================
