----------------------------- MODULE MCRecordCodec -----------------------------
\* An instance of the record codec: one fingerprint, of the text 123456789.
EXTENDS RecordCodec

MCCrcs == {<<38, 57, 244, 203>>}

\* None of the interrupted word, its low or its high half, and all of it.
MCTornWords == {{}, {1, 2}, {3, 4}, 1 .. 4}

===============================================================================
