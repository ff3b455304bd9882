--------------------------- MODULE MCRecordHistory ---------------------------
EXTENDS RecordHistory
=============================================================================
