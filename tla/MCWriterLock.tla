---------------------------- MODULE MCWriterLock ----------------------------
(* The instance of WriterLock for TLC: two processes and two file names.    *)
EXTENDS WriterLockProps
=============================================================================
