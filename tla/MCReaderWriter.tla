--------------------------- MODULE MCReaderWriter ---------------------------
(* Four threads (NTHREADS), each reader or writer as it likes, for the reader-writer   *)
(* lock alone: two readers and a writer, or two writers and a reader, meet.  *)
EXTENDS ReaderWriter

CONSTANTS t1, t2, t3, t4
MCThreads == {t1, t2, t3, t4}
=============================================================================
