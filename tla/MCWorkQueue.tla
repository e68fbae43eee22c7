---------------------------- MODULE MCWorkQueue ----------------------------
(***************************************************************************)
(* The work queue on two rows, which may be of one file, and two threads.  *)
(***************************************************************************)
EXTENDS WorkQueue

CONSTANTS e1, e2, t1, t2

MCEvent == {e1, e2}
MCProducer == {t1, t2}
=============================================================================
