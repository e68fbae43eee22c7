----------------------------- MODULE MCPipeline -----------------------------
(***************************************************************************)
(* The composed system on one CVE and one row: a file's row, which later   *)
(* payloads of the file reuse, or the row of a feed or a webhook, which is *)
(* deleted when it brings nothing.                                         *)
(***************************************************************************)
EXTENDS Pipeline

CONSTANTS file, feed, t1, c1
=============================================================================
