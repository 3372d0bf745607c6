--------------------------- MODULE MCBatchPromise ---------------------------
(***************************************************************************)
(* The instances of BatchSession, of which BatchInboxImpl maps one to      *)
(* BatchInbox.                                                             *)
(***************************************************************************)
EXTENDS BatchInboxImpl, MCBatchSession
=============================================================================
