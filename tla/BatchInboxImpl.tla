--------------------------- MODULE BatchInboxImpl ---------------------------
(***************************************************************************)
(* The session protocol of BatchSession implements the promise of          *)
(* BatchInbox.  A request whose file is in requests/ waits, also while a   *)
(* copy of it lies in rejected/: a crash between the copy and the unlink   *)
(* has it looked at again.                                                 *)
(***************************************************************************)
EXTENDS BatchSession

Inbox == INSTANCE BatchInbox WITH
  saved   <- disk,
  sent    <- {s \in Submitters : pc[s] # "start"},
  waiting <- inbox,
  applied <- granted,
  refused <- rejected \ (inbox \cup granted),
  told    <- outcome

(* store.deliver, Session.drain, reap: with crashes, errors and collectors *)
(* anywhere in between, a submitter sees an inbox that loses no request,   *)
(* applies none that state.json does not show, takes nothing back and goes *)
(* away only when it is over and empty.                                    *)
KeepsPromise == Inbox!InboxSpec
=============================================================================
