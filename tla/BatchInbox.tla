----------------------------- MODULE BatchInbox -----------------------------
(***************************************************************************)
(* What one saved `pr batch` run promises whoever sends it a request, with *)
(* no sessions, locks, files or retries: a request waits until it is       *)
(* applied or refused, work goes on under what is settled, and the run is  *)
(* forgotten only when it is over and nothing waits.                       *)
(***************************************************************************)
EXTENDS BatchRun

CONSTANTS InitialRuns, NoRun

VARIABLES
  saved,      \* the run as anybody would read it
  sent,       \* requests made
  waiting, applied, refused,
  told        \* the answer each of them got

inboxVars == <<saved, sent, waiting, applied, refused, told>>

Answers == {"none", "notfound", "queued", "here", "missing", "unreachable"}

InboxInit ==
  /\ saved \in InitialRuns
  /\ sent = {} /\ waiting = {} /\ applied = {} /\ refused = {}
  /\ told = [r \in Requests |-> "none"]

\* A run that is gone or going takes no request.
Submit(r) ==
  /\ r \notin sent /\ sent' = sent \cup {r}
  /\ \/ waiting' = waiting \cup {r} /\ UNCHANGED told
     \/ told' = [told EXCEPT ![r] = "notfound"] /\ UNCHANGED waiting
  /\ UNCHANGED <<saved, applied, refused>>

Proceed ==
  /\ saved # NoRun /\ saved' \in Runs /\ Keeps(saved, saved')
  /\ UNCHANGED <<sent, waiting, applied, refused, told>>

Apply(r) ==
  /\ r \in waiting /\ saved # NoRun /\ Effect(saved, r)
  /\ waiting' = waiting \ {r} /\ applied' = applied \cup {r}
  /\ UNCHANGED <<saved, sent, refused, told>>

Refuse(r) ==
  /\ r \in waiting
  /\ waiting' = waiting \ {r} /\ refused' = refused \cup {r}
  /\ UNCHANGED <<saved, sent, applied, told>>

\* "here" is said of a request that was looked at.
Answer(r, what) ==
  /\ r \in sent /\ told[r] = "none"
  /\ what = "here" => r \notin waiting
  /\ told' = [told EXCEPT ![r] = what]
  /\ UNCHANGED <<saved, sent, waiting, applied, refused>>

Forget ==
  /\ saved # NoRun /\ saved.status \in Finished /\ waiting = {}
  /\ saved' \in {saved, NoRun} /\ refused' \in {refused, {}}
  /\ UNCHANGED <<sent, waiting, applied, told>>

InboxNext ==
  \/ \E r \in Requests :
       Submit(r) \/ Apply(r) \/ Refuse(r) \/ \E what \in Answers \ {"none"} : Answer(r, what)
  \/ Proceed \/ Forget

InboxSpec == InboxInit /\ [][InboxNext]_inboxVars
=============================================================================
