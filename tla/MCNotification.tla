--------------------------- MODULE MCNotification ---------------------------
(* TLC instance of Notification and of ScheduledMail, the two queues that send mail.  They   *)
(* share no state: a behaviour is one of the gateway or one of scheduled mail.  Liveness is  *)
(* checked, so there is no symmetry.                                                         *)
EXTENDS Notification

CONSTANTS
  Mails, Senders, Requests, MaxChanges, MaxStops,
  MaxBusy  \* bound on the changes and stops of scheduled mail together

VARIABLES mail, ready, stale, active, sender, request, handed, again, changes, stops, part

mailSide == <<mail, ready, stale, active, sender, request, handed, again, changes, stops>>
Scheduled == INSTANCE ScheduledMail

MCInit == Init /\ Scheduled!Init /\ part \in {"gateway", "scheduled"}

MCNext ==
  /\ part' = part
  /\ \/ part = "gateway" /\ Next /\ UNCHANGED mailSide
     \/ part = "scheduled" /\ Scheduled!Next /\ changes' + stops' <= MaxBusy /\ UNCHANGED vars

MCSpec == MCInit /\ [][MCNext]_<<vars, mailSide, part>> /\ Fairness /\ Scheduled!Fairness

\* A scheduled message goes out once, plus once for each retry and each claim taken over.
SentOncePerClaim == Scheduled!SentOncePerClaim

\* Every scheduled message that waits ends.
MailEnds == Scheduled!MailEnds
=============================================================================
