----------------------------- MODULE PushSerial -----------------------------
(***************************************************************************)
(* What Push's registry promises while its requests come one at a time.    *)
(* A history variable remembers whether two requests were ever under way   *)
(* together; from then on only the properties of PushLifecycle that allow  *)
(* for overlap are claimed.                                                *)
(***************************************************************************)
EXTENDS PushLifecycle

VARIABLE overlapped  \* history: two requests of Push were under way at the same time

\* At most one request is under way.
Alone == \A t, u \in Threads : thread[t] # Free /\ thread[u] # Free => t = u

\* One transaction of Auth sets the status of a subject once (before_flush).
PostedOnce == \A e, f \in Posted : e.at = f.at /\ e.subject = f.subject => e = f

SerialInit == Init /\ overlapped = FALSE

SerialNext == Next /\ overlapped' = (overlapped \/ ~Alone')

SerialSpec == SerialInit /\ [][SerialNext]_<<vars, overlapped>>

\* As long as requests come one at a time, the newest event of a subject decides
\* Push's view of it, in whatever order the events arrive (apply_auth_event).
SerialNewestWins == ~overlapped => NewestWins

\* As long as requests come one at a time, switching off an account or a session
\* reaches every endpoint, none is registered for a dead one, and a token that moves
\* to another account leaves the old one (apply_auth_event, register_device).
SerialRegistrySound == ~overlapped => ActiveEndpointIsLive /\ OneBindingPerToken
=============================================================================
