--------------------------- MODULE MCAuthOutbox -----------------------------
(* TLC instance of AuthOutbox: one account signed in to one application, so *)
(* that both scopes cover the session.  A behaviour is one of two kinds:    *)
(* one status transaction, whose rows two workers deliver with every        *)
(* failure; or two, so that a subject goes off and on again, whose rows w1  *)
(* delivers, expired leases and repeated posts included, without a failure. *)
EXTENDS AuthOutbox, TLC

CONSTANTS u1, a1, s1, w1

VARIABLE part

MCOwner == s1 :> u1
MCClient == s1 :> a1

Unreliable == part = "one transaction"
Deployed(w) == Unreliable \/ w = w1

Failure ==
    \/ \E w \in Workers : PostRefused(w) \/ Crash(w)
    \/ \E r \in inflight : PushLoses(r)

MCInit == Init /\ part \in {"one transaction", "two transactions"}

MCNext ==
    /\ Next /\ part' = part
    /\ Unreliable => tx' <= 1
    /\ Unreliable \/ ~Failure
    /\ \A w \in Workers : Deployed(w) \/ worker'[w] = Idle

\* WorkerFairness, of the steps that this kind of behaviour has.
MCWorkerFairness(w) ==
    /\ WF_vars(/\ Deployed(w)
               /\ \/ ClaimNext(w) \/ SettleRead(w) \/ SettleFailure(w)
                  \/ Unreliable /\ PostRefused(w))
    /\ SF_vars(Deployed(w) /\ Post(w))
    /\ SF_vars(Deployed(w) /\ PostAccepted(w))
    /\ SF_vars(Deployed(w) /\ worker[w].step = "accepted" /\ SettleRead(w))
    /\ SF_vars(Deployed(w) /\ SettleSuccess(w))

MCFairSpec ==
    /\ MCInit /\ [][MCNext]_<<vars, part>>
    /\ NetworkFairness
    /\ \A w \in Workers : MCWorkerFairness(w)
=============================================================================
