-------------------------- MODULE ProvisioningRetry --------------------------
(* Account creation when failures end, in whatever state that happens. *)
EXTENDS Provisioning

VARIABLE calm  \* failures have ended

RetryInit == Init /\ calm = FALSE

RetryNext ==
  \/ Progress /\ UNCHANGED calm
  \/ ~ calm /\ Failure /\ UNCHANGED calm
  \/ ~ calm /\ calm' = TRUE /\ UNCHANGED vars

\* A user repeats the request for the username until the account is active.
Retry(u) ==
  /\ accounts[u].status = "provisioning"
  /\ \E r \in Requests : Start(r, u, accounts[u].name)

\* Failures end, and what has been started goes on.
Fairness ==
  /\ WF_calm(calm' = TRUE /\ UNCHANGED vars)
  /\ \A r \in Requests : WF_vars(RequestStep(r)) /\ WF_vars(CallStep(r))
  /\ WF_vars(Execute)
  /\ \A u \in Users : SF_vars(Retry(u))

RetrySpec == RetryInit /\ [][RetryNext]_<<vars, calm>> /\ Fairness

\* An identity that was stored is active in the end, whatever failed before: a
\* retry resumes with the stored material (account.ts 134-184), and every step
\* of the PDS can be repeated (server.ts 128-168).
RetriesActivate ==
  \A u \in Users :
    accounts[u].did # NoDid ~> accounts[u].status = "active"
=============================================================================
