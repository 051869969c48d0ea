-------------------------- MODULE ApprovalContract --------------------------
(***************************************************************************)
(* What the daemon promises, whoever is asking and however often: one      *)
(* session at a time; in it, every request is put to the human at most     *)
(* once and executed at most once, only with the consent that covers it;   *)
(* a client is told "denied" or "timeout" only of a request that never     *)
(* runs, and "ok" only of one that did.  No threads, no lock, no clock, no *)
(* memory of ids: those are how ApprovalDaemon keeps the promise.          *)
(***************************************************************************)
CONSTANTS
    Requests,   \* requests, each with action and privileged
    Policy,     \* what a session may be configured to, with pkexec and eligible
    Verdict     \* what a prompt may end with; "y" and "a" approve

VARIABLES
    open,      \* a session is in progress
    policy,    \* the configuration of the current or last session
    consent,   \* the human consented to unattended commands in this session
    verdict,   \* the human's verdict on each request, "none" if not asked
    ran,       \* the requests executed in this session
    told       \* the <request, response> pairs clients were given

vars == <<open, policy, consent, verdict, ran, told>>

Unasked == [r \in Requests |-> "none"]

Init ==
    /\ open = FALSE
    /\ policy \in Policy
    /\ consent = FALSE
    /\ verdict = Unasked
    /\ ran = {}
    /\ told = {}

Open ==
    /\ ~ open
    /\ open' = TRUE
    /\ policy' \in Policy
    /\ verdict' = Unasked
    /\ ran' = {}
    /\ told' = {}
    /\ UNCHANGED consent

\* However the session ends, consent ends with it.
Close ==
    /\ open
    /\ open' = FALSE
    /\ consent' = FALSE
    /\ UNCHANGED <<policy, verdict, ran, told>>

Ask(r, v) ==
    /\ open
    /\ r.action = "exec"
    /\ verdict[r] = "none"
    /\ r \notin ran
    /\ verdict' = [verdict EXCEPT ![r] = v]
    /\ UNCHANGED <<open, policy, consent, ran, told>>

\* Only an eligible session, and only about an unprivileged command.
Consent(r) ==
    /\ open
    /\ policy.eligible
    /\ ~ r.privileged
    /\ verdict[r] = "a"
    /\ consent' = TRUE
    /\ UNCHANGED <<open, policy, verdict, ran, told>>

Approved(r) ==
    \/ verdict[r] = "y"
    \/ verdict[r] = "a" /\ ~ r.privileged
    \/ verdict[r] = "none" /\ (IF r.privileged THEN policy.pkexec ELSE consent)

Run(r) ==
    /\ open
    /\ r.action = "exec"
    /\ r \notin ran
    /\ Approved(r)
    /\ ran' = ran \cup {r}
    /\ UNCHANGED <<open, policy, consent, verdict, told>>

Tell(r, o) ==
    /\ open
    /\ o = "ok" /\ r.action = "exec" => r \in ran
    /\ o = "denied" => verdict[r] # "none" /\ ~ Approved(r)
    /\ o = "timeout" => verdict[r] = "silence"
    /\ told' = told \cup {<<r, o>>}
    /\ UNCHANGED <<open, policy, consent, verdict, ran>>

Next ==
    \/ Open \/ Close
    \/ \E r \in Requests :
         \/ \E v \in Verdict : Ask(r, v)
         \/ Consent(r) \/ Run(r)
         \/ \E o \in {"ok", "denied", "timeout"} : Tell(r, o)

Spec == Init /\ [][Next]_vars
=============================================================================
