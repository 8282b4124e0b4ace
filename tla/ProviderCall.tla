----------------------------- MODULE ProviderCall -----------------------------
(***************************************************************************)
(* What Engine.executeAttempt and a Provider promise each other about one  *)
(* call of Run (internal/provider/provider.go), however many subprocesses  *)
(* the provider uses and whatever keys, deadline and signals do: the call  *)
(* is answered once, no subprocess is at work any more when it is, and     *)
(* success or a usage limit is reported only after one was.                *)
(*                                                                         *)
(* Attempt implements this in detail; Engine, where the provider is one    *)
(* variable, implements it too.  This is what makes the second a sound     *)
(* abstraction of the first.                                               *)
(***************************************************************************)
VARIABLES
    call,       \* "none", "open", or "answered" and not yet received
    working,    \* TRUE iff a subprocess of the call is not reaped
    worked,     \* TRUE iff one was started
    answer      \* the result, or "none"

callVars == <<call, working, worked, answer>>

Idle == ~working /\ ~worked /\ answer = "none"

Init == call \in {"none", "open"} /\ Idle

Begin ==
    /\ call = "none"
    /\ call' = "open"
    /\ UNCHANGED <<working, worked, answer>>

Work ==
    /\ call = "open" /\ ~working
    /\ working' = TRUE /\ worked' = TRUE
    /\ UNCHANGED <<call, answer>>

Rest ==
    /\ call = "open" /\ working
    /\ working' = FALSE
    /\ UNCHANGED <<call, worked, answer>>

Answer ==
    /\ call = "open"
    /\ call' = "answered" /\ working' = FALSE
    /\ answer' \in IF worked THEN {"ok", "fail", "limited"} ELSE {"fail"}
    /\ UNCHANGED worked

Receive ==
    /\ call = "answered"
    /\ call' = "none" /\ Idle'

Next == Begin \/ Work \/ Rest \/ Answer \/ Receive

Spec == Init /\ [][Next]_callVars
=============================================================================
