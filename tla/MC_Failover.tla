----------------------------- MODULE MC_Failover -------------------------------
(***************************************************************************)
(* Failover on a small instance: an LLM provider, and the transcriber,     *)
(* whose transitions renew the revision the LLM configuration includes;    *)
(* the leader's tick and one pre-run check of the LLM provider.            *)
(***************************************************************************)
EXTENDS Failover

CONSTANTS llm, whisper, tickLlm, preRun

MCTargets == {llm, whisper}
MCChecks == {tickLlm, preRun}
MCTargetOf == [c \in MCChecks |-> llm]

=============================================================================
