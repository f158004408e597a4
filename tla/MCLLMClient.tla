---------------------------- MODULE MCLLMClient ----------------------------
(* An instance of LLMClient for TLC: the prover's provider, which has a      *)
(* legacy alias and a reasoner model, and the critic's, which has neither.   *)
EXTENDS LLMClient, TLC

CONSTANTS PROVER, CRITIC, deepseek, kimi, direct

RoleToProvider == (PROVER :> deepseek) @@ (CRITIC :> kimi)
FallbackChain == <<kimi, deepseek>>

\* The direct phase, a thinking call of the prover, a review.
SomeRequests ==
    {[role |-> PROVER, key |-> direct, thinking |-> FALSE],
     [role |-> PROVER, key |-> NoKey, thinking |-> TRUE],
     [role |-> CRITIC, key |-> NoKey, thinking |-> FALSE]}
=============================================================================
