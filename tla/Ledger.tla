------------------------------- MODULE Ledger -------------------------------
(***************************************************************************)
(* What the checkpoint file promises over all runs of the program, with    *)
(* crashes at any point: a ledger of verdicts on the sorry tasks.  A task  *)
(* is open until it is entered as solved, with a proof that Lean accepts   *)
(* for it, or as an axiom, within the quota.  What has been entered stays. *)
(***************************************************************************)
EXTENDS Integers, FiniteSets

CONSTANTS Tasks, Proofs, NoProof, Accepts, AxiomQuota

VARIABLES verdict, proofOf

ledgerVars == <<verdict, proofOf>>

LedgerInit ==
    /\ verdict = [t \in Tasks |-> "open"]
    /\ proofOf = [t \in Tasks |-> NoProof]

\* Any number of verdicts may be entered at once: a checkpoint holds all of them.
Enter ==
    /\ verdict' \in [Tasks -> {"open", "solved", "axiom"}]
    /\ proofOf' \in [Tasks -> Proofs \cup {NoProof}]
    /\ \A t \in Tasks :
         /\ verdict[t] # "open" => /\ verdict'[t] = verdict[t]
                                   /\ proofOf'[t] = proofOf[t]
         /\ verdict'[t] = "solved" => proofOf'[t] \in Accepts[t]
    /\ Cardinality({t \in Tasks : verdict'[t] = "axiom"}) <= AxiomQuota

LedgerSpec == LedgerInit /\ [][Enter]_ledgerVars
=============================================================================
