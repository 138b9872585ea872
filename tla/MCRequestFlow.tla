-------------------------- MODULE MCRequestFlow ---------------------------
(* Instances of RequestFlow for TLC.                                       *)
EXTENDS RequestFlow, TLC

CONSTANTS r1, r2, pMixed, pAllow, pJudged

\* A policy whose rules contradict each other, one whose rule allows, one
\* that leaves everything to the judge.
MCRules ==
    (pMixed :> {"allow", "deny"}) @@ (pAllow :> {"allow"}) @@ (pJudged :> {})
MCPrompted == {pMixed, pJudged}

OneRule == pJudged :> {}
OnePrompted == {pJudged}

Deployment(mode, judge, web3, fallback) ==
    [mode |-> mode, judge |-> judge, web3 |-> web3, fallback |-> fallback]

\* With and without judge and web3 rules, under both modes and fallbacks.
AllConfigs ==
    { Deployment("passthrough", TRUE, FALSE, "deny"),
      Deployment("llm", FALSE, FALSE, "deny"),
      Deployment("llm", TRUE, FALSE, "deny"),
      Deployment("llm", TRUE, TRUE, "deny"),
      Deployment("llm", TRUE, TRUE, "passthrough") }

Symmetry == Permutations(Requests)

Strict == {Deployment("llm", TRUE, FALSE, "deny")}
Lenient == {Deployment("llm", TRUE, TRUE, "passthrough")}
=============================================================================
