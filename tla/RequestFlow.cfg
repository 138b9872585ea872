SPECIFICATION Spec
CONSTANTS
    r1 = r1
    r2 = r2
    pMixed = pMixed
    pAllow = pAllow
    pJudged = pJudged
    None = None
    Requests = {r1}
    Users = {u1}
    Tokens = {t1}
    Policies = {pMixed, pAllow, pJudged}
    Rules <- MCRules
    Prompted <- MCPrompted
    Configs <- AllConfigs
INVARIANTS FailClosed LoadedPolicyObeyed AuditTruthful
PROPERTIES ImplementsGatekeeper
