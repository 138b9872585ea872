SPECIFICATION Spec
CONSTANTS
    r1 = r1
    r2 = r2
    pMixed = pMixed
    pAllow = pAllow
    pJudged = pJudged
    None = None
    Requests = {r1}
    Users = {u1}
    Tokens = {t1}
    Policies = {pJudged}
    Rules <- OneRule
    Prompted <- OnePrompted
    Configs <- Lenient
INVARIANT AssignedPolicyApplied
