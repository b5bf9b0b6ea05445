CONSTANTS
    Tasks = {t1, t2}
    Interval <- AnnualThenMonthly
    InitialPlan = "enterprise"
    MaxChanges = 2
    MaxFaults = 1
SPECIFICATION FairSpec
INVARIANTS
    AnnualOnce
    TermsFollowStripe
PROPERTIES
    AnnualIsHonoured
CHECK_DEADLOCK FALSE
