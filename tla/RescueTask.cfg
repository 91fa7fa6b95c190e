SPECIFICATION FairSpec
CONSTANTS
    Sessions = {1, 2}
    Runs = {1, 2}
    TaskIds = {1, 2}
    Quotas = {"red"}
INVARIANTS
    TypeOK
    StartIsAgreed
    ToldIsTrue
PROPERTIES
    AgreementStands
    OneRestart
    ImplementsAgreement
    WaitEnds
