SPECIFICATION FairSpec
CONSTANTS
    Requests = {r1, r2, r3}
    OwnerEmail = owner
    DevEmail = dev
    AdminEmail = admin
    Emails = {owner, dev, admin}
INVARIANTS
    RegistrationTellsTruth
    SubscriptionsPrecedeDemand
    PlanIsLastAudited
    AdminsComeFromTheScript
PROPERTIES
    RequestsEnd
CHECK_DEADLOCK FALSE
