CONSTANTS
 n1 = n1
 Campaigns = {1}
 Phones = {1, 2}
 Nodes = {n1}
 Managed = {n1}
 Requests = {1, 2}
 Renders = {1}
 Files = {{1, 2}}
 AdminStatuses = {"active", "revoked"}
 Reachable <- MCReach
 Contacts0 = {1}
 Suppressible = {2}
 MaxJobs = 1
 MaxAttempts = 2
SPECIFICATION SmsSpec
CHECK_DEADLOCK FALSE
INVARIANT CampaignsAccounted
PROPERTY EveryMessageEnds
