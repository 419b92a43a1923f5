CONSTANTS
 u1 = u1
 u2 = u2
 n1 = n1
 broken = broken
 Campaigns = {1}
 Users = {u1, u2}
 Notices = {n1}
 NoticeUser <- MCNoticeUser
 Audiences = {{u1, u2}}
 Excluded = {}
 MaxAttempts = 2
 BatchSize = 2
 MaxFaults = 1
SPECIFICATION NotifyFairSpec
INVARIANTS RepeatsExplained FinishedIsFinished
PROPERTY EverythingIsSent
