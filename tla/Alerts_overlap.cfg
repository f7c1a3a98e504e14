SPECIFICATION FairSpec
CONSTANTS
    NBudgets = 1
    Schedulers = {cron}
    Chats = {chat}
    ShortCash = {cron, chat}
    MaxOpen = 2
    MaxChanges = 3
    MaxFailures = 1
CHECK_DEADLOCK FALSE
INVARIANTS TypeOK ReportsAreAccountedFor JobEventsWereSent
PROPERTIES EventsFollowBreaches SettledRunsAgree
