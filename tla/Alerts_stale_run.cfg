SPECIFICATION Spec
CONSTANTS
    NBudgets = 1
    Schedulers = {cron}
    Chats = {chat}
    ShortCash = {cron, chat}
    MaxOpen = 2
    MaxChanges = 3
    MaxFailures = 0
CHECK_DEADLOCK FALSE
INVARIANT OneNoticePerBreach
