SPECIFICATION Spec
CONSTANTS
    NBudgets = 1
    Schedulers = {cron}
    Chats = {}
    ShortCash = {}
    MaxOpen = 1
    MaxChanges = 4
    MaxFailures = 0
CHECK_DEADLOCK FALSE
PROPERTY SeenBreachesAreReported
