SPECIFICATION Spec
CONSTANTS
    Dialogs = {d}
    Activities = {a, b}
    MaxId = 3
    MaxDepth = 2
CHECK_DEADLOCK FALSE
INVARIANTS SubscriptionsAgree ToldViewsExist LoginReachesBoundViews
