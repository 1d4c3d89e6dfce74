CONSTANTS
    Tabs = {t1}
    Pairs = {1, 2}
    NoPair = 0
    MaxTabCalls = 2
SPECIFICATION BrowserSpec
CHECK_DEADLOCK FALSE
PROPERTIES LogOutClearsCookies
