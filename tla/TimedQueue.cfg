SPECIFICATION ClientSpec
CONSTANTS
    Times = {0, 1, 2}
    Payloads = {a, b}
    Nothing = Nothing
    MaxScheduled = 5
PROPERTIES
    ImplementsAgenda
CHECK_DEADLOCK FALSE
