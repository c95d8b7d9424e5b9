SPECIFICATION NewUser
CONSTANTS
    Type = {morning, evening}
    Hours = 2
    Time <- BothHours
    Zone = {0}
    Editor = {e1}
    LastTick = 2
    MaxEdits = 0
    MaxFails = 0
    morning = morning
    evening = evening
    e1 = e1
PROPERTY PutOffToTomorrow
CHECK_DEADLOCK FALSE
