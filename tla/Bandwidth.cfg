SPECIFICATION MeterSpec
CONSTANTS
    DayCap = 3
    MonthCap = 4
    DaysPerMonth = 2
    Meters = {daemon, sync}
    Killable = {daemon, sync}
    Sizes = {2}
    Tolds = {0, 1, 2, 3}
    MaxDate = 2
    MaxBytes = 6
INVARIANTS MeterTypeOK MeterIsSound
