SPECIFICATION EnergySpec
CONSTANTS
    Steps = {50, 250}
    MinSession = 601
    ReloadValues = {0, 250, 500}
    MaxDelivered = 2000
INVARIANTS
    RecordsEachSession
