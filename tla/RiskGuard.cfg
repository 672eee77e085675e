SPECIFICATION FairSpec
CONSTANTS
    Start = 3
    DailyLimit = 1
    TotalLimit = 2
    MaxTrades = 2
    PnL <- Results
    Money = {1, 2, 3}
    MaxOpen = 2

    
PROPERTIES
    
    
    
    HaltRecovers
