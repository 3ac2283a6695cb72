CONSTANTS
    NumWorkers = 2
    Clients = {c1, c2}
    Joiners = {c1, c2}
    MaxJobs = 2
    Panicky = {}
SPECIFICATION FairSpec
PROPERTY JoinReturns
