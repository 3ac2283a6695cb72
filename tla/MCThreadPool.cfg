CONSTANTS
    NumWorkers = 2
    Clients = {c1, c2}
    Joiners = {c1}
    MaxJobs = 4
    Panicky = {2, 3}
SPECIFICATION FairSpec
INVARIANT JoinWaitsForJobs
INVARIANT DropRunsEveryJob
INVARIANT DropPropagatesPanic
PROPERTY FinishJobNeverUnderflows
PROPERTY JoinReturns
PROPERTY DropTerminates
