\* One seat, one issue and its pull request.
CONSTANTS
    Issue = {i1}
    Pull = {p1}
    Nick = {a1}
    Loners = {a1}
    NoPull = NoPull
    NoNick = NoNick
    NoJob = NoJob
    AcceptedCap = 2
    DoneCap = 1
    NeedsHumanCount = 1
    MaxOfferAttempts = 1
    RowBound = 9
    TimeoutBound = 9
    FixPull = {}
    MachineOf <- MCMachineOf
    LinksOf <- MCLinksOf
    AuthorOf <- MCAuthorOf
SPECIFICATION FairAssignSpec
PROPERTY OffersClose
