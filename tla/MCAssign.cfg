\* Two seats of two machines, one issue and its pull request.
CONSTANTS
    Issue = {i1}
    Pull = {p1}
    Nick = {a1, b1}
    Loners = {a1, b1}
    NoPull = NoPull
    NoNick = NoNick
    NoJob = NoJob
    AcceptedCap = 2
    DoneCap = 1
    NeedsHumanCount = 1
    MaxOfferAttempts = 1
    RowBound = 2
    TimeoutBound = 1
    FixPull = {}
    MachineOf <- MCMachineOf
    LinksOf <- MCLinksOf
    AuthorOf <- MCAuthorOf
SPECIFICATION AssignSpec
SYMMETRY Symmetry
CONSTRAINT Bounded
INVARIANTS
    AssignTypeOK
    OneOfferPerJob
PROPERTY
    FreshOffersWait
