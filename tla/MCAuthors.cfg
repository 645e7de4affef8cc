\* The seat that wrote a pull request, and the pushes to it.
CONSTANTS
    Issue = {i1}
    Pull = {p1}
    Nick = {a1}
    Loners = {a1}
    NoPull = NoPull
    NoNick = NoNick
    NoJob = NoJob
    AcceptedCap = 2
    DoneCap = 1
    NeedsHumanCount = 1
    MaxOfferAttempts = 1
    RowBound = 2
    TimeoutBound = 2
    FixPull = {}
    MachineOf <- MCMachineOf
    LinksOf <- MCLinksOf
    AuthorOf <- MCAuthorOf
SPECIFICATION WroteSpec
CONSTRAINT Bounded
INVARIANT AuthorNeverReviews
