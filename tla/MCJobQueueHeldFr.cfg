\* One issue and one pull request that closes it, one seat.
CONSTANTS
    Issue = {i1}
    Pull = {p1}
    Nick = {a1}
    Loners = {a1}
    NoPull = NoPull
    NoNick = NoNick
    AcceptedCap = 2
    DoneCap = 2
    NeedsHumanCount = 1
    FixPull = {}
    MachineOf <- MCMachineOf
    LinksOf <- MCLinksOf
    AuthorOf <- MCAuthorOf
SPECIFICATION Spec
CONSTRAINT OneNamedSeat
PROPERTY OffersKeepHeldFrs
