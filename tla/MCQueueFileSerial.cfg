\* One seat, one issue and its pull request.
CONSTANTS
    Issue = {i1}
    Pull = {p1}
    Nick = {a1}
    Loners = {}
    NoPull = NoPull
    NoNick = NoNick
    AcceptedCap = 2
    DoneCap = 1
    NeedsHumanCount = 1
    LateBound = 1
    BeginBound = 3
    MachineOf <- MCMachineOf
    LinksOf <- MCLinksOf
    AuthorOf <- MCAuthorOf
SPECIFICATION BoundedSpec
PROPERTY SavesAreSerial
