\* One issue and two pull requests that close it, one seat.
CONSTANTS
    Issue = {i1}
    Pull = {p1, p2}
    Nick = {a1}
    Loners = {a1}
    NoPull = NoPull
    NoNick = NoNick
    AcceptedCap = 2
    DoneCap = 2
    NeedsHumanCount = 1
    FixPull = {}
    MachineOf <- MCMachineOf
    LinksOf <- MCLinksOf
    AuthorOf <- MCAuthorOf
SPECIFICATION Spec
CONSTRAINT OneNamedSeat
INVARIANT OpenMrbKeepsFrOut
