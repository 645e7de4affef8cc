\* Three seats of two machines, one issue, one pull request.
CONSTANTS
    Issue = {i1}
    Pull = {p1}
    Nick = {a1, a2, b1}
    Loners = {b1}
    NoPull = NoPull
    NoNick = NoNick
    AcceptedCap = 2
    DoneCap = 1
    NeedsHumanCount = 1
    FixPull = {}
    MachineOf <- MCMachineOf
    LinksOf <- MCLinksOf
    AuthorOf <- MCAuthorOf
SPECIFICATION Spec
SYMMETRY Symmetry
CONSTRAINT OneNamedSeat
INVARIANTS
    TypeOK
    OneSeatPerMachine
PROPERTIES
    SeatsKeepJobs
    ImplementsLease
