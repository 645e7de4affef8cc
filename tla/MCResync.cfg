CONSTANTS
    Issue = {i1}
    Pull = {p1}
    Nick = {a1}
    NoPull = NoPull
    NoNick = NoNick
    AcceptedCap = 2
    DoneCap = 1
    NeedsHumanCount = 1
    MaxHub = 1
    MaxResyncCmds = 1
    NoFetch = NoFetch
    MachineOf <- MCMachineOf
    LinksOf <- MCLinksOf
SPECIFICATION FairResyncSpec
INVARIANTS ResyncTypeOK
PROPERTIES ResyncKeepsReviewsSingle BootKeepsSeats ResyncConverges
