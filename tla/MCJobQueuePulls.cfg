\* Two seats of two machines, two pull requests that close the same issue.
CONSTANTS
    Issue = {i1}
    Pull = {p1, p2}
    Nick = {a1, b1}
    Loners = {a1, b1}
    NoPull = NoPull
    NoNick = NoNick
    AcceptedCap = 2
    DoneCap = 1
    NeedsHumanCount = 1
    FixPull = {}
    MachineOf <- MCMachineOf
    LinksOf <- MCLinksOf
    AuthorOf <- MCAuthorOf
SPECIFICATION Spec
SYMMETRY Symmetry
CONSTRAINT OneNamedSeat
INVARIANTS
    OneReviewRow
    HeldIssueHasNoUat
    IgnoredHasNoRow
