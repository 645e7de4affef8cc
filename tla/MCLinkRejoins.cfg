CONSTANTS
    Channel = {c1, c2, c3}
    Seed = {c1}
    Denied = {c3}
    MayRefuse = {c2}
    MaxDrops = 1
    MaxKicks = 1
    MaxRetry = 2
SPECIFICATION FairLinkSpec
PROPERTIES RejoinsAll
