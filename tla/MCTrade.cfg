CONSTANTS
    p1 = p1
    p2 = p2
    p3 = p3
    coin = coin
    box = box
    bag = bag
    h1 = h1
    h2 = h2
    Players <- MCPlayers
    Things = {coin, box, bag}
    Containers = {box, bag}
    Houses = {h1}
    Floor = Floor
    Nowhere = Nowhere
    Lost = Lost
    NoPlayer = NoPlayer
    NoItem = NoItem
SPECIFICATION Spec
SYMMETRY MCSymmetry
INVARIANTS
    TypeOK
    PartnersMutual
    OffersListed
    OffersApart
PROPERTY
    OfferIsStable
