CONSTANTS
    p1 = p1
    p2 = p2
    p3 = p3
    coin = coin
    box = box
    bag = bag
    h1 = h1
    h2 = h2
    Players = {p1, p2}
    Things = {coin}
    Containers = {}
    Houses = {h1, h2}
    Floor = Floor
    Nowhere = Nowhere
    Lost = Lost
    NoPlayer = NoPlayer
    NoItem = NoItem
SPECIFICATION Spec
INVARIANT
    OneHouseEach
