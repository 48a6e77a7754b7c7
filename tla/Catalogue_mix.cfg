SPECIFICATION MCSpec
CONSTANTS
    top = top
    sub = sub
    ann = ann
    ben = ben
    shoes = shoes
    boots = boots
    hats = hats
    red = red
    blue = blue
    green = green
    k1 = k1
    k2 = k2
    p1 = p1
    p2 = p2
    Requests = {r1, r2, r3}
    Calls <- AllCalls
    CategorySlugs = {shoes, boots, hats}
    OldCategories = {top, sub}
    Sellers = {ann, ben}
    ProductSlugs = {red, blue, green}
    Skus = {k1, k2}
    OldProducts = {p1, p2}
    MaxImages = 3
    MaxFiles = 2
    None = None
SYMMETRY RequestSymmetry
CHECK_DEADLOCK FALSE
INVARIANTS TypeOK OrphansNeedRace HiddenNeedsMove NothingDangles ImagesSoundUnlessDisturbed RowsHaveFiles FilesHaveRows
PROPERTIES OnlyOwnerChanges DisabledUntilAsked
