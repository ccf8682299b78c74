SPECIFICATION Spec
CONSTANTS
    Items = Items
    Techs = Techs
    Balance = Balance
    Extra = Extra
    Required = {Items, Techs}
    Order <- MCOrder
    Fields = {1, 2}
    NoEntry = NoEntry
    Rests = {"plain", "odd"}
    None = None
    NotBuilt = NotBuilt
    Wrong <- MCWrong
    Rough <- MCRough
    Clashes <- MCClashes
    MaxEdits = 0
    MaxCrashes = 0
INVARIANT CurveFollowsBalance
