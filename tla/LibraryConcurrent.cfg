SPECIFICATION Spec
CONSTANTS
    h1 = h1
    h2 = h2
    c1 = c1
    c2 = c2
    Handlers = {h1, h2}
    Clients = {c1}
    Sections <- MCSections
    Texts <- MCTexts
    Render <- MCRender
    WholeText <- MCWholeText
    Metas = {"plain", "typed"}
    Notes = {"n"}
    RestoreNote = "restored"
    Folders = {"work"}
    NoFolder = NoFolder
    CreateBodies <- MCCreateBodies
    UpdateBodies <- MCUpdateBodies
    BlindBodies <- MCBlindBodies
    LegacyPrompts <- MCLegacyPrompts
    Instants = {0}
    Unset = Unset
    NoRow = NoRow
    MaxPrompts = 2
    MaxRequests = 3
SYMMETRY Symmetry
INVARIANTS TypeOK IdsNeverReused VersionNumbersContiguous KnownGoodExists VersionsWereLive
