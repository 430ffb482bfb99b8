SPECIFICATION Spec
CONSTANTS
    h1 = h1
    h2 = h2
    c1 = c1
    c2 = c2
    Handlers = {h1}
    Clients = {c1, c2}
    Sections <- MCSections
    Texts <- MCTexts
    Render <- MCRender
    WholeText <- MCWholeText
    Metas = {"plain", "typed"}
    Notes = {"n"}
    RestoreNote = "restored"
    Folders = {"work"}
    NoFolder = NoFolder
    CreateBodies <- MCCreateBodies
    UpdateBodies <- MCUpdateBodies
    BlindBodies <- MCBlindBodies
    LegacyPrompts <- MCLegacyPrompts
    Instants = {0, 2}
    Unset = Unset
    NoRow = NoRow
    MaxPrompts = 2
    MaxRequests = 4
SYMMETRY Symmetry
INVARIANTS StampIdentifiesEdits SectionsMatchText HistoryExact
PROPERTY NoLostUpdate
