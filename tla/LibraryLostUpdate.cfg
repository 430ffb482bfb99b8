SPECIFICATION Spec
CONSTANTS
    h1 = h1
    h2 = h2
    c1 = c1
    c2 = c2
    Handlers = {h1, h2}
    Clients = {c1, c2}
    Sections <- MCSections
    Texts <- MCTexts
    Render <- MCRender
    WholeText <- MCWholeText
    Metas = {"plain", "typed"}
    Notes = {"n"}
    RestoreNote = "restored"
    Folders = {"work"}
    NoFolder = NoFolder
    CreateBodies <- MCCreateBodies
    UpdateBodies <- EditBodies
    BlindBodies <- NoBodies
    LegacyPrompts <- InStep
    Instants = {0}
    Unset = Unset
    NoRow = NoRow
    MaxPrompts = 1
    MaxRequests = 4
PROPERTY NoLostUpdate
