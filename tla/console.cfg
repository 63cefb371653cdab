SPECIFICATION ConsoleSpec
CONSTANTS
    TreeForms = {t1}
    OtherForms = {o1}
    MaxValue = 1
    UploadIds = {u1, u2}
    Picture = Picture
    NoAsset = NoAsset
    MaxBlocks = 2
    MaxPast = 1
    MaxEdits = 3
    MaxLost = 1
CONSTRAINT OneCrossed
INVARIANT GuardCoversUnsaved
PROPERTIES ActsOnTheSavedDraft TypingStays UploadsGiveWay EveryEditIsSettled
CHECK_DEADLOCK FALSE
