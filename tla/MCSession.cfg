CONSTANTS
    img1 = img1
    img2 = img2
    ecc1 = ecc1
    pat1 = pat1
    key1 = key1
    key2 = key2
    Images = {img1, img2}
    MobileImages <- MCMobile
    Eccs = {ecc1}
    Patches = {pat1}
    Keys = {key1, key2}
    Layouts = {"Sb", "Bb"}
    LayoutOf <- MCLayoutOf
    TargetLayout = "Sb"
    NoFile = NoFile
    NoKey = NoKey
    NoNand = NoNand
    NoOutput = NoOutput
    Torn = Torn
    Environments <- MCEnvironments
    Batches <- MCBatches
    MaxBatches = 2
SPECIFICATION Spec
CHECK_DEADLOCK FALSE
INVARIANTS TypeOK NothingSkipped ReadyToBuild PatchesSurvive
PROPERTIES OneKeyPerImage ImageWrittenLast BatchEnds
