\* Two sessions on one tree of five paths.
CONSTANTS
    Sessions = {s1, s2}
    Names = {"a", "tmp"}
    Up = ".."
    NoName = ""
    Paths <- ThePaths
    Tmp <- TheTmp
    Tree <- TheTree
    Epochs <- TheEpochs
    Profile <- TheProfile
    Args <- TheArgs
    Urls <- TheUrls
SYMMETRY Perms
SPECIFICATION Spec
INVARIANTS TypeOK TreeSound MkdirOnce KnownAnsweredLocally
