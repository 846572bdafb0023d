\* Every variant, two or three candidates, up to three worlds.
SPECIFICATION Spec
CONSTANTS
    Policies <- AllVariants
    MaxWorlds = 3
    TreeSizes = {1, 3}
    IndexSizes = {0, 2}
    Values = {0, 2}
    RevalidationWeight = 1
    Headroom = 0
    Quiet = {1}
INVARIANT WorldsAccounted
INVARIANT EnvelopeFits
INVARIANT SameWorlds
INVARIANT CompleteIsSettled
PROPERTY DroppedBehindLeader
