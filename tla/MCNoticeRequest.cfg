CONSTANTS
    Allow = Allow
    Response <- JustAllow
    Kinds <- SomeKinds
SPECIFICATION FairSpec
INVARIANTS
    NoticeInv
    NoticeLasts
    YesMeansAllow
    NeverEarly
PROPERTIES
    ParentDeathEnds
    HelperEndEndsDialog
