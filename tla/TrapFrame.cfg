SPECIFICATION Spec
CONSTANTS
    Tasks = {t1, t2}
    NoTask = NoTask
    MaxImages = 2
INVARIANT FrameMatchesImage
