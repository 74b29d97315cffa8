\* Two requests at a time on one dataset and the demo's, or one request after the
\* other on two datasets and the demo's.
SPECIFICATION Spec
CONSTANTS
    Threads = {t1, t2}
    Universes = {demo, w1}
    ReadOnly = {demo}
    MaxDatasets = 3
    MaxOverlapped = 2
    MaxStamp = 3
    Undefined = {2}
    Modes = {TRUE, FALSE}
INVARIANTS OneActive FactsFollowValues
PROPERTIES UniversesAreApart
SYMMETRY FiguresSymmetry
