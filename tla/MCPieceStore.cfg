\* Two headers, of one height or of two, with two rows of two segments.
SPECIFICATION PieceSpec
CONSTANTS
    Header = {h1, h2}
    MaxNumber = 2
    Rows = 2
    Segments = 2
    MaxY = 1
    MaxHandled = 2
SYMMETRY HeaderSymmetry
INVARIANTS PairsVerifyInOrder PairsComplete PairsFiledOnce
\* The farmer stops at MaxHandled.
CHECK_DEADLOCK FALSE
