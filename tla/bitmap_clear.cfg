\* Four-bit words, an array of six bits (two blocks), positions inside
\* and past the capacity.
CONSTANTS
    Width = 4
    Sizes = {6}
    Positions = {0, 3, 5, 8}
    Ok = Ok
    Err = Err
SPECIFICATION Spec
PROPERTY RefinesBitSet
