\* Three keys, two of which may be made by the one before, over six moments.
CONSTANTS
    k1 = k1
    k2 = k2
    k3 = k3
    Key = {k1, k2, k3}
    Terms = {0, 1}
    TokenLife = 2
    MaxTime = 5
SYMMETRY Symmetry
SPECIFICATION Spec
INVARIANTS
    TypeOK
    TokensLapse
    KeysDescend
