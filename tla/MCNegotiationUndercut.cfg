SPECIFICATION Spec
CONSTANTS
  Buyers = {b1, b2}
  ListPrice = 20
  Offers = {10, 14, 16, 17}
  Floors = {12}
  Knobs <- Presets
  MaxMoves = 2
SYMMETRY Symmetry
PROPERTIES
  NoUndercutLive
