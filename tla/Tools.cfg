SPECIFICATION MCToolSpec
CONSTANTS
  c1 = c1
  c2 = c2
  spell = spell
  torch = torch
  blade = blade
  test = test
  None = None
  Calls = {c1, c2}
  Spells = {spell}
  Torches = {torch}
  Blades = {blade}
  Pools = {test}
  Place <- MCPlace
  Names <- MCNames
  Queries <- MCQueries
  Texts <- MCTexts
  Id <- MCId
  Short <- MCShort
  D20 = {1, 10, 20}
  D10 = {1, 4, 8}
  Bonus = 3
  Dc = 12
  Char = 1
  Skill = 4
  Losses = 1
SYMMETRY MCSymmetry
INVARIANTS LostAsTold RerollsAreOneSided
PROPERTIES ResolvedIsJustified LightAsTold
CHECK_DEADLOCK FALSE
