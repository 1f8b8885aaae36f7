\* Four profiles, of which a query takes three and the model explains two.
SPECIFICATION Spec
CONSTANTS
  Profiles = {p1, p2, p3, p4}
  Rows <- MCRows
  Trades = {"tailor", "plumber"}
  Minimums = {10}
  Take = 3
  TopN = 2
  Radii = {500, 800}
  MaxEdits = 1
  Slots = {h1}
  None = None
SYMMETRY Symmetry
INVARIANTS TypeOK BestFirst
