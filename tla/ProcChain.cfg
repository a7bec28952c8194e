\* A chain that finds no room for the statics of the next module.
SPECIFICATION Spec
INVARIANTS CodeIsLinked
SYMMETRY Alike
CHECK_DEADLOCK FALSE
CONSTANTS
  m1 = m1
  m2 = m2
  d1 = d1
  d2 = d2
  d3 = d3
  Descs = {d1, d2, d3}
  t1 = t1
  t2 = t2
  Slots = {t1, t2}
  Sys = Sys
  Nil = Nil
  Mods = {m1}
  Foot <- Costs
  Budget <- Limits
  MaxPid = 3
  MaxSerial = 3
  History = 0
  HistoryMax = 1
  MaxAncestors = 2
  StopsAt <- Everywhere
  FaultsAt = {"idle"}
  MayAskUnborn = FALSE
  ChainEnds = {FALSE, TRUE}
