\* The bound on forks ends a behaviour.
SPECIFICATION FewStopsSpec
INVARIANTS RefsAreHolds Accounted LinksAreHeld
SYMMETRY Alike
CHECK_DEADLOCK FALSE
CONSTANTS
  m1 = m1
  m2 = m2
  d1 = d1
  d2 = d2
  d3 = d3
  Descs = {d1, d2, d3}
  t1 = t1
  t2 = t2
  Slots = {t1, t2}
  Sys = Sys
  Nil = Nil
  Mods = {m1, m2}
  Foot <- Costs
  Budget <- Limits
  MaxPid = 3
  MaxSerial = 4
  History = 0
  HistoryMax = 1
  MaxAncestors = 2
  StopsAt <- Everywhere
  FaultsAt = {"idle"}
  MayAskUnborn = FALSE
  ChainEnds = {FALSE}
