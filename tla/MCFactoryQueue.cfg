\* The store alone, any call by anyone at any time: two daemons
\* whose clocks disagree, one work item, one gate that can be approved twice.
SPECIFICATION QueueSpec
CONSTANTS
  Factories = {f1}
  Daemons = {d1, d2}
  Items = {1}
  Phases = {"plan", "deploy.production"}
  Priorities = {0}
  DedupeKeys = {k1}
  Revisions = {r1}
  Hashes = {h1}
  Times = {0, 1}
  MaxRejections = 0
  None = None
SYMMETRY QueueSymmetry
INVARIANTS
  SingleActiveLease
  GatesDecideOnce
  UnownedWhileQueued
CHECK_DEADLOCK FALSE
