CONSTANTS
  Targets <- MCTargets
  Hosts <- MCHosts
  Link <- NoLink
  Closed <- MCClosed
  Spell <- MCSpell
  Chain <- MCChain
  Mountable <- MCMountable
  Makeable <- MCMakeable
  Changes = 2
CHECK_DEADLOCK FALSE
SPECIFICATION Spec
INVARIANTS
  TypeOK
  MeasuresNearestAncestor
  OneFilesystem
