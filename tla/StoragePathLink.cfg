CONSTANTS
  Targets <- LinkTargets
  Hosts <- LinkHosts
  Link <- DBLink
  Closed <- NoMounts
  Spell <- MCSpell
  Chain <- MCChain
  Mountable <- NoMounts
  Makeable <- NoMounts
  Changes = 0
CHECK_DEADLOCK FALSE
SPECIFICATION Spec
INVARIANT
  OneFilesystem
