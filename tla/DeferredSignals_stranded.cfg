SPECIFICATION Spec
CONSTANTS
  alrm = alrm
  usr = usr
  Signals = {alrm, usr}
  SaMask <- AlrmBlocksAll
  Syscalls = {"procmask"}
  MaxSends = 4
  MaxSections = 2
INVARIANT DeferredSettles
