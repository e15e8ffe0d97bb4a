SPECIFICATION Spec
CONSTANTS
  MacFiles <- MCMacFiles
  FingerFiles <- MCFingerFiles
  Junk <- MCJunk
  Packets <- MCPackets
INVARIANT FingerprintFound
