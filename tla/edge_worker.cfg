\* A token received late is kept longer than it lives: TokenTTL > TokenLife - Delay - 1.
CONSTANTS
  Url = {"nar", "key"}
  Request = {r1, r2}
  ManifestTTL = 1
  MissTTL = 1
  KeyTTL = 1
  TokenTTL = 1
  TokenLife = 2
  Delay = 1
  First <- Initialised
  MaxChanges <- KeyAndRotation
  Bare <- NoKeyAtFirst
  Faults = {"registry", "token"}
SPECIFICATION Spec
SYMMETRY Swaps
INVARIANT TypeOK
INVARIANT MissesShort
INVARIANT KeysRotate
INVARIANT OnlyFaultsFail
