SPECIFICATION Spec
CONSTANTS
  Users = {u1, u2, u3}
  Contract = contract
  NoAddress = none
  MIN_ROTATION_DELAY = 2
  MAX_U64 = 3
  MAX_I128 = 4
  InitialBalance = 2
  MaxHeld = 1
SYMMETRY Symmetry
INVARIANTS Solvent DepositAccounted
PROPERTIES RotationAnnounced ImplementsPromise
CHECK_DEADLOCK FALSE
