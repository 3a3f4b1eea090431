SPECIFICATION Spec
CONSTANTS
  k1 = k1
  k2 = k2
  Keys = {k1, k2}
  NoKey = NoKey
  MAX_PASSWORDS = 2
  Given = {"right", "wrong"}
  Slots = {"slot0", "slot1"}
  DefaultSlot = "slot0"
  Defs = {"device"}
  MaxBinds = 1
  OtherIds = {"NULL", "malformed", "bad_bus"}
  HostFaults = {"alloc", "assemble", "derive", "set_public_key"}
SYMMETRY Symmetry
INVARIANTS
  TypeOK
  ReferencesBalanced
  SafeWhileHeld
  DefinitionsFreedOnce
  FreedKeyOnlyIfNotBuilt
  NoPasswordOnlyIfFull
  PasswordsAreTheirKeys
  WrongPasswordOnlyIfNotDerived
  PublicKeyOfItsSlot
