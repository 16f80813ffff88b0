\* Tokens that come and go while a slot is chosen.
SPECIFICATION Spec
CONSTANTS
  NoSlot = NoSlot
  SlotIds <- ThreeSlots
  MaxChanges = 3
PROPERTY ChoosesAtomically
