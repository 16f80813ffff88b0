\* The plain case of each form.
SPECIFICATION Spec
CONSTANTS
  Nothing = Nothing
  Keys <- PlainKeys
  MaxChanges = 0
INVARIANT AllFormsAccepted
