\* Every form of keys with awkward bytes, and a token that changes once.
SPECIFICATION Spec
CONSTANTS
  Nothing = Nothing
  Keys <- AwkwardKeys
  MaxChanges = 1
INVARIANTS KeyServed FormsRecognised OtherCurveRefused
