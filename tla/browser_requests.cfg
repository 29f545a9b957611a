SPECIFICATION Spec
CONSTANTS
  None = None
  Names = {one, two}
  Kinds = {"permission", "chooser", "download"}
  MaxRequests = 2
  MaxUploads = 3
  MaxTimeouts = 1
  MaxWire = 2
INVARIANTS
  TypeOK
  UploadAnswersItsClick
  QuarantineHoldsIt
PROPERTIES
  ImplementsDecision
