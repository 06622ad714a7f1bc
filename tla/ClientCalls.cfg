CONSTANTS
  t1 = t1
  t2 = t2
  o1 = o1
  o2 = o2
  Tasks = {t1, t2}
  Objects = {o1, o2}
  Operations <- MCOperations
  Names = {"a"}
  Refusals = {"OBJECT_NOT_FOUND", "OPERATION_NOT_SUPPORTED"}
  GatewayStatuses = {302, 502}
  Mangled = {"not_json", "undecodable"}
  RedirectTargets = {"endpoint"}
  MaxLength = 1
  MaxLate = 2
SPECIFICATION Spec
SYMMETRY Symmetry
INVARIANTS
  TypeOK
  ReturnedIsAppended
  ErrorBelow500IsRefusal
PROPERTIES
  ImplementsSubmission
CHECK_DEADLOCK FALSE
