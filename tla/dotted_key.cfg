CONSTANTS
  Procs = {p1}
  Names = {a, b}
  id = id
  idWork = idWork
  idPub = idPub
  idWorkPub = idWorkPub
  Keys = {id, idWork}
  PubFiles = {idPub, idWorkPub}
  PubPath <- DottedPub
  GenPub <- DottedGen
  Machines <- DottedMachines
  Args <- DottedArgs
  MaxKeys = 2
  None = None
SPECIFICATION Spec
INVARIANT SshKeyFits
