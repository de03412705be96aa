CONSTANTS
  Procs = {p1, p2}
  Names = {a, b}
  id = id
  idWork = idWork
  idPub = idPub
  idWorkPub = idWorkPub
  Keys = {id}
  PubFiles = {idPub}
  PubPath <- PlainPub
  GenPub <- PlainPub
  Machines <- MCMachines
  Args <- MCArgs
  MaxKeys = 2
  None = None
SPECIFICATION FairSpec
INVARIANT IndInv
INVARIANT WaitsEnd
INVARIANT SshKeyFits
INVARIANT SeedLayered
PROPERTY KeyStays
PROPERTY DoctorVouches
PROPERTY Ends
