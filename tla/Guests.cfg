CONSTANTS
  Sides = {"mapping", "vcpu"}
  L = 4
  B = 2
  Frames <- MCFrames
  USER_ADDR = 120
  SPC_LOCAL_OBJ = 248
  SPC_LOCAL = 240
  CPU_LOCAL = 224
  FRAME_0 = 900
  FRAME_1 = 901
  Kernel = 902
  VB = 1
  GB = 2
  Cpu = {0, 1}
  Workloads <- MCWorkloads
  VtlbRoot = VtlbRoot
  NoTlb = NoTlb
  NoEvent = NoEvent
  PF = PF
SPECIFICATION MCSpec
INVARIANTS TablesSound RevokedIsUnused VtlbIsATlb GuestSeesIdeal  RecallNotLost OwnFpuState
CHECK_DEADLOCK FALSE
