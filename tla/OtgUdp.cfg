SPECIFICATION Spec
CONSTANTS
  FlowIds <- MCFlowIds
  SeqNums <- MCSeqNums
  PayloadSizes = {4, 16, 17, 1500}
  SenderBig = FALSE
  ReceiverBig = FALSE
  Legacy <- MCLegacy
  Junk = 255
  MaxRecv = 3
CHECK_DEADLOCK FALSE
INVARIANTS ReportsFaithful BuffersFit
