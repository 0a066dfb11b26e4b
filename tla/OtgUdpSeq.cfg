SPECIFICATION Spec
CONSTANTS
  FlowIds <- MCFlowIds
  SeqNums <- MCSeqNumsHigh
  PayloadSizes = {512}
  SenderBig = FALSE
  ReceiverBig = FALSE
  Legacy <- MCNone
  Junk = 255
  MaxRecv = 2
CHECK_DEADLOCK FALSE
INVARIANT ReportsFaithful
