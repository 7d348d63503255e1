SPECIFICATION NodeSpec
CONSTANTS
  w1 = w1
  w2 = w2
  Nobody = Nobody
  Callers <- MCCallers
  Batch <- MCBatch
  Cmds <- MCCmds
  Rejections <- MCRejections
  MaxCmds = 2
  MaxPushed = 1
INVARIANTS ReplyOffset ReportedApplied TwiceOnlyAfterFailure
PROPERTIES CloseReleases
CHECK_DEADLOCK FALSE
