CONSTANTS
  Configs <- MCConfigs
  Requests <- MCRequests
SPECIFICATION Spec
INVARIANT AnswerForwarded
