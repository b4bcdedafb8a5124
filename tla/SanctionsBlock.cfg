SPECIFICATION Spec
CONSTANTS
  Batch = {"b1"}
  Direct = {"d1"}
  Anomalies <- MCAnomalies
  Answers <- MCAnswers
INVARIANT SanctionsAlwaysBlock
