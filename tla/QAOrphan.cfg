SPECIFICATION Spec
CONSTANTS
    Topics <- MCTopics
    Labels <- MCLabels
    Answers <- MCAnswers
    ProposalThreshold = 5500
    Cert1Threshold = 8000
    MaxVersion = 2
INVARIANT
    OrphanAskedFirst
