SPECIFICATION Spec
CONSTANTS
    Topics <- MCTopics
    Labels <- MCLabels
    Answers <- MCAnswers
    ProposalThreshold = 5500
    Cert1Threshold = 8000
    MaxVersion = 3
CONSTRAINT FewRepetitions
INVARIANTS
    TypeOK
    NothingToReask
    ScoreIsFresh
    QuestionsLastUntilReady
PROPERTIES
    KnowledgeGrows
    NoContradictionOfHistory
