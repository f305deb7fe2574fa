SPECIFICATION Spec
CONSTANTS
    Transcripts <- MCTranscripts
    Texts <- MCTexts
    Appendable <- MCAppendable
    Lo = 1
    Hi = 2
    BigWrite = 3
    MaxAppends = 1
INVARIANTS
    DedupIsOrderFree
    TotalsReconcile
    OpeningsAndPeaks
    EveryLineOnce
    EachFileAfresh
PROPERTIES
    AuditEnds
\* The audit ends.
CHECK_DEADLOCK FALSE
