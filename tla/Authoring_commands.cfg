\* One command at a time, two of them, on a shared instance.
SPECIFICATION Spec
CONSTANTS
    Missing = Missing  Misshapen = Misshapen
    EmptyText = EmptyText  Prose = Prose
    NotANumber = NotANumber
    QuestDefs <- MCQuestDefs
    ScriptDefs <- MCScriptDefs
    Supplied <- MCSupplied
    Namespaces <- MCNamespaces
    Names <- MCNames
    Attempts = {0, 3, NotANumber}
    MaxRetries = 1
    MaxCommands = 2
CHECK_DEADLOCK FALSE
INVARIANT TypeOK
INVARIANT TranscriptAnswered
INVARIANT OnlySoundOnDisk
INVARIANT ReportOfLastDraft
PROPERTY CommandEnds
PROPERTY CommandSpends
