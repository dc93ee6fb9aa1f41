\* Twelve pages of the browser, one at a time, each over its bounded histories.
SPECIFICATION MCSpec
INVARIANTS Converges KeepsTyped ReviewedAsSeen FilesAccounted CompletionsShown RemoteOnce ArchiveWhole SchedulesFollow NavAgrees OneVoice
PROPERTIES KeysAsSeen MemoryAsSeen CardTruthful HistoryFaithful
CHECK_DEADLOCK FALSE
