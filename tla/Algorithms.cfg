SPECIFICATION Spec
INVARIANTS ContainersAuthentic ClassesRestore BlobsResolve ResourcesMaterialize RangesHold OneEncoding ClasspathsCollected SignersAuthentic RequestsHold LaunchesAuthorized
CHECK_DEADLOCK FALSE
