CONSTANT
  MaxWaiting = 2
SPECIFICATION FairSpec
INVARIANTS MainNeverWaits FilesLeadHere ExitLeavesNothing
PROPERTIES TermIsObeyed ReloadIsServed
