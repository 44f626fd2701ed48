SPECIFICATION FairSpec
CONSTANTS
  Debounce = 3
  Depth = 3
  MaxAsks = 3
INVARIANTS
  TypeOK
  GreetedFirst
PROPERTIES
  KeepsConsent
  TakeOverIsNoticed
