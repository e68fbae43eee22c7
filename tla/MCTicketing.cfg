SPECIFICATION Spec
CONSTANTS
  ann = ann
  bob = bob
  NoOne = NoOne
  Owner = {ann, bob}
  Provider = {"jira", "email"}
  Flaky = TRUE
  MaxOpened = 2
INVARIANTS TicketTypeOK Tracked NotOpenedTwice
PROPERTIES OwnersServed
