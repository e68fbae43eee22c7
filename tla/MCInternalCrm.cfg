SPECIFICATION Spec
CONSTANTS
  ann = ann
  bob = bob
  NoOne = NoOne
  Owner = {ann}
  Provider = {"jira", "custom"}
  Flaky = FALSE
  MaxOpened = 2
PROPERTIES EveryProviderServed
