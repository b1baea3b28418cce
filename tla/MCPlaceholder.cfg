CONSTANTS
  notes = notes
  photo = photo
  Files <- TwoFiles
  NameOf <- OwnNames
  MaxGrants = 2
  MaxMounted = 3
SPECIFICATION Spec
PROPERTIES
  PlaceholdersAreNew
