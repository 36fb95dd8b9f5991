CONSTANTS
  Names <- MCNames
  Lists <- MCLists
  S3Prefixes <- MCS3Prefixes
  Catalogs <- MCCatalogs
  Stamps <- MCStamps
SPECIFICATION Spec
INVARIANTS SelectsWhatIsMeant EveryBackupCanBeNamed
PROPERTIES RetentionIsScoped
