CONSTANTS
  Symbols <- MCSymbols
  NL = "NL"
  Secrets <- MCSecrets
  Redacted = "[REDACTED]"
  Omitted = "[omitted]"
  Limit <- MCLimit
  MaxChunk <- MCMaxChunk
  MaxText <- MCMaxText
SPECIFICATION WriterSpec
INVARIANTS NoSecretLogged LogFollowsText BoundedBuffer
