SPECIFICATION Spec
CONSTANTS
  Escapes <- MCEscapes
  Symbols <- MCSymbols
  Start <- MCStart
  RulePrefixes <- MCRulePrefixes
  MaxLen = 7
INVARIANTS StaysUnderPrefix RefusedForAReason
